----------------------------- MODULE ClientView -----------------------------
(***************************************************************************)
(* What a client makes of the frames of one streamed answer, in either     *)
(* dialect (src/wire/anthropic.rs, src/wire/responses.rs): which content   *)
(* blocks (Anthropic) or output items (Responses) there are, which are     *)
(* open, and how many fragments each has received.  It believes every      *)
(* frame; whether a frame was due is for ClientStream to say.              *)
(*                                                                         *)
(* The frames that open a block (item added, content part added) or close  *)
(* it (signature, text done, part done, stop) leave together and are one   *)
(* frame here.                                                             *)
(***************************************************************************)
EXTENDS Naturals, Sequences

BlockKind == {"reasoning", "text", "tool"}

VARIABLES
    phase,   \* "before", "within", "summed", "ended", "failed"
    kinds,   \* the kinds of the blocks, by block index + 1
    parts,   \* the fragments received, by block index + 1
    open,    \* the open blocks: [index, kind]
    heard    \* the number of frames received

view == <<phase, kinds, parts, open, heard>>

NothingHeard ==
    phase = "before" /\ kinds = <<>> /\ parts = <<>> /\ open = {} /\ heard = 0

Block(i, kind) == [index |-> i, kind |-> kind]

\* message_start, response.created, message_delta, message_stop,
\* response.completed, error, response.failed.
HearPhase(p) ==
    /\ phase' = p
    /\ heard' = heard + 1
    /\ UNCHANGED <<kinds, parts, open>>

\* content_block_start, response.output_item.added.
HearOpen(i, kind) ==
    /\ open' = open \cup {Block(i, kind)}
    /\ kinds' = Append(kinds, kind)
    /\ parts' = Append(parts, 0)
    /\ heard' = heard + 1
    /\ UNCHANGED phase

\* content_block_delta and the three kinds of response.*.delta.
HearPart(i, kind) ==
    /\ parts' = [parts EXCEPT ![i + 1] = @ + 1]
    /\ heard' = heard + 1
    /\ UNCHANGED <<phase, kinds, open>>

\* content_block_stop, response.output_item.done.
HearClose(i) ==
    /\ open' = {b \in open : b.index # i}
    /\ heard' = heard + 1
    /\ UNCHANGED <<phase, kinds, parts>>
=============================================================================
