----------------------------- MODULE Completion -----------------------------
(***************************************************************************)
(* What the client of each dialect gets for a whole answer, and so has in  *)
(* its history from then on: completion_to_events (src/wire/chat.rs), then *)
(* the final object of the dialect's emitter.  Streamed answers are in     *)
(* StreamPump.                                                             *)
(***************************************************************************)
EXTENDS Canonical

\* Where an upstream leaves its reasoning: under either name, or under the
\* second with a null under the first, which the bridge then takes for none.
ReasoningKey == {"reasoning_content", "reasoning", "hidden"}

When(condition, pieces) == IF condition THEN pieces ELSE <<>>

ReasoningOf(answer) == IF answer.key = "hidden" THEN <<>> ELSE answer.reasoning

CallPieces(answer) ==
    [i \in 1..Len(answer.calls) |->
        Piece("call", answer.calls[i].id, answer.calls[i].body, answer.calls[i].form)]

\* Mutant of Deltas: the reasoning is reported when the answer is complete.
DeltasReasoningLast(answer) ==
    When(answer.text # <<>>, <<Piece("text", None, answer.text, "parts")>>)
      \o CallPieces(answer)
      \o When(ReasoningOf(answer) # <<>>,
              <<Piece("reasoning", None, ReasoningOf(answer), "summary")>>)

\* The deltas of the canonical events, in their order.
Deltas(answer) ==
    When(ReasoningOf(answer) # <<>>, <<Piece("reasoning", None, ReasoningOf(answer), "summary")>>)
      \o When(answer.text # <<>>, <<Piece("text", None, answer.text, "parts")>>)
      \o CallPieces(answer)

\* Arguments that are no JSON become {}.
AsInput(piece) ==
    IF piece.kind = "call" /\ piece.form # "json" THEN Piece("call", piece.id, <<>>, "json")
    ELSE piece

\* final_items, one history message each.
FinalItems(answer) ==
    [i \in 1..Len(Deltas(answer)) |-> [role |-> "assistant", pieces |-> <<Deltas(answer)[i]>>]]

\* final_blocks, in one message.
FinalMessage(answer) ==
    <<[role |-> "assistant",
       pieces |-> [i \in 1..Len(Deltas(answer)) |-> AsInput(Deltas(answer)[i])]]>>

\* The upstream's message itself.
Passthrough(answer) ==
    LET name == IF answer.key = "reasoning_content" THEN answer.key ELSE "reasoning"
    IN  <<[role |-> "assistant",
           pieces |-> When(answer.reasoning # <<>>, <<Piece("reasoning", None, answer.reasoning, name)>>)
                        \o When(answer.text # <<>>, <<Piece("text", None, answer.text, "string")>>)
                        \o CallPieces(answer)]>>
=============================================================================
