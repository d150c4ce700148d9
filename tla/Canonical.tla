----------------------------- MODULE Canonical ------------------------------
(***************************************************************************)
(* The provider-neutral request (src/canonical.rs), and the messages of a  *)
(* client's history, whatever its dialect.                                 *)
(*                                                                         *)
(* A text is the sequence of the fragments it is made of, <<>> if it is    *)
(* empty; every fragment ever uttered is another number.  A message of a   *)
(* history is a list of pieces: the content parts of a Chat or Anthropic   *)
(* message, the single one of a Responses item.                            *)
(***************************************************************************)
EXTENDS Naturals, Sequences, SequencesExt, Selecting

CONSTANTS
    CallId,  \* the ids of tool calls
    NoId,    \* the empty one, also read where the field is missing
    None

User(text) ==
    [role |-> "user", text |-> text, reasoning |-> None, calls |-> <<>>, id |-> None]

Assistant(text, reasoning, calls) ==
    [role |-> "assistant", text |-> text, reasoning |-> reasoning, calls |-> calls, id |-> None]

Tool(id, output) ==
    [role |-> "tool", text |-> output, reasoning |-> None, calls |-> <<>>, id |-> id]

\* Name and arguments are one.
ToolCall(id, body) == [id |-> id, body |-> body]

\* form tells apart where, or how, a piece is held: a content string from a
\* list of parts, reasoning_content from reasoning, JSON from what is none.
Piece(kind, id, text, form) == [kind |-> kind, id |-> id, text |-> text, form |-> form]

PieceKind == {"text", "reasoning", "call", "output", "other"}
Form == {"string", "parts", "summary", "reasoning_content", "reasoning", "json", "broken"}

HistoryPiece ==
    [kind : PieceKind, id : CallId \cup {None}, text : Seq(Nat), form : Form]

HistoryMessage ==
    [role : {"user", "assistant", "tool", "system"}, pieces : Seq(HistoryPiece)]

CanonicalCall == [id : CallId, body : Seq(Nat)]

CanonicalMessage ==
    {m \in [role : {"user", "assistant", "tool"},
            text : Seq(Nat) \cup {None}, reasoning : Seq(Nat) \cup {None},
            calls : Seq(CanonicalCall), id : CallId \cup {None}] :
        m.role = "tool" => m.id \in CallId}

OfKind(pieces, kind) == Among(pieces, {p \in ToSet(pieces) : p.kind = kind})

Joined(pieces) == FlattenSeq([i \in 1..Len(pieces) |-> pieces[i].text])

TextOf(pieces) == Joined(OfKind(pieces, "text"))

ToolCalls(pieces) ==
    LET calls == OfKind(pieces, "call")
    IN  [i \in 1..Len(calls) |-> ToolCall(calls[i].id, calls[i].text)]
=============================================================================
