----------------------------- MODULE ToolParents ----------------------------
(***************************************************************************)
(* normalize_tool_parents (src/wire/chat.rs): before a request goes out,   *)
(* every tool result gets a preceding assistant message that calls it.     *)
(* Without a tool result the loop copies, as the code's fast path does.    *)
(***************************************************************************)
EXTENDS Canonical

VARIABLES
    out,       \* the messages that go out
    announced  \* the ids that their calls have claimed, but for the empty one

CalledBy(message) == {message.calls[i].id : i \in 1..Len(message.calls)}

\* The call it stands for is not known: a dummy, in a turn without reasoning.
Parent(id) == Assistant(None, <<>>, <<ToolCall(id, <<>>)>>)

\* Mutant of Begin: the ids of the request before are still claimed.
BeginAgain == out' = <<>> /\ UNCHANGED announced

Begin == out' = <<>> /\ announced' = {}

KeepAssistant(message) ==
    /\ message.role = "assistant"
    /\ out' = Append(out, message)
    /\ announced' = announced \cup (CalledBy(message) \ {NoId})

\* Mutant of PlaceTool: a result without an id needs no call.
PlaceToolUnnamed(message) ==
    /\ message.role = "tool"
    /\ IF message.id \in announced \cup {NoId}
       THEN out' = Append(out, message) /\ UNCHANGED announced
       ELSE /\ out' = out \o <<Parent(message.id), message>>
            /\ announced' = announced \cup {message.id}

PlaceTool(message) ==
    /\ message.role = "tool"
    /\ IF message.id \in announced \ {NoId}
       THEN out' = Append(out, message) /\ UNCHANGED announced
       ELSE /\ out' = out \o <<Parent(message.id), message>>
            /\ announced' = announced \cup ({message.id} \ {NoId})

KeepUser(message) ==
    /\ message.role = "user"
    /\ out' = Append(out, message)
    /\ UNCHANGED announced

Normalize(message) == KeepAssistant(message) \/ PlaceTool(message) \/ KeepUser(message)
=============================================================================
