-------------------------- MODULE ResponsesRequest --------------------------
(***************************************************************************)
(* parse_input_item (src/wire/responses.rs): one item of a Responses       *)
(* request.  Items are flat: reasoning precedes the turn that it belongs   *)
(* to, and the calls of a turn follow its message.                         *)
(***************************************************************************)
EXTENDS Canonical

VARIABLES
    system, messages,
    pending_reasoning  \* reasoning that waits for its turn's first item, or None

Item(item, kind) == item.pieces[1].kind = kind

Said(item, role) == Item(item, "text") /\ item.role = role

SystemMessage(item) ==
    /\ Said(item, "system")
    /\ system' = (IF system = None THEN <<>> ELSE system) \o TextOf(item.pieces)
    /\ UNCHANGED <<messages, pending_reasoning>>

\* It owns the reasoning that preceded it.
AssistantMessage(item) ==
    /\ Said(item, "assistant")
    /\ messages' = Append(messages, Assistant(TextOf(item.pieces), pending_reasoning, <<>>))
    /\ pending_reasoning' = None
    /\ UNCHANGED system

UserMessage(item) ==
    /\ Said(item, "user")
    /\ pending_reasoning' = None
    /\ messages' = Append(messages, User(TextOf(item.pieces)))
    /\ UNCHANGED system

InAssistantTurn == messages # <<>> /\ Last(messages).role = "assistant"

\* Mutant of FunctionCall: every call opens a turn of its own.
FunctionCallApart(item) ==
    /\ Item(item, "call")
    /\ messages' = Append(messages, Assistant(None, pending_reasoning, ToolCalls(item.pieces)))
    /\ pending_reasoning' = None
    /\ UNCHANGED system

\* A call joins the turn that is open, with the reasoning if that has none.
FunctionCall(item) ==
    /\ Item(item, "call")
    /\ IF InAssistantTurn
       THEN LET turn == Last(messages)
                adopts == turn.reasoning = None
            IN  /\ messages' = [messages EXCEPT ![Len(messages)] =
                        Assistant(turn.text, IF adopts THEN pending_reasoning ELSE turn.reasoning,
                                  turn.calls \o ToolCalls(item.pieces))]
                /\ pending_reasoning' = IF adopts THEN None ELSE pending_reasoning
       ELSE /\ messages' = Append(messages,
                        Assistant(None, pending_reasoning, ToolCalls(item.pieces)))
            /\ pending_reasoning' = None
    /\ UNCHANGED system

\* Mutant of FunctionCallOutput: reasoning survives the end of its turn.
FunctionCallOutputKeeps(item) ==
    /\ Item(item, "output")
    /\ messages' = Append(messages, Tool(item.pieces[1].id, item.pieces[1].text))
    /\ UNCHANGED <<system, pending_reasoning>>

\* The result ends the turn; a missing call is left to ToolParents.
FunctionCallOutput(item) ==
    /\ Item(item, "output")
    /\ pending_reasoning' = None
    /\ messages' = Append(messages, Tool(item.pieces[1].id, item.pieces[1].text))
    /\ UNCHANGED system

Reasoning(item) ==
    /\ Item(item, "reasoning")
    /\ pending_reasoning' = IF item.pieces[1].text # <<>> THEN item.pieces[1].text
                            ELSE pending_reasoning
    /\ UNCHANGED <<system, messages>>

\* A type the bridge does not know, in the middle of a turn or between two.
OtherItem(item) == Item(item, "other") /\ UNCHANGED <<system, messages, pending_reasoning>>

ParseInputItem(item) ==
    \/ SystemMessage(item) \/ AssistantMessage(item) \/ UserMessage(item)
    \/ FunctionCall(item) \/ FunctionCallOutput(item)
    \/ Reasoning(item) \/ OtherItem(item)
=============================================================================
