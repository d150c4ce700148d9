----------------------------- MODULE ChatRequest ----------------------------
(***************************************************************************)
(* The loop of parse_request (src/wire/chat.rs): one message of a Chat     *)
(* Completions request.                                                    *)
(***************************************************************************)
EXTENDS Canonical

VARIABLES system, messages

\* A content that is a list of parts reads as "".
Content(message) ==
    Joined(Among(message.pieces, {p \in ToSet(message.pieces) :
                                      p.kind \in {"text", "output"} /\ p.form = "string"}))

\* The last one counts.
SystemMessage(message) ==
    /\ message.role = "system"
    /\ system' = Content(message)
    /\ UNCHANGED messages

ToolMessage(message) ==
    /\ message.role = "tool"
    /\ messages' = Append(messages, Tool(message.pieces[1].id, Content(message)))
    /\ UNCHANGED system

\* Reasoning that an upstream put under another name is not read back.
ReasoningContent(message) ==
    LET reasoning == Among(message.pieces, {p \in ToSet(message.pieces) :
                               p.kind = "reasoning" /\ p.form = "reasoning_content"})
    IN  IF reasoning = <<>> THEN None ELSE Joined(reasoning)

AssistantMessage(message) ==
    /\ message.role = "assistant"
    /\ messages' = Append(messages,
            Assistant(IF Content(message) = <<>> THEN None ELSE Content(message),
                      ReasoningContent(message), ToolCalls(message.pieces)))
    /\ UNCHANGED system

UserMessage(message) ==
    /\ message.role = "user"
    /\ messages' = Append(messages, User(Content(message)))
    /\ UNCHANGED system

ParseMessage(message) ==
    \/ SystemMessage(message) \/ ToolMessage(message)
    \/ AssistantMessage(message) \/ UserMessage(message)
=============================================================================
