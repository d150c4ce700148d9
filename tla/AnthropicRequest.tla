-------------------------- MODULE AnthropicRequest --------------------------
(***************************************************************************)
(* parse_message (src/wire/anthropic.rs): one message of an Anthropic      *)
(* request, a list of content blocks.                                      *)
(***************************************************************************)
EXTENDS Canonical

VARIABLES messages

ToolResults(blocks) ==
    LET results == OfKind(blocks, "output")
    IN  [i \in 1..Len(results) |-> Tool(results[i].id, results[i].text)]

\* Only a content string is a user message although it is empty.
IsString(blocks) == Len(blocks) = 1 /\ blocks[1].kind = "text" /\ blocks[1].form = "string"

UserText(blocks) ==
    IF TextOf(blocks) # <<>> \/ IsString(blocks) THEN <<User(TextOf(blocks))>> ELSE <<>>

\* Mutant of UserMessage: text replaces the tool results beside it.
UserMessageEither(message) ==
    /\ message.role = "user"
    /\ messages' = messages \o (IF UserText(message.pieces) # <<>> THEN UserText(message.pieces)
                                ELSE ToolResults(message.pieces))

\* The results first: each closes a call of the turn before.
UserMessage(message) ==
    /\ message.role = "user"
    /\ messages' = messages \o ToolResults(message.pieces) \o UserText(message.pieces)

\* The last block that holds any.
Thinking(blocks) ==
    LET thoughts == Among(blocks, {p \in ToSet(blocks) : p.kind = "reasoning" /\ p.text # <<>>})
    IN  IF thoughts = <<>> THEN None ELSE Last(thoughts).text

\* Upstreams take no message with neither text nor calls: a turn that only
\* reasoned says "".
AssistantText(blocks) ==
    IF OfKind(blocks, "text") # <<>> THEN TextOf(blocks)
    ELSE IF OfKind(blocks, "call") = <<>> /\ Thinking(blocks) # None THEN <<>>
    ELSE None

AssistantMessage(message) ==
    /\ message.role = "assistant"
    /\ messages' = Append(messages, Assistant(AssistantText(message.pieces),
                                              Thinking(message.pieces),
                                              ToolCalls(message.pieces)))

OtherRole(message) ==
    /\ message.role \notin {"user", "assistant"}
    /\ UNCHANGED messages

ParseMessage(message) ==
    UserMessage(message) \/ AssistantMessage(message) \/ OtherRole(message)
=============================================================================
