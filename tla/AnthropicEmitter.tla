-------------------------- MODULE AnthropicEmitter --------------------------
(***************************************************************************)
(* AnthropicEmitter::on_event (src/wire/anthropic.rs): canonical events to *)
(* Anthropic Messages frames.  One event may need several frames; Prepare  *)
(* is the next frame that must precede the event's own, Deliver is the     *)
(* event's own frame, if it has one, and ends the event.                   *)
(*                                                                         *)
(* Texts are the number of fragments they are made of, usage is the two    *)
(* counts of the last Usage event: what anthropic_usage splits off the     *)
(* prompt for the cache is left out.                                       *)
(***************************************************************************)
EXTENDS ClientView, FiniteSets, FiniteSetsExt

CONSTANTS ToolIndex, None

VARIABLES
    started,
    next_index,
    thinking_index, thinking_text,
    text_index, text_text,
    tools,         \* upstream index -> index of its open block, or None
    tool_args,     \* upstream index -> its arguments
    any_tool,
    usage,
    final_blocks

emitter == <<started, next_index, thinking_index, thinking_text, text_index, text_text,
             tools, tool_args, any_tool, usage, final_blocks>>

Final(i, kind, text) == [index |-> i, kind |-> kind, text |-> text]

OpenTools == {k \in ToolIndex : tools[k] # None}

\* start precedes everything that opens a block; the end does without it.
Start(ev) ==
    /\ ev.type \in {"Created", "ReasoningDelta", "TextDelta", "ToolCallStart"}
    /\ ~started
    /\ started' = TRUE
    /\ HearPhase("within")
    /\ UNCHANGED <<next_index, thinking_index, thinking_text, text_index, text_text, tools,
                   tool_args, any_tool, usage, final_blocks>>

Begun(ev) == started \/ ev.type = "Completed"

CloseThinking(ev) ==
    /\ ev.type \in {"TextDelta", "ToolCallStart", "Completed"} /\ Begun(ev)
    /\ thinking_index # None
    /\ thinking_index' = None
    /\ final_blocks' = Append(final_blocks, Final(thinking_index, "reasoning", thinking_text))
    /\ HearClose(thinking_index)
    /\ UNCHANGED <<started, next_index, thinking_text, text_index, text_text, tools, tool_args,
                   any_tool, usage>>

CloseText(ev) ==
    /\ ev.type \in {"ToolCallStart", "Completed"} /\ Begun(ev)
    /\ thinking_index = None
    /\ text_index # None
    /\ text_index' = None
    /\ final_blocks' = Append(final_blocks, Final(text_index, "text", text_text))
    /\ HearClose(text_index)
    /\ UNCHANGED <<started, next_index, thinking_index, thinking_text, text_text, tools,
                   tool_args, any_tool, usage>>

EnsureThinkingOpen(ev) ==
    /\ ev.type = "ReasoningDelta" /\ started
    /\ thinking_index = None
    /\ thinking_index' = next_index
    /\ next_index' = next_index + 1
    /\ HearOpen(next_index, "reasoning")
    /\ UNCHANGED <<started, thinking_text, text_index, text_text, tools, tool_args, any_tool,
                   usage, final_blocks>>

EnsureTextOpen(ev) ==
    /\ ev.type = "TextDelta" /\ started
    /\ thinking_index = None
    /\ text_index = None
    /\ text_index' = next_index
    /\ next_index' = next_index + 1
    /\ HearOpen(next_index, "text")
    /\ UNCHANGED <<started, thinking_index, thinking_text, text_text, tools, tool_args,
                   any_tool, usage, final_blocks>>

FinishTool(k) ==
    /\ tools' = [tools EXCEPT ![k] = None]
    /\ final_blocks' = Append(final_blocks, Final(tools[k], "tool", tool_args[k]))
    /\ HearClose(tools[k])
    /\ UNCHANGED <<started, next_index, thinking_index, thinking_text, text_index, text_text,
                   tool_args, any_tool, usage>>

\* In the order of the upstream's indices.
CloseOpenTools(ev) ==
    /\ ev.type = "Completed"
    /\ thinking_index = None /\ text_index = None
    /\ OpenTools # {}
    /\ FinishTool(Min(OpenTools))

\* message_delta goes before message_stop.
Summarize(ev) ==
    /\ ev.type = "Completed"
    /\ thinking_index = None /\ text_index = None /\ OpenTools = {}
    /\ phase # "summed"
    /\ HearPhase("summed")
    /\ UNCHANGED emitter

Prepare(ev) ==
    \/ Start(ev)
    \/ CloseThinking(ev) \/ CloseText(ev)
    \/ EnsureThinkingOpen(ev) \/ EnsureTextOpen(ev)
    \/ CloseOpenTools(ev) \/ Summarize(ev)

-----------------------------------------------------------------------------
Created(ev) ==
    /\ ev.type = "Created" /\ started
    /\ UNCHANGED <<emitter, view>>

ReasoningDelta(ev) ==
    /\ ev.type = "ReasoningDelta" /\ started
    /\ thinking_index # None
    /\ thinking_text' = thinking_text + 1
    /\ HearPart(thinking_index, "reasoning")
    /\ UNCHANGED <<started, next_index, thinking_index, text_index, text_text, tools, tool_args,
                   any_tool, usage, final_blocks>>

TextDelta(ev) ==
    /\ ev.type = "TextDelta" /\ started
    /\ thinking_index = None /\ text_index # None
    /\ text_text' = text_text + 1
    /\ HearPart(text_index, "text")
    /\ UNCHANGED <<started, next_index, thinking_index, thinking_text, text_index, tools,
                   tool_args, any_tool, usage, final_blocks>>

ToolCallStart(ev) ==
    /\ ev.type = "ToolCallStart" /\ started
    /\ thinking_index = None /\ text_index = None
    /\ tools' = [tools EXCEPT ![ev.index] = next_index]
    /\ tool_args' = [tool_args EXCEPT ![ev.index] = 0]
    /\ next_index' = next_index + 1
    /\ any_tool' = TRUE
    /\ HearOpen(next_index, "tool")
    /\ UNCHANGED <<started, thinking_index, thinking_text, text_index, text_text, usage,
                   final_blocks>>

\* Fragments of a call that is done, or was never started, are dropped.
ToolCallArgsDelta(ev) ==
    /\ ev.type = "ToolCallArgsDelta"
    /\ IF tools[ev.index] # None
       THEN tool_args' = [tool_args EXCEPT ![ev.index] = @ + 1] /\ HearPart(tools[ev.index], "tool")
       ELSE UNCHANGED <<tool_args, view>>
    /\ UNCHANGED <<started, next_index, thinking_index, thinking_text, text_index, text_text,
                   tools, any_tool, usage, final_blocks>>

ToolCallDone(ev) ==
    /\ ev.type = "ToolCallDone"
    /\ IF tools[ev.index] # None THEN FinishTool(ev.index) ELSE UNCHANGED <<emitter, view>>

Usage(ev) ==
    /\ ev.type = "Usage"
    /\ usage' = ev.usage
    /\ UNCHANGED <<started, next_index, thinking_index, thinking_text, text_index, text_text,
                   tools, tool_args, any_tool, final_blocks, view>>

Completed(ev) ==
    /\ ev.type = "Completed"
    /\ phase = "summed"
    /\ HearPhase("ended")
    /\ UNCHANGED emitter

Error(ev) ==
    /\ ev.type = "Error"
    /\ HearPhase("failed")
    /\ UNCHANGED emitter

Deliver(ev) ==
    \/ Created(ev) \/ ReasoningDelta(ev) \/ TextDelta(ev)
    \/ ToolCallStart(ev) \/ ToolCallArgsDelta(ev) \/ ToolCallDone(ev)
    \/ Usage(ev) \/ Completed(ev) \/ Error(ev)
=============================================================================
