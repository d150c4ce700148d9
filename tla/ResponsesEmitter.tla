-------------------------- MODULE ResponsesEmitter --------------------------
(***************************************************************************)
(* ResponsesEmitter::on_event (src/wire/responses.rs): canonical events to *)
(* OpenAI Responses frames, laid out like AnthropicEmitter: Prepare is the *)
(* next frame that must precede the event's own, Deliver ends the event.   *)
(*                                                                         *)
(* sequence_number is the view's count of frames; the ids of items are     *)
(* their indices; texts are the number of fragments they are made of.      *)
(***************************************************************************)
EXTENDS ClientView, FiniteSets, FiniteSetsExt

CONSTANTS ToolIndex, None

VARIABLES
    next_output_index,
    reasoning_item, reasoning_text,
    message_item, message_text,
    tools,         \* upstream index -> output index of its open item, or None
    tool_args,     \* upstream index -> its arguments
    usage,
    final_items

emitter == <<next_output_index, reasoning_item, reasoning_text, message_item, message_text,
             tools, tool_args, usage, final_items>>

Final(i, kind, text) == [index |-> i, kind |-> kind, text |-> text]

OpenTools == {k \in ToolIndex : tools[k] # None}

CloseReasoning(ev) ==
    /\ ev.type \in {"TextDelta", "ToolCallStart", "Completed"}
    /\ reasoning_item # None
    /\ reasoning_item' = None
    /\ final_items' = Append(final_items, Final(reasoning_item, "reasoning", reasoning_text))
    /\ HearClose(reasoning_item)
    /\ UNCHANGED <<next_output_index, reasoning_text, message_item, message_text, tools,
                   tool_args, usage>>

CloseMessage(ev) ==
    /\ ev.type \in {"ToolCallStart", "Completed"}
    /\ reasoning_item = None
    /\ message_item # None
    /\ message_item' = None
    /\ final_items' = Append(final_items, Final(message_item, "text", message_text))
    /\ HearClose(message_item)
    /\ UNCHANGED <<next_output_index, reasoning_item, reasoning_text, message_text, tools,
                   tool_args, usage>>

EnsureReasoningOpen(ev) ==
    /\ ev.type = "ReasoningDelta"
    /\ reasoning_item = None
    /\ reasoning_item' = next_output_index
    /\ next_output_index' = next_output_index + 1
    /\ HearOpen(next_output_index, "reasoning")
    /\ UNCHANGED <<reasoning_text, message_item, message_text, tools, tool_args, usage,
                   final_items>>

EnsureMessageOpen(ev) ==
    /\ ev.type = "TextDelta"
    /\ reasoning_item = None
    /\ message_item = None
    /\ message_item' = next_output_index
    /\ next_output_index' = next_output_index + 1
    /\ HearOpen(next_output_index, "text")
    /\ UNCHANGED <<reasoning_item, reasoning_text, message_text, tools, tool_args, usage,
                   final_items>>

FinishTool(k) ==
    /\ tools' = [tools EXCEPT ![k] = None]
    /\ final_items' = Append(final_items, Final(tools[k], "tool", tool_args[k]))
    /\ HearClose(tools[k])
    /\ UNCHANGED <<next_output_index, reasoning_item, reasoning_text, message_item,
                   message_text, tool_args, usage>>

CloseOpenTools(ev) ==
    /\ ev.type = "Completed"
    /\ reasoning_item = None /\ message_item = None
    /\ OpenTools # {}
    /\ FinishTool(Min(OpenTools))

Prepare(ev) ==
    \/ CloseReasoning(ev) \/ CloseMessage(ev)
    \/ EnsureReasoningOpen(ev) \/ EnsureMessageOpen(ev)
    \/ CloseOpenTools(ev)

-----------------------------------------------------------------------------
Created(ev) ==
    /\ ev.type = "Created"
    /\ HearPhase("within")
    /\ UNCHANGED emitter

ReasoningDelta(ev) ==
    /\ ev.type = "ReasoningDelta"
    /\ reasoning_item # None
    /\ reasoning_text' = reasoning_text + 1
    /\ HearPart(reasoning_item, "reasoning")
    /\ UNCHANGED <<next_output_index, reasoning_item, message_item, message_text, tools,
                   tool_args, usage, final_items>>

TextDelta(ev) ==
    /\ ev.type = "TextDelta"
    /\ reasoning_item = None /\ message_item # None
    /\ message_text' = message_text + 1
    /\ HearPart(message_item, "text")
    /\ UNCHANGED <<next_output_index, reasoning_item, reasoning_text, message_item, tools,
                   tool_args, usage, final_items>>

ToolCallStart(ev) ==
    /\ ev.type = "ToolCallStart"
    /\ reasoning_item = None /\ message_item = None
    /\ tools' = [tools EXCEPT ![ev.index] = next_output_index]
    /\ tool_args' = [tool_args EXCEPT ![ev.index] = 0]
    /\ next_output_index' = next_output_index + 1
    /\ HearOpen(next_output_index, "tool")
    /\ UNCHANGED <<reasoning_item, reasoning_text, message_item, message_text, usage,
                   final_items>>

\* Fragments of a call that is done, or was never started, are dropped.
ToolCallArgsDelta(ev) ==
    /\ ev.type = "ToolCallArgsDelta"
    /\ IF tools[ev.index] # None
       THEN tool_args' = [tool_args EXCEPT ![ev.index] = @ + 1] /\ HearPart(tools[ev.index], "tool")
       ELSE UNCHANGED <<tool_args, view>>
    /\ UNCHANGED <<next_output_index, reasoning_item, reasoning_text, message_item,
                   message_text, tools, usage, final_items>>

ToolCallDone(ev) ==
    /\ ev.type = "ToolCallDone"
    /\ IF tools[ev.index] # None THEN FinishTool(ev.index) ELSE UNCHANGED <<emitter, view>>

Usage(ev) ==
    /\ ev.type = "Usage"
    /\ usage' = ev.usage
    /\ UNCHANGED <<next_output_index, reasoning_item, reasoning_text, message_item,
                   message_text, tools, tool_args, final_items, view>>

\* response.completed carries final_items and usage.
Completed(ev) ==
    /\ ev.type = "Completed"
    /\ reasoning_item = None /\ message_item = None /\ OpenTools = {}
    /\ HearPhase("ended")
    /\ UNCHANGED emitter

Error(ev) ==
    /\ ev.type = "Error"
    /\ HearPhase("failed")
    /\ UNCHANGED emitter

Deliver(ev) ==
    \/ Created(ev) \/ ReasoningDelta(ev) \/ TextDelta(ev)
    \/ ToolCallStart(ev) \/ ToolCallArgsDelta(ev) \/ ToolCallDone(ev)
    \/ Usage(ev) \/ Completed(ev) \/ Error(ev)
=============================================================================
