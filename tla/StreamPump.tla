----------------------------- MODULE StreamPump -----------------------------
(***************************************************************************)
(* run_stream (src/server.rs): the upstream's stream goes item by item     *)
(* through ChatStreamParser and the emitter of the client's dialect, frame *)
(* by frame to the client, and what it cost is recorded at the end.        *)
(*                                                                         *)
(* With tracking on the pump reads past [DONE], for the cost that some     *)
(* upstreams send last.  The client may hang up at every await and yield.  *)
(* Bytes and SSE framing are left out: an item is what SseDecoder returns. *)
(***************************************************************************)
EXTENDS ChatStreamParser, FiniteSets

CONSTANTS
    Scripts  \* what upstreams send: sequences of items, and how they stop

Dialect == {"anthropic", "responses"}

\* A data event that is not JSON is "noise".
ItemKind == {"data", "done", "noise"}
Blank == [error |-> FALSE, reasoning |-> FALSE, text |-> FALSE, calls |-> <<>>,
          finish |-> FALSE, usage |-> None, cost |-> None]

ASSUME StreamAssumption ==
    /\ ToolIndex \subseteq Nat
    /\ Report \subseteq [Field -> Nat \cup {None}]
    /\ None \notin ToolIndex \cup Price \cup Nat
    /\ None \notin Report /\ None \notin [Field -> Nat]
    /\ Word \in Nat \ {0}
    /\ Scripts \subseteq [items : Seq([kind : ItemKind, chunk : Chunk]),
                          stop : {"eof", "broken"}]

VARIABLES
    \* The client, and what it hears.
    phase, kinds, parts, open, heard,
    \* The emitter; each dialect's own names are in the instances below.
    started, next, reasoning, reasoningText, message, messageText, tools, toolArgs,
    anyTool, usage, output,
    \* The parser.
    created, startedTools,
    \* The pump.
    script, pos, dialect, track, pc, events, completed, done, cost, tokens, bill

Anthropic == INSTANCE AnthropicEmitter WITH
    next_index <- next, thinking_index <- reasoning, thinking_text <- reasoningText,
    text_index <- message, text_text <- messageText, tool_args <- toolArgs,
    any_tool <- anyTool, final_blocks <- output

Responses == INSTANCE ResponsesEmitter WITH
    next_output_index <- next, reasoning_item <- reasoning, reasoning_text <- reasoningText,
    message_item <- message, message_text <- messageText, tool_args <- toolArgs,
    final_items <- output

view == <<phase, kinds, parts, open, heard>>
emitter == <<started, next, reasoning, reasoningText, message, messageText, tools, toolArgs,
             anyTool, usage, output>>
parser == <<created, startedTools>>
given == <<script, dialect, track>>
vars == <<view, emitter, parser, given, pos, pc, events, completed, done, cost, tokens, bill>>

Init ==
    /\ phase = "before" /\ kinds = <<>> /\ parts = <<>> /\ open = {} /\ heard = 0
    /\ started = FALSE /\ next = 0
    /\ reasoning = None /\ reasoningText = 0
    /\ message = None /\ messageText = 0
    /\ tools = [k \in ToolIndex |-> None]
    /\ toolArgs = [k \in ToolIndex |-> 0]
    /\ anyTool = FALSE /\ usage = None /\ output = <<>>
    /\ created = FALSE /\ startedTools = {}
    /\ script \in Scripts
    /\ dialect \in Dialect
    /\ track \in BOOLEAN
    /\ pos = 1 /\ pc = "loop" /\ events = <<>>
    /\ completed = FALSE /\ done = FALSE
    /\ cost = None /\ tokens = [f \in Field |-> None] /\ bill = None

-----------------------------------------------------------------------------
\* The pump awaits the upstream.
Reading == pc = "loop" /\ events = <<>>

Item == script.items[pos]

ReadItem(kind) ==
    /\ Reading
    /\ pos <= Len(script.items)
    /\ Item.kind = kind
    /\ pos' = pos + 1

LastOf(new, old) == IF new # None THEN new ELSE old

\* Each count is kept for itself: a usage object that leaves one out does not
\* take it back (ptok, ctok).
Merged(report, old) ==
    [f \in Field |-> IF report = None THEN old[f] ELSE LastOf(report[f], old[f])]

\* Mutant of Sniff: only what precedes [DONE] is looked at.
SniffBeforeDone(chunk) ==
    IF track /\ ~done
    THEN cost' = LastOf(chunk.cost, cost) /\ tokens' = Merged(chunk.usage, tokens)
    ELSE UNCHANGED <<cost, tokens>>

\* Mutant of Sniff: the usage object is taken for the cost.
SniffUsageForCost(chunk) ==
    IF track
    THEN cost' = LastOf(chunk.usage, cost) /\ tokens' = Merged(chunk.usage, tokens)
    ELSE UNCHANGED <<cost, tokens>>

Sniff(chunk) ==
    IF track
    THEN cost' = LastOf(chunk.cost, cost) /\ tokens' = Merged(chunk.usage, tokens)
    ELSE UNCHANGED <<cost, tokens>>

\* Past [DONE] chunks are looked at, but not translated.
ReadData ==
    /\ ReadItem("data")
    /\ Sniff(Item.chunk)
    /\ IF done THEN UNCHANGED <<events, parser>>
       ELSE /\ events' = OnChunk(Item.chunk, created, startedTools)
            /\ created' = (created \/ ~Item.chunk.error)
            /\ startedTools' = StartedBy(Item.chunk, startedTools)
    /\ UNCHANGED <<view, emitter, given, pc, completed, done, bill>>

ReadNoise ==
    /\ ReadItem("noise")
    /\ UNCHANGED <<view, emitter, parser, given, pc, events, completed, done, cost, tokens, bill>>

ReadDone ==
    /\ ReadItem("done")
    /\ events' = <<Event("Completed", None)>>
    /\ completed' = TRUE
    /\ done' = track
    /\ pc' = IF track THEN "loop" ELSE "over"
    /\ UNCHANGED <<view, emitter, parser, given, cost, tokens, bill>>

ReadBreaks ==
    /\ Reading /\ pos > Len(script.items) /\ script.stop = "broken"
    /\ events' = <<Event("Error", None)>>
    /\ completed' = TRUE
    /\ pc' = "over"
    /\ UNCHANGED <<view, emitter, parser, given, pos, done, cost, tokens, bill>>

\* Mutant of EventsAtEof: only [DONE] completes an answer.
EventsAtEofNone == <<>>

EventsAtEof == IF completed THEN <<>> ELSE <<Event("Completed", None)>>

ReadEnds ==
    /\ Reading /\ pos > Len(script.items) /\ script.stop = "eof"
    /\ events' = EventsAtEof
    /\ pc' = "over"
    /\ UNCHANGED <<view, emitter, parser, given, pos, completed, done, cost, tokens, bill>>

-----------------------------------------------------------------------------
Prepare(ev) ==
    \/ dialect = "anthropic" /\ Anthropic!Prepare(ev)
    \/ dialect = "responses" /\ Responses!Prepare(ev) /\ UNCHANGED <<started, anyTool>>

Deliver(ev) ==
    \/ dialect = "anthropic" /\ Anthropic!Deliver(ev)
    \/ dialect = "responses" /\ Responses!Deliver(ev) /\ UNCHANGED <<started, anyTool>>

\* One more frame of the event at hand.
Emit ==
    /\ pc \in {"loop", "over"} /\ events # <<>>
    /\ Prepare(Head(events))
    /\ UNCHANGED <<parser, given, pos, pc, events, completed, done, cost, tokens, bill>>

\* Mutant of Leaves: an error does not stop the pump.
LeavesNever(ev) == FALSE

\* An error leaves the loop, and what the chunk held behind it.
Leaves(ev) == ev.type = "Error"

\* The last frame of the event at hand.
EmitLast ==
    /\ pc \in {"loop", "over"} /\ events # <<>>
    /\ Deliver(Head(events))
    /\ IF Leaves(Head(events))
       THEN events' = <<>> /\ pc' = "over" /\ completed' = TRUE
       ELSE events' = Tail(events) /\ UNCHANGED <<pc, completed>>
    /\ UNCHANGED <<parser, given, pos, done, cost, tokens, bill>>

\* record_amounts; UsageMeter has its steps.
Finish ==
    /\ pc = "over" /\ events = <<>>
    /\ pc' = "finished"
    /\ bill' = IF track THEN [cost |-> cost, tokens |-> tokens] ELSE None
    /\ UNCHANGED <<view, emitter, parser, given, pos, events, completed, done, cost, tokens>>

\* The client is gone: the stream is dropped with all it holds.
HangUp ==
    /\ pc \in {"loop", "over"}
    /\ pc' = "gone"
    /\ UNCHANGED <<view, emitter, parser, given, pos, events, completed, done, cost, tokens, bill>>

\* The stream is no more.
Ended == pc \in {"finished", "gone"} /\ UNCHANGED vars

Next ==
    \/ ReadData \/ ReadNoise \/ ReadDone \/ ReadBreaks \/ ReadEnds
    \/ Emit \/ EmitLast \/ Finish
    \/ HangUp \/ Ended

Spec == Init /\ [][Next]_vars

-----------------------------------------------------------------------------
TypeOK ==
    /\ phase \in {"before", "within", "summed", "ended", "failed"}
    /\ heard \in Nat /\ next \in Nat
    /\ kinds \in Seq({"reasoning", "text", "tool"}) /\ parts \in Seq(Nat)
    /\ open \subseteq [index : Nat, kind : {"reasoning", "text", "tool"}]
    /\ {started, anyTool, created, track, completed, done} \subseteq BOOLEAN
    /\ {reasoning, message} \subseteq Nat \cup {None}
    /\ {reasoningText, messageText} \subseteq Nat
    /\ tools \in [ToolIndex -> Nat \cup {None}] /\ toolArgs \in [ToolIndex -> Nat]
    /\ output \in Seq([index : Nat, kind : {"reasoning", "text", "tool"}, text : Nat])
    /\ startedTools \subseteq ToolIndex
    /\ script \in Scripts /\ dialect \in Dialect
    /\ pos \in 1..(Len(script.items) + 1)
    /\ pc \in {"loop", "over", "finished", "gone"}
    /\ events \in Seq(CanonicalEvent)
    /\ usage \in ToldUsage \cup {None}
    /\ tokens \in [Field -> Nat \cup {None}] /\ cost \in Price \cup {None}
    /\ bill \in [cost : Price \cup {None}, tokens : [Field -> Nat \cup {None}]] \cup {None}

Client == INSTANCE ClientStream

\* Whatever the upstream interleaves, repeats, breaks off or sends late, each
\* dialect's client hears an answer as ClientStream promises it (run_stream
\* with the parser and either emitter).
ImplementsClientStream == Client!Spec

\* The final object lists every block of the stream exactly once, with the
\* arguments that were streamed for a call, and at least the text that was
\* streamed for a text: a text that is opened again repeats the earlier one
\* (final_items, final_blocks); its stop reason is "tool_use" exactly when
\* there is a call (any_tool).
OutputIsWhatWasStreamed ==
    phase \in {"summed", "ended"} =>
        /\ Len(output) = Len(kinds)
        /\ {output[n].index : n \in 1..Len(output)} = 0..(Len(kinds) - 1)
        /\ \A n \in 1..Len(output) : LET o == output[n] IN
              /\ o.kind = kinds[o.index + 1]
              /\ o.text >= parts[o.index + 1]
              /\ o.kind = "tool" => o.text = parts[o.index + 1]
        /\ dialect = "anthropic" => (anyTool <=> "tool" \in ToSet(kinds))

\* A pump that comes to its end has told its client how the answer ended, and
\* nothing is left open unless it failed (completed).
FinishedMeansToldSo ==
    pc = "finished" => phase = "failed" \/ (phase = "ended" /\ open = {})

\* The items that give a cost, a usage object, one of its counts.
CostItems ==
    {i \in 1..Len(script.items) :
        script.items[i].kind = "data" /\ script.items[i].chunk.cost # None}

UsageItems ==
    {i \in 1..Len(script.items) :
        script.items[i].kind = "data" /\ script.items[i].chunk.usage # None}

CountItems(f) == {i \in UsageItems : script.items[i].chunk.usage[f] # None}

LastCost == IF CostItems = {} THEN None ELSE script.items[Max(CostItems)].chunk.cost

LastCount(f) ==
    IF CountItems(f) = {} THEN None ELSE script.items[Max(CountItems(f))].chunk.usage[f]

\* A tracked stream that was read to its end is charged by the last cost, the
\* last prompt count and the last completion count that the upstream sent,
\* before or after [DONE], in one usage object or in several; an untracked one
\* is not charged (the drain, "to catch the trailing cost chunk").
ChargedByTheLastReport ==
    pc = "finished" =>
        IF ~track THEN bill = None
        ELSE pos > Len(script.items) =>
            bill = [cost |-> LastCost, tokens |-> [f \in Field |-> LastCount(f)]]

\* The last usage object among what has been read.
UsageRead == {i \in UsageItems : i < pos}

LastUsage == IF UsageRead = {} THEN None ELSE script.items[Max(UsageRead)].chunk.usage

\* When an answer first ends, what its client is told of the usage is what the
\* provider is charged by as far as it is known then, but for two things: a
\* count too large for a u32 is cut off for the client, and a count that the
\* last usage object leaves out is 0 for the client, where the charge goes by
\* an earlier object (usage_event against tokens_from_usage, ptok and ctok).
UsageToldAgreesWithCharged ==
    [][track /\ phase \in {"before", "within"} /\ phase' \in {"summed", "ended"} =>
          \/ LastUsage = None /\ usage = None /\ tokens = [f \in Field |-> None]
          \/ /\ LastUsage # None /\ usage # None
             /\ \A f \in Field :
                   usage[f] = IF LastUsage[f] = None THEN 0 ELSE tokens[f] % Word]_vars

\* "keep draining the upstream (without yielding more client frames)": once
\* the answer has ended there is nothing more to tell the client.
NothingAfterTheEnd == phase = "ended" => events = <<>>
=============================================================================
