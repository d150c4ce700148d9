-------------------------- MODULE ChatStreamParser --------------------------
(***************************************************************************)
(* ChatStreamParser::on_chunk (src/wire/chat.rs): one chunk of an upstream *)
(* Chat Completions stream to canonical events.  A chunk says which of its *)
(* fields hold something; texts, ids and names are left out, and so are    *)
(* the cached, reasoning and total counts of a usage object.               *)
(***************************************************************************)
EXTENDS Naturals, Sequences, SequencesExt, FiniteSets

CONSTANTS
    ToolIndex,  \* the tool call indices upstreams use
    Report,     \* what a usage object may say: each count, or None where it says none
    Word,       \* 2^32: the counts a client is told are u32
    Price,      \* what a cost field may say
    None

\* The counts of a usage object: prompt_tokens, completion_tokens.
Field == {"prompt", "completion"}

Chunk == [error : BOOLEAN, reasoning : BOOLEAN, text : BOOLEAN,
          calls : Seq([index : ToolIndex, args : BOOLEAN]), finish : BOOLEAN,
          usage : Report \cup {None}, cost : Price \cup {None}]

EventType == {"Created", "ReasoningDelta", "TextDelta", "ToolCallStart", "ToolCallArgsDelta",
              "ToolCallDone", "Usage", "Completed", "Error"}

\* The counts of a Usage event, for a client.
ToldUsage == [Field -> 0..(Word - 1)]

CanonicalEvent ==
    [type : EventType, index : ToolIndex \cup {None}, usage : ToldUsage \cup {None}]

Event(type, index) == [type |-> type, index |-> index, usage |-> None]

\* Each usage object is told for itself: what it leaves out is 0, and what is
\* too large is cut off.
Told(report) == [f \in Field |-> IF report[f] = None THEN 0 ELSE report[f] % Word]

UsageEvent(report) == [type |-> "Usage", index |-> None, usage |-> Told(report)]

Only(condition, event) == IF condition THEN <<event>> ELSE <<>>

CalledIn(calls) == {calls[i].index : i \in 1..Len(calls)}

StartedBy(chunk, started) ==
    IF chunk.error THEN started ELSE started \cup CalledIn(chunk.calls)

\* Mutant of NewCall: fragments are told apart within a chunk only.
NewCallPerChunk(calls, i, started) ==
    \A j \in 1..(i - 1) : calls[j].index # calls[i].index

\* The i-th fragment is the first of its call, in this chunk or before.
NewCall(calls, i, started) ==
    /\ calls[i].index \notin started
    /\ \A j \in 1..(i - 1) : calls[j].index # calls[i].index

CallEvents(calls, started) ==
    FlattenSeq([i \in 1..Len(calls) |->
        Only(NewCall(calls, i, started), Event("ToolCallStart", calls[i].index))
          \o Only(calls[i].args, Event("ToolCallArgsDelta", calls[i].index))])

\* A set of indices as a sorted list (sort_unstable).
Ascending(S) ==
    CHOOSE s \in [1..Cardinality(S) -> S] : \A i, j \in 1..Cardinality(S) : i < j => s[i] < s[j]

\* finish_reason ends every call started so far, again if it comes again.
DoneEvents(started) ==
    [i \in 1..Cardinality(started) |-> Event("ToolCallDone", Ascending(started)[i])]

\* Mutant of OnChunk: usage is only looked for in the chunk that finishes.
OnChunkUsageAtFinish(chunk, created, started) ==
    IF chunk.error THEN <<Event("Error", None)>>
    ELSE Only(~created, Event("Created", None))
           \o Only(chunk.reasoning, Event("ReasoningDelta", None))
           \o Only(chunk.text, Event("TextDelta", None))
           \o CallEvents(chunk.calls, started)
           \o (IF chunk.finish THEN DoneEvents(StartedBy(chunk, started)) ELSE <<>>)
           \o Only(chunk.finish /\ chunk.usage # None, UsageEvent(chunk.usage))

\* An error hides the rest of its chunk.
OnChunk(chunk, created, started) ==
    IF chunk.error THEN <<Event("Error", None)>>
    ELSE Only(~created, Event("Created", None))
           \o Only(chunk.reasoning, Event("ReasoningDelta", None))
           \o Only(chunk.text, Event("TextDelta", None))
           \o CallEvents(chunk.calls, started)
           \o (IF chunk.finish THEN DoneEvents(StartedBy(chunk, started)) ELSE <<>>)
           \o Only(chunk.usage # None, UsageEvent(chunk.usage))
=============================================================================
