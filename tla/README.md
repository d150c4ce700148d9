# A TLA+ model of ai-api-bridge

ai-api-bridge is one process that accepts OpenAI Responses, OpenAI Chat and
Anthropic Messages requests, resolves the requested model to a chain of
upstream providers, calls them in order until one accepts, and translates the
answer back, streamed or whole. This directory models that process in TLA+.
TLC checks the models on small instances and TLAPS proves what matters most for
every value of the constants. Paths below are relative to the Rust crate, which
lies in `src/` of the checkout (so `server.rs` is `src/src/server.rs`).

## 1. Inventory

| component | code | state it keeps | operations |
|---|---|---|---|
| Resolver | `router.rs` | none | alias, configuration, status map and exhausted set to an ordered list of candidates |
| Reactive failover | `server.rs` 478-587 | the position in the chain | call, fail over, mark as degraded, give up |
| Watcher and probes | `watcher.rs`, `probe.rs` | one task per monitored provider, one-shot re-probes | probe, write the row, insert in the map, reconcile |
| Status map and table | `server.rs` `AppState.status`, `store.rs` | provider to availability and quota, in memory and in SQLite | insert, mark, retain, load |
| Admin API | `admin.rs` | none of its own | create, update, delete of providers and routes, fallback route, each followed by a reload |
| Live configuration | `server.rs` `AppState.config`, `reload_from_db` | an `Arc<Config>` that is swapped | load three tables, overlay the environment, swap, reconcile, retain |
| Store and startup | `store.rs`, `main.rs` | five SQLite tables | seed, clear, load, statements with foreign keys |
| Usage meter | `usage.rs`, `server.rs` 51-153, 363-380 | event log in memory and in `usage_events`, tracking toggle | record, rolling windows, exhausted set, load and prune |
| Upstream stream parser | `sse.rs`, `wire/chat.rs` 371-496 | byte buffer; open tool calls, reasoning text, usage | push bytes and drain events, chunks to canonical events |
| Client stream emitters | `wire/anthropic.rs` 261-560, `wire/responses.rs` 268-566 | open block or items, indices, usage | canonical events to client frames |
| Stream pump | `server.rs` 385-473 | parser, emitter, "done" and cost flags | read, parse, emit, record, close |
| Request translation | `wire/*.rs`, `canonical.rs` | none that outlives a request; within one, the pending reasoning, the system text, the calls announced | parse a history, put tool calls before their results, build the request; turn a whole answer into the client's format |
| Upstream client | `upstream.rs` | none | POST, status to error |
| Configuration file and CLI | `config.rs`, `main.rs` | none | parse, validate, environment overlay |
| Admin page, read-only endpoints | `admin.rs`, `server.rs` 94-131, 257-290 | none | render |
| Authentication | `server.rs` 296-313 | none | compare a token |

How they interact. A handler takes an `Arc<Config>` snapshot and keeps it for
its whole life, reads the status map once under its lock, asks the meter for
the exhausted providers once, and resolves. It then awaits one upstream call
after another; a failure writes the status map and may spawn a re-probe, and an
answer starts the pump, which writes the meter at its end. Watcher tasks and
re-probes write the status table, then the status map. Admin handlers write
tables, then rebuild the snapshot, then abort and respawn every watcher and
prune the status map. Nothing holds a lock across an await, so between any two
awaits anything else may run; a client that hangs up drops its handler at the
await it has reached.

What is hard about it:

* answers of probes, marks of failed requests and reloads reach the status map
  in an order nobody controls;
* the table, the snapshot, the watcher set and the status map are four copies
  of the configuration, updated one after the other by handlers that overlap
  and may stop half-way;
* environment keys live in the snapshot and must not flow back to the tables;
* a crash may fall between the statements of a reseed, between a write and its
  reload, between an answer and its row;
* usage is checked before a call and recorded after it, in completion order;
* streams interleave text, reasoning and tool fragments, break off, or go on
  after their end, and a network read ends anywhere in them;
* the bridge remembers no conversation: an answer leaves as separate items of
  the client's dialect and must come back, one request later, as the turn that
  it was, however the client orders, repeats or leaves out its parts.

What makes each component correct:

* Resolver: every known candidate is in the result, once, usable ones first,
  the fallback last in configured order; health alone never refuses a request.
* Failover: an error is returned only after every candidate failed, preferred
  ones first; every request ends, unless its upstream never finishes the body
  of an error answer.
* Watcher and status: a mark of a monitored provider is answered by a probe
  younger than the mark; what is healthy ends up available; what is not probed
  is unmarked by a restart only.
* Configuration: the tables are whole; environment keys stay out of them; an
  undisturbed reload makes the snapshot exactly what the tables say; the
  watchers follow the snapshot.
* Usage meter: a window counts exactly what was charged in it, whatever is
  pruned; a demotion is lifted by time, a restart or the switch only; a start
  with tracking on remembers it.
* Streams: blocks open, fill and close in order, in both dialects, whatever the
  upstream interleaves; every answer ends once; the last cost and the last of
  each token count are charged; what the client is told of the counts agrees
  with that; how the network splits the bytes makes no difference.
* Request translation: a tool result follows a call of it; what the history
  says arrives once, in its role, in order; reasoning stays with its turn; an
  answer comes back as it was given; a longer history only adds to what was
  sent before.

## 2. Plan and structure

| module | models | stands on |
|---|---|---|
| `Routing` | `router.rs`, as operators | |
| `RoutingCheck`, `MCRouting`, `RoutingCheck_proofs` | one resolution of any request | `Routing` |
| `Failover`, `MCFailover`, `Failover_proofs` | handlers, calls, marks, watchers, re-probes, restart | `Routing` |
| `ConfigReload`, `MCConfigReload`, `ConfigReload_proofs` | tables, admin handlers, reload, snapshot, watchers, status names, startup | |
| `UsageMeter`, `MCUsageMeter`, `UsageMeter_proofs` | recordings, log, table, windows, switch, clock, restart | |
| `ClientView` | what a client makes of frames | |
| `ClientStream` | abstract specification: what a client may rely on | `ClientView` |
| `AnthropicEmitter`, `ResponsesEmitter` | the two `on_event` | `ClientView` |
| `ChatStreamParser` | `on_chunk`, as operators | |
| `StreamPump`, `MCStreamPump`, `StreamPump_proofs` | `run_stream`, composed of parser and emitters, refines `ClientStream` | all four above |
| `SseBlock` | `parse_event_block`, lossy decoding, as operators | |
| `SseStream` | abstract specification: the events of the whole stream | |
| `SseDecoder`, `MCSseDecoder`, `SseDecoder_proofs` | `SseDecoder`, read by read, refines `SseStream` | `SseBlock` |
| `Selecting` | what a loop over a sequence pushes, for the models and the lemmas | |
| `Canonical` | the messages between the dialects, `append_system`, joined texts | `Selecting` |
| `ResponsesRequest`, `AnthropicRequest`, `ChatRequest` | the three `parse_request`, one item or message a step | `Canonical` |
| `ToolParents` | `normalize_tool_parents` and the messages of `build_request` | `Canonical` |
| `Completion` | whole answers: `completion_to_events` and the final objects | `Canonical` |
| `Conversation`, `MCConversation`, `Conversation_proofs` | a client and the bridge over several requests | the six above |
| `SequenceLemmas` | lemmas on sequences, loops and counts over them, finite sets and least numbers that the proofs share | |

The order was: resolver and failover first, since every request passes through
them; then the configuration, where most of the concurrency is; then the meter;
then the streams, from the emitters down to the bytes; then the conversation,
which composes the request translation with the answers. Still planned:

1. tool definitions and their schema repair as a pure algorithm against a
   reference definition;
2. what status entries say, in `ConfigReload`, when a probe is switched off.

## 3. How the modules correspond to the code

**Routing.** A configuration is a record, a target a provider and a model, a
model name a prefix and a name (prefixing is modelled by its effect, including
the `starts_with` test). `Resolve` is `resolve_candidates`: `RawChain` is the
chain with the fallback, `KnownPositions` drops unknown providers,
`PreferredPositions` and `Before` are the two-way partition.

**Failover.** One handler per request: `Arrive` reads the status map and
resolves, the call actions are the branches of one loop iteration
(`open_upstream_stream` and `call_upstream_json` have the same loop), `HangUp`
drops the future at its await. `ErrorArrives` is the one wait of a call that no
timeout covers: a streaming call (`Streaming`) whose answer has an error status
reads the body before it knows how to go on. A probe task goes running, answered, persisted
and back, the three awaits of `watch_provider` and of the re-probe. A call's
outcome is an environment choice: it may fail while the provider's probe says
healthy. `tried` holds what has failed; a handler that leaves the
loop drops it (`Leave`), one that gives up keeps it for the property.
Providers that are not monitored have no health, since nobody asks.
`suspect` is a history variable: the
providers marked since the last published answer that is younger than the mark.
Usage exhaustion is a choice at `Arrive`.

**ConfigReload.** The tables and the snapshot are maps; a provider is its key
and `probe_enabled`. An admin handler is accepted (validated against the
snapshot), executes its statement, loads three tables one by one, swaps,
reconciles, retains and replies; each is an action, and `Abandon` ends it at
any await (a failing statement, a dropped future). The foreign keys are part of
the statements' effects. `Crash`, `Start`, `StartReseed` and `ReseedDies` are
`main.rs`. `inStep` and `current` are history.

**UsageMeter.** A recording takes one step per spec under the lock (`Charge`)
and one for its row (`Insert`), and shares one time stamp; `Drop` ends it where
a dropped handler would. The log is a set of events, each tagged with its
request and spec, because only `reset_in_secs`, which is display, depends on
the order. `Demoted` is what the handlers pass to the resolver: the exhausted
providers while tracking is on, and nobody while it is off. `ledger` is history: what was charged or loaded, with nothing
pruned. Amounts are integers; the cost estimate is a value of the response.

**Streams.** An upstream is a finite script of items (chunks, `[DONE]`, data
that is not JSON) that ends or breaks off. The pump reads an item, the parser
turns a chunk into canonical events, the emitter of the dialect takes one step
per frame: `Prepare` is the next frame that must go out before the event's own,
`Deliver` the event's own, and ends it. Frames that open or close one block
leave together and are one step. Texts are counted, not spelled. A usage object
is its prompt and its completion count, each there or not (`Report`). It is
converted twice, as the code does: `Told` is `usage_event`, which tells the
client of each object for itself, with 0 for what it leaves out and cut to
`Word`; `Merged` is the pump's `ptok` and `ctok`, which keep the last of each
count. The other counts of the object, and the split of the prompt that
Anthropic clients are told of, are left out. `ClientView`
is what the client makes of the frames; it believes everything, so that a wrong
frame shows as a step `ClientStream` does not allow. The items come one by one:
that they do not depend on the reads is what `SseDecoder` is for, and nothing
else touches the pump's state between two items of one read.

**SseDecoder.** A stream is a sequence of bytes out of a small alphabet: line
feed, carriage return, a `data:` marker, the `[DONE]` marker, and the two bytes
of a character that is cut in two. `Read` is one network read of any length
followed by `push`'s `extend`; `CutEvent` is one turn of `push`'s loop, and no
read happens while a complete event is in the buffer, because `push` returns
first. `ParseEventBlock` decodes lossily (a torn character becomes `LOST`),
splits lines, joins the data of a block. `cut` is history: it says how much of
the stream was drained, and is what the refinement maps `SseStream`'s position
to. A stream may stop inside an event; what is left in the buffer is dropped,
by the code as by the model.

**Conversation.** The client is external and knows only its dialect: it may
bring any history (`Init`), it speaks (`Say`), returns the results it owes
(`ReturnResults`), and sends everything each time (`Send`). The bridge then
takes one step per input item or message (`Parse`, one module per dialect, with
the variables the parser's loop carries), turns to `normalize_tool_parents`
(`Parsed`, then `Normalize` per message) and sends (`Dispatch`). The upstream
answers or fails (`Respond`, `Fail`), and the client keeps the answer in its
own way (`Echo`): a Responses client may leave out the calls when it sends
their results (`repeats`). A text is a sequence of numbered fragments, so that
loss, doubling, order and origin are visible; the separators between joined
texts are left out. The `instructions` and `system` fields, which only come
before the first message, tool definitions, `tool_choice` and the sampling
fields are left out as well, and so are calls without a function name, which
the Chat parser drops. `seen` and `answers` are history.

## 4. The runs

| run | question | bounds |
|---|---|---|
| `routing` | does the resolver keep every known candidate, in order, under every status and exhausted set | 3 providers, chains up to 5, all mixes of default, fallback, prefix |
| `routing_dangling` | finding | as `routing` |
| `failover` | are chains exhausted in order and marks answered, does a healthy provider end up available for good, does every request end, or hang in the body of an error answer only | 2 requests, one of them streaming, a monitored and an unmonitored provider, one health change, one restart |
| `config_writes` | are the tables whole, free of environment keys, and is an undisturbed reload exact | 2 admins, 3 requests, 1 crash |
| `config_runtime` | is a replied write in force, do the watchers follow | 1 admin, 2 requests, watchers, 1 crash |
| `usage` | do windows count what was charged, do demotions hold and survive | 2 requests, 2 specs, 5 clock values, horizon 3, one toggle, one restart |
| `stream` | do both emitters implement `ClientStream`, is the last cost and the last of each count charged, and do the client's counts agree with it | all scripts of up to 4 items (`MaxItems`) out of 8, 2 tool indices, both dialects, 3 usage objects, `Word` 4 |
| `sse` | do the items depend on how the bytes were split, do all of them come, does a character survive | all streams of up to 5 bytes (`MaxShort`) over 5 byte kinds, and streams of up to 4 whole lines (`MaxLines`), every split into reads |
| `conversation` | is anything lost, doubled, moved to another turn or role, or sent before what it answers | all histories of up to 3 utterances (`MaxRecalled`) of 8 to 11 kinds per dialect, continued to 5 utterances (`MaxUtterances`), 7 shapes of answers, 2 call ids and the empty one |
| `config_stale` | finding | 2 admins, 2 requests |
| `config_ghost` | finding | 1 admin, 2 requests, a watcher |
| `stream_after_done` | finding | scripts of up to 2 items |

Why the bounds are enough. *Failover*: both
requests go from the monitored provider to the unmonitored one, one of them
over a deleted provider and a repeated one, so that they mark the same provider,
and call the two in opposite orders when one resolves before and one behind a
mark, a bad answer or an exhaustion; this against a watcher, two re-probes and
a restart. Two candidates are the least that have a first and a last; that
longer chains are exhausted in order, and that every mark is answered for any
number of them, is what the proofs say. *ConfigReload*: two names let a route, a
fallback and a deletion collide; two overlapping handlers are all the reload
race needs, a third request gives the repair. *UsageMeter*: windows of one and
two ticks and a horizon of three let an event leave the small window, the large
one and the log at different times. *StreamPump*: four items are enough for
text, a call, text again and the end, and for two items behind the first end; of the three usage objects one is whole
with a count beyond the word, and each of the others leaves one count out, so
that they replace, complete and overlap each other in every order.
*SseDecoder*: five bytes hold the longer separator with something on a side of
it, both separators overlapping, and a character with a separator behind it;
four lines make several events, events of several data lines and empty blocks
in either line ending, up to 20 bytes. *Conversation*: three utterances put
any two kinds apart by a third, which is what carries reasoning over and what
separates a result from its call; the continuation to five adds an answer, its
results and an answer to those on top of what was recalled, and two full tool
rounds when nothing was.

`CHECK_DEADLOCK FALSE` is set where the system may stop because its inputs are
used up: the resolver (one request), `config_writes` and `config_stale` (no
watchers, all requests used), `usage` (requests, clock, toggles and restarts
used), `sse` (a stream ends). In the failover, `stream` and `conversation` runs
deadlock is checked: probes go on for ever, a pump that has an event always has
a next frame, and a conversation that is not over always has a next step.

**Fairness.** In `failover`, probe tasks are weakly fair, and so is a call
while a timeout covers it (`TimedCall`): `upstream.rs` bounds the wait for a
connection, for the response headers of a stream and for a whole JSON answer,
`probe.rs` bounds every HTTP call a script makes, and the runtime polls every
ready task (a script that loops without calling anything is not bounded, and is
assumed away). Nothing is assumed of clients, of providers' health or of the
order of tasks, and nothing of the body of an error answer to a streaming call,
which is read without a timeout (`upstream.rs:67`): a stalled upstream may hold
a handler there for ever. `RequestsFinish` says that this is the only place: a
request that is in its loop leaves it, or reads one such body for good. A
stream that was accepted has no overall timeout either; nothing is claimed of
how long one takes, only that its script is finite.

In `sse`, the decoder's steps are weakly fair (`EveryEventDecoded`):
`run_stream` reads on until the upstream ends. It leaves earlier after an error
and, without tracking, after `[DONE]`; the property is about streams that are
read to their end.

## 5. What is proved

All theorems are for every value of the constants that meets the named
assumption of the module. Each invariant `IInv` below holds initially, is kept
by every step of `Next`, and implies the properties named with it.

*Routing.* The state is the input of one resolution and never changes, so
everything is about the operators: any configuration, any status map, any
exhausted set. `KeepProviders`, which filters a chain by a set of providers, is
a recursive function; what it keeps, in which order and how often
(`KeepShape`, `KeepPlace`, `KeepCount`), and that it distributes over appended
chains (`KeepConcat`) are shown by induction on the length of the chain. From
these: the result lists every known candidate at its own place in the chain or
behind the usable ones (`KnownAreListedInOrder`); health and usage refuse no
name that the configuration lets through, let none through that it refuses, and
change no number of candidates (`HealthOnlyReorders`); one more mark drops no
candidate, leaves the others in order, and puts the marked provider, at every
place it has in the chain, behind all that are usable (`MarksOnlyDemote`);
nothing behind the fallback is
as usable as it is (`FallbackComesLast`).

*Failover.* `IInv` joins the types, `HandlersKeepToTheChain`,
`ProbesAreMonitored` and the properties. `SuspectIsReprobed` is inductive
because a re-probe is keyed by request and position: `AfterMark` restarts the
one that belongs to the mark and turns every older answer of the provider
stale, and only a fresh answer takes a provider out of `suspect`.
`NeverGivesUpEarly` needs `HandlersKeepToTheChain`, and so does
`PreferredFirst`: the chain was partitioned by the map the handler read at its
start, and no later mark or probe moves what is in it. `UnmonitoredMarkSticks`
follows from `ProbesAreMonitored`: nobody else writes a better entry.

*ConfigReload.* `EnvKeysNeverPersisted` needs `StatementsHoldNoEnvKey`: the key
of a row that is on its way was typed or read from the table, never from the
snapshot. `ReloadMatchesTables` needs `LoadsAreCurrent` (what an undisturbed
reload has read so far is what the tables say) and `AbsentDefersToFile`: as
long as the settings table has no row, every snapshot and every load carries
the file's fallback route. That one made the invariant necessary: the default
of the row is the previous snapshot's value, not a constant.
`RowsReferenceProviders` is inductive by the foreign keys.
`WritesTakeEffect`, `WatchersFollowLive` and `BlankEditKeepsKey` are theorems
under the hypothesis `OneAdmin`, that no two admin handlers overlap; without it
the first is false, which is what `config_stale` shows. Their invariant
`SoloInv` says that nothing is written between a handler's own write and its
reply, that the key a handler is about to store back is the one still in the
table, that the tasks differ from the snapshot only between a swap and its
reconcile, and that the reconcile works on the snapshot that is live.

*UsageMeter.* `WindowsAreExact` follows from `OnlyOldIsDropped` (what is in the
ledger but not in the log is older than the latest time minus the horizon) and
`ClockIsClose` (the clock is at most `Slack` behind its peak) with the
assumption that windows fit in the horizon less the slack. `TableIsCounted`
needs `RowsAreLogged`: a row on its way is in the log or old.
`NoChargeWhileOff` needs that whoever holds a recorder has seen the switch on.
`EverySpecCharged` needs `ChargedSoFar`: a recording at its n-th spec has
charged each counting spec before it, once. `DemotionLasts` and
`RestartRemembers` compare what windows add up to before and after a step.
They need the sum itself: `AmountsGrow` says that more events never add up to
less, by induction over finite sets of events; `IInv` therefore says that log
and table are finite. A step that lifts a demotion is then one that shrinks
what some window counts, and with the log only growing that is the clock; or it
is one after which tracking is off. Both properties therefore compare whose
windows are exhausted before the step with who is demoted after it, in steps
after which tracking is on: nobody has been served back into favour meanwhile.

*Streams.* `IInv` of `StreamPump_proofs` is `BlockInv`, about the emitter and
its client, and `QueueInv`, about the pump and what waits for the emitter.
`BlocksMatch` says that the blocks the emitter holds open are the ones the
client sees open, `BlocksApart` that no two share a place, `OpenMatches` and
`OutputMatches` that open and closed blocks hold what was streamed. The emitter
checks nothing of the order of events, so `EventsFit` and `StartsOnce` say
which events may wait in which phase, and `PhaseFits` what the pump may still
do once it is done. From it follow the refinement of `ClientStream`, in both
dialects, for every script of chunks and every number of interleaved calls
(`PumpImplementsClientStream`), that a finished stream has told its client so,
and that the final object holds what was streamed. Two more invariants ride on
it. `UsageFits` says that the client was told of the last usage object that
was read, or that a Usage event of it waits; `TokensFit`, that the meter has
each count of that object. So they agree on what the object has, and differ
where it leaves a count out or a count is too large for a `u32`
(`UsageToldAgrees`). `BillFits` says that the cost and each count are those of
the last item that gives one among the items read so far
(`ChargedByLastReport`).

*SseDecoder*. `IInv` says that the buffer is the part of the stream that was
read and not drained. The refinement needs it together with a lemma that a
separator is found at a place of the buffer exactly when it is at the
corresponding place of the stream, provided it lies within what was read: an
event cut from the buffer is then the next event of the stream, because
everything before the first separator has been read as well. This holds for any
set of streams and any reads. `NoTornCharacter` adds that the decoder only
ever cuts at the end of a line (`CutsAtLines`), so that of a whole character
either both bytes are in a block or none (`BlockIsWhole`), and that decoding a
block of whole characters makes none that is lost (`LossyKeepsWhole`).

*Conversation*. `EveryResultHasItsCall` needs nothing of the parsers: whatever
messages they make, `normalize_tool_parents` only believes that an id was
called (`announced`) if a message already put out calls it (`ClaimsAreTrue`),
and puts a call before any other result. The histories, answers and bounds are
arbitrary.

`RequestsGrow` compares what the parsers return for a longer history with what
they returned for a shorter one. The loops over a history and over what was
parsed are written as functions (`ParseOf`, of the dialect, and `NormalOf`),
folds of one step each (`After`, `Placed`), and the actions are shown to follow
them (`MessageParsed`, `MessagePlaced`): `RequestInv` says that what is being
built is the fold over the messages so far. So a request is a function of the
history alone (`NothingIsKept`), whatever was sent, repeated or failed before.
It grows because no step takes back what it made of a history that the model
was to answer: the Anthropic and Chat parsers and `normalize_tool_parents` only
append, and a Responses call joins only an assistant message at the end, which
there is none after a user's message or a result (`Settled`, `ParseGrows`). A
client's history stays one that its dialect can hold (`Typed`), which needs the
types of everything it says, returns and keeps of an answer.

`AnswersAreRemembered` follows an answer out and back in. For each dialect the
client's copy of an answer is taken apart piece by piece and parsed again
(`ResponsesTurn`, `AnthropicTurn`, `ChatTurn`), with the result that the parsed
history gains one message, the turn that the model spoke (`Remembered`).
`ComesBackInv` says of every memorable answer that its turn stands: some prefix
of the history that the model was to answer parses to messages that hold it
(`Kept`), or the history does and the client has said nothing since. Once
something follows, `ParseGrows` keeps it for good, and `AllGoOut` adds that
every message that was parsed goes out.

`StrictUpstreamsDoAccept` rests on `StrictInv`. In a conversation that the
bridge carried from its start and whose calls have ids of their own (`Apart`),
what goes out is `Accepted`, and what the history is parsed to is `Consistent`
with the calls that the client owes: if it keeps its calls, every result is
right behind a turn that calls it (`Structured`), and so would the results be
that it still owes (`Follows`); if it keeps none, no turn calls anything and
every result has an id of its own (`Unclaimed`). An answer adds one turn with
just its calls, or nothing (`EchoMade`), and results add one message each
(`ResultsMade`). `normalize_tool_parents` leaves a structured list as it is and
puts a call before each result of an unclaimed one (`ConsistentGoesOut`), for
every part of the list that has been placed so far.

`EverythingGoesThrough` gives an account of every fragment. What a message of a
history tells the upstream, and as whom, is `Tells`; what messages make it hear
is `Hears`; and messages are `Orderly` if they hold no fragment twice and none
before an older one. Each parser, for each message, adds what the message tells
and nothing else (`ItemTells`, `AnthropicTells`, `ChatTells`), a call that joins
an open turn included (`JoinedTurn`), so a whole history is parsed to what it
tells (`HistoryTells`), and `normalize_tool_parents` neither adds nor drops
anything of that, since the calls that it puts before results have no body
(`ParentIsSilent`, `NormalTells`). All of that needs a history whose messages
are each older than the next, with the results of a message before its remarks
(`Consecutive`); `TellInv` says that the history is one, and no newer than the
clock (`Recent`). What clients bring is such a history by assumption; what they
say, the results they return in one message or in many, and what they keep of
an answer in any dialect continue it (`SaidIsRecent`, `ResultsAreRecent`,
`ResultsAtOnce`, `AnswerIsRecent`). The system text of a Responses client,
which is none of the messages, has an invariant of its own: it is the joined
texts of the items read so far (`SystemInv`).

`ReasoningStays` is about turns: reasoning never goes out with the words or
calls of another turn, and a turn whose reasoning the dialect reads, and goes
on, goes out with some. The turn of a message is the number of user's messages
and results before it (`TurnAt`, by `CountBefore` of `SequenceLemmas`).
`Thoughtful` says both of what a history is parsed to. For Chat and Anthropic it
is kept since a message is parsed to messages of that message alone
(`AddsThink`). For Responses it needs what `parse_input_item` has open between
two items (`OpenTurn`): pending reasoning is not empty and was thought in the
open turn; so was, and was said there, all of the assistant message that a call
may still join; and if the open turn has thought at all, something is pending or
a message recalls it. An item goes on with the turn, is added to it, or ends it
(`TurnGoesOn`, `TurnOpens`, `TurnTakes`, `TurnEnds`, combined in `ItemThinks`).
`normalize_tool_parents` keeps `Thoughtful`, since the parents that it makes up
think and say nothing (`NormalThinks`). The property speaks of the turn of a
fragment: it is the one of the message that utters it (`TurnIsKnown`), because no
two messages of a `Consecutive` history utter the same. The property is about the
reasoning of assistant messages (`ReadBack`): a thinking block or
`reasoning_content` in a user's message, which the dialects' types admit, is
read by no parser.

**Induction.** The prover cannot instantiate the library's induction theorems,
which take an operator as a parameter. `SequenceLemmas` states induction over
sets instead of operators: `Least` (a non-empty set of naturals has a least
member) gives `Induction` (a set of naturals that holds 0 and every successor
is all of them) and `Shrinking` (the same for the subsets of a finite set).
What a recursive function or a fold returns is proved with them; `Folding` says
once for all loops that there is a function of the sequence that starts where
the loop starts and takes its step for each element appended.

**Only model-checked.** Liveness (`SelfHeals`, `RequestsFinish`,
`EveryEventDecoded`) is out of the prover's reach. Every safety property that a
passing run checks is a theorem, three of `ConfigReload`'s under `OneAdmin`.

**Assumptions worth knowing.** `UsageAssumption`: windows fit in the retention
horizon less the clock's slack. `window_secs` is not validated by the code; a
longer window counts less than it claims. `ConfigAssumption`: the file's routes
name its providers. `FailoverAssumption`: what is monitored is configured.
`ConfigsAssumption` and `StatusesAssumption` give the types of what the
resolver is asked: a configuration's routes, names and default may be anything,
known to it or not. `ConversationAssumption`: the histories that clients bring
hold messages that their dialect can hold, of any number and length (a
Responses item is one piece, a result has an id), and answers have typed calls.
`NumberingAssumption` is about the numbers that stand for texts, and only
`EverythingGoesThrough` and `ReasoningStays` need it: the fragments of the utterances that a client
brings carry the number of their utterance, none twice in a message, calls are
an assistant's and results come in the role that the dialect has for them; and
`Stride`, the numbers that an utterance has, is large enough for the calls of
every answer. It says nothing of how many calls that may be.
`OneAdmin` is a hypothesis of the three theorems named above, not an assumption
of the module.

## 6. Findings

* **The fallback route does not back every name** (`routing_dangling`,
  `router.rs:37-40`). An unrouted name whose default provider does not exist is
  an error before the fallback route is looked at, although
  `docs/configuration.md:177-179` has it appended in every case. The default is
  a line of the file, its provider a row that the admin API deletes.
* **A write may be missing from the live configuration** (`config_stale`,
  `server.rs:194-201`). Two admin handlers read the tables and swap the
  snapshot without a lock; the one that read first may swap last. Both reply,
  the tables hold both writes, the snapshot lacks one until the next write.
* **A deleted provider may keep a status entry** (`config_ghost`). A watcher
  past its last await, or a detached re-probe, inserts after the reload pruned
  the map.
* **A tracked stream may go on after its end** (`stream_after_done`,
  `server.rs:437-457`): a broken connection or a second `[DONE]` behind the
  first makes the pump emit another end or an error. `ClientStream` allows it
  when tracking is on, and forbids it otherwise.

Seen while modelling, without a run.

* Status: a watcher that had its answer before a request failed publishes it
  after the mark and hides it (`watcher.rs:81`); the re-probe repairs it
  (`SuspectIsReprobed`, `SelfHeals`).
* Usage: two specs of one kind share one account, so each request is charged
  twice to both.
* Streams: `message_text`, `reasoning_text` and their Anthropic counterparts
  are never reset, so an item that opens again says in its done frames what the
  earlier one said (`OutputIsWhatWasStreamed` says "at least"); output items
  are listed in closing order, which need not be the order of their indices; an
  upstream that ends without `[DONE]` is reported as a complete answer; a usage
  object that leaves a count out tells the client 0 although the provider is
  charged by an earlier one;
  fragments of a call behind its end are dropped.
* Chat requests: a content given as an array of parts is read as the empty
  text, and of several system messages the last one wins
  (`wire/chat.rs:230-237`); `Unread` exempts both from `EverythingIsPassedOn`.
* Conversations: an id that is used again leaves the later result without a
  call right before it, because the earlier one counts (`wire/chat.rs:39`), so
  `StrictUpstreamsAccept` asks for distinct ids; a null `reasoning_content`
  hides a `reasoning` beside it (`wire/chat.rs:519`); arguments that are no
  JSON become `{}` for Anthropic clients (`wire/anthropic.rs:533`).
* Startup: the last provider's deletion makes the next start import the file
  again (`main.rs:53-57`).

## 7. What is not modelled

* Tool definitions and the repair of their schemas, `tool_choice`, sampling
  fields, images: copied or rewritten field by field inside one request.
* Authentication, the admin page and the read-only endpoints, TOML parsing:
  functions without state.
* The HTTP client and the Lua probe scripts: their results are choices.
* Token counts other than prompt and completion, ids, timestamps shown to clients, `reset_in_secs`,
  non-finite amounts, separators between joined texts.
* The chat passthrough stream, which forwards bytes and never records, as its
  comment says (`server.rs:612-613`); in `UsageMeter` it is a delivery without
  a recorder.
* What status entries say when a provider's probe is switched off:
  `ConfigReload` keeps the names of entries only.
