------------------------------ MODULE Failover ------------------------------
(***************************************************************************)
(* Reactive failover, the provider watcher and the shared status map       *)
(* (src/server.rs, src/watcher.rs, src/probe.rs, src/main.rs).             *)
(*                                                                         *)
(* Request handlers resolve a chain against the status map and call the    *)
(* candidates in order.  A streaming call answered with an error status    *)
(* reads the error's body without a timeout and may wait there for ever.   *)
(* A candidate that fails is marked unavailable in the map; if it is       *)
(* monitored a one-shot re-probe is spawned.  One watcher task per         *)
(* monitored provider probes it again and again.  Every probe has three    *)
(* awaits: the answer, the write of the database row and the insertion in  *)
(* the map, with other tasks running in between.                           *)
(*                                                                         *)
(* The configuration is fixed here; ConfigReload changes it.               *)
(***************************************************************************)
EXTENDS Routing

CONSTANTS
    Cfg,          \* the configuration snapshot every handler holds
    Monitored,    \* the providers with probe_enabled
    Request,      \* the requests clients send
    ReqAlias,     \* the model each of them asks for
    Streaming,    \* the requests with stream = true (post_stream, not post_json)
    Quota,        \* what a probe may report as remaining, None included
    Exhaustions,  \* the usage-exhausted sets a handler may see
    Watcher,      \* the owner of the watcher tasks
    MaxFlips,     \* bound on changes of a provider's health
    MaxRestarts   \* bound on restarts of the bridge

ASSUME FailoverAssumption ==
    /\ Cfg.providers \subseteq Provider
    /\ Monitored \subseteq Cfg.providers
    /\ ReqAlias \in [Request -> Alias]
    /\ Streaming \subseteq Request
    /\ None \in Quota
    /\ Watcher \notin Request
    /\ MaxFlips \in Nat /\ MaxRestarts \in Nat

VARIABLES
    phase,     \* request -> how far its handler is
    good,      \* request -> positions that were preferred when it resolved
    tried,     \* request -> positions whose call has failed
    status,    \* the in-memory status map (partial function on Provider)
    db,        \* the provider_status table (partial function on Provider)
    task,      \* probe task -> where it is and what it holds
    healthy,   \* environment: monitored providers a probe finds available now
    flips,     \* environment: changes of healthy so far
    restarts,  \* restarts so far
    suspect    \* history: marked, and no probe that began to answer since
               \* the mark has been published

vars == <<phase, good, tried, status, db, task, healthy, flips, restarts, suspect>>

-----------------------------------------------------------------------------
\* What resolution works on: the configuration is fixed, so these are constant.
Chain == [r \in Request |-> RawChain(Cfg, ReqAlias[r])]
Positions == [r \in Request |-> KnownPositions(Cfg, ReqAlias[r])]
AllPositions == UNION {Positions[r] : r \in Request}

\* ProviderStatus, as far as routing and the watcher look at it.
Entry == [available : BOOLEAN, remaining : Quota]

StatusMap == UNION {[D -> Entry] : D \in SUBSET Provider}

Put(map, p, e) == [q \in DOMAIN map \cup {p} |-> IF q = p THEN e ELSE map[q]]

\* One task per monitored provider and one possible re-probe per call.
WatcherTask(p) == [by |-> Watcher, provider |-> p, at |-> 0]
Reprobe(r, i) == [by |-> r, provider |-> Chain[r][i].provider, at |-> i]

Task ==
    {WatcherTask(p) : p \in Monitored}
      \cup UNION {{Reprobe(r, i) : i \in Positions[r]} : r \in Request}

Step == {"idle", "running", "answered", "persisted"}

\* answer is what the probe saw; fresh says that it saw it after the last mark.
ProbeState == [step : Step, answer : Entry, fresh : BOOLEAN]

NoAnswer == [available |-> FALSE, remaining |-> None]
EmptyMap == [p \in {} |-> NoAnswer]
Idle == [step |-> "idle", answer |-> NoAnswer, fresh |-> FALSE]
Running == [step |-> "running", answer |-> NoAnswer, fresh |-> FALSE]

\* The tasks of a bridge that has just started: watchers probe immediately.
StartTasks == [t \in Task |-> IF t.by = Watcher THEN Running ELSE Idle]

\* A provider that is in the map and not available.
Marked(map, p) == p \in DOMAIN map /\ ~map[p].available

\* "reading": the current call has an error status and waits for its body;
\* "over": a candidate's answer is passed on, or nobody waits for one any more.
Phase == {"arriving", "trying", "reading", "over", "gave_up", "refused"}

\* The handler is in its loop over the candidates.
Calling(r) == phase[r] \in {"trying", "reading"}

Init ==
    /\ phase = [r \in Request |-> "arriving"]
    /\ good = [r \in Request |-> {}]
    /\ tried = [r \in Request |-> {}]
    /\ status = EmptyMap
    /\ db = EmptyMap
    /\ task = StartTasks
    /\ healthy \in SUBSET Monitored
    /\ flips = 0
    /\ restarts = 0
    /\ suspect = {}

-----------------------------------------------------------------------------
(* Request handlers.                                                        *)

\* Resolution happens under the status read lock: one step.
Arrive(r) ==
    /\ phase[r] = "arriving"
    /\ \E exhausted \in Exhaustions :
          good' = [good EXCEPT ![r] =
                      PreferredPositions(Cfg, status, exhausted, ReqAlias[r])]
    /\ phase' = [phase EXCEPT ![r] =
                    IF Refused(Cfg, ReqAlias[r]) THEN "refused" ELSE "trying"]
    /\ UNCHANGED <<tried, status, db, task, healthy, flips, restarts, suspect>>

Untried(r) == Positions[r] \ tried[r]

\* Mutant of IsNext: the configured order, whatever the health.
IsNextAsConfigured(r, i) ==
    /\ i \in Untried(r)
    /\ \A j \in Untried(r) \ {i} : i < j

\* The loop's current candidate.
IsNext(r, i) ==
    /\ i \in Untried(r)
    /\ \A j \in Untried(r) \ {i} : Before(good[r], i, j)

\* The headers of a streaming call's answer carry an error status (any of
\* them: whether it is retryable is looked at when the body has been read).
\* The body of a JSON call's answer is under the timeout of the whole call.
ErrorArrives(r) ==
    /\ phase[r] = "trying"
    /\ r \in Streaming
    /\ phase' = [phase EXCEPT ![r] = "reading"]
    /\ UNCHANGED <<good, tried, status, db, task, healthy, flips, restarts, suspect>>

\* The handler leaves its loop; its locals are dropped.
Leave(r) ==
    /\ phase' = [phase EXCEPT ![r] = "over"]
    /\ good' = [good EXCEPT ![r] = {}]
    /\ tried' = [tried EXCEPT ![r] = {}]
    /\ UNCHANGED <<status, db, task, healthy, flips, restarts, suspect>>

CallAccepted(r, i) ==
    /\ phase[r] = "trying"
    /\ IsNext(r, i)
    /\ Leave(r)

\* Mutant of Degrade: a missing entry is not filled with defaults.
DegradeWithoutDefault(map, p) ==
    Put(map, p, IF p \in DOMAIN map THEN [map[p] EXCEPT !.available = FALSE]
                ELSE [available |-> FALSE])

\* mark_degraded: the entry keeps its quota and loses its availability.
Degrade(map, p) ==
    Put(map, p, IF p \in DOMAIN map THEN [map[p] EXCEPT !.available = FALSE]
                ELSE NoAnswer)

\* Mutant of AfterMark: a provider that is already marked is not probed again.
AfterMarkProbeOnce(t, r, i) ==
    IF t = Reprobe(r, i) /\ t.provider \in Monitored /\ ~Marked(status, t.provider)
    THEN Running
    ELSE IF t.provider = Chain[r][i].provider THEN [task[t] EXCEPT !.fresh = FALSE]
    ELSE task[t]

\* The re-probe is spawned; answers already given are older than the mark.
AfterMark(t, r, i) ==
    IF t = Reprobe(r, i) /\ t.provider \in Monitored THEN Running
    ELSE IF t.provider = Chain[r][i].provider THEN [task[t] EXCEPT !.fresh = FALSE]
    ELSE task[t]

\* Mutant of CallFailsOver: the loop does not advance.
CallRetriesForever(r, i) ==
    LET p == Chain[r][i].provider IN
    /\ Calling(r)
    /\ IsNext(r, i)
    /\ Untried(r) # {i}
    /\ phase' = [phase EXCEPT ![r] = "trying"]
    /\ status' = Degrade(status, p)
    /\ task' = [t \in Task |-> AfterMark(t, r, i)]
    /\ suspect' = suspect \cup {p}
    /\ UNCHANGED <<good, tried, db, healthy, flips, restarts>>

\* A retryable error with a candidate left: mark this one, try the next.  The
\* upstream was not reached, or its error has been read.
CallFailsOver(r, i) ==
    LET p == Chain[r][i].provider IN
    /\ Calling(r)
    /\ IsNext(r, i)
    /\ Untried(r) # {i}
    /\ phase' = [phase EXCEPT ![r] = "trying"]
    /\ tried' = [tried EXCEPT ![r] = @ \cup {i}]
    /\ status' = Degrade(status, p)
    /\ task' = [t \in Task |-> AfterMark(t, r, i)]
    /\ suspect' = suspect \cup {p}
    /\ UNCHANGED <<good, db, healthy, flips, restarts>>

\* Mutant of CallGivesUp: the first retryable error is returned.
CallGivesUpAtOnce(r, i) ==
    /\ Calling(r)
    /\ IsNext(r, i)
    /\ tried' = [tried EXCEPT ![r] = @ \cup {i}]
    /\ phase' = [phase EXCEPT ![r] = "gave_up"]
    /\ UNCHANGED <<good, status, db, task, healthy, flips, restarts, suspect>>

\* A retryable error of the last candidate: the error is the client's answer
\* and nothing is marked.
CallGivesUp(r, i) ==
    /\ Calling(r)
    /\ IsNext(r, i)
    /\ Untried(r) = {i}
    /\ tried' = [tried EXCEPT ![r] = @ \cup {i}]
    /\ phase' = [phase EXCEPT ![r] = "gave_up"]
    /\ UNCHANGED <<good, status, db, task, healthy, flips, restarts, suspect>>

\* A request another upstream would refuse too (most 4xx, a body that is not
\* JSON): no failover and no mark.
CallRejected(r, i) ==
    /\ Calling(r)
    /\ r \in Streaming => phase[r] = "reading"
    /\ IsNext(r, i)
    /\ Leave(r)

\* The client hangs up: the handler's future is dropped at its await, and what
\* the call under way would have told of the provider is never known.
HangUp(r) ==
    /\ Calling(r)
    /\ Leave(r)

Call(r) ==
    \/ ErrorArrives(r)
    \/ \E i \in Positions[r] :
          \/ CallAccepted(r, i)
          \/ CallFailsOver(r, i)
          \/ CallGivesUp(r, i)
          \/ CallRejected(r, i)

\* What a timeout bounds: the connection, the headers of a streaming call, the
\* whole of a JSON call.
TimedCall(r) == phase[r] = "trying" /\ Call(r)

-----------------------------------------------------------------------------
(* Probe tasks.                                                             *)

\* run_probe returns: the answer is the provider's health at this moment.
Answer(t) ==
    /\ task[t].step = "running"
    /\ \E q \in Quota :
          task' = [task EXCEPT ![t] =
              [step   |-> "answered",
               answer |-> IF t.provider \in healthy
                          THEN [available |-> TRUE, remaining |-> q]
                          ELSE NoAnswer,
               fresh  |-> TRUE]]
    /\ UNCHANGED <<phase, good, tried, status, db, healthy, flips, restarts, suspect>>

\* Mutant of Persist: a failed write ends the task (`?` instead of a log line).
PersistOrEnd(t) ==
    /\ task[t].step = "answered"
    /\ \/ /\ db' = Put(db, t.provider, task[t].answer)
          /\ task' = [task EXCEPT ![t].step = "persisted"]
       \/ /\ task' = [task EXCEPT ![t] = Idle]
          /\ UNCHANGED db
    /\ UNCHANGED <<phase, good, tried, status, healthy, flips, restarts, suspect>>

\* write_status is awaited; its failure is logged and forgotten.
Persist(t) ==
    /\ task[t].step = "answered"
    /\ task' = [task EXCEPT ![t].step = "persisted"]
    /\ \/ db' = Put(db, t.provider, task[t].answer)
       \/ UNCHANGED db
    /\ UNCHANGED <<phase, good, tried, status, healthy, flips, restarts, suspect>>

\* Mutant of Publish: the map is read back from the table, as at the start.
PublishFromTable(t) ==
    /\ task[t].step = "persisted"
    /\ status' = db
    /\ task' = [task EXCEPT ![t] = IF t.by = Watcher THEN Running ELSE Idle]
    /\ suspect' = IF task[t].fresh THEN suspect \ {t.provider} ELSE suspect
    /\ UNCHANGED <<phase, good, tried, db, healthy, flips, restarts>>

\* The answer replaces the map's entry; a watcher goes back to its ticker.
Publish(t) ==
    /\ task[t].step = "persisted"
    /\ status' = Put(status, t.provider, task[t].answer)
    /\ task' = [task EXCEPT ![t] = IF t.by = Watcher THEN Running ELSE Idle]
    /\ suspect' = IF task[t].fresh THEN suspect \ {t.provider} ELSE suspect
    /\ UNCHANGED <<phase, good, tried, db, healthy, flips, restarts>>

Probe(t) == Answer(t) \/ Persist(t) \/ Publish(t)

-----------------------------------------------------------------------------
(* The environment and the process.                                         *)

Flip(p) ==
    /\ flips < MaxFlips
    /\ flips' = flips + 1
    /\ healthy' = IF p \in healthy THEN healthy \ {p} ELSE healthy \cup {p}
    /\ UNCHANGED <<phase, good, tried, status, db, task, restarts, suspect>>

\* The process dies and is started again: connections and tasks are gone, the
\* map is read back from the table.
Restart ==
    /\ restarts < MaxRestarts
    /\ restarts' = restarts + 1
    /\ phase' = [r \in Request |-> IF Calling(r) THEN "over" ELSE phase[r]]
    /\ good' = [r \in Request |-> IF Calling(r) THEN {} ELSE good[r]]
    /\ tried' = [r \in Request |-> IF Calling(r) THEN {} ELSE tried[r]]
    /\ status' = db
    /\ task' = StartTasks
    /\ suspect' = {}
    /\ UNCHANGED <<db, healthy, flips>>

Next ==
    \/ \E r \in Request : Arrive(r) \/ Call(r) \/ HangUp(r)
    \/ \E t \in Task : Probe(t)
    \/ \E p \in Monitored : Flip(p)
    \/ Restart

\* Probes and the timed part of a call end: they have timeouts, and the runtime
\* polls every ready task.  Clients and providers owe nothing: an upstream that
\* has sent an error status may never end the error's body.
Fairness ==
    /\ \A r \in Request : WF_vars(TimedCall(r))
    /\ \A t \in Task : WF_vars(Probe(t))

Spec == Init /\ [][Next]_vars
FairSpec == Spec /\ Fairness

-----------------------------------------------------------------------------
TypeOK ==
    /\ phase \in [Request -> Phase]
    /\ good \in [Request -> SUBSET AllPositions]
    /\ tried \in [Request -> SUBSET AllPositions]
    /\ status \in StatusMap
    /\ db \in StatusMap
    /\ task \in [Task -> ProbeState]
    /\ healthy \in SUBSET Monitored
    /\ flips \in 0..MaxFlips
    /\ restarts \in 0..MaxRestarts
    /\ suspect \in SUBSET Provider

\* A client gets a retryable upstream error only when every candidate of its
\* chain has been called and has failed (open_upstream_stream and
\* call_upstream_json: the guard i + 1 < n).
NeverGivesUpEarly ==
    \A r \in Request : phase[r] = "gave_up" => tried[r] = Positions[r]

\* A candidate that was unusable when the request resolved is only reached
\* once every candidate that was usable has failed (resolve_candidates with
\* the loop over its result).
PreferredFirst ==
    \A r \in Request :
        (\E i \in tried[r] : i \notin good[r]) => good[r] \subseteq tried[r]

\* The re-probe in flight that will answer for the last mark of p.
AnswersFor(t, p) ==
    /\ t.provider = p
    /\ t.by # Watcher
    /\ \/ task[t].step = "running"
       \/ task[t].step \in {"answered", "persisted"} /\ task[t].fresh

\* No mark of a monitored provider is left to the next watcher tick: until an
\* answer younger than the mark is published a re-probe that will bring one is
\* in flight, whatever other requests, watchers and re-probes do to the same
\* provider meanwhile (mark_degraded).
SuspectIsReprobed ==
    \A p \in suspect \cap Monitored : \E t \in Task : AnswersFor(t, p)

\* Only a restart lifts the mark of a provider nobody probes (mark_degraded
\* marks every candidate and spawns a re-probe for the monitored ones; a probe
\* of another provider replaces that one's entry only).
UnmonitoredMarkSticks ==
    [][\A p \in Cfg.providers \ Monitored :
          Marked(status, p) /\ restarts' = restarts => Marked(status', p)]_vars

\* ... and a restart does lift it: a mark is never written to the table, so
\* the map read back from it says nothing of a provider that is not monitored.
MarksAreNotPersisted ==
    \A p \in Provider \ Monitored : p \notin DOMAIN db

-----------------------------------------------------------------------------
(* The inductive invariant.                                                 *)

\* What a handler has recorded belongs to its chain; nothing has failed before
\* the first call.
HandlersKeepToTheChain ==
    \A r \in Request :
        /\ good[r] \subseteq Positions[r]
        /\ tried[r] \subseteq Positions[r]
        /\ phase[r] = "arriving" => tried[r] = {}

\* Only monitored providers are ever probed.
ProbesAreMonitored ==
    \A t \in Task : t.provider \notin Monitored => task[t].step = "idle"

IInv ==
    /\ TypeOK
    /\ HandlersKeepToTheChain
    /\ ProbesAreMonitored
    /\ NeverGivesUpEarly
    /\ PreferredFirst
    /\ SuspectIsReprobed
    /\ MarksAreNotPersisted

-----------------------------------------------------------------------------
\* A monitored provider that stays healthy is in the end seen available for
\* good: neither a mark nor a late answer survives ("a transient blip
\* self-heals").
SelfHeals ==
    \A p \in Monitored :
        <>[](p \in healthy) => <>[](p \in DOMAIN status /\ status[p].available)

\* A request that resolved gets an answer, in a bounded number of calls ("no
\* backoff loop"), unless it stops for good in the one wait of the loop that no
\* timeout ends: the body of an error response to a streaming call.
RequestsFinish ==
    \A r \in Request : Calling(r) ~> (~Calling(r) \/ [](phase[r] = "reading"))
=============================================================================
