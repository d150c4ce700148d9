----------------------------- MODULE UsageMeter -----------------------------
(***************************************************************************)
(* The usage meter (src/usage.rs), the handlers that feed it               *)
(* (src/server.rs: cost_recorder, record_nonstream, record_amounts) and    *)
(* the usage_events table behind it (src/store.rs, src/main.rs).           *)
(*                                                                         *)
(* A finished request charges one event per usage spec of its provider:    *)
(* the event enters the in-memory log under the lock, then its row is      *)
(* awaited, then the next spec follows with the same time stamp.  Other    *)
(* requests, the clock, the on-off switch and restarts come in between.    *)
(* The log is a set: its order only decides reset_in_secs, left out here.  *)
(***************************************************************************)
EXTENDS Integers, Sequences, FiniteSets, FiniteSetsExt

CONSTANTS
    Provider,      \* provider names
    Specs,         \* provider -> its usage specs, in order
    Request,       \* the requests clients send, one serving each
    Responses,     \* what an upstream may report of a request
    Unknown,       \* an amount nobody can tell (Option::None)
    CostTracking,  \* cost_tracking of the configuration file
    Retain,        \* RETAIN_SECS
    Slack,         \* how far the system clock may ever be set back
    MaxTime,       \* bound on the clock
    MaxToggles,    \* bound on changes of the switch
    MaxRestarts    \* bound on restarts

Kind == {"billing", "count", "token"}
Time == 0..MaxTime
Amount == Int \cup {Unknown}

\* A window counts events younger than secs against its limit.
Window == [secs : Nat, limit : Int]
Response == [real : Amount, estimate : Amount, tokens : Nat]

\* Windows fit in what is kept: 5h, 7d and 30d against 31 days.
ASSUME UsageAssumption ==
    /\ Specs \in [Provider -> Seq([kind : Kind, windows : SUBSET Window])]
    /\ Responses \subseteq Response
    /\ CostTracking \in BOOLEAN
    /\ Retain \in Nat /\ Slack \in Nat
    /\ \A p \in Provider : \A i \in 1..Len(Specs[p]) : \A w \in Specs[p][i].windows :
          w.secs + Slack <= Retain
    /\ MaxTime \in Nat /\ MaxToggles \in Nat /\ MaxRestarts \in Nat

VARIABLES
    now,       \* the system clock
    peak,      \* history: the latest time the clock has shown
    on,        \* AppState.usage_on
    log,       \* the in-memory events
    table,     \* the usage_events table
    ledger,    \* history: what this process has charged or found in the table
    blind,     \* history: the table could not be read at the last start
    step,      \* request -> how far it is
    served,    \* request -> the provider that serves it
    recorder,  \* request -> how it decides whether to record
    resp,      \* request -> what its response reported
    nth,       \* request -> the spec it is recording
    stamp,     \* request -> the time its events carry
    sawOn,     \* history: request -> the switch was on at some time of its life
    toggles, restarts

request == <<step, served, recorder, resp, nth, stamp>>
meter == <<log, table, ledger, blind>>
clock == <<now, peak>>
vars == <<clock, on, meter, request, sawOn, toggles, restarts>>

Event == [by : Request, nth : Nat, provider : Provider, kind : Kind,
          ts : Time, amount : Nat \ {0}]

NoResponse == [real |-> Unknown, estimate |-> Unknown, tokens |-> 0]

Init ==
    /\ now = 0 /\ peak = 0
    /\ on = CostTracking
    /\ log = {} /\ table = {} /\ ledger = {}
    /\ blind = FALSE
    /\ step = [r \in Request |-> "idle"]
    /\ served \in [Request -> Provider]
    /\ recorder = [r \in Request |-> "none"]
    /\ resp = [r \in Request |-> NoResponse]
    /\ nth = [r \in Request |-> 1]
    /\ stamp = [r \in Request |-> 0]
    /\ sawOn = [r \in Request |-> FALSE]
    /\ toggles = 0 /\ restarts = 0

-----------------------------------------------------------------------------
(* Windows.                                                                 *)

InWindow(events, p, kind, secs) ==
    {e \in events : e.provider = p /\ e.kind = kind /\ e.ts > now - secs}

Amounts(events) == MapThenSumSet(LAMBDA e : e.amount, events)

Spent(p, kind, secs) == Amounts(InWindow(log, p, kind, secs))

Remaining(p, kind, w) == Max({w.limit - Spent(p, kind, w.secs), 0})

\* exhausted_set: some window of some spec has nothing left.
Exhausted ==
    {p \in Provider : \E i \in 1..Len(Specs[p]) : \E w \in Specs[p][i].windows :
        Remaining(p, Specs[p][i].kind, w) <= 0}

\* Whom the handlers hand to the resolver as exhausted: nobody while tracking is
\* off.  The resolver puts them last in the chain (Routing).
Demoted == IF on THEN Exhausted ELSE {}

\* effective_cost: subscriptions report a cost of zero.
EffectiveCost(x) ==
    IF x.real # Unknown /\ x.real > 0 THEN x.real ELSE x.estimate

AmountFor(kind, x) ==
    CASE kind = "billing" -> EffectiveCost(x)
      [] kind = "count" -> 1
      [] kind = "token" -> x.tokens

-----------------------------------------------------------------------------
(* Requests.                                                                *)

\* How a response is delivered: whole, as a translated stream, or as the
\* upstream's own stream (chat completions), which is never looked into.
Delivery == {"whole", "stream", "passthrough"}

\* Mutant of Recorder: the switch is not consulted.
RecorderAlways(p, how) ==
    CASE how = "whole" -> "late"
      [] how = "stream" -> IF Specs[p] # <<>> THEN "kept" ELSE "none"
      [] how = "passthrough" -> "none"

\* A stream decides when it begins (cost_recorder), a whole response when it
\* is there (record_nonstream).
Recorder(p, how) ==
    CASE how = "whole" -> "late"
      [] how = "stream" -> IF on /\ Specs[p] # <<>> THEN "kept" ELSE "none"
      [] how = "passthrough" -> "none"

\* An upstream has accepted the request.  A demoted provider is only called after
\* the others, so any provider may be the one (Failover).
Serve(r) ==
    /\ step[r] = "idle"
    /\ step' = [step EXCEPT ![r] = "serving"]
    /\ \E how \in Delivery :
          recorder' = [recorder EXCEPT ![r] = Recorder(served[r], how)]
    /\ sawOn' = [sawOn EXCEPT ![r] = on]
    /\ UNCHANGED <<clock, on, meter, served, resp, nth, stamp, toggles, restarts>>

Records(r) ==
    \/ recorder[r] = "kept"
    \/ recorder[r] = "late" /\ on /\ Specs[served[r]] # <<>>

\* record_amounts samples the clock once for all specs.
Finish(r) ==
    /\ step[r] = "serving"
    /\ Records(r)
    /\ step' = [step EXCEPT ![r] = "recording"]
    /\ \E x \in Responses : resp' = [resp EXCEPT ![r] = x]
    /\ stamp' = [stamp EXCEPT ![r] = now]
    /\ UNCHANGED <<clock, on, meter, served, recorder, nth, sawOn, toggles, restarts>>

\* A handler ends and its locals with it.
End(r, how) ==
    /\ step' = [step EXCEPT ![r] = how]
    /\ recorder' = [recorder EXCEPT ![r] = "none"]
    /\ resp' = [resp EXCEPT ![r] = NoResponse]
    /\ nth' = [nth EXCEPT ![r] = 1]
    /\ stamp' = [stamp EXCEPT ![r] = 0]
    /\ UNCHANGED <<clock, on, meter, served, sawOn, toggles, restarts>>

FinishUnrecorded(r) ==
    /\ step[r] = "serving"
    /\ ~Records(r)
    /\ End(r, "done")

KindOf(r) == Specs[served[r]][nth[r]].kind
AmountOf(r) == AmountFor(KindOf(r), resp[r])

\* Mutant of Counts: any known amount is recorded.
CountsAnyAmount(a) == a # Unknown

\* Mutant of Counts: an unknown amount is recorded like any other.
CountsUnknown(a) == IF a = Unknown THEN TRUE ELSE a > 0

\* Amounts that are not positive are ignored.
Counts(a) == a # Unknown /\ a > 0

EventOf(r) ==
    [by |-> r, nth |-> nth[r], provider |-> served[r], kind |-> KindOf(r),
     ts |-> stamp[r], amount |-> AmountOf(r)]

\* Mutant of Kept: only the last window is kept, without the slack.
KeptForShort(e, t) == e.ts > t - (Retain - Slack)

\* What record leaves of an account's events at time t.
Kept(e, t) == e.ts >= t - Retain

\* The first half of record, under the lock.
Charge(r) ==
    /\ step[r] = "recording"
    /\ nth[r] <= Len(Specs[served[r]])
    /\ Counts(AmountOf(r))
    /\ log' = {e \in log \cup {EventOf(r)} :
                  e.provider = served[r] /\ e.kind = KindOf(r) => Kept(e, stamp[r])}
    /\ ledger' = ledger \cup {EventOf(r)}
    /\ step' = [step EXCEPT ![r] = "inserting"]
    /\ UNCHANGED <<clock, on, table, blind, served, recorder, resp, nth, stamp, sawOn,
                   toggles, restarts>>

\* Mutant of Skip: an amount that does not count ends the recording.
SkipRest(r) ==
    /\ step[r] = "recording"
    /\ nth[r] <= Len(Specs[served[r]])
    /\ ~Counts(AmountOf(r))
    /\ End(r, "done")

Skip(r) ==
    /\ step[r] = "recording"
    /\ nth[r] <= Len(Specs[served[r]])
    /\ ~Counts(AmountOf(r))
    /\ nth' = [nth EXCEPT ![r] = @ + 1]
    /\ UNCHANGED <<clock, on, meter, step, served, recorder, resp, stamp, sawOn, toggles, restarts>>

\* Mutant of Row: the row is stamped when it is written.
RowStampedLate(r) == [EventOf(r) EXCEPT !.ts = now]

Row(r) == EventOf(r)

\* The second half of record; a failed insert is logged and forgotten.
Insert(r) ==
    /\ step[r] = "inserting"
    /\ table' \in {table \cup {Row(r)}, table}
    /\ step' = [step EXCEPT ![r] = "recording"]
    /\ nth' = [nth EXCEPT ![r] = @ + 1]
    /\ UNCHANGED <<clock, on, log, ledger, blind, served, recorder, resp, stamp, sawOn,
                   toggles, restarts>>

RecordingEnds(r) ==
    /\ step[r] = "recording"
    /\ nth[r] > Len(Specs[served[r]])
    /\ End(r, "done")

\* The client hangs up, or no upstream answers: the handler or the stream is
\* dropped at an await, the specs it has not reached are never charged.
Drop(r) ==
    /\ step[r] \in {"serving", "inserting"}
    /\ End(r, "dropped")

-----------------------------------------------------------------------------
(* The clock, the switch and the process.                                   *)

Tick ==
    /\ now < MaxTime
    /\ now' = now + 1
    /\ peak' = IF now' > peak THEN now' ELSE peak
    /\ UNCHANGED <<on, meter, request, sawOn, toggles, restarts>>

\* The system clock is set back.
SetBack ==
    /\ now > 0 /\ peak - now < Slack
    /\ now' = now - 1
    /\ UNCHANGED <<peak, on, meter, request, sawOn, toggles, restarts>>

\* POST /admin/api/usage.
Toggle ==
    /\ toggles < MaxToggles
    /\ toggles' = toggles + 1
    /\ on' = ~on
    /\ sawOn' = [r \in Request |-> sawOn[r] \/ (on' /\ step[r] # "idle")]
    /\ UNCHANGED <<clock, meter, request, restarts>>

\* Mutant of Loadable: the horizon is added.
LoadableAhead(e) == e.ts >= now + Retain

\* prune_usage_events and load_usage_events use the same horizon.
Loadable(e) == e.ts >= now - Retain

\* The process ends and starts again; a failure of the prune or of the load is
\* ignored.
Restart ==
    /\ restarts < MaxRestarts
    /\ restarts' = restarts + 1
    /\ on' = CostTracking
    /\ step' = [r \in Request |-> IF step[r] \in {"idle", "done"} THEN step[r] ELSE "dropped"]
    /\ recorder' = [r \in Request |-> "none"]
    /\ resp' = [r \in Request |-> NoResponse]
    /\ nth' = [r \in Request |-> 1]
    /\ stamp' = [r \in Request |-> 0]
    /\ table' \in {table, {e \in table : Loadable(e)}}
    /\ \/ log' = {e \in table : Loadable(e)} /\ ledger' = table /\ blind' = FALSE
       \/ log' = {} /\ ledger' = {} /\ blind' = TRUE
    /\ UNCHANGED <<clock, served, sawOn, toggles>>

Handle(r) ==
    \/ Serve(r) \/ Finish(r) \/ FinishUnrecorded(r)
    \/ Charge(r) \/ Skip(r) \/ Insert(r) \/ RecordingEnds(r)
    \/ Drop(r)

Next ==
    \/ \E r \in Request : Handle(r)
    \/ Tick \/ SetBack \/ Toggle \/ Restart

Spec == Init /\ [][Next]_vars

-----------------------------------------------------------------------------
TypeOK ==
    /\ now \in Time /\ peak \in Time
    /\ on \in BOOLEAN /\ blind \in BOOLEAN
    /\ log \subseteq Event /\ table \subseteq Event /\ ledger \subseteq Event
    /\ step \in [Request ->
                    {"idle", "serving", "recording", "inserting", "done", "dropped"}]
    /\ served \in [Request -> Provider]
    /\ recorder \in [Request -> {"none", "kept", "late"}]
    /\ resp \in [Request -> Responses \cup {NoResponse}]
    /\ nth \in [Request -> Nat \ {0}]
    /\ stamp \in [Request -> Time]
    /\ sawOn \in [Request -> BOOLEAN]
    /\ toggles \in 0..MaxToggles /\ restarts \in 0..MaxRestarts

\* Dropping old events never changes what a window says, however stale the
\* stamp of the request that drops them, and with the clock set back in
\* between: every window counts exactly what was charged or loaded (record's
\* retain, the start-up prune and load, RETAIN_SECS "with a day of slack").
WindowsAreExact ==
    \A p \in Provider : \A i \in 1..Len(Specs[p]) : \A w \in Specs[p][i].windows :
        InWindow(log, p, Specs[p][i].kind, w.secs)
          = InWindow(ledger, p, Specs[p][i].kind, w.secs)

\* "The in-memory log is authoritative": the table never knows of a recent
\* event the running process does not count, unless it could not be read.
TableIsCounted ==
    ~blind => {e \in table : e.ts >= peak - Retain} \subseteq log

\* A demotion ends with time, with a restart, or while tracking is off, and in
\* no other way: no request, early or late, lifts one, nor does an off and on of
\* the switch, whatever was served in between (the handlers' use of
\* exhausted_set; "Zero/negative/non-finite amounts are ignored").
DemotionLasts ==
    [][now' <= now /\ restarts' = restarts /\ on' => Exhausted \subseteq Demoted']_vars

\* "windows survive a restart": when all events of the log have reached the
\* table, a start that can read it, with tracking on, demotes everybody whose
\* windows the last process had seen exhausted.
RestartRemembers ==
    [][restarts' # restarts /\ ~blind' /\ on' /\ log \subseteq table
          => Exhausted \subseteq Demoted']_vars

\* "Off = no usage recorded": a request is charged only if the switch was on
\* at some time while it was served (cost_recorder, record_nonstream).
NoChargeWhileOff == \A e \in ledger : sawOn[e.by]

\* A recording that is not cut short charges every spec whose amount counts,
\* whatever fails or is unknown for the specs before it (record_amounts).
EverySpecCharged ==
    [][\A r \in Request : step[r] = "recording" /\ step'[r] = "done" =>
          \A i \in 1..Len(Specs[served[r]]) :
              Counts(AmountFor(Specs[served[r]][i].kind, resp[r])) =>
                  \E e \in ledger : e.by = r /\ e.nth = i]_vars

-----------------------------------------------------------------------------
(* The inductive invariant.                                                 *)

\* Stamps are never ahead of the latest time, the clock is at most Slack back.
ClockIsClose ==
    /\ now <= peak /\ peak <= now + Slack
    /\ \A r \in Request : stamp[r] <= peak

\* What is missing from the log is too old for any window.
OnlyOldIsDropped ==
    /\ log \subseteq ledger
    /\ \A e \in ledger \ log : e.ts < peak - Retain

\* What is on its way to the table is an event ...
RowsCount ==
    \A r \in Request : step[r] = "inserting" =>
        nth[r] <= Len(Specs[served[r]]) /\ Counts(AmountOf(r))

\* ... and in the log already, or old.
RowsAreLogged ==
    \A r \in Request : step[r] = "inserting" /\ stamp[r] >= peak - Retain =>
        EventOf(r) \in log

\* Who records, or holds a recorder, has seen the switch on; events belong to
\* requests that were served.
RecordersSawOn ==
    /\ \A r \in Request :
          /\ recorder[r] = "kept" => sawOn[r]
          /\ step[r] \in {"recording", "inserting"} => sawOn[r]
          /\ on /\ step[r] # "idle" => sawOn[r] \/ step[r] \in {"done", "dropped"}
    /\ \A e \in ledger \cup table : step[e.by] # "idle" /\ sawOn[e.by]

\* A recording starts at the first spec ...
StartsAtFirst ==
    \A r \in Request : step[r] \notin {"recording", "inserting"} => nth[r] = 1

\* ... and has charged what counts of all specs that it is past.
ChargedSoFar ==
    \A r \in Request : step[r] \in {"recording", "inserting"} =>
        \A i \in 1..Len(Specs[served[r]]) :
            (i < nth[r] \/ (step[r] = "inserting" /\ i = nth[r]))
              /\ Counts(AmountFor(Specs[served[r]][i].kind, resp[r])) =>
                \E e \in ledger : e.by = r /\ e.nth = i

IInv ==
    /\ TypeOK
    /\ ClockIsClose
    /\ OnlyOldIsDropped
    /\ RowsCount
    /\ RowsAreLogged
    /\ RecordersSawOn
    /\ TableIsCounted
    /\ StartsAtFirst
    /\ ChargedSoFar
    /\ IsFiniteSet(log) /\ IsFiniteSet(table)
=============================================================================
