------------------------- MODULE UsageMeter_proofs -------------------------
(***************************************************************************)
(* Theorems about UsageMeter, for every set of requests and providers,     *)
(* every list of specs, every retention and clock.                         *)
(***************************************************************************)
EXTENDS UsageMeter, SequenceLemmas

-----------------------------------------------------------------------------
(* Type correctness.                                                        *)

LEMMA ElementAt ==
    ASSUME NEW S, NEW s \in Seq(S), NEW i \in Nat \ {0}, i <= Len(s)
    PROVE  s[i] \in S
  OBVIOUS

\* What a request charges is an event.
LEMMA EventShape ==
    ASSUME TypeOK, NEW r \in Request, nth[r] <= Len(Specs[served[r]]), Counts(AmountOf(r))
    PROVE  /\ EventOf(r) \in Event
           /\ EventOf(r).by = r
           /\ EventOf(r).ts = stamp[r]
  <1>1. served[r] \in Provider /\ nth[r] \in Nat \ {0} /\ stamp[r] \in Time
    BY DEF TypeOK
  <1>2. Specs[served[r]] \in Seq([kind : Kind, windows : SUBSET Window])
    BY <1>1, UsageAssumption
  <1>3. Specs[served[r]][nth[r]] \in [kind : Kind, windows : SUBSET Window]
    BY <1>1, <1>2, ElementAt
  <1>4. KindOf(r) \in Kind
    BY <1>3 DEF KindOf
  <1>5. resp[r] \in Response
    BY UsageAssumption DEF TypeOK, NoResponse, Response, Amount
  <1>6. AmountOf(r) \in Amount
    BY <1>4, <1>5 DEF AmountOf, AmountFor, EffectiveCost, Kind, Response, Amount
  <1>7. AmountOf(r) \in Nat \ {0}
    BY <1>6 DEF Amount, Counts
  <1>8. QED
    BY <1>1, <1>4, <1>7 DEF EventOf, Event

LEMMA TypeInit == Init => TypeOK /\ RowsCount
  <1> SUFFICES ASSUME Init PROVE TypeOK /\ RowsCount
    OBVIOUS
  <1>1. /\ now \in Time /\ peak \in Time /\ on \in BOOLEAN
        /\ toggles \in 0..MaxToggles /\ restarts \in 0..MaxRestarts
        /\ 0 \in Time
    BY UsageAssumption DEF Init, Time
  <1>2. /\ log \subseteq Event /\ table \subseteq Event /\ ledger \subseteq Event
        /\ blind \in BOOLEAN
    BY DEF Init
  <1>3. /\ step \in [Request -> {"idle", "serving", "recording", "inserting", "done", "dropped"}]
        /\ recorder \in [Request -> {"none", "kept", "late"}]
        /\ served \in [Request -> Provider]
        /\ resp \in [Request -> Responses \cup {NoResponse}]
        /\ nth \in [Request -> Nat \ {0}]
        /\ stamp \in [Request -> Time]
        /\ sawOn \in [Request -> BOOLEAN]
    BY <1>1 DEF Init
  <1>4. RowsCount
    BY DEF Init, RowsCount
  <1>5. QED
    BY <1>1, <1>2, <1>3, <1>4 DEF TypeOK

LEMMA EndTypes ==
    ASSUME TypeOK, RowsCount, NEW r \in Request, NEW how \in {"done", "dropped"}, End(r, how)
    PROVE  TypeOK' /\ RowsCount'
  <1>1. 0 \in Time
    BY UsageAssumption DEF Time
  <1>2. TypeOK'
    BY <1>1 DEF End, TypeOK, clock, meter
  <1>3. RowsCount'
    BY DEF End, TypeOK, RowsCount, AmountOf, KindOf
  <1>4. QED
    BY <1>2, <1>3

LEMMA TypeNext == TypeOK /\ RowsCount /\ [Next]_vars => TypeOK' /\ RowsCount'
  <1> SUFFICES ASSUME TypeOK, RowsCount, [Next]_vars PROVE TypeOK' /\ RowsCount'
    OBVIOUS
  <1> USE DEF clock, meter, request
  <1> DEFINE Rows(st, n, x) == \A q \in Request : st[q] = "inserting" =>
        n[q] <= Len(Specs[served[q]]) /\ Counts(AmountFor(Specs[served[q]][n[q]].kind, x[q]))
  <1>0. /\ RowsCount <=> Rows(step, nth, resp)
        /\ served' = served => (RowsCount' <=> Rows(step', nth', resp'))
    BY DEF RowsCount, AmountOf, KindOf
  <1>1. ASSUME NEW r \in Request, Serve(r) PROVE TypeOK' /\ RowsCount'
    <2>1. TypeOK'
      BY <1>1 DEF Serve, Recorder, Delivery, TypeOK
    <2>2. Rows(step', nth', resp')
      BY <1>0, <1>1 DEF Serve, TypeOK
    <2>3. QED
      BY <1>0, <1>1, <2>1, <2>2 DEF Serve
  <1>2. ASSUME NEW r \in Request, Finish(r) PROVE TypeOK' /\ RowsCount'
    <2>1. TypeOK'
      BY <1>2 DEF Finish, TypeOK
    <2>2. Rows(step', nth', resp')
      BY <1>0, <1>2 DEF Finish, TypeOK
    <2>3. QED
      BY <1>0, <1>2, <2>1, <2>2 DEF Finish
  <1>3. ASSUME NEW r \in Request, FinishUnrecorded(r) PROVE TypeOK' /\ RowsCount'
    BY <1>3, EndTypes DEF FinishUnrecorded
  <1>4. ASSUME NEW r \in Request, Charge(r) PROVE TypeOK' /\ RowsCount'
    <2>1. EventOf(r) \in Event
      BY <1>4, EventShape DEF Charge
    <2>2. log' \subseteq Event /\ ledger' \subseteq Event
      BY <1>4, <2>1 DEF Charge, TypeOK
    <2>3. TypeOK'
      BY <1>4, <2>2 DEF Charge, TypeOK
    <2>4. Rows(step', nth', resp')
      BY <1>0, <1>4 DEF Charge, TypeOK, AmountOf, KindOf
    <2>5. QED
      BY <1>0, <1>4, <2>3, <2>4 DEF Charge
  <1>5. ASSUME NEW r \in Request, Skip(r) PROVE TypeOK' /\ RowsCount'
    <2>1. TypeOK'
      BY <1>5 DEF Skip, TypeOK
    <2>2. Rows(step', nth', resp')
      BY <1>0, <1>5 DEF Skip, TypeOK
    <2>3. QED
      BY <1>0, <1>5, <2>1, <2>2 DEF Skip
  <1>6. ASSUME NEW r \in Request, Insert(r) PROVE TypeOK' /\ RowsCount'
    <2>1. EventOf(r) \in Event
      BY <1>6, EventShape DEF Insert, RowsCount
    <2>2. table' \subseteq Event
      BY <1>6, <2>1 DEF Insert, Row, TypeOK
    <2>3. TypeOK'
      BY <1>6, <2>2 DEF Insert, TypeOK
    <2>4. Rows(step', nth', resp')
      BY <1>0, <1>6 DEF Insert, TypeOK
    <2>5. QED
      BY <1>0, <1>6, <2>3, <2>4 DEF Insert
  <1>7. ASSUME NEW r \in Request, RecordingEnds(r) PROVE TypeOK' /\ RowsCount'
    BY <1>7, EndTypes DEF RecordingEnds
  <1>8. ASSUME NEW r \in Request, Drop(r) PROVE TypeOK' /\ RowsCount'
    BY <1>8, EndTypes DEF Drop
  <1>9. CASE Tick
    <2>1. now' \in Time /\ peak' \in Time
      BY <1>9, UsageAssumption DEF Tick, TypeOK, Time
    <2>2. QED
      BY <1>0, <1>9, <2>1 DEF Tick, TypeOK
  <1>10. CASE SetBack
    <2>1. now' \in Time
      BY <1>10, UsageAssumption DEF SetBack, TypeOK, Time
    <2>2. QED
      BY <1>0, <1>10, <2>1 DEF SetBack, TypeOK
  <1>11. CASE Toggle
    <2>1. toggles' \in 0..MaxToggles /\ on' \in BOOLEAN
      BY <1>11, UsageAssumption DEF Toggle, TypeOK
    <2>2. sawOn' \in [Request -> BOOLEAN]
      BY <1>11 DEF Toggle, TypeOK
    <2>3. QED
      BY <1>0, <1>11, <2>1, <2>2 DEF Toggle, TypeOK
  <1>12. CASE Restart
    <2>1. restarts' \in 0..MaxRestarts
      BY <1>12, UsageAssumption DEF Restart, TypeOK
    <2>1a. on' \in BOOLEAN /\ blind' \in BOOLEAN
      BY <1>12, UsageAssumption, Zenon DEF Restart
    <2>2. log' \subseteq Event /\ table' \subseteq Event /\ ledger' \subseteq Event
      BY <1>12 DEF Restart, TypeOK
    <2>3. 0 \in Time
      BY UsageAssumption DEF Time
    <2>4. /\ step' \in [Request -> {"idle", "serving", "recording", "inserting", "done", "dropped"}]
          /\ recorder' \in [Request -> {"none", "kept", "late"}]
          /\ resp' \in [Request -> Responses \cup {NoResponse}]
          /\ nth' \in [Request -> Nat \ {0}]
          /\ stamp' \in [Request -> Time]
      BY <1>12, <2>3 DEF Restart, TypeOK
    <2>5. TypeOK'
      BY <1>12, <2>1, <2>1a, <2>2, <2>4 DEF Restart, TypeOK
    <2>6. RowsCount'
      BY <1>12 DEF Restart, RowsCount
    <2>7. QED
      BY <2>5, <2>6
  <1>13. CASE UNCHANGED vars
    <2>1. TypeOK'
      BY <1>13 DEF vars, TypeOK
    <2>2. QED
      BY <1>0, <1>13, <2>1 DEF vars
  <1>14. QED
    BY <1>1, <1>2, <1>3, <1>4, <1>5, <1>6, <1>7, <1>8, <1>9, <1>10, <1>11, <1>12, <1>13
       DEF Next, Handle

\* The meter's state keeps its types.
THEOREM TypeCorrect == Spec => []TypeOK
  <1>1. Init => TypeOK /\ RowsCount
    BY TypeInit
  <1>2. TypeOK /\ RowsCount /\ [Next]_vars => (TypeOK /\ RowsCount)'
    BY TypeNext
  <1>3. QED
    BY <1>1, <1>2, PTL DEF Spec

-----------------------------------------------------------------------------
(* The clock and the log.                                                   *)

LEMMA ClockNext == TypeOK /\ ClockIsClose /\ [Next]_vars => ClockIsClose'
  <1> SUFFICES ASSUME TypeOK, ClockIsClose, [Next]_vars PROVE ClockIsClose'
    OBVIOUS
  <1> USE DEF clock, request
  <1>1. ASSUME NEW r \in Request, Handle(r) PROVE ClockIsClose'
    <2>1. now' = now /\ peak' = peak
      BY <1>1 DEF Handle, Serve, Finish, FinishUnrecorded, Charge, Skip, Insert,
                  RecordingEnds, Drop, End
    <2>2. \A q \in Request : stamp'[q] \in {stamp[q], now, 0}
      BY <1>1 DEF Handle, Serve, Finish, FinishUnrecorded, Charge, Skip, Insert,
                  RecordingEnds, Drop, End, TypeOK
    <2>3. 0 <= peak
      BY UsageAssumption DEF TypeOK, Time
    <2>4. QED
      BY <2>1, <2>2, <2>3 DEF ClockIsClose
  <1>2. CASE Tick
    BY <1>2, UsageAssumption DEF Tick, ClockIsClose, TypeOK, Time
  <1>3. CASE SetBack
    BY <1>3, UsageAssumption DEF SetBack, ClockIsClose, TypeOK, Time
  <1>4. CASE Toggle
    BY <1>4 DEF Toggle, ClockIsClose
  <1>5. CASE Restart
    BY <1>5, UsageAssumption DEF Restart, ClockIsClose, TypeOK, Time
  <1>6. CASE UNCHANGED vars
    BY <1>6 DEF vars, ClockIsClose
  <1>7. QED
    BY <1>1, <1>2, <1>3, <1>4, <1>5, <1>6 DEF Next

\* The three parts of the invariant that speak of the log.
LogInv == OnlyOldIsDropped /\ RowsAreLogged /\ TableIsCounted

\* Nothing recent is dropped by whoever records.
LEMMA RecentIsKept ==
    ASSUME TypeOK, ClockIsClose, NEW r \in Request, Charge(r),
           NEW e \in Event, e \in log \cup {EventOf(r)}, e.ts >= peak - Retain
    PROVE  e \in log'
  <1>1. stamp[r] <= peak /\ stamp[r] \in Int /\ peak \in Int /\ Retain \in Int /\ e.ts \in Int
    BY UsageAssumption DEF TypeOK, ClockIsClose, Time, Event
  <1>2. Kept(e, stamp[r])
    BY <1>1 DEF Kept
  <1>3. QED
    BY <1>2 DEF Charge

LEMMA ChargeLog ==
    ASSUME TypeOK, RowsCount, ClockIsClose, LogInv, NEW r \in Request, Charge(r)
    PROVE  LogInv'
  <1> USE DEF clock, request
  <1>1. EventOf(r) \in Event /\ EventOf(r).ts = stamp[r]
    BY EventShape DEF Charge
  <1>2. /\ stamp[r] <= peak /\ stamp[r] \in Int /\ peak \in Int /\ Retain \in Nat
        /\ \A e \in Event : e.ts \in Int
    BY UsageAssumption DEF TypeOK, ClockIsClose, Time, Event
  <1>3. peak' = peak /\ table' = table /\ blind' = blind
    BY DEF Charge
  <1>4. OnlyOldIsDropped'
    <2>1. log' \subseteq ledger'
      BY DEF Charge, LogInv, OnlyOldIsDropped
    <2>2. ASSUME NEW e \in ledger', e \notin log' PROVE e.ts < peak - Retain
      <3>1. e \in Event
        BY <1>1 DEF Charge, TypeOK
      <3>2. CASE e \in log \cup {EventOf(r)}
        <4>1. ~(e.ts >= peak - Retain)
          BY <3>1, <3>2, <2>2, RecentIsKept
        <4>2. QED
          BY <3>1, <4>1, <1>2
      <3>3. CASE e \in ledger \ log
        BY <3>3 DEF LogInv, OnlyOldIsDropped
      <3>4. QED
        BY <3>2, <3>3, <2>2 DEF Charge
    <2>3. QED
      BY <2>1, <2>2, <1>3 DEF OnlyOldIsDropped
  <1>5. RowsAreLogged'
    <2> SUFFICES ASSUME NEW q \in Request, step'[q] = "inserting", stamp[q] >= peak - Retain
                 PROVE  EventOf(q) \in log'
      BY <1>3 DEF RowsAreLogged, Charge, EventOf, KindOf, AmountOf
    <2>1. CASE q = r
      BY <2>1, <1>1, RecentIsKept
    <2>2. CASE q # r
      <3>1. step[q] = "inserting"
        BY <2>2 DEF Charge, TypeOK
      <3>2. EventOf(q) \in log
        BY <3>1 DEF LogInv, RowsAreLogged
      <3>3. EventOf(q) \in Event /\ EventOf(q).ts = stamp[q]
        BY <3>1, EventShape DEF RowsCount
      <3>4. QED
        BY <3>2, <3>3, RecentIsKept
    <2>3. QED
      BY <2>1, <2>2
  <1>6. TableIsCounted'
    <2> SUFFICES ASSUME ~blind, NEW e \in table, e.ts >= peak - Retain
                 PROVE  e \in log'
      BY <1>3 DEF TableIsCounted
    <2>1. e \in log
      BY DEF LogInv, TableIsCounted
    <2>2. e \in Event
      BY DEF TypeOK
    <2>3. QED
      BY <2>1, <2>2, RecentIsKept
  <1>7. QED
    BY <1>4, <1>5, <1>6 DEF LogInv

\* A step that leaves the log alone and starts no row.
LEMMA QuietLog ==
    ASSUME TypeOK, LogInv, UNCHANGED <<peak, meter, served>>,
           \A q \in Request : step'[q] = "inserting" =>
              /\ step[q] = "inserting"
              /\ nth'[q] = nth[q] /\ resp'[q] = resp[q] /\ stamp'[q] = stamp[q]
    PROVE  LogInv'
  <1> USE DEF meter
  <1>1. OnlyOldIsDropped' /\ TableIsCounted'
    BY DEF LogInv, OnlyOldIsDropped, TableIsCounted
  <1>2. RowsAreLogged'
    <2> SUFFICES ASSUME NEW q \in Request, step'[q] = "inserting", stamp'[q] >= peak - Retain
                 PROVE  EventOf(q)' \in log
      BY DEF RowsAreLogged
    <2>1. EventOf(q)' = EventOf(q)
      BY DEF EventOf, KindOf, AmountOf
    <2>2. QED
      BY <2>1 DEF LogInv, RowsAreLogged
  <1>3. QED
    BY <1>1, <1>2 DEF LogInv

LEMMA LogNext ==
    TypeOK /\ RowsCount /\ ClockIsClose /\ LogInv /\ [Next]_vars => LogInv'
  <1> SUFFICES ASSUME TypeOK, RowsCount, ClockIsClose, LogInv, [Next]_vars PROVE LogInv'
    OBVIOUS
  <1> USE DEF clock, meter, request
  <1>1. ASSUME NEW r \in Request,
               \/ Serve(r) \/ Finish(r) \/ FinishUnrecorded(r)
               \/ Skip(r) \/ RecordingEnds(r) \/ Drop(r)
        PROVE  LogInv'
    <2>1. /\ UNCHANGED <<peak, meter, served>>
          /\ \A q \in Request : step'[q] = "inserting" =>
                /\ step[q] = "inserting"
                /\ nth'[q] = nth[q] /\ resp'[q] = resp[q] /\ stamp'[q] = stamp[q]
      BY <1>1 DEF Serve, Finish, FinishUnrecorded, Skip, RecordingEnds, Drop, End, TypeOK
    <2>2. QED
      BY <2>1, QuietLog
  <1>2. ASSUME NEW r \in Request, Charge(r) PROVE LogInv'
    BY <1>2, ChargeLog
  <1>3. ASSUME NEW r \in Request, Insert(r) PROVE LogInv'
    <2>1. EventOf(r) \in Event /\ EventOf(r).ts = stamp[r]
      BY <1>3, EventShape DEF Insert, RowsCount
    <2>2. TableIsCounted'
      BY <1>3, <2>1 DEF Insert, Row, LogInv, RowsAreLogged, TableIsCounted
    <2>3. OnlyOldIsDropped'
      BY <1>3 DEF Insert, LogInv, OnlyOldIsDropped
    <2>4. RowsAreLogged'
      <3> SUFFICES ASSUME NEW q \in Request, step'[q] = "inserting", stamp'[q] >= peak - Retain
                   PROVE  EventOf(q)' \in log
        BY <1>3 DEF RowsAreLogged, Insert
      <3>1. q # r /\ step[q] = "inserting" /\ nth'[q] = nth[q]
        BY <1>3 DEF Insert, TypeOK
      <3>2. EventOf(q)' = EventOf(q)
        BY <1>3, <3>1 DEF Insert, EventOf, KindOf, AmountOf
      <3>3. QED
        BY <1>3, <3>1, <3>2 DEF LogInv, RowsAreLogged, Insert
    <2>5. QED
      BY <2>2, <2>3, <2>4 DEF LogInv
  <1>4. CASE Tick
    <2>1. /\ peak \in Int /\ peak' \in Int /\ peak <= peak' /\ Retain \in Int
          /\ \A e \in Event : e.ts \in Int
          /\ \A q \in Request : stamp[q] \in Int
      BY <1>4, UsageAssumption DEF Tick, TypeOK, Time, Event
    <2>2. OnlyOldIsDropped'
      BY <1>4, <2>1 DEF Tick, LogInv, OnlyOldIsDropped, TypeOK
    <2>3. TableIsCounted'
      BY <1>4, <2>1 DEF Tick, LogInv, TableIsCounted, TypeOK
    <2>4. RowsAreLogged'
      <3> SUFFICES ASSUME NEW q \in Request, step[q] = "inserting", stamp[q] >= peak' - Retain
                   PROVE  EventOf(q) \in log
        BY <1>4 DEF Tick, RowsAreLogged, EventOf, KindOf, AmountOf
      <3>1. QED
        BY <2>1 DEF LogInv, RowsAreLogged
    <2>5. QED
      BY <2>2, <2>3, <2>4 DEF LogInv
  <1>5. CASE SetBack \/ Toggle \/ UNCHANGED vars
    BY <1>5, QuietLog DEF SetBack, Toggle, vars
  <1>6. CASE Restart
    <2>1. /\ now <= peak /\ now \in Int /\ peak \in Int /\ Retain \in Int
          /\ \A e \in Event : e.ts \in Int
      BY UsageAssumption DEF ClockIsClose, TypeOK, Time, Event
    <2>2. OnlyOldIsDropped'
      BY <1>6, <2>1 DEF Restart, OnlyOldIsDropped, Loadable, TypeOK
    <2>3. TableIsCounted'
      BY <1>6, <2>1 DEF Restart, TableIsCounted, Loadable, TypeOK
    <2>4. RowsAreLogged'
      BY <1>6 DEF Restart, RowsAreLogged
    <2>5. QED
      BY <2>2, <2>3, <2>4 DEF LogInv
  <1>7. QED
    BY <1>1, <1>2, <1>3, <1>4, <1>5, <1>6 DEF Next, Handle

-----------------------------------------------------------------------------
(* Who is charged.                                                          *)

LEMMA SawOnNext ==
    TypeOK /\ RowsCount /\ RecordersSawOn /\ [Next]_vars => RecordersSawOn'
  <1> SUFFICES ASSUME TypeOK, RowsCount, RecordersSawOn, [Next]_vars PROVE RecordersSawOn'
    OBVIOUS
  <1> USE DEF clock, meter, request
  <1>1. ASSUME NEW r \in Request, Serve(r) PROVE RecordersSawOn'
    BY <1>1 DEF Serve, Recorder, Delivery, RecordersSawOn, TypeOK, Event
  <1>2. ASSUME NEW r \in Request, Finish(r) PROVE RecordersSawOn'
    BY <1>2 DEF Finish, Records, RecordersSawOn, TypeOK, Event
  <1>3. ASSUME NEW r \in Request, NEW how \in {"done", "dropped"},
               step[r] # "idle", End(r, how)
        PROVE  RecordersSawOn'
    BY <1>3 DEF End, RecordersSawOn, TypeOK, Event
  <1>4. ASSUME NEW r \in Request, Charge(r) PROVE RecordersSawOn'
    <2>1. EventOf(r) \in Event /\ EventOf(r).by = r
      BY <1>4, EventShape DEF Charge
    <2>2. \A e \in ledger' \cup table' : step'[e.by] # "idle" /\ sawOn'[e.by]
      BY <1>4, <2>1 DEF Charge, RecordersSawOn, TypeOK, Event
    <2>3. QED
      BY <1>4, <2>2 DEF Charge, RecordersSawOn, TypeOK
  <1>5. ASSUME NEW r \in Request, Skip(r) PROVE RecordersSawOn'
    BY <1>5 DEF Skip, RecordersSawOn
  <1>6. ASSUME NEW r \in Request, Insert(r) PROVE RecordersSawOn'
    <2>1. EventOf(r) \in Event /\ EventOf(r).by = r
      BY <1>6, EventShape DEF Insert, RowsCount
    <2>2. \A e \in ledger' \cup table' : step'[e.by] # "idle" /\ sawOn'[e.by]
      BY <1>6, <2>1 DEF Insert, Row, RecordersSawOn, TypeOK, Event
    <2>3. QED
      BY <1>6, <2>2 DEF Insert, RecordersSawOn, TypeOK
  <1>7. CASE Tick \/ SetBack \/ UNCHANGED vars
    BY <1>7 DEF Tick, SetBack, vars, RecordersSawOn
  <1>8. CASE Toggle
    BY <1>8 DEF Toggle, RecordersSawOn, TypeOK, Event
  <1>9. CASE Restart
    BY <1>9 DEF Restart, RecordersSawOn, TypeOK, Event
  <1>10. QED
    BY <1>1, <1>2, <1>3, <1>4, <1>5, <1>6, <1>7, <1>8, <1>9
       DEF Next, Handle, FinishUnrecorded, RecordingEnds, Drop

-----------------------------------------------------------------------------
(* What a recording has charged so far.                                     *)

RecordingInv == StartsAtFirst /\ ChargedSoFar

\* Whoever charges has charged the spec it is at.
LEMMA ChargeCounts ==
    ASSUME TypeOK, RecordingInv, NEW r \in Request, Charge(r)
    PROVE  RecordingInv'
  <1>1. /\ step' = [step EXCEPT ![r] = "inserting"] /\ step[r] = "recording"
        /\ ledger' = ledger \cup {EventOf(r)}
        /\ UNCHANGED <<served, resp, nth>>
    BY DEF Charge
  <1>2. EventOf(r).by = r /\ EventOf(r).nth = nth[r]
    BY DEF EventOf
  <1>3. DOMAIN step = Request
    BY DEF TypeOK
  <1>4. StartsAtFirst'
    BY <1>1, <1>3 DEF RecordingInv, StartsAtFirst
  <1>5. ChargedSoFar'
    BY <1>1, <1>2, <1>3 DEF RecordingInv, ChargedSoFar
  <1>6. QED
    BY <1>4, <1>5 DEF RecordingInv

\* Whoever goes on to the next spec has charged the one before, if it counts.
LEMMA NextSpecCounts ==
    ASSUME TypeOK, RecordingInv, NEW r \in Request, Skip(r) \/ Insert(r)
    PROVE  RecordingInv'
  <1>1. /\ nth' = [nth EXCEPT ![r] = @ + 1] /\ nth[r] \in Nat \ {0}
        /\ step[r] \in {"recording", "inserting"} /\ step' = [step EXCEPT ![r] = "recording"]
        /\ UNCHANGED <<served, resp, ledger>>
    BY DEF Skip, Insert, TypeOK, meter
  <1>2. DOMAIN step = Request /\ DOMAIN nth = Request
    BY DEF TypeOK
  <1>3. StartsAtFirst'
    BY <1>1, <1>2 DEF RecordingInv, StartsAtFirst
  <1>4. step[r] = "recording" => ~Counts(AmountFor(Specs[served[r]][nth[r]].kind, resp[r]))
    BY DEF Skip, Insert, AmountOf, KindOf
  <1>5. ChargedSoFar'
    <2> SUFFICES ASSUME NEW q \in Request, step'[q] \in {"recording", "inserting"},
                        NEW i \in 1..Len(Specs[served[q]]),
                        i < nth'[q] \/ (step'[q] = "inserting" /\ i = nth'[q]),
                        Counts(AmountFor(Specs[served[q]][i].kind, resp[q]))
                 PROVE  \E e \in ledger : e.by = q /\ e.nth = i
      BY <1>1 DEF ChargedSoFar
    <2>1. CASE q # r
      <3>1. step'[q] = step[q] /\ nth'[q] = nth[q]
        BY <1>1, <1>2, <2>1
      <3>2. QED
        BY <3>1 DEF RecordingInv, ChargedSoFar
    <2>2. CASE q = r
      <3>1. step'[r] = "recording" /\ nth'[r] = nth[r] + 1
        BY <1>1, <1>2
      <3>2. i < nth[r] \/ i = nth[r]
        <4>1. i \in Nat /\ i < nth[r] + 1
          BY <2>2, <3>1
        <4>2. QED
          BY <1>1, <4>1
      <3>3. i = nth[r] => step[r] = "inserting"
        BY <1>1, <1>4, <2>2
      <3>4. QED
        BY <1>1, <2>2, <3>2, <3>3 DEF RecordingInv, ChargedSoFar
    <2>3. QED
      BY <2>1, <2>2
  <1>6. QED
    BY <1>3, <1>5 DEF RecordingInv

\* The other steps of a handler begin or end a recording.
LEMMA OthersCount ==
    ASSUME TypeOK, RecordingInv, NEW r \in Request,
           Serve(r) \/ Finish(r) \/ FinishUnrecorded(r) \/ RecordingEnds(r) \/ Drop(r)
    PROVE  RecordingInv'
  <1>1. /\ DOMAIN step = Request /\ DOMAIN nth = Request /\ DOMAIN resp = Request
        /\ UNCHANGED <<served, ledger>>
    BY DEF TypeOK, Serve, Finish, FinishUnrecorded, RecordingEnds, Drop, End, meter
  <1>2. \A q \in Request \ {r} : step'[q] = step[q] /\ nth'[q] = nth[q] /\ resp'[q] = resp[q]
    BY <1>1 DEF Serve, Finish, FinishUnrecorded, RecordingEnds, Drop, End, meter
  <1>3. nth'[r] = 1 /\ step'[r] # "inserting"
    BY <1>1 DEF RecordingInv, StartsAtFirst, Serve, Finish, FinishUnrecorded, RecordingEnds,
                Drop, End, meter
  <1>4. StartsAtFirst'
    BY <1>2, <1>3 DEF RecordingInv, StartsAtFirst
  <1>5. ChargedSoFar'
    <2> SUFFICES ASSUME NEW q \in Request, step'[q] \in {"recording", "inserting"},
                        NEW i \in 1..Len(Specs[served[q]]),
                        i < nth'[q] \/ (step'[q] = "inserting" /\ i = nth'[q]),
                        Counts(AmountFor(Specs[served[q]][i].kind, resp'[q]))
                 PROVE  \E e \in ledger : e.by = q /\ e.nth = i
      BY <1>1 DEF ChargedSoFar
    <2>1. q # r
      BY <1>3
    <2>2. QED
      BY <1>2, <2>1 DEF RecordingInv, ChargedSoFar
  <1>6. QED
    BY <1>4, <1>5 DEF RecordingInv

LEMMA RecordingNext == TypeOK /\ RecordingInv /\ [Next]_vars => RecordingInv'
  <1> SUFFICES ASSUME TypeOK, RecordingInv, [Next]_vars PROVE RecordingInv'
    OBVIOUS
  <1>1. ASSUME NEW r \in Request, Handle(r) PROVE RecordingInv'
    BY <1>1, ChargeCounts, NextSpecCounts, OthersCount DEF Handle
  <1>2. CASE Tick \/ SetBack \/ Toggle \/ UNCHANGED vars
    <2>1. UNCHANGED <<step, served, resp, nth, ledger>>
      BY <1>2 DEF Tick, SetBack, Toggle, vars, request, meter
    <2>2. QED
      BY <2>1 DEF RecordingInv, StartsAtFirst, ChargedSoFar
  <1>3. CASE Restart
    <2>1. \A r \in Request : step'[r] \notin {"recording", "inserting"} /\ nth'[r] = 1
      BY <1>3 DEF Restart
    <2>2. QED
      BY <2>1 DEF RecordingInv, StartsAtFirst, ChargedSoFar
  <1>4. QED
    BY <1>1, <1>2, <1>3 DEF Next

\* Log and table hold finitely many events.
LEMMA FiniteNext ==
    ASSUME IsFiniteSet(log), IsFiniteSet(table), [Next]_vars
    PROVE  IsFiniteSet(log)' /\ IsFiniteSet(table)'
  <1>1. ASSUME NEW r \in Request, Handle(r) PROVE IsFiniteSet(log') /\ IsFiniteSet(table')
    <2>1. IsFiniteSet(log \cup {EventOf(r)}) /\ IsFiniteSet(table \cup {EventOf(r)})
      BY FS_AddElement
    <2>2. log' \subseteq log \cup {EventOf(r)} /\ table' \subseteq table \cup {EventOf(r)}
      BY <1>1 DEF Handle, Serve, Finish, FinishUnrecorded, Charge, Skip, Insert, Row,
                  RecordingEnds, Drop, End, meter
    <2>3. QED
      BY <2>1, <2>2, FS_Subset
  <1>2. CASE Tick \/ SetBack \/ Toggle \/ UNCHANGED vars
    BY <1>2 DEF Tick, SetBack, Toggle, vars, meter
  <1>3. CASE Restart
    <2>1. log' \subseteq table /\ table' \subseteq table
      BY <1>3 DEF Restart
    <2>2. QED
      BY <2>1, FS_Subset
  <1>4. QED
    BY <1>1, <1>2, <1>3 DEF Next

-----------------------------------------------------------------------------
(* The inductive invariant and what follows.                                *)

LEMMA InitIInv == Init => IInv
  <1> SUFFICES ASSUME Init PROVE IInv
    OBVIOUS
  <1>1. TypeOK /\ RowsCount
    BY TypeInit
  <1>2. ClockIsClose
    BY UsageAssumption DEF Init, ClockIsClose
  <1>3. OnlyOldIsDropped /\ RowsAreLogged /\ TableIsCounted /\ RecordersSawOn
    BY DEF Init, OnlyOldIsDropped, RowsAreLogged, TableIsCounted, RecordersSawOn
  <1>4. StartsAtFirst /\ ChargedSoFar
    BY DEF Init, StartsAtFirst, ChargedSoFar
  <1>5. IsFiniteSet(log) /\ IsFiniteSet(table)
    BY FS_EmptySet DEF Init
  <1>6. QED
    BY <1>1, <1>2, <1>3, <1>4, <1>5 DEF IInv

\* The inductive invariant: what the log lacks is older than any window
\* reaches, rows follow their events, recorders have seen the switch on.
THEOREM Invariance == Spec => []IInv
  <1>1. IInv /\ [Next]_vars => IInv'
    BY TypeNext, ClockNext, LogNext, SawOnNext, RecordingNext, FiniteNext
       DEF IInv, LogInv, RecordingInv
  <1>2. QED
    BY InitIInv, <1>1, PTL DEF Spec

\* Windows count exactly what was charged, although old events are dropped by
\* requests with stale stamps under a clock that may be set back (record).
THEOREM PruningIsInvisible == Spec => []WindowsAreExact
  <1>1. IInv => WindowsAreExact
    <2> SUFFICES ASSUME IInv, NEW p \in Provider, NEW i \in 1..Len(Specs[p]),
                        NEW w \in Specs[p][i].windows
                 PROVE  InWindow(log, p, Specs[p][i].kind, w.secs)
                          = InWindow(ledger, p, Specs[p][i].kind, w.secs)
      BY DEF WindowsAreExact
    <2>1. w.secs + Slack <= Retain
      BY UsageAssumption
    <2>2. w.secs \in Nat
      <3>0. Specs[p] \in Seq([kind : Kind, windows : SUBSET Window])
        BY UsageAssumption
      <3>1. i \in Nat \ {0} /\ i <= Len(Specs[p])
        BY <3>0
      <3>2. Specs[p][i] \in [kind : Kind, windows : SUBSET Window]
        BY <3>0, <3>1, ElementAt
      <3>3. QED
        BY <3>2 DEF Window
    <2>3. log \subseteq ledger /\ \A e \in ledger \ log : e.ts < peak - Retain
      BY DEF IInv, OnlyOldIsDropped
    <2>4. /\ peak <= now + Slack /\ now \in Int /\ peak \in Int /\ Slack \in Int /\ Retain \in Int
          /\ \A e \in ledger : e.ts \in Int
      BY UsageAssumption DEF IInv, ClockIsClose, TypeOK, Time, Event
    <2>5. \A e \in ledger \ log : ~(e.ts > now - w.secs)
      BY <2>1, <2>2, <2>3, <2>4
    <2>6. QED
      BY <2>3, <2>5 DEF InWindow
  <1>2. QED
    BY Invariance, <1>1, PTL

\* The running process counts every recent row of the table (record pushes
\* before it inserts; load at startup).
THEOREM MemoryIsAuthoritative == Spec => []TableIsCounted
  BY Invariance, PTL DEF IInv

\* Nobody is charged who was served with the switch off throughout.
THEOREM OffMeansUncharged == Spec => []NoChargeWhileOff
  <1>1. IInv => NoChargeWhileOff
    BY DEF IInv, RecordersSawOn, NoChargeWhileOff
  <1>2. QED
    BY Invariance, <1>1, PTL

\* A recording that is not cut short has charged every spec whose amount
\* counts (record_amounts, which goes on whatever a spec yields).
THEOREM EverySpecIsCharged == Spec => EverySpecCharged
  <1>1. IInv /\ [Next]_vars =>
            [\A r \in Request : step[r] = "recording" /\ step'[r] = "done" =>
                \A i \in 1..Len(Specs[served[r]]) :
                    Counts(AmountFor(Specs[served[r]][i].kind, resp[r])) =>
                        \E e \in ledger : e.by = r /\ e.nth = i]_vars
    <2> SUFFICES ASSUME IInv, Next, NEW r \in Request, step[r] = "recording", step'[r] = "done",
                        NEW i \in 1..Len(Specs[served[r]]),
                        Counts(AmountFor(Specs[served[r]][i].kind, resp[r]))
                 PROVE  \E e \in ledger : e.by = r /\ e.nth = i
      OBVIOUS
    <2>1. nth[r] > Len(Specs[served[r]])
      <3>1. ~Tick /\ ~SetBack /\ ~Toggle
        BY DEF Tick, SetBack, Toggle, request
      <3>2. ~Restart
        BY DEF Restart
      <3>3. PICK q \in Request : Handle(q)
        BY <3>1, <3>2 DEF Next
      <3>4. DOMAIN step = Request
        BY DEF IInv, TypeOK
      <3>5. q = r
        BY <3>3, <3>4 DEF Handle, Serve, Finish, FinishUnrecorded, Charge, Skip, Insert,
                          RecordingEnds, Drop, End
      <3>6. RecordingEnds(r)
        BY <3>3, <3>4, <3>5 DEF Handle, Serve, Finish, FinishUnrecorded, Charge, Skip, Insert,
                                Drop, End
      <3>7. QED
        BY <3>6 DEF RecordingEnds
    <2>2. i < nth[r]
      <3>1. Specs[served[r]] \in Seq([kind : Kind, windows : SUBSET Window]) /\ nth[r] \in Nat
        BY UsageAssumption DEF IInv, TypeOK
      <3>2. QED
        BY <2>1, <3>1
    <2>3. QED
      BY <2>2 DEF IInv, ChargedSoFar
  <1>2. QED
    BY Invariance, <1>1, PTL DEF Spec, EverySpecCharged

-----------------------------------------------------------------------------
(* Sums of amounts: more events never add up to less, in whichever order    *)
(* they are added.                                                          *)

Chosen(S) == CHOOSE e \in S : TRUE

\* f adds up the amounts of every subset of S, as MapThenSumSet does.
AddsUp(f, S) ==
    f = [s \in SUBSET S |-> IF s = {} THEN 0 ELSE Chosen(s).amount + f[s \ {Chosen(s)}]]

LEMMA SomethingAddsUp ==
    ASSUME NEW S, IsFiniteSet(S)
    PROVE  \E f : AddsUp(f, S)
<1> DEFINE Total(f, s) == IF s = {} THEN 0 ELSE Chosen(s).amount + f[s \ {Chosen(s)}]
           Upto(f, n) == \A s \in SUBSET S : Cardinality(s) <= n => f[s] = Total(f, s)
           T == {n \in Nat : \E f : Upto(f, n)}
<1>0. \A s \in SUBSET S : IsFiniteSet(s) /\ Cardinality(s) \in Nat
    BY FS_Subset, FS_CardinalityType
<1>1. 0 \in T
    <2> DEFINE f == [s \in SUBSET S |-> 0]
    <2>1. Upto(f, 0)
        <3>1. \A s \in SUBSET S : Cardinality(s) <= 0 => s = {}
            BY <1>0, FS_EmptySet
        <3>2. QED
            BY <3>1
    <2> HIDE DEF f, Upto
    <2>2. QED
        BY <2>1
<1>2. ASSUME NEW n \in Nat, n \in T PROVE n + 1 \in T
    <2>1. PICK f : Upto(f, n)
        BY <1>2
    <2> DEFINE g == [s \in SUBSET S |-> Total(f, s)]
    <2>2. ASSUME NEW s \in SUBSET S, Cardinality(s) <= n + 1, s # {} PROVE g[s] = Total(g, s)
        <3> DEFINE r == s \ {Chosen(s)}
        <3>1. Chosen(s) \in s
            BY <2>2 DEF Chosen
        <3>2. r \in SUBSET S /\ Cardinality(r) <= n
            BY <1>0, <2>2, <3>1, FS_RemoveElement
        <3>3. f[r] = Total(f, r)
            BY <2>1, <3>2
        <3>4. g[r] = Total(f, r)
            BY <3>2
        <3> HIDE DEF r
        <3>5. g[s] = Chosen(s).amount + f[r]
            BY <2>2 DEF r
        <3>6. Total(g, s) = Chosen(s).amount + g[r]
            BY <2>2 DEF r
        <3> HIDE DEF g, Next
        <3>7. QED
            BY <3>3, <3>4, <3>5, <3>6
    <2>3. Upto(g, n + 1)
        BY <2>2
    <2> HIDE DEF g, Upto
    <2>4. QED
        BY <2>3
<1>3. Cardinality(S) \in T
    <2> HIDE DEF T
    <2>1. QED
        BY <1>0, <1>1, <1>2, Induction
<1>4. PICK f : Upto(f, Cardinality(S))
    BY <1>3
<1> DEFINE g == [s \in SUBSET S |-> f[s]]
<1>5. ASSUME NEW s \in SUBSET S PROVE g[s] = Total(g, s)
    <2>1. f[s] = Total(f, s)
        BY <1>0, <1>4, FS_Subset
    <2>2. s \ {Chosen(s)} \in SUBSET S
        OBVIOUS
    <2>3. QED
        BY <2>1, <2>2
<1>6. g = [s \in SUBSET S |-> Total(g, s)]
    <2>1. g = [s \in SUBSET S |-> g[s]]
        OBVIOUS
    <2> HIDE DEF g, Total
    <2>2. QED
        BY <1>5, <2>1
<1> HIDE DEF g
<1>7. AddsUp(g, S)
    BY <1>6 DEF AddsUp
<1>8. QED
    BY <1>7

\* They agree on what they both add up.
LEMMA SumsAgree ==
    ASSUME NEW S, IsFiniteSet(S), NEW R \in SUBSET S, NEW f, NEW g, AddsUp(f, S), AddsUp(g, R)
    PROVE  f[R] = g[R]
<1> DEFINE T == {s \in SUBSET R : f[s] = g[s]}
<1>1. ASSUME NEW s \in SUBSET R
      PROVE  /\ f[s] = IF s = {} THEN 0 ELSE Chosen(s).amount + f[s \ {Chosen(s)}]
             /\ g[s] = IF s = {} THEN 0 ELSE Chosen(s).amount + g[s \ {Chosen(s)}]
    <2>1. s \in SUBSET S
        OBVIOUS
    <2>2. QED
        BY <2>1 DEF AddsUp
<1>2. {} \in T
    BY <1>1
<1>3. ASSUME NEW s \in SUBSET R, s # {}, \A e \in s : s \ {e} \in T PROVE s \in T
    <2>1. Chosen(s) \in s
        BY <1>3 DEF Chosen
    <2>2. f[s \ {Chosen(s)}] = g[s \ {Chosen(s)}]
        BY <1>3, <2>1
    <2>3. QED
        BY <1>1, <1>3, <2>2
<1>4. IsFiniteSet(R)
    BY FS_Subset
<1>5. R \in T
    <2> HIDE DEF T
    <2>1. QED
        BY <1>2, <1>3, <1>4, Shrinking
<1>6. QED
    BY <1>5

LEMMA AmountsAddUp ==
    ASSUME NEW S, IsFiniteSet(S)
    PROVE  \E f : AddsUp(f, S) /\ \A R \in SUBSET S : Amounts(R) = f[R]
<1>1. ASSUME NEW R, IsFiniteSet(R)
      PROVE  \E g : AddsUp(g, R) /\ Amounts(R) = g[R]
    <2> DEFINE g == CHOOSE g : AddsUp(g, R)
    <2>1. AddsUp(g, R)
        BY <1>1, SomethingAddsUp
    <2>2. Amounts(R) = g[R]
        BY DEF Amounts, MapThenSumSet, MapThenFoldSet, AddsUp, Chosen
    <2> HIDE DEF g
    <2>3. QED
        BY <2>1, <2>2
<1>2. PICK f : AddsUp(f, S)
    BY SomethingAddsUp
<1>3. ASSUME NEW R \in SUBSET S PROVE Amounts(R) = f[R]
    <2>1. IsFiniteSet(R)
        BY FS_Subset
    <2>2. PICK g : AddsUp(g, R) /\ Amounts(R) = g[R]
        BY <1>1, <2>1
    <2>3. f[R] = g[R]
        BY <1>2, <2>2, SumsAgree
    <2>4. QED
        BY <2>2, <2>3
<1>4. QED
    BY <1>2, <1>3

LEMMA AmountsOfNone == Amounts({}) = 0
<1>1. PICK f : AddsUp(f, {}) /\ Amounts({}) = f[{}]
    BY AmountsAddUp, FS_EmptySet
<1>2. QED
    BY <1>1 DEF AddsUp

LEMMA AmountsOfSome ==
    ASSUME NEW S, IsFiniteSet(S), S # {}
    PROVE  /\ Chosen(S) \in S
           /\ Amounts(S) = Chosen(S).amount + Amounts(S \ {Chosen(S)})
<1>1. PICK f : AddsUp(f, S) /\ \A R \in SUBSET S : Amounts(R) = f[R]
    BY AmountsAddUp
<1>2. f[S] = Chosen(S).amount + f[S \ {Chosen(S)}]
    BY <1>1 DEF AddsUp
<1>3. Amounts(S) = f[S] /\ Amounts(S \ {Chosen(S)}) = f[S \ {Chosen(S)}]
    BY <1>1
<1>4. QED
    BY <1>2, <1>3 DEF Chosen

HasAmounts(S) == IsFiniteSet(S) /\ \A e \in S : e.amount \in Nat

LEMMA AmountsTyped ==
    ASSUME NEW E, HasAmounts(E)
    PROVE  \A S \in SUBSET E : Amounts(S) \in Nat
<1> DEFINE T == {S \in SUBSET E : Amounts(S) \in Nat}
<1>1. {} \in T
    BY AmountsOfNone
<1>2. ASSUME NEW S \in SUBSET E, S # {}, \A e \in S : S \ {e} \in T PROVE S \in T
    <2>1. IsFiniteSet(S)
        BY FS_Subset DEF HasAmounts
    <2>2. Chosen(S) \in S /\ Amounts(S) = Chosen(S).amount + Amounts(S \ {Chosen(S)})
        BY <1>2, <2>1, AmountsOfSome
    <2>3. Amounts(S \ {Chosen(S)}) \in Nat /\ Chosen(S).amount \in Nat
        BY <1>2, <2>2 DEF HasAmounts
    <2>4. QED
        BY <2>2, <2>3
<1>3. \A S \in SUBSET E : S \in T
    <2> HIDE DEF T
    <2>1. QED
        BY <1>1, <1>2, Shrinking DEF HasAmounts
<1>4. QED
    BY <1>3

\* Whichever is taken out first.
LEMMA AmountsWithout ==
    ASSUME NEW E, HasAmounts(E)
    PROVE  \A S \in SUBSET E : \A e \in S : Amounts(S) = e.amount + Amounts(S \ {e})
<1> DEFINE T == {S \in SUBSET E : \A e \in S : Amounts(S) = e.amount + Amounts(S \ {e})}
<1>1. {} \in T
    OBVIOUS
<1>2. ASSUME NEW S \in SUBSET E, S # {}, \A e \in S : S \ {e} \in T PROVE S \in T
    <2> DEFINE c == Chosen(S)
    <2>1. IsFiniteSet(S)
        BY FS_Subset DEF HasAmounts
    <2>2. c \in S /\ Amounts(S) = c.amount + Amounts(S \ {c})
        BY <1>2, <2>1, AmountsOfSome
    <2> HIDE DEF c
    <2> SUFFICES ASSUME NEW e \in S, e # c PROVE Amounts(S) = e.amount + Amounts(S \ {e})
        BY <2>2
    <2> DEFINE others == Amounts(S \ {c, e})
    <2>3. Amounts(S \ {c}) = e.amount + others
        <3>1. e \in S \ {c} /\ (S \ {c}) \ {e} = S \ {c, e}
            OBVIOUS
        <3>2. Amounts(S \ {c}) = e.amount + Amounts((S \ {c}) \ {e})
            BY <1>2, <2>2, <3>1
        <3>3. QED
            BY <3>1, <3>2
    <2>4. Amounts(S \ {e}) = c.amount + others
        <3>1. c \in S \ {e} /\ (S \ {e}) \ {c} = S \ {c, e}
            BY <2>2
        <3>2. Amounts(S \ {e}) = c.amount + Amounts((S \ {e}) \ {c})
            BY <1>2, <3>1
        <3>3. QED
            BY <3>1, <3>2
    <2>5. others \in Nat /\ c.amount \in Nat /\ e.amount \in Nat
        BY <2>2, AmountsTyped DEF HasAmounts
    <2> HIDE DEF others
    <2>6. QED
        BY <2>2, <2>3, <2>4, <2>5
<1>3. \A S \in SUBSET E : S \in T
    <2> HIDE DEF T
    <2>1. QED
        BY <1>1, <1>2, Shrinking DEF HasAmounts
<1>4. QED
    BY <1>3

\* More events, no smaller sum.
LEMMA AmountsGrow ==
    ASSUME NEW E, HasAmounts(E), NEW R \in SUBSET E
    PROVE  Amounts(R) <= Amounts(E) /\ Amounts(R) \in Nat /\ Amounts(E) \in Nat
<1> DEFINE T == {S \in SUBSET E : R \subseteq S => Amounts(R) <= Amounts(S)}
<1>1. {} \in T
    BY AmountsOfNone, AmountsTyped
<1>2. ASSUME NEW S \in SUBSET E, S # {}, \A e \in S : S \ {e} \in T PROVE S \in T
    <2>1. CASE R = S
        BY <2>1, AmountsTyped
    <2>2. CASE R \subseteq S /\ R # S
        <3>1. PICK e \in S : e \notin R
            BY <2>2
        <3>2. Amounts(R) <= Amounts(S \ {e})
            BY <1>2, <2>2, <3>1
        <3>3. Amounts(S) = e.amount + Amounts(S \ {e})
            BY AmountsWithout
        <3>4. e.amount \in Nat /\ Amounts(S \ {e}) \in Nat /\ Amounts(R) \in Nat
            BY AmountsTyped DEF HasAmounts
        <3>5. QED
            BY <3>2, <3>3, <3>4
    <2>3. QED
        BY <2>1, <2>2
<1>3. E \in T
    <2> HIDE DEF T
    <2>1. QED
        BY <1>1, <1>2, Shrinking DEF HasAmounts
<1>4. QED
    BY <1>3, AmountsTyped

-----------------------------------------------------------------------------
(* Demotions.                                                               *)

LEMMA WindowTyped ==
    ASSUME NEW p \in Provider, NEW i \in 1..Len(Specs[p]), NEW w \in Specs[p][i].windows
    PROVE  w.secs \in Nat /\ w.limit \in Int /\ w.secs + Slack <= Retain
  <1>1. Specs[p] \in Seq([kind : Kind, windows : SUBSET Window])
    BY UsageAssumption
  <1>2. i \in Nat \ {0} /\ i <= Len(Specs[p])
    BY <1>1
  <1>3. Specs[p][i] \in [kind : Kind, windows : SUBSET Window]
    BY <1>1, <1>2, ElementAt
  <1>4. QED
    BY <1>3, UsageAssumption DEF Window

\* A window has nothing left when what was spent reaches its limit.
LEMMA NothingLeft ==
    ASSUME NEW limit \in Int, NEW spent \in Nat
    PROVE  Max({limit - spent, 0}) <= 0 <=> limit <= spent
  <1> DEFINE m == Max({limit - spent, 0})
  <1>1. m \in {limit - spent, 0} /\ limit - spent <= m /\ 0 <= m
    <2>1. \E x \in {limit - spent, 0} : \A y \in {limit - spent, 0} : x >= y
      <3>1. CASE limit - spent <= 0
        BY <3>1
      <3>2. CASE ~(limit - spent <= 0)
        BY <3>2
      <3>3. QED
        BY <3>1, <3>2
    <2>2. m \in {limit - spent, 0} /\ \A y \in {limit - spent, 0} : m >= y
      BY <2>1 DEF Max
    <2> HIDE DEF m
    <2>3. QED
      BY <2>2
  <1> HIDE DEF m
  <1>2. m <= 0 <=> limit <= spent
    BY <1>1
  <1>3. QED
    BY <1>2 DEF m

\* Whoever is exhausted stays so while no event leaves a window.
LEMMA ExhaustedGrows ==
    ASSUME TypeOK, TypeOK', IsFiniteSet(log), IsFiniteSet(log'),
           \A p \in Provider : \A i \in 1..Len(Specs[p]) : \A w \in Specs[p][i].windows :
               \A e \in InWindow(log, p, Specs[p][i].kind, w.secs) :
                   e \in log' /\ e.ts > now' - w.secs
    PROVE  Exhausted \subseteq Exhausted'
  <1> SUFFICES ASSUME NEW p \in Provider, NEW i \in 1..Len(Specs[p]), NEW w \in Specs[p][i].windows,
                      Remaining(p, Specs[p][i].kind, w) <= 0
               PROVE  Remaining(p, Specs[p][i].kind, w)' <= 0
    BY DEF Exhausted
  <1> DEFINE kind == Specs[p][i].kind
             before == InWindow(log, p, kind, w.secs)
             after == InWindow(log, p, kind, w.secs)'
  <1>1. before \subseteq after
    BY DEF InWindow
  <1>2. HasAmounts(after) /\ IsFiniteSet(before)
    <2>1. after \subseteq log' /\ before \subseteq log
      BY DEF InWindow
    <2>2. log' \subseteq Event
      BY DEF TypeOK
    <2>3. IsFiniteSet(after) /\ IsFiniteSet(before)
      BY <2>1, FS_Subset
    <2>4. \A e \in after : e.amount \in Nat
      BY <2>1, <2>2 DEF Event
    <2>5. QED
      BY <2>3, <2>4 DEF HasAmounts
  <1>3. Spent(p, kind, w.secs) = Amounts(before) /\ Spent(p, kind, w.secs)' = Amounts(after)
    BY DEF Spent
  <1> HIDE DEF before, after
  <1>4. Amounts(before) <= Amounts(after) /\ Amounts(before) \in Nat /\ Amounts(after) \in Nat
    BY <1>1, <1>2, AmountsGrow
  <1>5. w.limit \in Int
    BY WindowTyped
  <1>6. w.limit <= Amounts(before)
    BY <1>3, <1>4, <1>5, NothingLeft DEF Remaining
  <1>7. w.limit <= Amounts(after)
    BY <1>4, <1>5, <1>6
  <1>8. Max({w.limit - Amounts(after), 0}) <= 0
    BY <1>4, <1>5, <1>7, NothingLeft
  <1>9. QED
    BY <1>3, <1>8 DEF Remaining

\* What a window counts is kept by whoever prunes.
LEMMA CountedIsRecent ==
    ASSUME IInv, NEW p \in Provider, NEW i \in 1..Len(Specs[p]), NEW w \in Specs[p][i].windows,
           NEW e \in InWindow(log, p, Specs[p][i].kind, w.secs)
    PROVE  e \in log /\ e \in Event /\ e.ts > now - w.secs /\ e.ts >= peak - Retain
           /\ e.ts >= now - Retain
  <1>1. e \in log /\ e.ts > now - w.secs
    BY DEF InWindow
  <1>2. e \in Event /\ e.ts \in Int
    BY <1>1 DEF IInv, TypeOK, Event, Time
  <1>3. /\ now \in Int /\ peak \in Int /\ now <= peak /\ peak <= now + Slack
        /\ Slack \in Nat /\ Retain \in Nat
    BY UsageAssumption DEF IInv, TypeOK, ClockIsClose, Time
  <1>4. w.secs \in Nat /\ w.secs + Slack <= Retain
    BY WindowTyped
  <1>5. QED
    BY <1>1, <1>2, <1>3, <1>4

\* Only time, a restart and tracking being off lift a demotion: no request does,
\* however stale the stamp that it prunes with, and switching tracking on again
\* restores them (the handlers' use of exhausted_set, record).
THEOREM DemotionsLast == Spec => DemotionLasts
  <1>1. IInv /\ IInv' /\ [Next]_vars =>
            [now' <= now /\ restarts' = restarts /\ on' => Exhausted \subseteq Demoted']_vars
    <2> SUFFICES ASSUME IInv, IInv', Next, now' <= now, restarts' = restarts, on'
                 PROVE  Exhausted \subseteq Demoted'
      OBVIOUS
    <2>1. ASSUME NEW p \in Provider, NEW i \in 1..Len(Specs[p]), NEW w \in Specs[p][i].windows,
                 NEW e \in InWindow(log, p, Specs[p][i].kind, w.secs)
          PROVE  e \in log' /\ e.ts > now' - w.secs
      <3>1. e \in log /\ e \in Event /\ e.ts > now - w.secs /\ e.ts >= peak - Retain
        BY CountedIsRecent
      <3>2. e.ts > now' - w.secs
        <4>1. e.ts \in Int /\ now \in Int /\ now' \in Int /\ w.secs \in Int
          <5>1. w.secs \in Nat
            BY WindowTyped
          <5>2. now \in Time /\ now' \in Time
            BY DEF IInv, TypeOK
          <5>3. e.ts \in Time
            BY <3>1 DEF Event
          <5>4. QED
            BY <5>1, <5>2, <5>3 DEF Time
        <4>2. QED
          BY <3>1, <4>1
      <3>3. e \in log'
        <4>1. ASSUME NEW r \in Request, Charge(r) PROVE e \in log'
          BY <3>1, <4>1, RecentIsKept DEF IInv
        <4>2. ASSUME NEW r \in Request, Handle(r), ~Charge(r) PROVE e \in log'
          BY <3>1, <4>2 DEF Handle, Serve, Finish, FinishUnrecorded, Skip, Insert,
                            RecordingEnds, Drop, End, meter
        <4>3. CASE Tick \/ SetBack \/ Toggle
          BY <3>1, <4>3 DEF Tick, SetBack, Toggle, meter
        <4>4. CASE Restart
          BY <4>4, UsageAssumption DEF Restart, IInv, TypeOK
        <4>5. QED
          BY <4>1, <4>2, <4>3, <4>4 DEF Next
      <3>4. QED
        BY <3>2, <3>3
    <2>2. Exhausted \subseteq Exhausted'
      BY <2>1, ExhaustedGrows DEF IInv
    <2>3. QED
      BY <2>2 DEF Demoted
  <1>2. QED
    BY Invariance, <1>1, PTL DEF Spec, DemotionLasts

\* A start that can read the table demotes whom the last process demoted, when
\* every event had reached the table (prune_usage_events, load_usage_events).
THEOREM RestartsRemember == Spec => RestartRemembers
  <1>1. IInv /\ IInv' /\ [Next]_vars =>
            [restarts' # restarts /\ ~blind' /\ on' /\ log \subseteq table
                => Exhausted \subseteq Demoted']_vars
    <2> SUFFICES ASSUME IInv, IInv', Next, restarts' # restarts, ~blind', on', log \subseteq table
                 PROVE  Exhausted \subseteq Demoted'
      OBVIOUS
    <2>1. Restart
      <3>1. ASSUME NEW r \in Request, Handle(r) PROVE FALSE
        BY <3>1 DEF Handle, Serve, Finish, FinishUnrecorded, Charge, Skip, Insert,
                    RecordingEnds, Drop, End
      <3>2. QED
        BY <3>1 DEF Next, Tick, SetBack, Toggle
    <2>2. log' = {e \in table : Loadable(e)} /\ now' = now
      BY <2>1 DEF Restart, clock
    <2>3. ASSUME NEW p \in Provider, NEW i \in 1..Len(Specs[p]), NEW w \in Specs[p][i].windows,
                 NEW e \in InWindow(log, p, Specs[p][i].kind, w.secs)
          PROVE  e \in log' /\ e.ts > now' - w.secs
      <3>1. e \in log /\ e.ts > now - w.secs /\ e.ts >= now - Retain
        BY CountedIsRecent
      <3>2. QED
        BY <2>2, <3>1 DEF Loadable
    <2>4. Exhausted \subseteq Exhausted'
      BY <2>3, ExhaustedGrows DEF IInv
    <2>5. QED
      BY <2>4 DEF Demoted
  <1>2. QED
    BY Invariance, <1>1, PTL DEF Spec, RestartRemembers
=============================================================================
