-------------------------- MODULE Failover_proofs --------------------------
(***************************************************************************)
(* Theorems about Failover, for every configuration, every set of          *)
(* requests and providers, every number of restarts.                       *)
(***************************************************************************)
EXTENDS Failover, TLAPS

\* What is used of the configuration: a position of a request's chain names a
\* configured provider.  Nothing is assumed of the chains themselves.
LEMMA ChainProvider ==
    ASSUME NEW r \in Request, NEW i \in Positions[r]
    PROVE  /\ Chain[r][i].provider \in Cfg.providers
           /\ Chain[r][i].provider \in Provider
  <1>1. i \in KnownPositions(Cfg, ReqAlias[r])
    BY DEF Positions
  <1>2. Chain[r] = RawChain(Cfg, ReqAlias[r])
    BY DEF Chain
  <1>3. Chain[r][i].provider \in Cfg.providers
    BY <1>1, <1>2 DEF KnownPositions
  <1>4. QED
    BY <1>3, FailoverAssumption

\* The task a call may launch.
LEMMA ReprobeShape ==
    ASSUME NEW r \in Request, NEW i \in Positions[r]
    PROVE  /\ Reprobe(r, i) \in Task
           /\ Reprobe(r, i).provider = Chain[r][i].provider
           /\ Reprobe(r, i).by # Watcher
  <1>1. Reprobe(r, i) \in UNION {{Reprobe(q, j) : j \in Positions[q]} : q \in Request}
    OBVIOUS
  <1>2. Reprobe(r, i) \in Task
    BY <1>1 DEF Task
  <1>3. Reprobe(r, i).by = r /\ Reprobe(r, i).provider = Chain[r][i].provider
    BY DEF Reprobe
  <1>4. QED
    BY <1>2, <1>3, FailoverAssumption

\* Every task is a monitored provider's watcher or the re-probe of a call.
LEMMA TaskShape ==
    ASSUME NEW t \in Task
    PROVE  /\ t.provider \in Provider
           /\ t.by = Watcher => t.provider \in Monitored
  <1>1. CASE t \in {WatcherTask(p) : p \in Monitored}
    BY <1>1, FailoverAssumption DEF WatcherTask
  <1>2. CASE t \in UNION {{Reprobe(q, j) : j \in Positions[q]} : q \in Request}
    <2>1. PICK q \in Request : \E j \in Positions[q] : t = Reprobe(q, j)
      BY <1>2
    <2>2. PICK j \in Positions[q] : t = Reprobe(q, j)
      BY <2>1
    <2>3. QED
      BY <2>2, ChainProvider, ReprobeShape
  <1>3. QED
    BY <1>1, <1>2 DEF Task

\* What Put does to a status map.
LEMMA PutShape ==
    ASSUME NEW map \in StatusMap, NEW p \in Provider, NEW e \in Entry
    PROVE  /\ Put(map, p, e) \in StatusMap
           /\ DOMAIN Put(map, p, e) = DOMAIN map \cup {p}
           /\ Put(map, p, e)[p] = e
           /\ \A q \in DOMAIN map \ {p} : Put(map, p, e)[q] = map[q]
  <1>1. PICK D \in SUBSET Provider : map \in [D -> Entry]
    BY DEF StatusMap
  <1>2. Put(map, p, e) \in [D \cup {p} -> Entry]
    BY <1>1 DEF Put
  <1>3. D \cup {p} \in SUBSET Provider
    OBVIOUS
  <1>4. Put(map, p, e) \in StatusMap
    BY <1>2, <1>3 DEF StatusMap
  <1>5. QED
    BY <1>1, <1>4 DEF Put

LEMMA EntryShape ==
    /\ NoAnswer \in Entry
    /\ EmptyMap \in StatusMap
    /\ DOMAIN EmptyMap = {}
    /\ Running \in ProbeState
    /\ Idle \in ProbeState
  <1>1. NoAnswer \in Entry
    BY FailoverAssumption DEF NoAnswer, Entry
  <1>2. EmptyMap \in [{} -> Entry] /\ DOMAIN EmptyMap = {}
    BY DEF EmptyMap
  <1>3. EmptyMap \in StatusMap
    BY <1>2 DEF StatusMap
  <1>4. QED
    BY <1>1, <1>2, <1>3 DEF Running, Idle, ProbeState, Step

\* Degrading an entry keeps the map a map and marks the provider.
LEMMA DegradeShape ==
    ASSUME NEW map \in StatusMap, NEW p \in Provider
    PROVE  /\ Degrade(map, p) \in StatusMap
           /\ Marked(Degrade(map, p), p)
           /\ \A q : Marked(map, q) => Marked(Degrade(map, p), q)
  <1> DEFINE e == IF p \in DOMAIN map THEN [map[p] EXCEPT !.available = FALSE]
                  ELSE NoAnswer
  <1>1. PICK D \in SUBSET Provider : map \in [D -> Entry]
    BY DEF StatusMap
  <1>2. e \in Entry /\ ~e.available
    BY <1>1, EntryShape DEF Entry, NoAnswer
  <1>3. Degrade(map, p) = Put(map, p, e)
    BY DEF Degrade
  <1> HIDE DEF e
  <1>4. /\ Put(map, p, e) \in StatusMap
        /\ DOMAIN Put(map, p, e) = DOMAIN map \cup {p}
        /\ Put(map, p, e)[p] = e
        /\ \A q \in DOMAIN map \ {p} : Put(map, p, e)[q] = map[q]
    BY <1>2, PutShape
  <1>5. Marked(Put(map, p, e), p)
    BY <1>2, <1>4 DEF Marked
  <1>6. ASSUME NEW q, Marked(map, q)
        PROVE  Marked(Put(map, p, e), q)
    BY <1>4, <1>5, <1>6 DEF Marked
  <1>7. QED
    BY <1>3, <1>4, <1>5, <1>6

LEMMA StartTasksShape == StartTasks \in [Task -> ProbeState]
  BY EntryShape DEF StartTasks

-----------------------------------------------------------------------------
(* Type correctness.                                                        *)

LEMMA AfterMarkShape ==
    ASSUME TypeOK, NEW t \in Task, NEW r \in Request, NEW i \in Positions[r]
    PROVE  AfterMark(t, r, i) \in ProbeState
  <1>1. task[t] \in ProbeState
    BY DEF TypeOK
  <1>2. [task[t] EXCEPT !.fresh = FALSE] \in ProbeState
    BY <1>1 DEF ProbeState
  <1>3. QED
    BY <1>1, <1>2, EntryShape DEF AfterMark

LEMMA InitTypeOK == Init => TypeOK
  <1> SUFFICES ASSUME Init PROVE TypeOK
    OBVIOUS
  <1>1. healthy \in SUBSET Monitored
    BY DEF Init
  <1>2. flips \in 0..MaxFlips /\ restarts \in 0..MaxRestarts
    BY FailoverAssumption DEF Init
  <1>3. QED
    BY <1>1, <1>2, EntryShape, StartTasksShape DEF Init, TypeOK, Phase

LEMMA NextTypeOK == TypeOK /\ [Next]_vars => TypeOK'
  <1> SUFFICES ASSUME TypeOK, [Next]_vars PROVE TypeOK'
    OBVIOUS
  <1>1. ASSUME NEW r \in Request, Arrive(r) PROVE TypeOK'
    <2>1. PICK ex \in Exhaustions :
            good' = [good EXCEPT ![r] = PreferredPositions(Cfg, status, ex, ReqAlias[r])]
      BY <1>1 DEF Arrive
    <2>2. PreferredPositions(Cfg, status, ex, ReqAlias[r]) \subseteq Positions[r]
      BY DEF PreferredPositions, Positions
    <2>3. good' \in [Request -> SUBSET AllPositions]
      BY <2>1, <2>2 DEF TypeOK, AllPositions
    <2>4. phase' \in [Request -> Phase]
      BY <1>1 DEF Arrive, TypeOK, Phase
    <2>5. QED
      BY <1>1, <2>3, <2>4 DEF Arrive, TypeOK
  <1>1a. ASSUME NEW r \in Request, ErrorArrives(r) PROVE TypeOK'
    BY <1>1a DEF ErrorArrives, TypeOK, Phase
  <1>2. ASSUME NEW r \in Request, NEW i \in Positions[r], CallAccepted(r, i) PROVE TypeOK'
    BY <1>2 DEF CallAccepted, Leave, TypeOK, Phase
  <1>3. ASSUME NEW r \in Request, NEW i \in Positions[r], CallFailsOver(r, i) PROVE TypeOK'
    <2>1. /\ tried' \in [Request -> SUBSET AllPositions]
          /\ phase' \in [Request -> Phase]
      BY <1>3 DEF CallFailsOver, TypeOK, AllPositions, Phase
    <2>2. status' \in StatusMap
      BY <1>3, ChainProvider, DegradeShape DEF CallFailsOver, TypeOK
    <2>3. task' \in [Task -> ProbeState]
      BY <1>3, AfterMarkShape DEF CallFailsOver
    <2>4. suspect' \in SUBSET Provider
      BY <1>3, ChainProvider DEF CallFailsOver, TypeOK
    <2>5. QED
      BY <1>3, <2>1, <2>2, <2>3, <2>4 DEF CallFailsOver, TypeOK
  <1>4. ASSUME NEW r \in Request, NEW i \in Positions[r], CallGivesUp(r, i) PROVE TypeOK'
    BY <1>4 DEF CallGivesUp, TypeOK, Phase, AllPositions
  <1>5. ASSUME NEW r \in Request, NEW i \in Positions[r], CallRejected(r, i) PROVE TypeOK'
    BY <1>5 DEF CallRejected, Leave, TypeOK, Phase
  <1>5a. ASSUME NEW r \in Request, HangUp(r) PROVE TypeOK'
    BY <1>5a DEF HangUp, Leave, TypeOK, Phase
  <1>6. ASSUME NEW t \in Task, Answer(t) PROVE TypeOK'
    <2>1. PICK q \in Quota : task' = [task EXCEPT ![t] =
              [step   |-> "answered",
               answer |-> IF t.provider \in healthy
                          THEN [available |-> TRUE, remaining |-> q]
                          ELSE NoAnswer,
               fresh  |-> TRUE]]
      BY <1>6 DEF Answer
    <2>2. [available |-> TRUE, remaining |-> q] \in Entry
      BY DEF Entry
    <2>3. task' \in [Task -> ProbeState]
      BY <2>1, <2>2, EntryShape DEF TypeOK, ProbeState, Step
    <2>4. QED
      BY <1>6, <2>3 DEF Answer, TypeOK
  <1>7. ASSUME NEW t \in Task, Persist(t) PROVE TypeOK'
    <2>1. task[t].answer \in Entry /\ t.provider \in Provider
      BY TaskShape DEF TypeOK, ProbeState
    <2>2. db' \in StatusMap
      <3>1. db \in StatusMap
        BY DEF TypeOK
      <3>2. Put(db, t.provider, task[t].answer) \in StatusMap
        BY <2>1, <3>1, PutShape
      <3>3. QED
        BY <1>7, <3>1, <3>2 DEF Persist
    <2>3. task' \in [Task -> ProbeState]
      BY <1>7 DEF Persist, TypeOK, ProbeState, Step
    <2>4. QED
      BY <1>7, <2>2, <2>3 DEF Persist, TypeOK
  <1>8. ASSUME NEW t \in Task, Publish(t) PROVE TypeOK'
    <2>1. task[t].answer \in Entry /\ t.provider \in Provider
      BY TaskShape DEF TypeOK, ProbeState
    <2>2. status' \in StatusMap
      BY <1>8, <2>1, PutShape DEF Publish, TypeOK
    <2>3. task' \in [Task -> ProbeState]
      BY <1>8, EntryShape DEF Publish, TypeOK
    <2>4. suspect' \in SUBSET Provider
      BY <1>8 DEF Publish, TypeOK
    <2>5. QED
      BY <1>8, <2>2, <2>3, <2>4 DEF Publish, TypeOK
  <1>9. ASSUME NEW p \in Monitored, Flip(p) PROVE TypeOK'
    <2>1. healthy' \in SUBSET Monitored
      BY <1>9, FailoverAssumption DEF Flip, TypeOK
    <2>2. flips' \in 0..MaxFlips
      BY <1>9, FailoverAssumption DEF Flip, TypeOK
    <2>3. QED
      BY <1>9, <2>1, <2>2 DEF Flip, TypeOK
  <1>10. ASSUME Restart PROVE TypeOK'
    <2>1. phase' \in [Request -> Phase]
      BY <1>10 DEF Restart, TypeOK, Phase
    <2>2. restarts' \in 0..MaxRestarts
      BY <1>10, FailoverAssumption DEF Restart, TypeOK
    <2>3. /\ good' \in [Request -> SUBSET AllPositions]
          /\ tried' \in [Request -> SUBSET AllPositions]
      BY <1>10 DEF Restart, TypeOK
    <2>4. QED
      BY <1>10, <2>1, <2>2, <2>3, StartTasksShape DEF Restart, TypeOK
  <1>11. CASE UNCHANGED vars
    BY <1>11 DEF vars, TypeOK
  <1>12. QED
    BY <1>1, <1>1a, <1>2, <1>3, <1>4, <1>5, <1>5a, <1>6, <1>7, <1>8, <1>9, <1>10, <1>11
    DEF Next, Call, Probe

\* Every variable of the failover loop, the watcher and the map keeps its type.
THEOREM TypeCorrect == Spec => []TypeOK
  BY InitTypeOK, NextTypeOK, PTL DEF Spec

-----------------------------------------------------------------------------
(* The inductive invariant.                                                 *)

LEMMA InitIInv == Init => IInv
  <1> SUFFICES ASSUME Init PROVE IInv
    OBVIOUS
  <1>1. TypeOK
    BY InitTypeOK
  <1>2. HandlersKeepToTheChain /\ NeverGivesUpEarly /\ PreferredFirst
    BY DEF Init, HandlersKeepToTheChain, NeverGivesUpEarly, PreferredFirst
  <1>3. ProbesAreMonitored
    BY TaskShape DEF Init, ProbesAreMonitored, StartTasks, Idle
  <1>4. SuspectIsReprobed
    BY DEF Init, SuspectIsReprobed
  <1>5. MarksAreNotPersisted
    BY EntryShape DEF Init, MarksAreNotPersisted
  <1>6. QED
    BY <1>1, <1>2, <1>3, <1>4, <1>5 DEF IInv

\* The loop visits the candidates in the order the resolver gave them.
LEMMA NextPreservesHandlers ==
    ASSUME IInv, [Next]_vars
    PROVE  HandlersKeepToTheChain' /\ NeverGivesUpEarly' /\ PreferredFirst'
  <1> USE DEF HandlersKeepToTheChain, NeverGivesUpEarly, PreferredFirst
  <1>0. TypeOK /\ HandlersKeepToTheChain /\ NeverGivesUpEarly /\ PreferredFirst
    BY DEF IInv
  <1>1. ASSUME NEW r \in Request, Arrive(r)
        PROVE  HandlersKeepToTheChain' /\ NeverGivesUpEarly' /\ PreferredFirst'
    <2>1. PICK ex \in Exhaustions :
            good' = [good EXCEPT ![r] = PreferredPositions(Cfg, status, ex, ReqAlias[r])]
      BY <1>1 DEF Arrive
    <2>2. PreferredPositions(Cfg, status, ex, ReqAlias[r]) \subseteq Positions[r]
      BY DEF PreferredPositions, Positions
    <2>3. tried[r] = {} /\ tried' = tried
      BY <1>0, <1>1 DEF Arrive
    <2>4. phase'[r] \in {"refused", "trying"} /\ \A q \in Request \ {r} : phase'[q] = phase[q]
      BY <1>0, <1>1 DEF Arrive, TypeOK
    <2>5. good'[r] \subseteq Positions[r] /\ \A q \in Request \ {r} : good'[q] = good[q]
      BY <1>0, <2>1, <2>2 DEF TypeOK
    <2>6. QED
      BY <1>0, <2>3, <2>4, <2>5
  <1>2. ASSUME NEW r \in Request, NEW i \in Positions[r],
               CallAccepted(r, i) \/ CallRejected(r, i)
        PROVE  HandlersKeepToTheChain' /\ NeverGivesUpEarly' /\ PreferredFirst'
    BY <1>0, <1>2 DEF CallAccepted, CallRejected, Leave, Calling, TypeOK
  <1>2a. ASSUME NEW r \in Request, ErrorArrives(r)
        PROVE  HandlersKeepToTheChain' /\ NeverGivesUpEarly' /\ PreferredFirst'
    BY <1>0, <1>2a DEF ErrorArrives, TypeOK
  <1>3. ASSUME NEW r \in Request, NEW i \in Positions[r],
               CallFailsOver(r, i) \/ CallGivesUp(r, i)
        PROVE  HandlersKeepToTheChain' /\ NeverGivesUpEarly' /\ PreferredFirst'
    <2>1. tried'[r] = tried[r] \cup {i} /\ \A q \in Request \ {r} : tried'[q] = tried[q]
      BY <1>0, <1>3 DEF CallFailsOver, CallGivesUp, TypeOK
    <2>2. good' = good
      BY <1>3 DEF CallFailsOver, CallGivesUp
    <2>3. Calling(r) /\ \A q \in Request \ {r} : phase'[q] = phase[q]
      BY <1>0, <1>3 DEF CallFailsOver, CallGivesUp, TypeOK
    <2>4. phase'[r] \in {"trying", "gave_up"}
      BY <1>0, <1>3 DEF CallFailsOver, CallGivesUp, TypeOK
    <2>5. phase'[r] = "gave_up" => tried'[r] = Positions[r]
      BY <1>0, <1>3, <2>1 DEF CallFailsOver, CallGivesUp, TypeOK, Untried
    <2>6. i \notin good[r] => good[r] \subseteq tried[r]
      BY <1>0, <1>3 DEF CallFailsOver, CallGivesUp, IsNext, Untried, Before
    <2>7. (\E j \in tried'[r] : j \notin good[r]) => good[r] \subseteq tried'[r]
      BY <1>0, <2>1, <2>6
    <2>8. QED
      BY <1>0, <2>1, <2>2, <2>3, <2>4, <2>5, <2>7
  <1>4. ASSUME Restart
        PROVE  HandlersKeepToTheChain' /\ NeverGivesUpEarly' /\ PreferredFirst'
    BY <1>0, <1>4 DEF Restart, Calling, TypeOK
  <1>4a. ASSUME NEW r \in Request, HangUp(r)
        PROVE  HandlersKeepToTheChain' /\ NeverGivesUpEarly' /\ PreferredFirst'
    BY <1>0, <1>4a DEF HangUp, Leave, Calling, TypeOK
  <1>5. ASSUME UNCHANGED <<phase, good, tried>>
        PROVE  HandlersKeepToTheChain' /\ NeverGivesUpEarly' /\ PreferredFirst'
    BY <1>0, <1>5
  <1>6. QED
    BY <1>1, <1>2, <1>2a, <1>3, <1>4, <1>4a, <1>5
    DEF Next, Call, Probe, Answer, Persist, Publish, Flip, vars

\* Nothing is probed, and so no row is written, for an unmonitored provider.
LEMMA NextPreservesProbes ==
    ASSUME IInv, [Next]_vars
    PROVE  ProbesAreMonitored' /\ MarksAreNotPersisted'
  <1> USE DEF ProbesAreMonitored, MarksAreNotPersisted
  <1>0. TypeOK /\ ProbesAreMonitored /\ MarksAreNotPersisted
    BY DEF IInv
  <1>1. ASSUME NEW r \in Request, NEW i \in Positions[r], CallFailsOver(r, i)
        PROVE  ProbesAreMonitored' /\ MarksAreNotPersisted'
    <2>1. ASSUME NEW t \in Task, t.provider \notin Monitored
          PROVE  task'[t].step = "idle"
      <3>1. task'[t] = AfterMark(t, r, i)
        BY <1>1 DEF CallFailsOver
      <3>2. task[t] \in ProbeState /\ task[t].step = "idle"
        BY <1>0, <2>1 DEF TypeOK
      <3>3. [task[t] EXCEPT !.fresh = FALSE].step = "idle"
        BY <3>2 DEF ProbeState
      <3>4. QED
        BY <2>1, <3>1, <3>2, <3>3 DEF AfterMark
    <2>2. db' = db
      BY <1>1 DEF CallFailsOver
    <2>3. QED
      BY <1>0, <2>1, <2>2
  <1>2. ASSUME NEW t \in Task, Probe(t)
        PROVE  ProbesAreMonitored' /\ MarksAreNotPersisted'
    <2>1. task[t].step # "idle"
      BY <1>2 DEF Probe, Answer, Persist, Publish
    <2>2. t.provider \in Monitored /\ t.provider \in Provider
      BY <1>0, <2>1, TaskShape
    <2>3. \A u \in Task \ {t} : task'[u] = task[u]
      BY <1>0, <1>2 DEF Probe, Answer, Persist, Publish, TypeOK
    <2>4. ProbesAreMonitored'
      BY <1>0, <2>2, <2>3
    <2>5. db' = db \/ db' = Put(db, t.provider, task[t].answer)
      BY <1>2 DEF Probe, Answer, Persist, Publish
    <2>6. DOMAIN Put(db, t.provider, task[t].answer) = DOMAIN db \cup {t.provider}
      BY DEF Put
    <2>7. MarksAreNotPersisted'
      BY <1>0, <2>2, <2>5, <2>6
    <2>8. QED
      BY <2>4, <2>7
  <1>3. ASSUME Restart
        PROVE  ProbesAreMonitored' /\ MarksAreNotPersisted'
    <2>1. \A t \in Task : t.provider \notin Monitored => t.by # Watcher
      BY TaskShape
    <2>2. QED
      BY <1>0, <1>3, <2>1 DEF Restart, StartTasks, Idle
  <1>4. ASSUME UNCHANGED <<task, db>>
        PROVE  ProbesAreMonitored' /\ MarksAreNotPersisted'
    BY <1>0, <1>4
  <1>5. QED
    BY <1>1, <1>2, <1>3, <1>4
    DEF Next, Call, HangUp, Leave, Arrive, ErrorArrives, CallAccepted,
        CallRejected, CallGivesUp, Flip, vars

\* A mark launches a re-probe that will answer for it, and only a later mark,
\* with a re-probe of its own, makes that answer stale.
LEMMA NextPreservesSuspects ==
    ASSUME IInv, [Next]_vars
    PROVE  SuspectIsReprobed'
  <1> USE DEF SuspectIsReprobed
  <1>0. TypeOK /\ SuspectIsReprobed
    BY DEF IInv
  <1>1. ASSUME NEW r \in Request, NEW i \in Positions[r], CallFailsOver(r, i),
               NEW p \in suspect' \cap Monitored
        PROVE  \E t \in Task : AnswersFor(t, p)'
    <2>1. \A t \in Task : task'[t] = AfterMark(t, r, i)
      BY <1>1 DEF CallFailsOver
    <2>2. CASE p = Chain[r][i].provider
      <3>1. AfterMark(Reprobe(r, i), r, i) = Running
        BY <2>2, ReprobeShape DEF AfterMark
      <3>2. task'[Reprobe(r, i)].step = "running"
        BY <2>1, <3>1, ReprobeShape DEF Running
      <3>3. QED
        BY <2>2, <3>2, ReprobeShape DEF AnswersFor
    <2>3. CASE p # Chain[r][i].provider
      <3>1. p \in suspect
        BY <1>1, <2>3 DEF CallFailsOver
      <3>2. PICK t \in Task : AnswersFor(t, p)
        BY <1>0, <1>1, <3>1
      <3>3. t.provider # Chain[r][i].provider /\ t # Reprobe(r, i)
        BY <2>3, <3>2, ReprobeShape DEF AnswersFor
      <3>4. task'[t] = task[t]
        BY <2>1, <3>3 DEF AfterMark
      <3>5. QED
        BY <3>2, <3>4 DEF AnswersFor
    <2>4. QED
      BY <2>2, <2>3
  <1>2. ASSUME NEW u \in Task, Probe(u), NEW p \in suspect' \cap Monitored
        PROVE  \E t \in Task : AnswersFor(t, p)'
    <2>1. p \in suspect
      BY <1>2 DEF Probe, Answer, Persist, Publish
    <2>2. PICK t \in Task : AnswersFor(t, p)
      BY <1>0, <1>2, <2>1
    <2>3. CASE t # u
      <3>1. task'[t] = task[t]
        BY <1>0, <1>2, <2>3 DEF Probe, Answer, Persist, Publish, TypeOK
      <3>2. QED
        BY <2>2, <3>1 DEF AnswersFor
    <2>4. CASE t = u /\ Answer(u)
      <3>1. task'[t].step = "answered" /\ task'[t].fresh
        BY <1>0, <2>4 DEF Answer, TypeOK
      <3>2. QED
        BY <2>2, <3>1 DEF AnswersFor
    <2>5. CASE t = u /\ Persist(u)
      <3>1. task'[t].step = "persisted" /\ task'[t].fresh = task[t].fresh
        BY <1>0, <2>5 DEF Persist, TypeOK, ProbeState
      <3>2. task[t].fresh
        BY <2>2, <2>5 DEF AnswersFor, Persist
      <3>3. QED
        BY <2>2, <3>1, <3>2 DEF AnswersFor
    <2>6. CASE t = u /\ Publish(u)
      <3>1. task[t].fresh
        BY <2>2, <2>6 DEF AnswersFor, Publish
      <3>2. p \notin suspect'
        BY <2>2, <2>6, <3>1 DEF AnswersFor, Publish
      <3>3. QED
        BY <1>2, <3>2
    <2>7. QED
      BY <1>2, <2>3, <2>4, <2>5, <2>6 DEF Probe
  <1>3. ASSUME Restart PROVE SuspectIsReprobed'
    BY <1>3 DEF Restart
  <1>4. ASSUME UNCHANGED <<task, suspect>> PROVE SuspectIsReprobed'
    BY <1>0, <1>4 DEF AnswersFor
  <1>5. QED
    BY <1>1, <1>2, <1>3, <1>4
    DEF Next, Call, HangUp, Leave, Arrive, ErrorArrives, CallAccepted,
        CallRejected, CallGivesUp, Flip, vars

LEMMA NextIInv == IInv /\ [Next]_vars => IInv'
  <1>1. IInv /\ [Next]_vars => TypeOK'
    BY NextTypeOK DEF IInv
  <1>2. QED
    BY <1>1, NextPreservesHandlers, NextPreservesProbes, NextPreservesSuspects DEF IInv

THEOREM Invariance == Spec => []IInv
  BY InitIInv, NextIInv, PTL DEF Spec

\* However requests, watchers, re-probes and restarts interleave, a marked
\* provider that is monitored has a re-probe in flight that began to answer, or
\* will begin, after the mark.
THEOREM MarksAreAnswered == Spec => []SuspectIsReprobed
  <1>1. IInv => SuspectIsReprobed
    BY DEF IInv
  <1>2. QED
    BY <1>1, Invariance, PTL

\* A request is answered with a retryable error only after its whole chain
\* failed.
THEOREM FailoverIsExhaustive == Spec => []NeverGivesUpEarly
  <1>1. IInv => NeverGivesUpEarly
    BY DEF IInv
  <1>2. QED
    BY <1>1, Invariance, PTL

\* A candidate that was unusable when the request was resolved is called only
\* after every candidate that was usable then has failed.
THEOREM PreferredAreTriedFirst == Spec => []PreferredFirst
  <1>1. IInv => PreferredFirst
    BY DEF IInv
  <1>2. QED
    BY <1>1, Invariance, PTL

\* The status table never has a row for a provider that is not monitored.
THEOREM NoUnmonitoredRows == Spec => []MarksAreNotPersisted
  <1>1. IInv => MarksAreNotPersisted
    BY DEF IInv
  <1>2. QED
    BY <1>1, Invariance, PTL

\* The mark of a provider that is not monitored outlives everything except a
\* restart: no step of a handler or a task lifts it.
THEOREM UnmonitoredStaysMarked == Spec => UnmonitoredMarkSticks
  <1>1. ASSUME IInv, [Next]_vars
        PROVE  [\A p \in Cfg.providers \ Monitored :
                   Marked(status, p) /\ restarts' = restarts => Marked(status', p)]_vars
    <2> SUFFICES ASSUME NEW p \in Cfg.providers \ Monitored,
                        Marked(status, p), restarts' = restarts
                 PROVE  Marked(status', p)
      OBVIOUS
    <2>0. TypeOK /\ ProbesAreMonitored
      BY <1>1 DEF IInv
    <2>1. ASSUME NEW r \in Request, NEW i \in Positions[r], CallFailsOver(r, i)
          PROVE  Marked(status', p)
      <3>1. status \in StatusMap /\ Chain[r][i].provider \in Provider
        BY <2>0, ChainProvider DEF TypeOK
      <3>2. status' = Degrade(status, Chain[r][i].provider)
        BY <2>1 DEF CallFailsOver
      <3>3. QED
        BY <3>1, <3>2, DegradeShape
    <2>2. ASSUME NEW t \in Task, Publish(t) PROVE Marked(status', p)
      <3>1. t.provider \in Monitored /\ t.provider \in Provider
        BY <2>0, <2>2, TaskShape DEF Publish, ProbesAreMonitored
      <3>2. status' = Put(status, t.provider, task[t].answer)
        BY <2>2 DEF Publish
      <3>3. QED
        BY <3>1, <3>2 DEF Put, Marked
    <2>3. ASSUME Restart PROVE FALSE
      BY <2>0, <2>3 DEF Restart, TypeOK
    <2>4. ASSUME status' = status PROVE Marked(status', p)
      BY <2>4
    <2>5. QED
      BY <1>1, <2>1, <2>2, <2>3, <2>4
      DEF Next, Call, HangUp, Leave, Arrive, ErrorArrives, CallAccepted,
          CallRejected, CallGivesUp, Probe, Answer, Persist, Flip, vars
  <1>2. QED
    BY <1>1, Invariance, PTL DEF Spec, UnmonitoredMarkSticks
=============================================================================
