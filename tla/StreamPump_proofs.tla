------------------------- MODULE StreamPump_proofs --------------------------
(***************************************************************************)
(* The pump implements ClientStream, for every script and every set of     *)
(* tool indices, in both dialects.                                         *)
(*                                                                         *)
(* The invariant ties the emitter to its client: the blocks that the       *)
(* emitter holds open are the ones the client sees open (BlocksMatch), and *)
(* its bookkeeping of what is closed agrees with what was streamed         *)
(* (OutputMatches).  It says which events may be waiting in which phase    *)
(* (EventsFit), since the emitter itself checks none of that: that         *)
(* nothing but the end follows the end, and that a call is started once,   *)
(* is the work of the parser and of the pump's flags.                      *)
(***************************************************************************)
EXTENDS StreamPump, SequenceLemmas

Ending == {"Completed", "Error"}
OfCalls == {"ToolCallStart", "ToolCallArgsDelta", "ToolCallDone"}

\* What the parser and the pump put into a list of events.
Waiting ==
    {e \in CanonicalEvent :
        /\ e.type \in OfCalls => e.index \in ToolIndex
        /\ e.type = "Usage" => e.usage \in ToldUsage}

BlockKinds == {"reasoning", "text", "tool"}
OutputItem == [index : Nat, kind : BlockKinds, text : Nat]

EmitterTyped ==
    /\ phase \in {"before", "within", "summed", "ended", "failed"}
    /\ heard \in Nat /\ next \in Nat
    /\ kinds \in Seq(BlockKinds) /\ parts \in Seq(Nat)
    /\ open \subseteq [index : Nat, kind : BlockKinds]
    /\ {started, anyTool} \subseteq BOOLEAN
    /\ {reasoning, message} \subseteq Nat \cup {None}
    /\ {reasoningText, messageText} \subseteq Nat
    /\ tools \in [ToolIndex -> Nat \cup {None}] /\ toolArgs \in [ToolIndex -> Nat]
    /\ output \in Seq(OutputItem)
    /\ usage \in ToldUsage \cup {None}

PumpTyped ==
    /\ {created, track, completed, done} \subseteq BOOLEAN
    /\ startedTools \subseteq ToolIndex /\ IsFiniteSet(startedTools)
    /\ script \in Scripts /\ dialect \in Dialect
    /\ pos \in 1..(Len(script.items) + 1)
    /\ pc \in {"loop", "over", "finished", "gone"}
    /\ events \in Seq(Waiting)
    /\ tokens \in [Field -> Nat \cup {None}] /\ cost \in Price \cup {None}
    /\ bill \in [cost : Price \cup {None}, tokens : [Field -> Nat \cup {None}]] \cup {None}

\* The client sees open what the emitter has open.
BlocksMatch ==
    \A b \in [index : Nat, kind : {"reasoning", "text", "tool"}] :
        b \in open <=>
            \/ b.kind = "reasoning" /\ b.index = reasoning
            \/ b.kind = "text" /\ b.index = message
            \/ b.kind = "tool" /\ \E k \in ToolIndex : b.index = tools[k]

\* Every block has a place of its own among those counted so far.
BlocksApart ==
    /\ Len(kinds) = next /\ Len(parts) = next
    /\ reasoning # None => reasoning < next
    /\ message # None => message < next
    /\ reasoning # None => reasoning # message
    /\ \A k \in ToolIndex : tools[k] # None =>
          /\ tools[k] < next
          /\ tools[k] # reasoning /\ tools[k] # message
          /\ \A l \in ToolIndex : tools[l] = tools[k] => k = l

\* The open blocks are what the client takes them for, and hold what was streamed.
OpenMatches ==
    /\ reasoning # None => kinds[reasoning + 1] = "reasoning" /\ parts[reasoning + 1] <= reasoningText
    /\ message # None => kinds[message + 1] = "text" /\ parts[message + 1] <= messageText
    /\ \A k \in ToolIndex : tools[k] # None =>
          kinds[tools[k] + 1] = "tool" /\ parts[tools[k] + 1] = toolArgs[k]

IsOpenAt(i) ==
    reasoning = i \/ message = i \/ \E k \in ToolIndex : tools[k] = i

\* The closed blocks are listed once each, with what was streamed.
OutputMatches ==
    /\ \A n \in 1..Len(output) :
          /\ output[n].index < next
          /\ ~IsOpenAt(output[n].index)
          /\ output[n].kind = kinds[output[n].index + 1]
          /\ output[n].text >= parts[output[n].index + 1]
          /\ output[n].kind = "tool" => output[n].text = parts[output[n].index + 1]
          /\ \A m \in 1..Len(output) : output[m].index = output[n].index => m = n
    /\ \A i \in 0..(next - 1) : IsOpenAt(i) \/ \E n \in 1..Len(output) : output[n].index = i

AnyToolMatches ==
    dialect = "anthropic" => (anyTool <=> \E i \in 1..Len(kinds) : kinds[i] = "tool")

\* What may wait, and when.
EventsFit ==
    /\ \A i \in 1..Len(events) : events[i].type \in Ending => Len(events) = 1
    /\ \A i \in 1..Len(events) : events[i].type \notin Ending =>
          ~done /\ pc # "over" /\ phase \in {"before", "within"}
    /\ \A i \in 1..Len(events) : events[i].type = "Created" =>
          i = 1 /\ created /\ (dialect = "responses" => phase = "before")
    /\ \A i \in 1..Len(events) : phase = "before" /\ events[i].type \notin Ending =>
          events[1].type = "Created"
    /\ created /\ phase = "before" =>
          Len(events) > 0 /\ events[1].type = "Created"
    /\ ~created => phase # "within"
    /\ \A i \in 1..Len(events) : events[i].type = "Completed" => done \/ pc # "loop"

\* A call is started once.
StartsOnce ==
    /\ \A k \in ToolIndex : tools[k] # None => k \in startedTools
    /\ \A i \in 1..Len(events) : events[i].type = "ToolCallStart" =>
          /\ events[i].index \in startedTools /\ tools[events[i].index] = None
          /\ \A j \in 1..Len(events) :
                events[j].type = "ToolCallStart" /\ events[j].index = events[i].index => j = i

\* How far the answer is, and what the pump may still do.
PhaseFits ==
    /\ phase \in {"before", "summed", "ended"} => open = {}
    /\ dialect = "anthropic" => (phase = "before" => ~started) /\ (phase = "within" => started)
    /\ phase = "failed" => events = <<>> /\ pc # "loop"
    /\ phase = "summed" => Len(events) = 1 /\ events[1].type = "Completed"
    /\ phase = "ended" => (done \/ pc # "loop") /\ (events # <<>> => track)
    /\ done => track /\ completed
    /\ completed => \/ phase \in {"ended", "failed"}
                    \/ Len(events) = 1 /\ events[1].type \in Ending
    /\ pc = "over" => \/ events = <<>> /\ phase \in {"ended", "failed"}
                      \/ Len(events) = 1 /\ events[1].type \in Ending
    /\ pc = "finished" => events = <<>> /\ phase \in {"ended", "failed"}

BlockInv ==
    EmitterTyped /\ BlocksMatch /\ BlocksApart /\ OpenMatches /\ OutputMatches /\ AnyToolMatches

QueueInv == PumpTyped /\ EventsFit /\ StartsOnce /\ PhaseFits

IInv == BlockInv /\ QueueInv

\* What a client is to be told by now.
ToldOfRead == IF LastUsage = None THEN None ELSE Told(LastUsage)

\* The client is told of the last usage object, or will be.
UsageFits ==
    phase \in {"before", "within"} /\ (\A i \in 1..Len(events) : events[i].type # "Error") =>
        IF \E i \in 1..Len(events) : events[i].type = "Usage"
        THEN \A i \in 1..Len(events) : events[i].type = "Usage" => events[i].usage = ToldOfRead
        ELSE usage = ToldOfRead

\* The meter knows each count that the last usage object has.
TokensFit ==
    /\ LastUsage \in Report \cup {None}
    /\ track =>
          IF LastUsage = None THEN tokens = [f \in Field |-> None]
          ELSE \A f \in Field : LastUsage[f] # None => tokens[f] = LastUsage[f]

\* What the items say, by their places.
Costs == [i \in CostItems |-> script.items[i].chunk.cost]
Usages == [i \in UsageItems |-> script.items[i].chunk.usage]
Counts(f) == [i \in CountItems(f) |-> script.items[i].chunk.usage[f]]

Before(S, p) == {i \in S : i < p}

\* The value is what the last place of S before p says.
IsLast(value, S, said, p) ==
    IF Before(S, p) = {} THEN value = None
    ELSE \E i \in Before(S, p) : value = said[i] /\ \A j \in Before(S, p) : j <= i

AmountsFit ==
    track => /\ IsLast(cost, CostItems, Costs, pos)
             /\ \A f \in Field : IsLast(tokens[f], CountItems(f), Counts(f), pos)

BillFits ==
    AmountsFit /\ (pc = "finished" => bill = IF track THEN [cost |-> cost, tokens |-> tokens] ELSE None)

-----------------------------------------------------------------------------
(* What the parser makes of a chunk.                                        *)

\* One event or none.
LEMMA OnlyOne ==
    ASSUME NEW S, NEW condition \in BOOLEAN, NEW event \in S
    PROVE  /\ Only(condition, event) \in Seq(S)
           /\ condition => Len(Only(condition, event)) = 1 /\ Only(condition, event)[1] = event
           /\ ~condition => Len(Only(condition, event)) = 0
BY DEF Only

\* The events of calls: those of type ToolCallStart and ToolCallArgsDelta.
CallEvent == {e \in Waiting : e.type \in {"ToolCallStart", "ToolCallArgsDelta"}}

\* Calls that a list of events starts are new and different.
StartsFresh(es, fresh, old) ==
    \A i \in 1..Len(es) : es[i].type = "ToolCallStart" =>
        /\ es[i].index \in fresh /\ es[i].index \notin old
        /\ \A j \in 1..Len(es) : es[j].type = "ToolCallStart" /\ es[j].index = es[i].index => j = i

\* An event of a call.
LEMMA EventOfCall ==
    ASSUME NEW k \in ToolIndex, NEW type \in OfCalls
    PROVE  Event(type, k) \in Waiting /\ Event(type, k).type = type /\ Event(type, k).index = k
BY DEF Event, Waiting, CanonicalEvent, EventType, OfCalls

\* The calls of a chunk start those that are new, once each.
LEMMA CallsStartFresh ==
    ASSUME NEW calls \in Seq([index : ToolIndex, args : BOOLEAN]), NEW old
    PROVE  /\ CallEvents(calls, old) \in Seq(CallEvent)
           /\ StartsFresh(CallEvents(calls, old), CalledIn(calls), old)
<1> DEFINE ss == [i \in 1..Len(calls) |->
                    Only(NewCall(calls, i, old), Event("ToolCallStart", calls[i].index))
                      \o Only(calls[i].args, Event("ToolCallArgsDelta", calls[i].index))]
<1>1. Len(calls) \in Nat /\ \A i \in 1..Len(calls) : calls[i] \in [index : ToolIndex, args : BOOLEAN]
    BY ElementOfSeq, LenProperties
<1>2. Len(ss) = Len(calls) /\ CallEvents(calls, old) = FlattenSeq(ss)
    BY <1>1 DEF CallEvents
<1>3. ASSUME NEW i \in 1..Len(calls)
      PROVE  /\ ss[i] \in Seq(CallEvent) /\ Len(ss[i]) \in Nat
             /\ \A n \in 1..Len(ss[i]) : ss[i][n].type = "ToolCallStart" =>
                   n = 1 /\ ss[i][n].index = calls[i].index /\ NewCall(calls, i, old)
    <2> DEFINE a == Only(NewCall(calls, i, old), Event("ToolCallStart", calls[i].index))
               b == Only(calls[i].args, Event("ToolCallArgsDelta", calls[i].index))
    <2>0. calls[i].index \in ToolIndex /\ calls[i].args \in BOOLEAN
        BY <1>1
    <2>1. /\ Event("ToolCallStart", calls[i].index) \in CallEvent
          /\ Event("ToolCallStart", calls[i].index).index = calls[i].index
          /\ Event("ToolCallArgsDelta", calls[i].index) \in CallEvent
          /\ Event("ToolCallArgsDelta", calls[i].index).type = "ToolCallArgsDelta"
        BY <2>0, EventOfCall DEF CallEvent, OfCalls
    <2>2. NewCall(calls, i, old) \in BOOLEAN
        BY DEF NewCall
    <2>3. /\ a \in Seq(CallEvent)
          /\ NewCall(calls, i, old) => Len(a) = 1 /\ a[1].index = calls[i].index
          /\ ~NewCall(calls, i, old) => Len(a) = 0
        BY <2>1, <2>2, OnlyOne
    <2>4. /\ b \in Seq(CallEvent) /\ Len(b) \in 0..1
          /\ \A n \in 1..Len(b) : b[n].type # "ToolCallStart"
        <3> DEFINE e == Event("ToolCallArgsDelta", calls[i].index)
        <3>1. /\ b \in Seq(CallEvent)
              /\ calls[i].args => Len(b) = 1 /\ b[1] = e
              /\ ~calls[i].args => Len(b) = 0
            BY <2>0, <2>1, OnlyOne
        <3> HIDE DEF b, e
        <3>2. e.type # "ToolCallStart"
            BY <2>1 DEF e
        <3>3. QED
            BY <3>1, <3>2
    <2>5. ss[i] = a \o b
        OBVIOUS
    <2> HIDE DEF a, b, ss
    <2>6. /\ a \o b \in Seq(CallEvent) /\ Len(a \o b) = Len(a) + Len(b)
          /\ \A n \in 1..(Len(a) + Len(b)) : (a \o b)[n] = IF n <= Len(a) THEN a[n] ELSE b[n - Len(a)]
        BY <2>3, <2>4, ConcatProperties
    <2>7. CASE NewCall(calls, i, old)
        <3>1. Len(a) = 1
            BY <2>3, <2>7
        <3>2. \A n \in 1..(1 + Len(b)) : n # 1 => n - 1 \in 1..Len(b) /\ (a \o b)[n] = b[n - 1]
            BY <3>1, <2>4, <2>6
        <3>3. QED
            BY <2>3, <2>4, <2>5, <2>6, <2>7, <3>1, <3>2
    <2>8. CASE ~NewCall(calls, i, old)
        <3>1. Len(a) = 0
            BY <2>3, <2>8
        <3>2. \A n \in 1..Len(b) : (a \o b)[n] = b[n]
            BY <3>1, <2>4, <2>6
        <3>3. QED
            BY <2>4, <2>5, <2>6, <2>8, <3>1, <3>2
    <2>9. QED
        BY <2>7, <2>8
<1> DEFINE Upto(i) == {calls[j].index : j \in 1..i}
<1> HIDE DEF ss
<1>4. CASE Len(calls) = 0
    <2>1. ss = <<>> /\ Len(ss) = 0
        BY <1>1, <1>2, <1>4 DEF ss
    <2>2. CallEvents(calls, old) = <<>>
        BY <1>2, <2>1 DEF FlattenSeq
    <2>3. QED
        BY <2>2 DEF StartsFresh
<1>5. CASE Len(calls) # 0
    <2>1. PICK f : /\ FlattenSeq(ss) = f[Len(ss)] /\ f[1] = ss[1]
                   /\ \A i \in 2..Len(ss) : f[i] = f[i - 1] \o ss[i]
        BY <1>1, <1>2, <1>5, Flattening
    <2> DEFINE Fresh(i) == f[i] \in Seq(CallEvent) /\ StartsFresh(f[i], Upto(i), old)
    <2> DEFINE T == {n \in Nat : n + 1 <= Len(calls) => Fresh(n + 1)}
    <2>2. 0 \in T
        <3>1. 1 \in 1..Len(calls)
            BY <1>1, <1>5
        <3>2. ss[1] \in Seq(CallEvent) /\ StartsFresh(ss[1], Upto(1), old)
            BY <3>1, <1>3 DEF StartsFresh, NewCall
        <3>3. QED
            BY <3>2, <2>1
    <2>3. ASSUME NEW n \in Nat, n \in T PROVE n + 1 \in T
        <3> SUFFICES ASSUME (n + 1) + 1 <= Len(calls) PROVE Fresh((n + 1) + 1)
            OBVIOUS
        <3> DEFINE m == (n + 1) + 1
                   s == f[n + 1]
                   t == ss[m]
        <3>1. /\ n + 1 <= Len(calls) /\ m \in 2..Len(ss) /\ m \in 1..Len(calls)
              /\ m - 1 = n + 1 /\ n + 1 \in 1..(m - 1)
            BY <1>1, <1>2
        <3>2. s \in Seq(CallEvent) /\ StartsFresh(s, Upto(n + 1), old)
            BY <2>3, <3>1
        <3>3. /\ t \in Seq(CallEvent)
              /\ \A x \in 1..Len(t) : t[x].type = "ToolCallStart" =>
                    x = 1 /\ t[x].index = calls[m].index /\ NewCall(calls, m, old)
            BY <3>1, <1>3
        <3>4. f[m] = s \o t
            BY <2>1, <3>1
        <3>5. Upto(n + 1) \subseteq Upto(m) /\ calls[m].index \in Upto(m)
            BY <3>1
        <3>6. NewCall(calls, m, old) => calls[m].index \notin Upto(n + 1) /\ calls[m].index \notin old
            BY <3>1 DEF NewCall
        <3> HIDE DEF s, t, m, T, Upto
        <3>7. /\ s \o t \in Seq(CallEvent) /\ Len(s \o t) = Len(s) + Len(t)
              /\ Len(s) \in Nat /\ Len(t) \in Nat
              /\ \A x \in 1..(Len(s) + Len(t)) :
                    (s \o t)[x] = IF x <= Len(s) THEN s[x] ELSE t[x - Len(s)]
            BY <3>2, <3>3, ConcatProperties, LenProperties
        <3>8. ASSUME NEW x \in 1..Len(s \o t), (s \o t)[x].type = "ToolCallStart"
              PROVE  \/ x \in 1..Len(s) /\ (s \o t)[x] = s[x] /\ (s \o t)[x].index \in Upto(n + 1)
                            /\ (s \o t)[x].index \notin old
                     \/ x = Len(s) + 1 /\ (s \o t)[x].index = calls[m].index /\ NewCall(calls, m, old)
            <4>1. CASE x <= Len(s)
                BY <3>2, <3>7, <3>8, <4>1 DEF StartsFresh
            <4>2. CASE x > Len(s)
                <5>1. x - Len(s) \in 1..Len(t) /\ (s \o t)[x] = t[x - Len(s)]
                    BY <3>7, <4>2
                <5>2. /\ x - Len(s) = 1 /\ t[x - Len(s)].index = calls[m].index
                      /\ NewCall(calls, m, old)
                    BY <5>1, <3>3, <3>8
                <5>3. x \in Nat
                    BY <3>7
                <5>4. QED
                    BY <5>1, <5>2, <5>3, <3>7
            <4>3. QED
                BY <4>1, <4>2, <3>7
        <3>9. StartsFresh(s \o t, Upto(m), old)
            <4> SUFFICES ASSUME NEW x \in 1..Len(s \o t), (s \o t)[x].type = "ToolCallStart"
                         PROVE  /\ (s \o t)[x].index \in Upto(m) /\ (s \o t)[x].index \notin old
                                /\ \A y \in 1..Len(s \o t) :
                                      (s \o t)[y].type = "ToolCallStart"
                                        /\ (s \o t)[y].index = (s \o t)[x].index => y = x
                BY DEF StartsFresh
            <4>1. (s \o t)[x].index \in Upto(m) /\ (s \o t)[x].index \notin old
                BY <3>5, <3>6, <3>8
            <4>2. ASSUME NEW y \in 1..Len(s \o t), (s \o t)[y].type = "ToolCallStart",
                         (s \o t)[y].index = (s \o t)[x].index
                  PROVE  y = x
                <5>1. CASE x \in 1..Len(s) /\ y \in 1..Len(s)
                    BY <5>1, <4>2, <3>2, <3>7 DEF StartsFresh
                <5>2. CASE ~(x \in 1..Len(s) /\ y \in 1..Len(s))
                    BY <5>2, <4>2, <3>8, <3>6
                <5>3. QED
                    BY <5>1, <5>2
            <4>3. QED
                BY <4>1, <4>2
        <3>10. QED
            BY <3>4, <3>7, <3>9 DEF m
    <2>4. Len(calls) - 1 \in T
        <3> HIDE DEF T
        <3>1. Len(calls) - 1 \in Nat
            BY <1>1, <1>5
        <3>2. QED
            BY <2>2, <2>3, <3>1, Induction
    <2>5. Fresh(Len(calls))
        BY <2>4, <1>1, <1>5
    <2>6. Upto(Len(calls)) = CalledIn(calls)
        BY DEF CalledIn
    <2>7. QED
        BY <2>1, <2>5, <2>6, <1>2
<1>6. QED
    BY <1>4, <1>5

-----------------------------------------------------------------------------
(* A list of events that a chunk makes.                                     *)

FromChunk(es, begun, fresh, old) ==
    /\ es \in Seq(Waiting)
    /\ \A i \in 1..Len(es) : es[i].type \notin Ending
    /\ \A i \in 1..Len(es) : es[i].type = "Created" => i = 1 /\ ~begun
    /\ ~begun => Len(es) > 0 /\ es[1].type = "Created"
    /\ StartsFresh(es, fresh, old)

\* More events may follow that end nothing and start other calls.
LEMMA Following ==
    ASSUME NEW begun \in BOOLEAN, NEW old, NEW F, NEW G, F \cap G = {},
           NEW s, FromChunk(s, begun, F, old),
           NEW t \in Seq(Waiting), StartsFresh(t, G, old),
           \A i \in 1..Len(t) : t[i].type \notin Ending \cup {"Created"}
    PROVE  FromChunk(s \o t, begun, F \cup G, old)
<1>1. s \in Seq(Waiting)
    BY DEF FromChunk
<1>2. /\ s \o t \in Seq(Waiting) /\ Len(s \o t) = Len(s) + Len(t)
      /\ Len(s) \in Nat /\ Len(t) \in Nat
      /\ \A x \in 1..(Len(s) + Len(t)) : (s \o t)[x] = IF x <= Len(s) THEN s[x] ELSE t[x - Len(s)]
    BY <1>1, ConcatProperties, LenProperties
<1> DEFINE u == s \o t
<1>3. ASSUME NEW x \in 1..Len(u)
      PROVE  \/ x \in 1..Len(s) /\ u[x] = s[x]
             \/ x > Len(s) /\ x - Len(s) \in 1..Len(t) /\ u[x] = t[x - Len(s)]
    BY <1>2
<1> HIDE DEF u
<1>4. \A x \in 1..Len(u) : u[x].type \notin Ending
    BY <1>3 DEF FromChunk
<1>5. \A x \in 1..Len(u) : u[x].type = "Created" => x = 1 /\ ~begun
    BY <1>3 DEF FromChunk
<1>6. ~begun => Len(u) > 0 /\ u[1].type = "Created"
    BY <1>2 DEF FromChunk, u
<1>7. StartsFresh(u, F \cup G, old)
    <2> SUFFICES ASSUME NEW x \in 1..Len(u), u[x].type = "ToolCallStart"
                 PROVE  /\ u[x].index \in F \cup G /\ u[x].index \notin old
                        /\ \A y \in 1..Len(u) : u[y].type = "ToolCallStart" /\ u[y].index = u[x].index => y = x
        BY DEF StartsFresh
    <2>1. StartsFresh(s, F, old)
        BY DEF FromChunk
    <2>2. \A z \in 1..Len(u) : u[z].type = "ToolCallStart" =>
             \/ z \in 1..Len(s) /\ u[z] = s[z] /\ u[z].index \in F /\ u[z].index \notin old
             \/ z > Len(s) /\ z - Len(s) \in 1..Len(t) /\ u[z] = t[z - Len(s)]
                   /\ u[z].index \in G /\ u[z].index \notin old
        BY <1>3, <2>1 DEF StartsFresh
    <2>3. ASSUME NEW y \in 1..Len(u), u[y].type = "ToolCallStart", u[y].index = u[x].index
          PROVE  y = x
        <3>1. CASE x \in 1..Len(s) /\ y \in 1..Len(s)
            <4>1. /\ s[x].type = "ToolCallStart" /\ s[y].type = "ToolCallStart"
                  /\ s[y].index = s[x].index
                BY <3>1, <2>2, <2>3, <1>2
            <4>2. QED
                BY <4>1, <3>1, <2>1 DEF StartsFresh
        <3>2. CASE x > Len(s) /\ y > Len(s)
            <4> DEFINE p == x - Len(s)
                       q == y - Len(s)
            <4>1. /\ p \in 1..Len(t) /\ u[x] = t[p]
                  /\ q \in 1..Len(t) /\ u[y] = t[q]
                BY <3>2, <2>2, <2>3, <1>2
            <4> HIDE DEF p, q
            <4>2. t[p].type = "ToolCallStart" /\ t[q].type = "ToolCallStart" /\ t[q].index = t[p].index
                BY <4>1, <2>3
            <4>3. p = q
                BY <4>1, <4>2 DEF StartsFresh
            <4>4. QED
                BY <4>3, <1>2 DEF p, q, u
        <3>3. QED
            BY <3>1, <3>2, <2>2, <2>3, <1>2
    <2>4. QED
        BY <2>2, <2>3
<1>8. QED
    BY <1>2, <1>4, <1>5, <1>6, <1>7 DEF FromChunk, u

\* One event or none that starts no call may follow.
LEMMA OneMore ==
    ASSUME NEW begun \in BOOLEAN, NEW old, NEW F,
           NEW s, FromChunk(s, begun, F, old),
           NEW condition \in BOOLEAN, NEW event \in Waiting,
           event.type \notin Ending \cup {"Created", "ToolCallStart"}
    PROVE  FromChunk(s \o Only(condition, event), begun, F, old)
<1> DEFINE t == Only(condition, event)
<1>1. /\ t \in Seq(Waiting)
      /\ condition => Len(t) = 1 /\ t[1] = event
      /\ ~condition => Len(t) = 0
    BY OnlyOne
<1> HIDE DEF t
<1>2. \A i \in 1..Len(t) : t[i] = event
    BY <1>1
<1>3. StartsFresh(t, {}, old) /\ \A i \in 1..Len(t) : t[i].type \notin Ending \cup {"Created"}
    BY <1>2 DEF StartsFresh
<1>4. FromChunk(s \o t, begun, F \cup {}, old)
    BY <1>1, <1>3, Following
<1>5. QED
    BY <1>4 DEF t

\* The calls of a chunk are finitely many.
LEMMA FinitelyCalled ==
    ASSUME NEW calls \in Seq([index : ToolIndex, args : BOOLEAN])
    PROVE  IsFiniteSet(CalledIn(calls)) /\ CalledIn(calls) \subseteq ToolIndex
<1>1. Len(calls) \in Nat /\ \A i \in 1..Len(calls) : calls[i] \in [index : ToolIndex, args : BOOLEAN]
    BY ElementOfSeq, LenProperties
<1>2. CalledIn(calls) \subseteq ToolIndex
    BY <1>1 DEF CalledIn
<1> DEFINE f == [i \in 1..Len(calls) |-> calls[i].index]
<1>3. f \in Surjection(1..Len(calls), CalledIn(calls))
    BY DEF Surjection, CalledIn
<1>4. IsFiniteSet(1..Len(calls))
    BY <1>1, FS_Interval
<1>5. QED
    BY <1>2, <1>3, <1>4, FS_Surjection

\* The end of every call started so far.
LEMMA DoneEventsTyped ==
    ASSUME NEW S \in SUBSET ToolIndex, IsFiniteSet(S)
    PROVE  /\ DoneEvents(S) \in Seq(Waiting)
           /\ \A i \in 1..Len(DoneEvents(S)) : DoneEvents(S)[i].type = "ToolCallDone"
<1>1. S \in SUBSET Nat /\ Cardinality(S) \in Nat
    BY StreamAssumption, FS_CardinalityType
<1>2. Ascending(S) \in [1..Cardinality(S) -> S]
    BY <1>1, Listing DEF Ascending
<1>3. \A i \in 1..Cardinality(S) :
          /\ Event("ToolCallDone", Ascending(S)[i]) \in Waiting
          /\ Event("ToolCallDone", Ascending(S)[i]).type = "ToolCallDone"
    BY <1>2, EventOfCall DEF OfCalls
<1>4. QED
    BY <1>1, <1>3 DEF DoneEvents

\* What a client is told is a u32.
LEMMA ToldTyped ==
    ASSUME NEW report \in Report
    PROVE  Told(report) \in ToldUsage
<1>1. report \in [Field -> Nat \cup {None}] /\ Word \in Nat \ {0}
    BY StreamAssumption
<1>2. \A n \in Nat : n % Word \in 0..(Word - 1)
    BY <1>1
<1>3. 0 \in 0..(Word - 1)
    BY <1>1
<1>4. \A f \in Field : (IF report[f] = None THEN 0 ELSE report[f] % Word) \in 0..(Word - 1)
    BY <1>1, <1>2, <1>3
<1>5. QED
    BY <1>4 DEF Told, ToldUsage

\* What a chunk without an error becomes.
LEMMA OfChunk ==
    ASSUME NEW chunk \in Chunk, ~chunk.error, NEW begun \in BOOLEAN,
           NEW old \in SUBSET ToolIndex, IsFiniteSet(old)
    PROVE  LET es == OnChunk(chunk, begun, old) IN
           /\ FromChunk(es, begun, CalledIn(chunk.calls), old)
           /\ \A i \in 1..Len(es) : es[i].type = "Usage" =>
                 chunk.usage # None /\ es[i].usage = Told(chunk.usage)
           /\ chunk.usage # None => \E i \in 1..Len(es) : es[i].type = "Usage"
<1>1. /\ chunk.calls \in Seq([index : ToolIndex, args : BOOLEAN])
      /\ {chunk.reasoning, chunk.text, chunk.finish} \subseteq BOOLEAN
      /\ chunk.usage \in Report \cup {None}
    BY DEF Chunk
<1> DEFINE S == StartedBy(chunk, old)
<1>2. S \in SUBSET ToolIndex /\ IsFiniteSet(S)
    BY <1>1, FinitelyCalled, FS_Union DEF StartedBy
<1>3. \A type \in {"Created", "ReasoningDelta", "TextDelta"} :
         Event(type, None) \in Waiting /\ Event(type, None).type = type
    BY DEF Event, Waiting, CanonicalEvent, EventType, OfCalls
<1>4. /\ UsageEvent(chunk.usage).type = "Usage"
      /\ UsageEvent(chunk.usage).usage = Told(chunk.usage)
      /\ chunk.usage # None => UsageEvent(chunk.usage) \in Waiting
    <2>1. chunk.usage # None => Told(chunk.usage) \in ToldUsage
        BY <1>1, ToldTyped
    <2>2. QED
        BY <2>1 DEF UsageEvent, Waiting, CanonicalEvent, EventType, OfCalls
<1> DEFINE a1 == Only(~begun, Event("Created", None))
           a2 == a1 \o Only(chunk.reasoning, Event("ReasoningDelta", None))
           a3 == a2 \o Only(chunk.text, Event("TextDelta", None))
           c  == CallEvents(chunk.calls, old)
           a4 == a3 \o c
           d  == IF chunk.finish THEN DoneEvents(S) ELSE <<>>
           a5 == a4 \o d
           u  == Only(chunk.usage # None, UsageEvent(chunk.usage))
<1>5. OnChunk(chunk, begun, old) = a5 \o u
    BY DEF OnChunk
<1> HIDE DEF S
<1>6. FromChunk(a1, begun, {}, old) /\ \A i \in 1..Len(a1) : a1[i].type = "Created"
    <2> DEFINE e == Event("Created", None)
    <2>1. /\ a1 \in Seq(Waiting)
          /\ ~begun => Len(a1) = 1 /\ a1[1] = e
          /\ begun => Len(a1) = 0
        BY <1>3, OnlyOne
    <2>2. e.type = "Created"
        BY <1>3
    <2> HIDE DEF a1, e
    <2>3. QED
        BY <2>1, <2>2 DEF FromChunk, StartsFresh, Ending
<1> DEFINE r == Only(chunk.reasoning, Event("ReasoningDelta", None))
           x == Only(chunk.text, Event("TextDelta", None))
<1>7. FromChunk(a2, begun, {}, old) /\ \A i \in 1..Len(r) : r[i].type = "ReasoningDelta"
    <2>1. /\ r \in Seq(Waiting)
          /\ chunk.reasoning => Len(r) = 1 /\ r[1] = Event("ReasoningDelta", None)
          /\ ~chunk.reasoning => Len(r) = 0
        BY <1>1, <1>3, OnlyOne
    <2>2. Event("ReasoningDelta", None) \in Waiting /\ Event("ReasoningDelta", None).type = "ReasoningDelta"
        BY <1>3
    <2>3. FromChunk(a2, begun, {}, old)
        <3> HIDE DEF a1
        <3>1. QED
            BY <1>1, <1>6, <2>2, OneMore DEF Ending
    <2> HIDE DEF r, a2
    <2>4. QED
        BY <2>1, <2>2, <2>3
<1>8. FromChunk(a3, begun, {}, old) /\ \A i \in 1..Len(x) : x[i].type = "TextDelta"
    <2>1. /\ x \in Seq(Waiting)
          /\ chunk.text => Len(x) = 1 /\ x[1] = Event("TextDelta", None)
          /\ ~chunk.text => Len(x) = 0
        BY <1>1, <1>3, OnlyOne
    <2>2. Event("TextDelta", None) \in Waiting /\ Event("TextDelta", None).type = "TextDelta"
        BY <1>3
    <2>3. FromChunk(a3, begun, {}, old)
        <3> HIDE DEF a2
        <3>1. QED
            BY <1>1, <1>7, <2>2, OneMore DEF Ending
    <2> HIDE DEF x, a3
    <2>4. QED
        BY <2>1, <2>2, <2>3
<1>9. FromChunk(a4, begun, CalledIn(chunk.calls), old) /\ \A i \in 1..Len(c) : c[i].type # "Usage"
    <2>1. c \in Seq(CallEvent) /\ StartsFresh(c, CalledIn(chunk.calls), old)
        BY <1>1, CallsStartFresh
    <2> HIDE DEF c, a3
    <2>2. /\ c \in Seq(Waiting)
          /\ \A i \in 1..Len(c) : c[i].type \notin Ending \cup {"Created"} /\ c[i].type # "Usage"
        <3>1. CallEvent \subseteq Waiting
            BY DEF CallEvent
        <3>2. \A i \in 1..Len(c) : c[i] \in CallEvent
            BY <2>1, ElementOfSeq
        <3>3. c \in Seq(Waiting)
            BY <3>1, <3>2, <2>1
        <3>4. QED
            BY <3>2, <3>3 DEF CallEvent, Ending
    <2>3. FromChunk(a4, begun, {} \cup CalledIn(chunk.calls), old)
        BY <1>8, <2>1, <2>2, Following
    <2>4. QED
        BY <2>2, <2>3
<1>10. FromChunk(a5, begun, CalledIn(chunk.calls), old) /\ \A i \in 1..Len(d) : d[i].type # "Usage"
    <2>1. /\ d \in Seq(Waiting) /\ \A i \in 1..Len(d) : d[i].type = "ToolCallDone"
        BY <1>2, DoneEventsTyped
    <2> HIDE DEF d, a4
    <2>2. StartsFresh(d, {}, old) /\ \A i \in 1..Len(d) : d[i].type \notin Ending \cup {"Created"}
        BY <2>1 DEF StartsFresh, Ending
    <2>3. FromChunk(a5, begun, CalledIn(chunk.calls) \cup {}, old)
        BY <1>9, <2>1, <2>2, Following
    <2>4. QED
        BY <2>1, <2>3
<1>11. \A i \in 1..Len(a5) : a5[i].type # "Usage"
    <2>1. a1 \in Seq(Waiting) /\ a2 \in Seq(Waiting) /\ a3 \in Seq(Waiting) /\ a4 \in Seq(Waiting)
        BY <1>6, <1>7, <1>8, <1>9 DEF FromChunk
    <2> DEFINE NoUsage(q) == \A i \in 1..Len(q) : q[i].type # "Usage"
    <2>2. ASSUME NEW q, NEW w, q \in Seq(Waiting), w \in Seq(Waiting), NoUsage(q), NoUsage(w)
          PROVE  NoUsage(q \o w)
        <3>1. /\ Len(q \o w) = Len(q) + Len(w) /\ Len(q) \in Nat /\ Len(w) \in Nat
              /\ \A z \in 1..(Len(q) + Len(w)) : (q \o w)[z] = IF z <= Len(q) THEN q[z] ELSE w[z - Len(q)]
            BY <2>2, ConcatProperties, LenProperties
        <3>2. ASSUME NEW z \in 1..Len(q \o w) PROVE (q \o w)[z].type # "Usage"
            <4>1. \/ z \in 1..Len(q) /\ (q \o w)[z] = q[z]
                  \/ z - Len(q) \in 1..Len(w) /\ (q \o w)[z] = w[z - Len(q)]
                BY <3>1
            <4>2. QED
                BY <4>1, <2>2
        <3>3. QED
            BY <3>2
    <2>3. r \in Seq(Waiting) /\ x \in Seq(Waiting) /\ c \in Seq(Waiting) /\ d \in Seq(Waiting)
        <3>1. r \in Seq(Waiting) /\ x \in Seq(Waiting)
            BY <1>1, <1>3, OnlyOne
        <3>2. c \in Seq(CallEvent) /\ CallEvent \subseteq Waiting
            BY <1>1, CallsStartFresh DEF CallEvent
        <3>3. c \in Seq(Waiting)
            <4> HIDE DEF c
            <4>1. QED
                BY <3>2
        <3>4. d \in Seq(Waiting)
            BY <1>2, DoneEventsTyped
        <3>5. QED
            BY <3>1, <3>3, <3>4
    <2>4. NoUsage(a1) /\ NoUsage(r) /\ NoUsage(x) /\ NoUsage(c) /\ NoUsage(d)
        <3> HIDE DEF a1, r, x, c, d
        <3>1. QED
            BY <1>6, <1>7, <1>8, <1>9, <1>10
    <2>5. a2 = a1 \o r /\ a3 = a2 \o x
        OBVIOUS
    <2> HIDE DEF a1, a2, a3, r, x, c, d, NoUsage
    <2>6. NoUsage(a2)
        BY <2>1, <2>2, <2>3, <2>4, <2>5
    <2>7. NoUsage(a3)
        BY <2>1, <2>2, <2>3, <2>4, <2>5, <2>6
    <2>8. NoUsage(a4)
        BY <2>1, <2>2, <2>3, <2>4, <2>7
    <2>9. NoUsage(a5)
        <3> HIDE DEF a4
        <3>1. QED
            BY <2>1, <2>2, <2>3, <2>4, <2>8
    <2>10. QED
        BY <2>9 DEF NoUsage
<1> HIDE DEF a5
<1>12. CASE chunk.usage # None
    <2>1. u = <<UsageEvent(chunk.usage)>>
        BY <1>12 DEF Only
    <2>2. FromChunk(a5 \o u, begun, CalledIn(chunk.calls), old)
        BY <1>4, <1>10, <1>12, OneMore DEF Ending
    <2>3. Len(u) = 1 /\ u[1] = UsageEvent(chunk.usage)
        BY <2>1
    <2>4. a5 \in Seq(Waiting) /\ u \in Seq(Waiting)
        <3>1. a5 \in Seq(Waiting)
            BY <1>10 DEF FromChunk
        <3>2. UsageEvent(chunk.usage) \in Waiting
            BY <1>4, <1>12
        <3>3. \A e \in Waiting : <<e>> \in Seq(Waiting)
            OBVIOUS
        <3> HIDE DEF u
        <3>4. u \in Seq(Waiting)
            BY <2>1, <3>2, <3>3
        <3>5. QED
            BY <3>1, <3>4
    <2> HIDE DEF u
    <2>5. /\ Len(a5 \o u) = Len(a5) + 1 /\ Len(a5) \in Nat
          /\ \A z \in 1..(Len(a5) + 1) : (a5 \o u)[z] = IF z <= Len(a5) THEN a5[z] ELSE u[z - Len(a5)]
        <3> HIDE DEF a5
        <3>1. Len(a5) \in Nat /\ Len(u) = 1
            BY <2>3, <2>4, LenProperties
        <3>2. /\ Len(a5 \o u) = Len(a5) + Len(u)
              /\ \A z \in 1..(Len(a5) + Len(u)) :
                    (a5 \o u)[z] = IF z <= Len(a5) THEN a5[z] ELSE u[z - Len(a5)]
            BY <2>3, <2>4, ConcatProperties
        <3>3. QED
            BY <3>1, <3>2
    <2>6. (a5 \o u)[Len(a5) + 1] = UsageEvent(chunk.usage)
        BY <2>3, <2>5
    <2>7. \A z \in 1..Len(a5 \o u) : z # Len(a5) + 1 => z \in 1..Len(a5) /\ (a5 \o u)[z] = a5[z]
        BY <2>5
    <2>8. Len(a5) + 1 \in 1..Len(a5 \o u)
        BY <2>5
    <2>9. /\ (a5 \o u)[Len(a5) + 1].type = "Usage"
          /\ (a5 \o u)[Len(a5) + 1].usage = Told(chunk.usage)
        BY <1>4, <2>6
    <2>10. \A z \in 1..Len(a5 \o u) : (a5 \o u)[z].type = "Usage" => z = Len(a5) + 1
        BY <1>11, <2>7
    <2>11. QED
        BY <1>5, <1>12, <2>2, <2>8, <2>9, <2>10
<1>13. CASE chunk.usage = None
    <2>1. u = <<>> /\ a5 \in Seq(Waiting)
        BY <1>10, <1>13 DEF Only, FromChunk
    <2>2. a5 \o u = a5
        BY <2>1
    <2>3. QED
        BY <1>5, <1>10, <1>11, <1>13, <2>2
<1>14. QED
    BY <1>12, <1>13

-----------------------------------------------------------------------------
(* The frames of both dialects, under one name each.                        *)

Begins(ev) ==
    /\ ev.type \in {"Created", "ReasoningDelta", "TextDelta", "ToolCallStart"}
    /\ \/ dialect = "anthropic" /\ ~started /\ started' = TRUE
       \/ dialect = "responses" /\ ev.type = "Created" /\ UNCHANGED started
    /\ Client!HearPhase("within")
    /\ UNCHANGED <<next, reasoning, reasoningText, message, messageText, tools, toolArgs,
                   anyTool, usage, output>>

OpensReasoning(ev) ==
    /\ ev.type = "ReasoningDelta" /\ reasoning = None
    /\ reasoning' = next /\ next' = next + 1 /\ Client!HearOpen(next, "reasoning")
    /\ UNCHANGED <<started, reasoningText, message, messageText, tools, toolArgs, anyTool,
                   usage, output>>

OpensMessage(ev) ==
    /\ ev.type = "TextDelta" /\ reasoning = None /\ message = None
    /\ message' = next /\ next' = next + 1 /\ Client!HearOpen(next, "text")
    /\ UNCHANGED <<started, reasoning, reasoningText, messageText, tools, toolArgs, anyTool,
                   usage, output>>

OpensTool(ev) ==
    /\ ev.type = "ToolCallStart" /\ reasoning = None /\ message = None
    /\ tools' = [tools EXCEPT ![ev.index] = next] /\ toolArgs' = [toolArgs EXCEPT ![ev.index] = 0]
    /\ anyTool' = IF dialect = "anthropic" THEN TRUE ELSE anyTool
    /\ next' = next + 1 /\ Client!HearOpen(next, "tool")
    /\ UNCHANGED <<started, reasoning, reasoningText, message, messageText, usage, output>>

PartsReasoning(ev) ==
    /\ ev.type = "ReasoningDelta" /\ reasoning # None
    /\ reasoningText' = reasoningText + 1 /\ Client!HearPart(reasoning, "reasoning")
    /\ UNCHANGED <<started, next, reasoning, message, messageText, tools, toolArgs, anyTool,
                   usage, output>>

PartsMessage(ev) ==
    /\ ev.type = "TextDelta" /\ message # None
    /\ messageText' = messageText + 1 /\ Client!HearPart(message, "text")
    /\ UNCHANGED <<started, next, reasoning, reasoningText, message, tools, toolArgs, anyTool,
                   usage, output>>

PartsTool(ev) ==
    /\ ev.type = "ToolCallArgsDelta" /\ tools[ev.index] # None
    /\ toolArgs' = [toolArgs EXCEPT ![ev.index] = @ + 1] /\ Client!HearPart(tools[ev.index], "tool")
    /\ UNCHANGED <<started, next, reasoning, reasoningText, message, messageText, tools, anyTool,
                   usage, output>>

ClosesReasoning(ev) ==
    /\ ev.type \in {"TextDelta", "ToolCallStart", "Completed"} /\ reasoning # None
    /\ reasoning' = None
    /\ output' = Append(output, [index |-> reasoning, kind |-> "reasoning", text |-> reasoningText])
    /\ Client!HearClose(reasoning)
    /\ UNCHANGED <<started, next, reasoningText, message, messageText, tools, toolArgs, anyTool, usage>>

ClosesMessage(ev) ==
    /\ ev.type \in {"ToolCallStart", "Completed"} /\ message # None
    /\ message' = None
    /\ output' = Append(output, [index |-> message, kind |-> "text", text |-> messageText])
    /\ Client!HearClose(message)
    /\ UNCHANGED <<started, next, reasoning, reasoningText, messageText, tools, toolArgs, anyTool, usage>>

ClosesTool(k) ==
    /\ k \in ToolIndex /\ tools[k] # None
    /\ tools' = [tools EXCEPT ![k] = None]
    /\ output' = Append(output, [index |-> tools[k], kind |-> "tool", text |-> toolArgs[k]])
    /\ Client!HearClose(tools[k])
    /\ UNCHANGED <<started, next, reasoning, reasoningText, message, messageText, toolArgs, anyTool, usage>>

Tells(p) == Client!HearPhase(p) /\ UNCHANGED emitter

NothingOpen == reasoning = None /\ message = None /\ \A k \in ToolIndex : tools[k] = None

\* An event without a frame: what a client of the dialect does not hear of.
Silent(ev) ==
    /\ \/ ev.type = "Created" /\ dialect = "anthropic" /\ started
       \/ ev.type \in {"ToolCallArgsDelta", "ToolCallDone", "Usage"}
    /\ usage' = IF ev.type = "Usage" THEN ev.usage ELSE usage
    /\ UNCHANGED <<view, started, next, reasoning, reasoningText, message, messageText, tools,
                   toolArgs, anyTool, output>>

\* A frame that precedes the event's own.
PreparingFrame(ev) ==
    \/ dialect = "anthropic" /\ Begins(ev)
    \/ OpensReasoning(ev) \/ OpensMessage(ev)
    \/ ClosesReasoning(ev) \/ ClosesMessage(ev)
    \/ ev.type = "Completed" /\ \E k \in ToolIndex : ClosesTool(k)
    \/ ev.type = "Completed" /\ dialect = "anthropic" /\ NothingOpen /\ phase # "summed" /\ Tells("summed")

\* The event's own frame.
OwnFrame(ev) ==
    \/ dialect = "responses" /\ Begins(ev)
    \/ Silent(ev)
    \/ PartsReasoning(ev) \/ PartsMessage(ev) \/ PartsTool(ev)
    \/ OpensTool(ev)
    \/ ev.type = "ToolCallDone" /\ ClosesTool(ev.index)
    \/ /\ ev.type = "Completed" /\ Tells("ended")
       /\ \/ dialect = "anthropic" /\ phase = "summed"
          \/ dialect = "responses" /\ NothingOpen
    \/ ev.type = "Error" /\ Tells("failed")

\* The open tools of either emitter, and the one that is closed first.
LEMMA FirstOpenTool ==
    ASSUME {k \in ToolIndex : tools[k] # None} # {}
    PROVE  LET k == Min({l \in ToolIndex : tools[l] # None}) IN k \in ToolIndex /\ tools[k] # None
<1> DEFINE S == {l \in ToolIndex : tools[l] # None}
<1>1. S \in SUBSET Nat /\ S # {}
    BY StreamAssumption
<1>2. Min(S) \in S
    <2> HIDE DEF S
    <2>1. QED
        BY <1>1, MinIsLeast
<1>3. QED
    BY <1>2

\* What precedes an event's own frame.
LEMMA Preparing ==
    ASSUME NEW ev \in Waiting, Prepare(ev)
    PROVE  PreparingFrame(ev)
<1>1. CASE dialect = "anthropic" /\ Anthropic!Prepare(ev)
    <2>1. CASE Anthropic!Start(ev)
        BY <2>1, <1>1 DEF Anthropic!Start, Anthropic!HearPhase, Client!HearPhase, Begins, PreparingFrame
    <2>2. CASE Anthropic!CloseThinking(ev)
        BY <2>2 DEF Anthropic!CloseThinking, Anthropic!HearClose, Client!HearClose, Anthropic!Final,
            ClosesReasoning, PreparingFrame
    <2>3. CASE Anthropic!CloseText(ev)
        BY <2>3 DEF Anthropic!CloseText, Anthropic!HearClose, Client!HearClose, Anthropic!Final,
            ClosesMessage, PreparingFrame
    <2>4. CASE Anthropic!EnsureThinkingOpen(ev)
        BY <2>4 DEF Anthropic!EnsureThinkingOpen, Anthropic!HearOpen, Client!HearOpen,
            Anthropic!Block, Client!Block, OpensReasoning, PreparingFrame
    <2>5. CASE Anthropic!EnsureTextOpen(ev)
        BY <2>5 DEF Anthropic!EnsureTextOpen, Anthropic!HearOpen, Client!HearOpen,
            Anthropic!Block, Client!Block, OpensMessage, PreparingFrame
    <2>6. CASE Anthropic!CloseOpenTools(ev)
        <3> DEFINE k == Min({l \in ToolIndex : tools[l] # None})
        <3>1. k \in ToolIndex /\ tools[k] # None
            BY <2>6, FirstOpenTool DEF Anthropic!CloseOpenTools, Anthropic!OpenTools
        <3>2. Anthropic!FinishTool(k) /\ ev.type = "Completed"
            BY <2>6 DEF Anthropic!CloseOpenTools, Anthropic!OpenTools, Anthropic!Min, Min
        <3> HIDE DEF k
        <3>3. ClosesTool(k)
            BY <3>1, <3>2 DEF Anthropic!FinishTool, Anthropic!HearClose, Client!HearClose,
                Anthropic!Final, ClosesTool
        <3>4. QED
            BY <3>1, <3>2, <3>3 DEF PreparingFrame
    <2>7. CASE Anthropic!Summarize(ev)
        BY <2>7, <1>1 DEF Anthropic!Summarize, Anthropic!OpenTools, Anthropic!HearPhase, Client!HearPhase,
            Anthropic!emitter, emitter, Tells, NothingOpen, PreparingFrame
    <2>8. QED
        BY <1>1, <2>1, <2>2, <2>3, <2>4, <2>5, <2>6, <2>7 DEF Anthropic!Prepare
<1>2. CASE dialect = "responses" /\ Responses!Prepare(ev) /\ UNCHANGED <<started, anyTool>>
    <2>1. CASE Responses!CloseReasoning(ev)
        BY <2>1, <1>2 DEF Responses!CloseReasoning, Responses!HearClose, Client!HearClose, Responses!Final,
            ClosesReasoning, PreparingFrame
    <2>2. CASE Responses!CloseMessage(ev)
        BY <2>2, <1>2 DEF Responses!CloseMessage, Responses!HearClose, Client!HearClose, Responses!Final,
            ClosesMessage, PreparingFrame
    <2>3. CASE Responses!EnsureReasoningOpen(ev)
        BY <2>3, <1>2 DEF Responses!EnsureReasoningOpen, Responses!HearOpen, Client!HearOpen,
            Responses!Block, Client!Block, OpensReasoning, PreparingFrame
    <2>4. CASE Responses!EnsureMessageOpen(ev)
        BY <2>4, <1>2 DEF Responses!EnsureMessageOpen, Responses!HearOpen, Client!HearOpen,
            Responses!Block, Client!Block, OpensMessage, PreparingFrame
    <2>5. CASE Responses!CloseOpenTools(ev)
        <3> DEFINE k == Min({l \in ToolIndex : tools[l] # None})
        <3>1. k \in ToolIndex /\ tools[k] # None
            BY <2>5, FirstOpenTool DEF Responses!CloseOpenTools, Responses!OpenTools
        <3>2. Responses!FinishTool(k) /\ ev.type = "Completed"
            BY <2>5 DEF Responses!CloseOpenTools, Responses!OpenTools, Responses!Min, Min
        <3> HIDE DEF k
        <3>3. ClosesTool(k)
            BY <3>1, <3>2, <1>2 DEF Responses!FinishTool, Responses!HearClose, Client!HearClose,
                Responses!Final, ClosesTool
        <3>4. QED
            BY <3>1, <3>2, <3>3 DEF PreparingFrame
    <2>6. QED
        BY <1>2, <2>1, <2>2, <2>3, <2>4, <2>5 DEF Responses!Prepare
<1>3. QED
    BY <1>1, <1>2 DEF Prepare

\* The event's own frame.
LEMMA Delivering ==
    ASSUME NEW ev \in Waiting, Deliver(ev)
    PROVE  OwnFrame(ev)
<1>0. ev.type \in OfCalls => ev.index \in ToolIndex
    BY DEF Waiting
<1>1. CASE dialect = "anthropic" /\ Anthropic!Deliver(ev)
    <2>1. CASE Anthropic!Created(ev)
        BY <2>1, <1>1 DEF Anthropic!Created, Anthropic!emitter, Anthropic!view, view, Silent, OwnFrame
    <2>2. CASE Anthropic!ReasoningDelta(ev)
        BY <2>2 DEF Anthropic!ReasoningDelta, Anthropic!HearPart, Client!HearPart, PartsReasoning, OwnFrame
    <2>3. CASE Anthropic!TextDelta(ev)
        BY <2>3 DEF Anthropic!TextDelta, Anthropic!HearPart, Client!HearPart, PartsMessage, OwnFrame
    <2>4. CASE Anthropic!ToolCallStart(ev)
        BY <2>4, <1>1 DEF Anthropic!ToolCallStart, Anthropic!HearOpen, Client!HearOpen,
            Anthropic!Block, Client!Block, OpensTool, OwnFrame
    <2>5. CASE Anthropic!ToolCallArgsDelta(ev) /\ tools[ev.index] # None
        BY <2>5 DEF Anthropic!ToolCallArgsDelta, Anthropic!HearPart, Client!HearPart, PartsTool, OwnFrame
    <2>6. CASE Anthropic!ToolCallArgsDelta(ev) /\ ~(tools[ev.index] # None)
        BY <2>6 DEF Anthropic!ToolCallArgsDelta, Anthropic!view, view, Silent, OwnFrame
    <2>7. CASE Anthropic!ToolCallDone(ev) /\ tools[ev.index] # None
        BY <2>7, <1>0 DEF Anthropic!ToolCallDone, Anthropic!FinishTool, Anthropic!HearClose, Client!HearClose,
            Anthropic!Final, ClosesTool, OwnFrame, OfCalls
    <2>8. CASE Anthropic!ToolCallDone(ev) /\ ~(tools[ev.index] # None)
        BY <2>8 DEF Anthropic!ToolCallDone, Anthropic!emitter, Anthropic!view, view, Silent, OwnFrame
    <2>9. CASE Anthropic!Usage(ev)
        BY <2>9 DEF Anthropic!Usage, Anthropic!view, view, Silent, OwnFrame
    <2>10. CASE Anthropic!Completed(ev)
        BY <2>10, <1>1 DEF Anthropic!Completed, Anthropic!HearPhase, Client!HearPhase, Anthropic!emitter,
            emitter, Tells, OwnFrame
    <2>11. CASE Anthropic!Error(ev)
        BY <2>11, <1>1 DEF Anthropic!Error, Anthropic!HearPhase, Client!HearPhase, Anthropic!emitter,
            emitter, Tells, OwnFrame
    <2>12. QED
        BY <1>1, <2>1, <2>2, <2>3, <2>4, <2>5, <2>6, <2>7, <2>8, <2>9, <2>10, <2>11 DEF Anthropic!Deliver
<1>2. CASE dialect = "responses" /\ Responses!Deliver(ev) /\ UNCHANGED <<started, anyTool>>
    <2>1. CASE Responses!Created(ev)
        BY <2>1, <1>2 DEF Responses!Created, Responses!HearPhase, Client!HearPhase, Responses!emitter,
            Begins, OwnFrame
    <2>2. CASE Responses!ReasoningDelta(ev)
        BY <2>2, <1>2 DEF Responses!ReasoningDelta, Responses!HearPart, Client!HearPart, PartsReasoning, OwnFrame
    <2>3. CASE Responses!TextDelta(ev)
        BY <2>3, <1>2 DEF Responses!TextDelta, Responses!HearPart, Client!HearPart, PartsMessage, OwnFrame
    <2>4. CASE Responses!ToolCallStart(ev)
        BY <2>4, <1>2 DEF Responses!ToolCallStart, Responses!HearOpen, Client!HearOpen,
            Responses!Block, Client!Block, OpensTool, OwnFrame
    <2>5. CASE Responses!ToolCallArgsDelta(ev) /\ tools[ev.index] # None
        BY <2>5, <1>2 DEF Responses!ToolCallArgsDelta, Responses!HearPart, Client!HearPart, PartsTool, OwnFrame
    <2>6. CASE Responses!ToolCallArgsDelta(ev) /\ ~(tools[ev.index] # None)
        BY <2>6, <1>2 DEF Responses!ToolCallArgsDelta, Responses!view, view, Silent, OwnFrame
    <2>7. CASE Responses!ToolCallDone(ev) /\ tools[ev.index] # None
        BY <2>7, <1>0, <1>2 DEF Responses!ToolCallDone, Responses!FinishTool, Responses!HearClose,
            Client!HearClose, Responses!Final, ClosesTool, OwnFrame, OfCalls
    <2>8. CASE Responses!ToolCallDone(ev) /\ ~(tools[ev.index] # None)
        BY <2>8, <1>2 DEF Responses!ToolCallDone, Responses!emitter, Responses!view, view, Silent, OwnFrame
    <2>9. CASE Responses!Usage(ev)
        BY <2>9, <1>2 DEF Responses!Usage, Responses!view, view, Silent, OwnFrame
    <2>10. CASE Responses!Completed(ev)
        BY <2>10, <1>2 DEF Responses!Completed, Responses!HearPhase, Client!HearPhase, Responses!emitter,
            Responses!OpenTools, NothingOpen, emitter, Tells, OwnFrame
    <2>11. CASE Responses!Error(ev)
        BY <2>11, <1>2 DEF Responses!Error, Responses!HearPhase, Client!HearPhase, Responses!emitter,
            emitter, Tells, OwnFrame
    <2>12. QED
        BY <1>2, <2>1, <2>2, <2>3, <2>4, <2>5, <2>6, <2>7, <2>8, <2>9, <2>10, <2>11 DEF Responses!Deliver
<1>3. QED
    BY <1>1, <1>2 DEF Deliver

-----------------------------------------------------------------------------
(* What every frame keeps: the emitter and its client agree.                *)

\* One more at the end.
LEMMA OneAtTheEnd ==
    ASSUME NEW S, NEW s \in Seq(S), NEW e \in S
    PROVE  /\ Append(s, e) \in Seq(S) /\ Len(Append(s, e)) = Len(s) + 1 /\ Len(s) \in Nat
           /\ \A i \in 1..Len(s) : Append(s, e)[i] = s[i]
           /\ Append(s, e)[Len(s) + 1] = e
BY AppendProperties, LenProperties

\* A block that opens has a place of its own.
LEMMA OutputOfOpen ==
    ASSUME BlockInv, BlocksApart', output' = output, next' = next + 1,
           NEW kind \in BlockKinds, kinds' = Append(kinds, kind), parts' = Append(parts, 0),
           \A i \in Nat : IsOpenAt(i)' <=> IsOpenAt(i) \/ i = next
    PROVE  OutputMatches'
<1>1. /\ next \in Nat /\ Len(kinds) = next /\ Len(parts) = next /\ output \in Seq(OutputItem)
      /\ kinds \in Seq(BlockKinds) /\ parts \in Seq(Nat)
    BY DEF BlockInv, EmitterTyped, BlocksApart
<1>2. \A i \in 1..next : kinds'[i] = kinds[i] /\ parts'[i] = parts[i]
    BY <1>1, OneAtTheEnd
<1>3. ASSUME NEW n \in 1..Len(output)
      PROVE  /\ output[n].index \in 0..(next - 1) /\ ~IsOpenAt(output[n].index)
             /\ output[n].kind = kinds[output[n].index + 1]
             /\ output[n].text >= parts[output[n].index + 1]
             /\ output[n].kind = "tool" => output[n].text = parts[output[n].index + 1]
             /\ \A m \in 1..Len(output) : output[m].index = output[n].index => m = n
    <2>1. output[n] \in OutputItem
        BY <1>1, ElementOfSeq
    <2>2. output[n].index \in Nat
        BY <2>1 DEF OutputItem
    <2>3. QED
        BY <1>1, <2>2 DEF BlockInv, OutputMatches
<1>4. ASSUME NEW n \in 1..Len(output)
      PROVE  /\ output[n].index < next' /\ ~IsOpenAt(output[n].index)'
             /\ output[n].kind = kinds'[output[n].index + 1]
             /\ output[n].text >= parts'[output[n].index + 1]
             /\ output[n].kind = "tool" => output[n].text = parts'[output[n].index + 1]
             /\ \A m \in 1..Len(output) : output[m].index = output[n].index => m = n
    <2> DEFINE i == output[n].index
    <2>1. i \in 0..(next - 1)
        BY <1>3
    <2>2. i + 1 \in 1..next /\ i \in Nat /\ i # next /\ i < next'
        <3> HIDE DEF i
        <3>1. QED
            BY <1>1, <2>1
    <2>3. ~IsOpenAt(i)'
        BY <1>3, <2>2
    <2>4. QED
        BY <1>2, <1>3, <2>2, <2>3
<1>5. \A i \in 0..(next' - 1) : IsOpenAt(i)' \/ \E n \in 1..Len(output) : output[n].index = i
    BY <1>1 DEF BlockInv, OutputMatches
<1>6. QED
    BY <1>4, <1>5 DEF OutputMatches, IsOpenAt

\* A fragment goes to an open block.
LEMMA OutputOfPart ==
    ASSUME BlockInv, output' = output, next' = next, kinds' = kinds,
           NEW j \in Nat, IsOpenAt(j), parts' = [parts EXCEPT ![j + 1] = @ + 1],
           \A i \in Nat : IsOpenAt(i)' <=> IsOpenAt(i)
    PROVE  OutputMatches'
<1>1. /\ next \in Nat /\ output \in Seq(OutputItem) /\ parts \in Seq(Nat) /\ Len(parts) = next
    BY DEF BlockInv, EmitterTyped, BlocksApart
<1>2. \A i \in 1..next : i # j + 1 => parts'[i] = parts[i]
    BY <1>1
<1>3. ASSUME NEW n \in 1..Len(output)
      PROVE  /\ output[n].index \in Nat /\ output[n].index # j
             /\ output[n].index < next /\ ~IsOpenAt(output[n].index)
             /\ output[n].kind = kinds[output[n].index + 1]
             /\ output[n].text >= parts[output[n].index + 1]
             /\ output[n].kind = "tool" => output[n].text = parts[output[n].index + 1]
             /\ \A m \in 1..Len(output) : output[m].index = output[n].index => m = n
    <2>1. output[n] \in OutputItem
        BY <1>1, ElementOfSeq
    <2>2. output[n].index \in Nat
        BY <2>1 DEF OutputItem
    <2>3. QED
        BY <1>1, <2>2 DEF BlockInv, OutputMatches
<1>4. ASSUME NEW n \in 1..Len(output) PROVE parts'[output[n].index + 1] = parts[output[n].index + 1]
    BY <1>1, <1>2, <1>3
<1>5. \A i \in 0..(next - 1) : IsOpenAt(i)' \/ \E n \in 1..Len(output) : output[n].index = i
    BY <1>1 DEF BlockInv, OutputMatches
<1>6. QED
    BY <1>3, <1>4, <1>5 DEF OutputMatches, IsOpenAt

\* A block that closes is listed.
LEMMA OutputOfClose ==
    ASSUME BlockInv, next' = next, kinds' = kinds, parts' = parts,
           NEW o \in OutputItem, output' = Append(output, o),
           o.index < next, IsOpenAt(o.index), o.kind = kinds[o.index + 1],
           o.text >= parts[o.index + 1], o.kind = "tool" => o.text = parts[o.index + 1],
           \A i \in Nat : IsOpenAt(i)' <=> IsOpenAt(i) /\ i # o.index
    PROVE  OutputMatches'
<1>1. /\ next \in Nat /\ output \in Seq(OutputItem) /\ o.index \in Nat
    BY DEF BlockInv, EmitterTyped, OutputItem
<1> DEFINE w == Append(output, o)
<1>2. /\ Len(w) = Len(output) + 1 /\ Len(output) \in Nat
      /\ \A i \in 1..Len(output) : w[i] = output[i]
      /\ w[Len(output) + 1] = o
    BY <1>1, OneAtTheEnd
<1> HIDE DEF w
<1>3. ASSUME NEW n \in 1..Len(output)
      PROVE  /\ output[n].index \in Nat /\ output[n].index # o.index
             /\ output[n].index < next /\ ~IsOpenAt(output[n].index)
             /\ output[n].kind = kinds[output[n].index + 1]
             /\ output[n].text >= parts[output[n].index + 1]
             /\ output[n].kind = "tool" => output[n].text = parts[output[n].index + 1]
             /\ \A m \in 1..Len(output) : output[m].index = output[n].index => m = n
    <2>1. output[n] \in OutputItem
        BY <1>1, ElementOfSeq
    <2>2. output[n].index \in Nat
        BY <2>1 DEF OutputItem
    <2>3. QED
        BY <1>1, <2>2 DEF BlockInv, OutputMatches
<1>4. ASSUME NEW n \in 1..Len(w)
      PROVE  \/ n = Len(output) + 1 /\ w[n] = o
             \/ n \in 1..Len(output) /\ w[n] = output[n]
    BY <1>2
<1>5. ASSUME NEW n \in 1..Len(w)
      PROVE  /\ w[n].index < next
             /\ \A i \in Nat : w[n].index = i => ~IsOpenAt(i)'
             /\ w[n].index \in Nat
             /\ w[n].kind = kinds[w[n].index + 1]
             /\ w[n].text >= parts[w[n].index + 1]
             /\ w[n].kind = "tool" => w[n].text = parts[w[n].index + 1]
    BY <1>1, <1>3, <1>4
<1>6. ASSUME NEW n \in 1..Len(w), NEW m \in 1..Len(w), w[m].index = w[n].index PROVE m = n
    BY <1>3, <1>4, <1>6
<1>7. ASSUME NEW i \in 0..(next - 1)
      PROVE  IsOpenAt(i)' \/ \E n \in 1..Len(w) : w[n].index = i
    <2>1. i \in Nat /\ (IsOpenAt(i) \/ \E n \in 1..Len(output) : output[n].index = i)
        BY <1>1 DEF BlockInv, OutputMatches
    <2>2. \A n \in 1..Len(output) : n \in 1..Len(w) /\ w[n] = output[n]
        BY <1>2
    <2>3. Len(output) + 1 \in 1..Len(w)
        BY <1>2
    <2>4. QED
        BY <1>2, <2>1, <2>2, <2>3
<1>8. output' = w
    BY DEF w
<1>9. QED
    <2>1. ASSUME NEW n \in 1..Len(w)
          PROVE  /\ reasoning' # w[n].index /\ message' # w[n].index
                 /\ \A k \in ToolIndex : tools'[k] # w[n].index
        BY <1>5 DEF IsOpenAt
    <2>2. \A i \in 0..(next - 1) :
             \/ reasoning' = i \/ message' = i \/ \E k \in ToolIndex : tools'[k] = i
             \/ \E n \in 1..Len(w) : w[n].index = i
        BY <1>7 DEF IsOpenAt
    <2> HIDE DEF w
    <2>3. QED
        BY <1>5, <1>6, <1>8, <2>1, <2>2 DEF OutputMatches, IsOpenAt
\* Opening a block of reasoning.
LEMMA ReasoningOpens ==
    ASSUME BlockInv, NEW ev, UNCHANGED dialect, OpensReasoning(ev)
    PROVE  BlockInv'
<1> USE DEF OpensReasoning
<1>0. StreamAssumption /\ None \notin Nat
    BY StreamAssumption
<1>1. EmitterTyped
    BY DEF BlockInv
<1>2. /\ next \in Nat /\ Len(kinds) = next /\ Len(parts) = next
      /\ kinds \in Seq(BlockKinds) /\ parts \in Seq(Nat) /\ "reasoning" \in BlockKinds
    BY <1>1 DEF BlockInv, BlocksApart, EmitterTyped, BlockKinds
<1>3. /\ next' = next + 1 /\ kinds' = Append(kinds, "reasoning") /\ parts' = Append(parts, 0)
      /\ open' = open \cup {[index |-> next, kind |-> "reasoning"]}
      /\ heard' = heard + 1 /\ phase' = phase /\ output' = output
    BY DEF Client!HearOpen, Client!Block
<1>4. /\ kinds' \in Seq(BlockKinds) /\ parts' \in Seq(Nat) /\ Len(kinds') = next' /\ Len(parts') = next'
      /\ \A i \in 1..next : kinds'[i] = kinds[i] /\ parts'[i] = parts[i]
      /\ kinds'[next + 1] = "reasoning" /\ parts'[next + 1] = 0
    BY <1>2, <1>3, OneAtTheEnd
<1>5. EmitterTyped'
    <2>1. next' \in Nat /\ heard' \in Nat /\ open' \subseteq [index : Nat, kind : BlockKinds]
        BY <1>1, <1>2, <1>3 DEF EmitterTyped
    <2>2. {reasoning', message'} \subseteq Nat \cup {None} /\ tools' \in [ToolIndex -> Nat \cup {None}]
        BY <1>1, <1>2 DEF EmitterTyped
    <2>3. {started', anyTool'} \subseteq BOOLEAN
        BY <1>1 DEF EmitterTyped
    <2>4. toolArgs' \in [ToolIndex -> Nat] /\ {reasoningText', messageText'} \subseteq Nat
             /\ usage' \in ToldUsage \cup {None}
        BY <1>1 DEF EmitterTyped
    <2>5. QED
        BY <1>1, <1>3, <1>4, <2>1, <2>2, <2>3, <2>4 DEF EmitterTyped
<1>6. BlocksMatch'
    <2> SUFFICES ASSUME NEW b \in [index : Nat, kind : {"reasoning", "text", "tool"}]
                 PROVE  b \in open' <=>
                            \/ b.kind = "reasoning" /\ b.index = reasoning'
                            \/ b.kind = "text" /\ b.index = message'
                            \/ b.kind = "tool" /\ \E k \in ToolIndex : b.index = tools'[k]
        BY DEF BlocksMatch
    <2>1. b \in open' <=> b \in open \/ (b.index = next /\ b.kind = "reasoning")
        BY <1>2, <1>3
    <2>2. b \in open <=>
             \/ b.kind = "reasoning" /\ b.index = reasoning
             \/ b.kind = "text" /\ b.index = message
             \/ b.kind = "tool" /\ \E k \in ToolIndex : b.index = tools[k]
        BY DEF BlockInv, BlocksMatch
    <2>3. QED
        BY <1>0, <1>1, <2>1, <2>2 DEF EmitterTyped
<1>7. BlocksApart'
    BY <1>0, <1>1, <1>2, <1>3, <1>4 DEF BlockInv, BlocksApart, EmitterTyped
<1>8. OpenMatches'
    BY <1>0, <1>1, <1>2, <1>3, <1>4 DEF BlockInv, BlocksApart, OpenMatches, EmitterTyped
<1>9. \A i \in Nat : IsOpenAt(i)' <=> IsOpenAt(i) \/ i = next
    BY <1>0, <1>1, <1>2, <1>3 DEF IsOpenAt, EmitterTyped
<1>10. OutputMatches'
    BY <1>2, <1>3, <1>7, <1>9, OutputOfOpen
<1>11. AnyToolMatches'
    <2>1. 1..Len(kinds') = 1..Len(kinds) \cup {next + 1}
        BY <1>2, <1>4, <1>3
    <2>2. (\E i \in 1..Len(kinds') : kinds'[i] = "tool")
             <=> (\E i \in 1..Len(kinds) : kinds[i] = "tool") \/ "reasoning" = "tool"
        BY <1>2, <1>4, <2>1
    <2>3. QED
        BY <2>2 DEF BlockInv, AnyToolMatches
<1>12. QED
    BY <1>5, <1>6, <1>7, <1>8, <1>10, <1>11 DEF BlockInv

\* Opening a block of text.
LEMMA MessageOpens ==
    ASSUME BlockInv, NEW ev, UNCHANGED dialect, OpensMessage(ev)
    PROVE  BlockInv'
<1> USE DEF OpensMessage
<1>0. StreamAssumption /\ None \notin Nat
    BY StreamAssumption
<1>1. EmitterTyped
    BY DEF BlockInv
<1>2. /\ next \in Nat /\ Len(kinds) = next /\ Len(parts) = next
      /\ kinds \in Seq(BlockKinds) /\ parts \in Seq(Nat) /\ "text" \in BlockKinds
    BY <1>1 DEF BlockInv, BlocksApart, EmitterTyped, BlockKinds
<1>3. /\ next' = next + 1 /\ kinds' = Append(kinds, "text") /\ parts' = Append(parts, 0)
      /\ open' = open \cup {[index |-> next, kind |-> "text"]}
      /\ heard' = heard + 1 /\ phase' = phase /\ output' = output
    BY DEF Client!HearOpen, Client!Block
<1>4. /\ kinds' \in Seq(BlockKinds) /\ parts' \in Seq(Nat) /\ Len(kinds') = next' /\ Len(parts') = next'
      /\ \A i \in 1..next : kinds'[i] = kinds[i] /\ parts'[i] = parts[i]
      /\ kinds'[next + 1] = "text" /\ parts'[next + 1] = 0
    BY <1>2, <1>3, OneAtTheEnd
<1>5. EmitterTyped'
    <2>1. next' \in Nat /\ heard' \in Nat /\ open' \subseteq [index : Nat, kind : BlockKinds]
        BY <1>1, <1>2, <1>3 DEF EmitterTyped
    <2>2. {reasoning', message'} \subseteq Nat \cup {None} /\ tools' \in [ToolIndex -> Nat \cup {None}]
        BY <1>1, <1>2 DEF EmitterTyped
    <2>3. {started', anyTool'} \subseteq BOOLEAN
        BY <1>1 DEF EmitterTyped
    <2>4. toolArgs' \in [ToolIndex -> Nat] /\ {reasoningText', messageText'} \subseteq Nat
             /\ usage' \in ToldUsage \cup {None}
        BY <1>1 DEF EmitterTyped
    <2>5. QED
        BY <1>1, <1>3, <1>4, <2>1, <2>2, <2>3, <2>4 DEF EmitterTyped
<1>6. BlocksMatch'
    <2> SUFFICES ASSUME NEW b \in [index : Nat, kind : {"reasoning", "text", "tool"}]
                 PROVE  b \in open' <=>
                            \/ b.kind = "reasoning" /\ b.index = reasoning'
                            \/ b.kind = "text" /\ b.index = message'
                            \/ b.kind = "tool" /\ \E k \in ToolIndex : b.index = tools'[k]
        BY DEF BlocksMatch
    <2>1. b \in open' <=> b \in open \/ (b.index = next /\ b.kind = "text")
        BY <1>2, <1>3
    <2>2. b \in open <=>
             \/ b.kind = "reasoning" /\ b.index = reasoning
             \/ b.kind = "text" /\ b.index = message
             \/ b.kind = "tool" /\ \E k \in ToolIndex : b.index = tools[k]
        BY DEF BlockInv, BlocksMatch
    <2>3. QED
        BY <1>0, <1>1, <2>1, <2>2 DEF EmitterTyped
<1>7. BlocksApart'
    BY <1>0, <1>1, <1>2, <1>3, <1>4 DEF BlockInv, BlocksApart, EmitterTyped
<1>8. OpenMatches'
    BY <1>0, <1>1, <1>2, <1>3, <1>4 DEF BlockInv, BlocksApart, OpenMatches, EmitterTyped
<1>9. \A i \in Nat : IsOpenAt(i)' <=> IsOpenAt(i) \/ i = next
    BY <1>0, <1>1, <1>2, <1>3 DEF IsOpenAt, EmitterTyped
<1>10. OutputMatches'
    BY <1>2, <1>3, <1>7, <1>9, OutputOfOpen
<1>11. AnyToolMatches'
    <2>1. 1..Len(kinds') = 1..Len(kinds) \cup {next + 1}
        BY <1>2, <1>4, <1>3
    <2>2. (\E i \in 1..Len(kinds') : kinds'[i] = "tool")
             <=> (\E i \in 1..Len(kinds) : kinds[i] = "tool") \/ "text" = "tool"
        BY <1>2, <1>4, <2>1
    <2>3. QED
        BY <2>2 DEF BlockInv, AnyToolMatches
<1>12. QED
    BY <1>5, <1>6, <1>7, <1>8, <1>10, <1>11 DEF BlockInv

\* Opening the block of a call.
LEMMA ToolOpens ==
    ASSUME BlockInv, NEW ev, ev.index \in ToolIndex, tools[ev.index] = None,
           UNCHANGED dialect, OpensTool(ev)
    PROVE  BlockInv'
<1> USE DEF OpensTool
<1>0. StreamAssumption /\ None \notin Nat
    BY StreamAssumption
<1>1. EmitterTyped
    BY DEF BlockInv
<1>2. /\ next \in Nat /\ Len(kinds) = next /\ Len(parts) = next
      /\ kinds \in Seq(BlockKinds) /\ parts \in Seq(Nat) /\ "tool" \in BlockKinds
    BY <1>1 DEF BlockInv, BlocksApart, EmitterTyped, BlockKinds
<1>3. /\ next' = next + 1 /\ kinds' = Append(kinds, "tool") /\ parts' = Append(parts, 0)
      /\ open' = open \cup {[index |-> next, kind |-> "tool"]}
      /\ heard' = heard + 1 /\ phase' = phase /\ output' = output
    BY DEF Client!HearOpen, Client!Block
<1>4. /\ kinds' \in Seq(BlockKinds) /\ parts' \in Seq(Nat) /\ Len(kinds') = next' /\ Len(parts') = next'
      /\ \A i \in 1..next : kinds'[i] = kinds[i] /\ parts'[i] = parts[i]
      /\ kinds'[next + 1] = "tool" /\ parts'[next + 1] = 0
    BY <1>2, <1>3, OneAtTheEnd
<1>5. EmitterTyped'
    <2>1. next' \in Nat /\ heard' \in Nat /\ open' \subseteq [index : Nat, kind : BlockKinds]
        BY <1>1, <1>2, <1>3 DEF EmitterTyped
    <2>2. {reasoning', message'} \subseteq Nat \cup {None} /\ tools' \in [ToolIndex -> Nat \cup {None}]
        BY <1>1, <1>2 DEF EmitterTyped
    <2>3. {started', anyTool'} \subseteq BOOLEAN
        BY <1>1 DEF EmitterTyped
    <2>4. toolArgs' \in [ToolIndex -> Nat] /\ {reasoningText', messageText'} \subseteq Nat
             /\ usage' \in ToldUsage \cup {None}
        BY <1>1 DEF EmitterTyped
    <2>5. QED
        BY <1>1, <1>3, <1>4, <2>1, <2>2, <2>3, <2>4 DEF EmitterTyped
<1>6. BlocksMatch'
    <2> SUFFICES ASSUME NEW b \in [index : Nat, kind : {"reasoning", "text", "tool"}]
                 PROVE  b \in open' <=>
                            \/ b.kind = "reasoning" /\ b.index = reasoning'
                            \/ b.kind = "text" /\ b.index = message'
                            \/ b.kind = "tool" /\ \E k \in ToolIndex : b.index = tools'[k]
        BY DEF BlocksMatch
    <2>1. b \in open' <=> b \in open \/ (b.index = next /\ b.kind = "tool")
        BY <1>2, <1>3
    <2>2. b \in open <=>
             \/ b.kind = "reasoning" /\ b.index = reasoning
             \/ b.kind = "text" /\ b.index = message
             \/ b.kind = "tool" /\ \E k \in ToolIndex : b.index = tools[k]
        BY DEF BlockInv, BlocksMatch
    <2>3. QED
        BY <1>0, <1>1, <2>1, <2>2 DEF EmitterTyped
<1>7. BlocksApart'
    BY <1>0, <1>1, <1>2, <1>3, <1>4 DEF BlockInv, BlocksApart, EmitterTyped
<1>8. OpenMatches'
    BY <1>0, <1>1, <1>2, <1>3, <1>4 DEF BlockInv, BlocksApart, OpenMatches, EmitterTyped
<1>9. \A i \in Nat : IsOpenAt(i)' <=> IsOpenAt(i) \/ i = next
    BY <1>0, <1>1, <1>2, <1>3 DEF IsOpenAt, EmitterTyped
<1>10. OutputMatches'
    BY <1>2, <1>3, <1>7, <1>9, OutputOfOpen
<1>11. AnyToolMatches'
    <2>1. 1..Len(kinds') = 1..Len(kinds) \cup {next + 1}
        BY <1>2, <1>4, <1>3
    <2>2. (\E i \in 1..Len(kinds') : kinds'[i] = "tool")
             <=> (\E i \in 1..Len(kinds) : kinds[i] = "tool") \/ "tool" = "tool"
        BY <1>2, <1>4, <2>1
    <2>3. QED
        BY <2>2 DEF BlockInv, AnyToolMatches
<1>12. QED
    BY <1>5, <1>6, <1>7, <1>8, <1>10, <1>11 DEF BlockInv
\* A fragment of reasoning.
LEMMA ReasoningGrows ==
    ASSUME BlockInv, NEW ev, UNCHANGED dialect, PartsReasoning(ev)
    PROVE  BlockInv'
<1> USE DEF PartsReasoning
<1>0. None \notin Nat
    BY StreamAssumption
<1> DEFINE i == reasoning
<1>1. EmitterTyped /\ i \in Nat /\ IsOpenAt(i) /\ i < next /\ Len(parts) = next
    BY DEF BlockInv, BlocksApart, EmitterTyped, IsOpenAt
<1>2. /\ parts' = [parts EXCEPT ![i + 1] = @ + 1]
      /\ UNCHANGED <<phase, kinds, open, next, output, reasoning, message, tools>> /\ heard' = heard + 1
    BY DEF Client!HearPart
<1>3. /\ parts \in Seq(Nat) /\ next \in Nat /\ i + 1 \in 1..Len(parts)
    BY <1>1 DEF EmitterTyped
<1>4. /\ parts' \in Seq(Nat) /\ Len(parts') = next
      /\ parts'[i + 1] = parts[i + 1] + 1 /\ parts[i + 1] \in Nat
      /\ \A j \in 1..next : j # i + 1 => parts'[j] = parts[j]
    <2> HIDE DEF i
    <2>1. QED
        BY <1>1, <1>2, <1>3
<1>5. EmitterTyped'
    <2>1. {reasoningText', messageText'} \subseteq Nat /\ toolArgs' \in [ToolIndex -> Nat]
             /\ {started', anyTool'} \subseteq BOOLEAN /\ usage' \in ToldUsage \cup {None}
        BY <1>1 DEF EmitterTyped
    <2>2. QED
        BY <1>1, <1>2, <1>4, <2>1 DEF EmitterTyped
<1>6. BlocksMatch' /\ BlocksApart'
    BY <1>2, <1>4 DEF BlockInv, BlocksMatch, BlocksApart
<1>7. OpenMatches'
    BY <1>0, <1>1, <1>2, <1>3, <1>4 DEF BlockInv, BlocksApart, OpenMatches, EmitterTyped
<1>8. \A j \in Nat : IsOpenAt(j)' <=> IsOpenAt(j)
    BY <1>2 DEF IsOpenAt
<1>9. OutputMatches'
    BY <1>1, <1>2, <1>8, OutputOfPart
<1>10. AnyToolMatches'
    BY <1>2 DEF BlockInv, AnyToolMatches
<1>11. QED
    BY <1>5, <1>6, <1>7, <1>9, <1>10 DEF BlockInv

\* A fragment of text.
LEMMA MessageGrows ==
    ASSUME BlockInv, NEW ev, UNCHANGED dialect, PartsMessage(ev)
    PROVE  BlockInv'
<1> USE DEF PartsMessage
<1>0. None \notin Nat
    BY StreamAssumption
<1> DEFINE i == message
<1>1. EmitterTyped /\ i \in Nat /\ IsOpenAt(i) /\ i < next /\ Len(parts) = next
    BY DEF BlockInv, BlocksApart, EmitterTyped, IsOpenAt
<1>2. /\ parts' = [parts EXCEPT ![i + 1] = @ + 1]
      /\ UNCHANGED <<phase, kinds, open, next, output, reasoning, message, tools>> /\ heard' = heard + 1
    BY DEF Client!HearPart
<1>3. /\ parts \in Seq(Nat) /\ next \in Nat /\ i + 1 \in 1..Len(parts)
    BY <1>1 DEF EmitterTyped
<1>4. /\ parts' \in Seq(Nat) /\ Len(parts') = next
      /\ parts'[i + 1] = parts[i + 1] + 1 /\ parts[i + 1] \in Nat
      /\ \A j \in 1..next : j # i + 1 => parts'[j] = parts[j]
    <2> HIDE DEF i
    <2>1. QED
        BY <1>1, <1>2, <1>3
<1>5. EmitterTyped'
    <2>1. {reasoningText', messageText'} \subseteq Nat /\ toolArgs' \in [ToolIndex -> Nat]
             /\ {started', anyTool'} \subseteq BOOLEAN /\ usage' \in ToldUsage \cup {None}
        BY <1>1 DEF EmitterTyped
    <2>2. QED
        BY <1>1, <1>2, <1>4, <2>1 DEF EmitterTyped
<1>6. BlocksMatch' /\ BlocksApart'
    BY <1>2, <1>4 DEF BlockInv, BlocksMatch, BlocksApart
<1>7. OpenMatches'
    BY <1>0, <1>1, <1>2, <1>3, <1>4 DEF BlockInv, BlocksApart, OpenMatches, EmitterTyped
<1>8. \A j \in Nat : IsOpenAt(j)' <=> IsOpenAt(j)
    BY <1>2 DEF IsOpenAt
<1>9. OutputMatches'
    BY <1>1, <1>2, <1>8, OutputOfPart
<1>10. AnyToolMatches'
    BY <1>2 DEF BlockInv, AnyToolMatches
<1>11. QED
    BY <1>5, <1>6, <1>7, <1>9, <1>10 DEF BlockInv

\* A fragment of arguments.
LEMMA ToolGrows ==
    ASSUME BlockInv, NEW ev, ev.index \in ToolIndex, UNCHANGED dialect, PartsTool(ev)
    PROVE  BlockInv'
<1> USE DEF PartsTool
<1>0. None \notin Nat
    BY StreamAssumption
<1> DEFINE i == tools[ev.index]
<1>1. EmitterTyped /\ i \in Nat /\ IsOpenAt(i) /\ i < next /\ Len(parts) = next
    BY DEF BlockInv, BlocksApart, EmitterTyped, IsOpenAt
<1>2. /\ parts' = [parts EXCEPT ![i + 1] = @ + 1]
      /\ UNCHANGED <<phase, kinds, open, next, output, reasoning, message, tools>> /\ heard' = heard + 1
    BY DEF Client!HearPart
<1>3. /\ parts \in Seq(Nat) /\ next \in Nat /\ i + 1 \in 1..Len(parts)
    BY <1>1 DEF EmitterTyped
<1>4. /\ parts' \in Seq(Nat) /\ Len(parts') = next
      /\ parts'[i + 1] = parts[i + 1] + 1 /\ parts[i + 1] \in Nat
      /\ \A j \in 1..next : j # i + 1 => parts'[j] = parts[j]
    <2> HIDE DEF i
    <2>1. QED
        BY <1>1, <1>2, <1>3
<1>5. EmitterTyped'
    <2>1. {reasoningText', messageText'} \subseteq Nat /\ toolArgs' \in [ToolIndex -> Nat]
             /\ {started', anyTool'} \subseteq BOOLEAN /\ usage' \in ToldUsage \cup {None}
        BY <1>1 DEF EmitterTyped
    <2>2. heard' \in Nat /\ parts' \in Seq(Nat)
        BY <1>1, <1>2, <1>4 DEF EmitterTyped
    <2>3. QED
        BY <1>1, <1>2, <2>1, <2>2 DEF EmitterTyped
<1>6. BlocksMatch' /\ BlocksApart'
    BY <1>2, <1>4 DEF BlockInv, BlocksMatch, BlocksApart
<1>7. OpenMatches'
    <2>1. /\ OpenMatches /\ BlocksApart /\ tools \in [ToolIndex -> Nat \cup {None}]
          /\ reasoning \in Nat \cup {None} /\ message \in Nat \cup {None}
        BY DEF BlockInv, EmitterTyped
    <2>2. toolArgs' = [toolArgs EXCEPT ![ev.index] = @ + 1] /\ toolArgs \in [ToolIndex -> Nat]
          /\ UNCHANGED <<reasoningText, messageText>>
        BY <1>1 DEF EmitterTyped
    <2>3. reasoning' # None => kinds'[reasoning' + 1] = "reasoning" /\ parts'[reasoning' + 1] <= reasoningText'
        BY <1>0, <1>1, <1>2, <1>4, <2>1, <2>2 DEF BlocksApart, OpenMatches
    <2>4. message' # None => kinds'[message' + 1] = "text" /\ parts'[message' + 1] <= messageText'
        BY <1>0, <1>1, <1>2, <1>4, <2>1, <2>2 DEF BlocksApart, OpenMatches
    <2>5. ASSUME NEW k \in ToolIndex, tools'[k] # None
          PROVE  kinds'[tools'[k] + 1] = "tool" /\ parts'[tools'[k] + 1] = toolArgs'[k]
        <3>1. tools[k] # None /\ tools[k] \in Nat /\ tools[k] + 1 \in 1..next
            BY <1>1, <1>2, <2>1, <2>5 DEF BlocksApart
        <3>2. k # ev.index => tools[k] + 1 # i + 1
            BY <1>0, <1>1, <2>1, <3>1 DEF BlocksApart
        <3>3. kinds[tools[k] + 1] = "tool" /\ parts[tools[k] + 1] = toolArgs[k]
            BY <2>1, <3>1 DEF OpenMatches
        <3>4. CASE k = ev.index
            BY <1>2, <1>4, <2>2, <3>3, <3>4
        <3>5. CASE k # ev.index
            BY <1>2, <1>4, <2>2, <3>1, <3>2, <3>3, <3>5
        <3>6. QED
            BY <3>4, <3>5
    <2>6. QED
        BY <2>3, <2>4, <2>5 DEF OpenMatches
<1>8. \A j \in Nat : IsOpenAt(j)' <=> IsOpenAt(j)
    BY <1>2 DEF IsOpenAt
<1>9. OutputMatches'
    BY <1>1, <1>2, <1>8, OutputOfPart
<1>10. AnyToolMatches'
    BY <1>2 DEF BlockInv, AnyToolMatches
<1>11. QED
    BY <1>5, <1>6, <1>7, <1>9, <1>10 DEF BlockInv

\* Closing the reasoning.
LEMMA ReasoningCloses ==
    ASSUME BlockInv, NEW ev, UNCHANGED dialect, ClosesReasoning(ev)
    PROVE  BlockInv'
<1> USE DEF ClosesReasoning
<1>0. None \notin Nat
    BY StreamAssumption
<1> DEFINE i == reasoning
           o == [index |-> i, kind |-> "reasoning", text |-> reasoningText]
<1>1. EmitterTyped /\ i \in Nat /\ IsOpenAt(i) /\ i < next
    BY DEF BlockInv, BlocksApart, EmitterTyped, IsOpenAt
<1>2. /\ open' = {b \in open : b.index # i} /\ output' = Append(output, o)
      /\ UNCHANGED <<phase, kinds, parts, next>> /\ heard' = heard + 1
    BY DEF Client!HearClose
<1>3. /\ o \in OutputItem /\ o.index = i /\ o.kind = kinds[i + 1] /\ o.text >= parts[i + 1]
      /\ o.kind = "tool" => o.text = parts[i + 1]
    <2>1. "reasoning" = kinds[i + 1] /\ reasoningText >= parts[i + 1] /\ ("reasoning" = "tool" => reasoningText = parts[i + 1])
        <3>1. i + 1 \in 1..Len(parts) /\ parts \in Seq(Nat)
            BY <1>1 DEF BlockInv, BlocksApart, EmitterTyped
        <3>2. parts[i + 1] \in Nat
            BY <3>1, ElementOfSeq
        <3>3. QED
            BY <1>1, <3>2 DEF BlockInv, OpenMatches, EmitterTyped
    <2>2. o \in OutputItem
        BY <1>1 DEF OutputItem, BlockKinds, EmitterTyped
    <2>3. QED
        BY <2>1, <2>2
<1>4. EmitterTyped'
    <2> DEFINE w == Append(output, o)
    <2>1. w \in Seq(OutputItem)
        <3> HIDE DEF o
        <3>1. QED
            BY <1>1, <1>3, OneAtTheEnd DEF EmitterTyped
    <2>2. output' = w
        BY <1>2
    <2> HIDE DEF w, o, i
    <2>3. heard' \in Nat /\ open' \subseteq [index : Nat, kind : BlockKinds]
        BY <1>1, <1>2 DEF EmitterTyped
    <2>4. {reasoning', message'} \subseteq Nat \cup {None} /\ tools' \in [ToolIndex -> Nat \cup {None}]
             /\ {started', anyTool'} \subseteq BOOLEAN
        BY <1>1 DEF EmitterTyped
    <2>5. {reasoningText', messageText'} \subseteq Nat /\ toolArgs' \in [ToolIndex -> Nat]
             /\ usage' \in ToldUsage \cup {None}
        BY <1>1 DEF EmitterTyped
    <2>6. QED
        BY <1>1, <1>2, <2>1, <2>2, <2>3, <2>4, <2>5 DEF EmitterTyped
<1>5. BlocksMatch'
    <2> SUFFICES ASSUME NEW b \in [index : Nat, kind : {"reasoning", "text", "tool"}]
                 PROVE  b \in open' <=>
                            \/ b.kind = "reasoning" /\ b.index = reasoning'
                            \/ b.kind = "text" /\ b.index = message'
                            \/ b.kind = "tool" /\ \E k \in ToolIndex : b.index = tools'[k]
        BY DEF BlocksMatch
    <2>1. b \in open' <=> b \in open /\ b.index # i
        BY <1>2
    <2>2. b \in open <=>
             \/ b.kind = "reasoning" /\ b.index = reasoning
             \/ b.kind = "text" /\ b.index = message
             \/ b.kind = "tool" /\ \E k \in ToolIndex : b.index = tools[k]
        BY DEF BlockInv, BlocksMatch
    <2>3. QED
        BY <1>0, <1>1, <2>1, <2>2 DEF EmitterTyped, BlockInv, BlocksApart
<1>6. BlocksApart'
    BY <1>0, <1>1, <1>2 DEF BlockInv, BlocksApart, EmitterTyped
<1>7. OpenMatches'
    BY <1>0, <1>1, <1>2 DEF BlockInv, BlocksApart, OpenMatches, EmitterTyped
<1>8. \A j \in Nat : IsOpenAt(j)' <=> IsOpenAt(j) /\ j # i
    BY <1>0, <1>1 DEF BlockInv, BlocksApart, IsOpenAt, EmitterTyped
<1>9. OutputMatches'
    <2>1. o.index < next /\ IsOpenAt(o.index) /\ \A j \in Nat : IsOpenAt(j)' <=> IsOpenAt(j) /\ j # o.index
        BY <1>1, <1>8
    <2> HIDE DEF o, i
    <2>2. o.kind = kinds[o.index + 1] /\ o.text >= parts[o.index + 1]
          /\ (o.kind = "tool" => o.text = parts[o.index + 1])
        BY <1>3
    <2>3. QED
        BY <1>2, <1>3, <2>1, <2>2, OutputOfClose
<1>10. AnyToolMatches'
    BY <1>2 DEF BlockInv, AnyToolMatches
<1>11. QED
    BY <1>4, <1>5, <1>6, <1>7, <1>9, <1>10 DEF BlockInv

\* Closing the text.
LEMMA MessageCloses ==
    ASSUME BlockInv, NEW ev, UNCHANGED dialect, ClosesMessage(ev)
    PROVE  BlockInv'
<1> USE DEF ClosesMessage
<1>0. None \notin Nat
    BY StreamAssumption
<1> DEFINE i == message
           o == [index |-> i, kind |-> "text", text |-> messageText]
<1>1. EmitterTyped /\ i \in Nat /\ IsOpenAt(i) /\ i < next
    BY DEF BlockInv, BlocksApart, EmitterTyped, IsOpenAt
<1>2. /\ open' = {b \in open : b.index # i} /\ output' = Append(output, o)
      /\ UNCHANGED <<phase, kinds, parts, next>> /\ heard' = heard + 1
    BY DEF Client!HearClose
<1>3. /\ o \in OutputItem /\ o.index = i /\ o.kind = kinds[i + 1] /\ o.text >= parts[i + 1]
      /\ o.kind = "tool" => o.text = parts[i + 1]
    <2>1. "text" = kinds[i + 1] /\ messageText >= parts[i + 1] /\ ("text" = "tool" => messageText = parts[i + 1])
        <3>1. i + 1 \in 1..Len(parts) /\ parts \in Seq(Nat)
            BY <1>1 DEF BlockInv, BlocksApart, EmitterTyped
        <3>2. parts[i + 1] \in Nat
            BY <3>1, ElementOfSeq
        <3>3. QED
            BY <1>1, <3>2 DEF BlockInv, OpenMatches, EmitterTyped
    <2>2. o \in OutputItem
        BY <1>1 DEF OutputItem, BlockKinds, EmitterTyped
    <2>3. QED
        BY <2>1, <2>2
<1>4. EmitterTyped'
    <2> DEFINE w == Append(output, o)
    <2>1. w \in Seq(OutputItem)
        <3> HIDE DEF o
        <3>1. QED
            BY <1>1, <1>3, OneAtTheEnd DEF EmitterTyped
    <2>2. output' = w
        BY <1>2
    <2> HIDE DEF w, o, i
    <2>3. heard' \in Nat /\ open' \subseteq [index : Nat, kind : BlockKinds]
        BY <1>1, <1>2 DEF EmitterTyped
    <2>4. {reasoning', message'} \subseteq Nat \cup {None} /\ tools' \in [ToolIndex -> Nat \cup {None}]
             /\ {started', anyTool'} \subseteq BOOLEAN
        BY <1>1 DEF EmitterTyped
    <2>5. {reasoningText', messageText'} \subseteq Nat /\ toolArgs' \in [ToolIndex -> Nat]
             /\ usage' \in ToldUsage \cup {None}
        BY <1>1 DEF EmitterTyped
    <2>6. QED
        BY <1>1, <1>2, <2>1, <2>2, <2>3, <2>4, <2>5 DEF EmitterTyped
<1>5. BlocksMatch'
    <2> SUFFICES ASSUME NEW b \in [index : Nat, kind : {"reasoning", "text", "tool"}]
                 PROVE  b \in open' <=>
                            \/ b.kind = "reasoning" /\ b.index = reasoning'
                            \/ b.kind = "text" /\ b.index = message'
                            \/ b.kind = "tool" /\ \E k \in ToolIndex : b.index = tools'[k]
        BY DEF BlocksMatch
    <2>1. b \in open' <=> b \in open /\ b.index # i
        BY <1>2
    <2>2. b \in open <=>
             \/ b.kind = "reasoning" /\ b.index = reasoning
             \/ b.kind = "text" /\ b.index = message
             \/ b.kind = "tool" /\ \E k \in ToolIndex : b.index = tools[k]
        BY DEF BlockInv, BlocksMatch
    <2>3. QED
        BY <1>0, <1>1, <2>1, <2>2 DEF EmitterTyped, BlockInv, BlocksApart
<1>6. BlocksApart'
    BY <1>0, <1>1, <1>2 DEF BlockInv, BlocksApart, EmitterTyped
<1>7. OpenMatches'
    BY <1>0, <1>1, <1>2 DEF BlockInv, BlocksApart, OpenMatches, EmitterTyped
<1>8. \A j \in Nat : IsOpenAt(j)' <=> IsOpenAt(j) /\ j # i
    BY <1>0, <1>1 DEF BlockInv, BlocksApart, IsOpenAt, EmitterTyped
<1>9. OutputMatches'
    <2>1. o.index < next /\ IsOpenAt(o.index) /\ \A j \in Nat : IsOpenAt(j)' <=> IsOpenAt(j) /\ j # o.index
        BY <1>1, <1>8
    <2> HIDE DEF o, i
    <2>2. o.kind = kinds[o.index + 1] /\ o.text >= parts[o.index + 1]
          /\ (o.kind = "tool" => o.text = parts[o.index + 1])
        BY <1>3
    <2>3. QED
        BY <1>2, <1>3, <2>1, <2>2, OutputOfClose
<1>10. AnyToolMatches'
    BY <1>2 DEF BlockInv, AnyToolMatches
<1>11. QED
    BY <1>4, <1>5, <1>6, <1>7, <1>9, <1>10 DEF BlockInv

\* Closing a call.
LEMMA ToolCloses ==
    ASSUME BlockInv, NEW k, UNCHANGED dialect, ClosesTool(k)
    PROVE  BlockInv'
<1> USE DEF ClosesTool
<1>0. None \notin Nat
    BY StreamAssumption
<1> DEFINE i == tools[k]
           o == [index |-> i, kind |-> "tool", text |-> toolArgs[k]]
<1>1. EmitterTyped /\ i \in Nat /\ IsOpenAt(i) /\ i < next
    BY DEF BlockInv, BlocksApart, EmitterTyped, IsOpenAt
<1>2. /\ open' = {b \in open : b.index # i} /\ output' = Append(output, o)
      /\ UNCHANGED <<phase, kinds, parts, next>> /\ heard' = heard + 1
    BY DEF Client!HearClose
<1>3. /\ o \in OutputItem /\ o.index = i /\ o.kind = kinds[i + 1] /\ o.text >= parts[i + 1]
      /\ o.kind = "tool" => o.text = parts[i + 1]
    <2>1. "tool" = kinds[i + 1] /\ toolArgs[k] >= parts[i + 1] /\ ("tool" = "tool" => toolArgs[k] = parts[i + 1])
        <3>1. i + 1 \in 1..Len(parts) /\ parts \in Seq(Nat)
            BY <1>1 DEF BlockInv, BlocksApart, EmitterTyped
        <3>2. parts[i + 1] \in Nat
            BY <3>1, ElementOfSeq
        <3>3. QED
            BY <1>1, <3>2 DEF BlockInv, OpenMatches, EmitterTyped
    <2>2. o \in OutputItem
        BY <1>1 DEF OutputItem, BlockKinds, EmitterTyped
    <2>3. QED
        BY <2>1, <2>2
<1>4. EmitterTyped'
    <2> DEFINE w == Append(output, o)
    <2>1. w \in Seq(OutputItem)
        <3> HIDE DEF o
        <3>1. QED
            BY <1>1, <1>3, OneAtTheEnd DEF EmitterTyped
    <2>2. output' = w
        BY <1>2
    <2> HIDE DEF w, o, i
    <2>3. heard' \in Nat /\ open' \subseteq [index : Nat, kind : BlockKinds]
        BY <1>1, <1>2 DEF EmitterTyped
    <2>4. {reasoning', message'} \subseteq Nat \cup {None} /\ tools' \in [ToolIndex -> Nat \cup {None}]
             /\ {started', anyTool'} \subseteq BOOLEAN
        BY <1>1 DEF EmitterTyped
    <2>5. {reasoningText', messageText'} \subseteq Nat /\ toolArgs' \in [ToolIndex -> Nat]
             /\ usage' \in ToldUsage \cup {None}
        BY <1>1 DEF EmitterTyped
    <2>6. QED
        BY <1>1, <1>2, <2>1, <2>2, <2>3, <2>4, <2>5 DEF EmitterTyped
<1>5. BlocksMatch'
    <2> SUFFICES ASSUME NEW b \in [index : Nat, kind : {"reasoning", "text", "tool"}]
                 PROVE  b \in open' <=>
                            \/ b.kind = "reasoning" /\ b.index = reasoning'
                            \/ b.kind = "text" /\ b.index = message'
                            \/ b.kind = "tool" /\ \E l \in ToolIndex : b.index = tools'[l]
        BY DEF BlocksMatch
    <2>1. b \in open' <=> b \in open /\ b.index # i
        BY <1>2
    <2>2. b \in open <=>
             \/ b.kind = "reasoning" /\ b.index = reasoning
             \/ b.kind = "text" /\ b.index = message
             \/ b.kind = "tool" /\ \E l \in ToolIndex : b.index = tools[l]
        BY DEF BlockInv, BlocksMatch
    <2>3. QED
        BY <1>0, <1>1, <2>1, <2>2 DEF EmitterTyped, BlockInv, BlocksApart
<1>6. BlocksApart'
    BY <1>0, <1>1, <1>2 DEF BlockInv, BlocksApart, EmitterTyped
<1>7. OpenMatches'
    BY <1>0, <1>1, <1>2 DEF BlockInv, BlocksApart, OpenMatches, EmitterTyped
<1>8. \A j \in Nat : IsOpenAt(j)' <=> IsOpenAt(j) /\ j # i
    BY <1>0, <1>1 DEF BlockInv, BlocksApart, IsOpenAt, EmitterTyped
<1>9. OutputMatches'
    <2>1. o.index < next /\ IsOpenAt(o.index) /\ \A j \in Nat : IsOpenAt(j)' <=> IsOpenAt(j) /\ j # o.index
        BY <1>1, <1>8
    <2> HIDE DEF o, i
    <2>2. o.kind = kinds[o.index + 1] /\ o.text >= parts[o.index + 1]
          /\ (o.kind = "tool" => o.text = parts[o.index + 1])
        BY <1>3
    <2>3. QED
        BY <1>2, <1>3, <2>1, <2>2, OutputOfClose
<1>10. AnyToolMatches'
    BY <1>2 DEF BlockInv, AnyToolMatches
<1>11. QED
    BY <1>4, <1>5, <1>6, <1>7, <1>9, <1>10 DEF BlockInv

\* Frames and events that leave the blocks alone.
LEMMA BlocksLeftAlone ==
    ASSUME BlockInv, EmitterTyped',
           UNCHANGED <<dialect, kinds, parts, open, next, reasoning, reasoningText, message, messageText,
                       tools, toolArgs, anyTool, output>>
    PROVE  BlockInv'
<1>1. BlocksMatch' /\ BlocksApart' /\ OpenMatches' /\ AnyToolMatches'
    BY DEF BlockInv, BlocksMatch, BlocksApart, OpenMatches, AnyToolMatches
<1>2. OutputMatches'
    BY DEF BlockInv, OutputMatches, IsOpenAt
<1>3. QED
    BY <1>1, <1>2 DEF BlockInv

-----------------------------------------------------------------------------
(* What a frame may be sent for, and what it is to the client.              *)

\* The event at hand.
LEMMA AtHand ==
    ASSUME QueueInv, events # <<>>
    PROVE  LET ev == Head(events) IN
           /\ ev \in Waiting /\ ev = events[1] /\ Len(events) \in Nat /\ Len(events) >= 1
           /\ ev.type \in OfCalls => ev.index \in ToolIndex
           /\ ev.type \in Ending => Len(events) = 1
           /\ ev.type \notin Ending => phase \in {"before", "within"} /\ ~done /\ pc # "over" /\ created
           /\ ev.type \notin Ending /\ ev.type # "Created" => phase = "within"
           /\ phase # "failed"
           /\ ev.type = "ToolCallStart" => tools[ev.index] = None
<1> DEFINE ev == Head(events)
<1>1. events \in Seq(Waiting)
    BY DEF QueueInv, PumpTyped
<1>2. ev = events[1] /\ Len(events) \in Nat /\ 1 \in 1..Len(events) /\ ev \in Waiting
    BY <1>1
<1> HIDE DEF ev
<1>3. ev.type \in OfCalls => ev.index \in ToolIndex
    BY <1>2 DEF Waiting
<1>4. ev.type \in Ending => Len(events) = 1
    BY <1>2 DEF QueueInv, EventsFit
<1>5. ev.type \notin Ending => phase \in {"before", "within"} /\ ~done /\ pc # "over"
    BY <1>2 DEF QueueInv, EventsFit
<1>6. ev.type \notin Ending /\ phase = "before" => ev.type = "Created"
    BY <1>2 DEF QueueInv, EventsFit
<1>7. ev.type \notin Ending => created
    BY <1>2, <1>5, <1>6 DEF QueueInv, EventsFit
<1>8. phase # "failed"
    BY <1>1 DEF QueueInv, PhaseFits
<1>9. ev.type = "ToolCallStart" => tools[ev.index] = None
    BY <1>2 DEF QueueInv, StartsOnce
<1>10. QED
    BY <1>2, <1>3, <1>4, <1>5, <1>6, <1>7, <1>8, <1>9 DEF ev

\* Something is open within an answer only.
LEMMA OpenWithin ==
    ASSUME IInv, NEW i \in Nat, IsOpenAt(i), phase # "failed"
    PROVE  phase = "within" /\ \E b \in open : b.index = i
<1>1. EmitterTyped
    BY DEF IInv, BlockInv
<1> DEFINE r == [index |-> i, kind |-> "reasoning"]
           x == [index |-> i, kind |-> "text"]
           t == [index |-> i, kind |-> "tool"]
<1>2. r \in open \/ x \in open \/ t \in open
    BY DEF IInv, BlockInv, BlocksMatch, IsOpenAt
<1>3. open # {} /\ \E b \in open : b.index = i
    BY <1>2
<1>4. phase \notin {"before", "summed", "ended"}
    BY <1>3 DEF IInv, QueueInv, PhaseFits
<1>5. QED
    BY <1>1, <1>3, <1>4 DEF EmitterTyped

\* Nothing is open if no emitter has a block.
LEMMA NothingIsOpen ==
    ASSUME BlockInv, NothingOpen
    PROVE  open = {}
<1>1. None \notin Nat /\ open \subseteq [index : Nat, kind : {"reasoning", "text", "tool"}]
    BY StreamAssumption DEF BlockInv, EmitterTyped, BlockKinds
<1>2. QED
    BY <1>1 DEF BlockInv, BlocksMatch, NothingOpen

\* The tools that are open after a step were open before it, unless it opens one.
FewerTools == \A k \in ToolIndex : tools'[k] # None => tools[k] # None

\* A frame that leaves the phase of the answer alone.
SamePhase == phase' = phase /\ started' = started /\ (phase = "within" \/ open' \subseteq open)

\* What precedes an event's frame: what it is to the client, and which bookkeeping it needs.
LEMMA PreparingAsClient ==
    ASSUME IInv, events # <<>>, UNCHANGED <<dialect, track>>, PreparingFrame(Head(events))
    PROVE  /\ BlockInv' /\ Client!Next /\ FewerTools
           /\ \/ SamePhase
              \/ /\ phase = "before" /\ phase' = "within" /\ started' = TRUE
                 /\ Head(events).type \notin Ending /\ dialect = "anthropic"
              \/ /\ Head(events).type = "Completed" /\ phase' = "summed" /\ open' = {}
                 /\ dialect = "anthropic" /\ UNCHANGED started
<1> DEFINE ev == Head(events)
<1>0. /\ ev \in Waiting
      /\ ev.type \in Ending => Len(events) = 1
      /\ ev.type \notin Ending => phase \in {"before", "within"}
      /\ ev.type \notin Ending /\ ev.type # "Created" => phase = "within"
      /\ phase # "failed"
    BY AtHand DEF IInv
<1>1. BlockInv /\ EmitterTyped /\ QueueInv /\ None \notin Nat
    BY StreamAssumption DEF IInv, BlockInv
<1>2. PreparingFrame(ev) /\ UNCHANGED dialect /\ track' = track
    OBVIOUS
<1> HIDE DEF ev
<1>3. CASE dialect = "anthropic" /\ Begins(ev)
    <2>1. phase = "before"
        BY <1>0, <1>1, <1>3 DEF Begins, Ending, QueueInv, PhaseFits
    <2>2. EmitterTyped'
        BY <1>1, <1>3 DEF Begins, EmitterTyped, Client!HearPhase
    <2>3. BlockInv' /\ FewerTools
        BY <1>1, <1>2, <1>3, <2>2, BlocksLeftAlone DEF Begins, Client!HearPhase, FewerTools
    <2>4. Client!Next
        BY <1>2, <1>3, <2>1 DEF Begins, Client!Next, Client!Begin
    <2>5. phase' = "within" /\ started' = TRUE /\ ev.type \notin Ending
        BY <1>3 DEF Begins, Client!HearPhase, Ending
    <2>6. QED
        BY <1>3, <2>1, <2>3, <2>4, <2>5 DEF ev
<1>4. CASE OpensReasoning(ev)
    <2>1. phase = "within"
        BY <1>0, <1>4 DEF OpensReasoning, Ending
    <2>2. BlockInv'
        BY <1>1, <1>2, <1>4, ReasoningOpens
    <2>3. ~Client!IsOpen("reasoning") /\ Len(kinds) = next
        BY <1>1, <1>4 DEF OpensReasoning, BlockInv, BlocksMatch, BlocksApart, EmitterTyped, BlockKinds, Client!IsOpen
    <2>4. Client!Next
        BY <1>2, <1>4, <2>1, <2>3 DEF OpensReasoning, Client!Next, Client!Open, Client!BlockKind
    <2>5. SamePhase /\ FewerTools
        BY <1>4, <2>1 DEF OpensReasoning, Client!HearOpen, SamePhase, FewerTools
    <2>6. QED
        BY <2>2, <2>4, <2>5
<1>5. CASE OpensMessage(ev)
    <2>1. phase = "within"
        BY <1>0, <1>5 DEF OpensMessage, Ending
    <2>2. BlockInv'
        BY <1>1, <1>2, <1>5, MessageOpens
    <2>3. ~Client!IsOpen("reasoning") /\ ~Client!IsOpen("text") /\ Len(kinds) = next
        BY <1>1, <1>5 DEF OpensMessage, BlockInv, BlocksMatch, BlocksApart, EmitterTyped, BlockKinds, Client!IsOpen
    <2>4. Client!Next
        BY <1>2, <1>5, <2>1, <2>3 DEF OpensMessage, Client!Next, Client!Open, Client!BlockKind
    <2>5. SamePhase /\ FewerTools
        BY <1>5, <2>1 DEF OpensMessage, Client!HearOpen, SamePhase, FewerTools
    <2>6. QED
        BY <2>2, <2>4, <2>5
<1>6. CASE ClosesReasoning(ev)
    <2>1. reasoning \in Nat /\ IsOpenAt(reasoning)
        BY <1>1, <1>6 DEF ClosesReasoning, EmitterTyped, IsOpenAt
    <2>2. phase = "within" /\ \E b \in open : b.index = reasoning
        BY <1>0, <2>1, OpenWithin
    <2>3. BlockInv'
        BY <1>1, <1>2, <1>6, ReasoningCloses
    <2>4. Client!Next
        BY <1>2, <1>6, <2>2 DEF ClosesReasoning, Client!Next, Client!Close
    <2>5. SamePhase /\ FewerTools
        BY <1>6, <2>2 DEF ClosesReasoning, Client!HearClose, SamePhase, FewerTools
    <2>6. QED
        BY <2>3, <2>4, <2>5
<1>7. CASE ClosesMessage(ev)
    <2>1. message \in Nat /\ IsOpenAt(message)
        BY <1>1, <1>7 DEF ClosesMessage, EmitterTyped, IsOpenAt
    <2>2. phase = "within" /\ \E b \in open : b.index = message
        BY <1>0, <2>1, OpenWithin
    <2>3. BlockInv'
        BY <1>1, <1>2, <1>7, MessageCloses
    <2>4. Client!Next
        BY <1>2, <1>7, <2>2 DEF ClosesMessage, Client!Next, Client!Close
    <2>5. SamePhase /\ FewerTools
        BY <1>7, <2>2 DEF ClosesMessage, Client!HearClose, SamePhase, FewerTools
    <2>6. QED
        BY <2>3, <2>4, <2>5
<1>8. CASE ev.type = "Completed" /\ \E k \in ToolIndex : ClosesTool(k)
    <2>0. PICK k \in ToolIndex : ClosesTool(k)
        BY <1>8
    <2>1. tools[k] \in Nat /\ IsOpenAt(tools[k])
        BY <1>1, <2>0 DEF ClosesTool, EmitterTyped, IsOpenAt
    <2>2. phase = "within" /\ \E b \in open : b.index = tools[k]
        BY <1>0, <2>1, OpenWithin
    <2>3. BlockInv'
        BY <1>1, <1>2, <2>0, ToolCloses
    <2>4. Client!Next
        BY <1>2, <2>0, <2>2 DEF ClosesTool, Client!Next, Client!Close
    <2>5. SamePhase /\ FewerTools
        BY <1>1, <2>0, <2>2 DEF ClosesTool, Client!HearClose, SamePhase, FewerTools, EmitterTyped
    <2>6. QED
        BY <2>3, <2>4, <2>5
<1>9. CASE ev.type = "Completed" /\ dialect = "anthropic" /\ NothingOpen /\ phase # "summed" /\ Tells("summed")
    <2>1. open = {} /\ open' = {} /\ phase' = "summed" /\ Client!HearPhase("summed") /\ started' = started
        BY <1>1, <1>9, NothingIsOpen DEF Tells, Client!HearPhase, emitter
    <2>2. EmitterTyped'
        BY <1>1, <1>9 DEF Tells, Client!HearPhase, emitter, EmitterTyped
    <2>3. BlockInv' /\ FewerTools
        BY <1>1, <1>2, <1>9, <2>2, BlocksLeftAlone DEF Tells, Client!HearPhase, emitter, FewerTools
    <2>4. phase \in {"before", "within"} \/ (track /\ phase = "ended")
        BY <1>0, <1>1, <1>9 DEF EmitterTyped, QueueInv, PhaseFits
    <2>5. Client!Next
        BY <1>2, <2>1, <2>4 DEF Client!Next, Client!Sum, Client!Unfinished
    <2>6. QED
        BY <1>9, <2>1, <2>3, <2>5 DEF ev
<1>10. QED
    BY <1>2, <1>3, <1>4, <1>5, <1>6, <1>7, <1>8, <1>9 DEF PreparingFrame

\* The event's own frame: what it is to the client, and which bookkeeping it needs.
LEMMA DeliveringAsClient ==
    ASSUME IInv, events # <<>>, UNCHANGED <<dialect, track>>, OwnFrame(Head(events))
    PROVE  LET ev == Head(events) IN
           /\ BlockInv' /\ [Client!Next]_<<Client!view, track>>
           /\ \A k \in ToolIndex : tools'[k] # None =>
                 tools[k] # None \/ (ev.type = "ToolCallStart" /\ ev.index = k)
           /\ \/ ev.type \notin Ending /\ phase' = "within" /\ (dialect = "anthropic" => started' = TRUE)
              \/ ev.type = "Completed" /\ phase' = "ended" /\ open' = {} /\ phase \notin {"before", "within"}
              \/ ev.type = "Completed" /\ phase' = "ended" /\ open' = {} /\ dialect = "responses"
              \/ ev.type = "Error" /\ phase' = "failed"
<1> DEFINE ev == Head(events)
<1>0. /\ ev \in Waiting
      /\ ev.type \in OfCalls => ev.index \in ToolIndex
      /\ ev.type \in Ending => Len(events) = 1
      /\ ev.type \notin Ending => phase \in {"before", "within"}
      /\ ev.type \notin Ending /\ ev.type # "Created" => phase = "within"
      /\ phase # "failed"
      /\ ev.type = "ToolCallStart" => tools[ev.index] = None
      /\ ev = events[1]
    BY AtHand DEF IInv
<1>1. BlockInv /\ EmitterTyped /\ QueueInv /\ None \notin Nat
    BY StreamAssumption DEF IInv, BlockInv
<1>2. OwnFrame(ev) /\ UNCHANGED dialect /\ track' = track
    OBVIOUS
<1> HIDE DEF ev
<1>a. dialect = "anthropic" /\ phase = "within" => started = TRUE
    BY <1>1 DEF QueueInv, PhaseFits, EmitterTyped
<1>b. SUFFICES /\ BlockInv' /\ (Client!Next \/ UNCHANGED <<Client!view, track>>)
               /\ \A k \in ToolIndex : tools'[k] # None =>
                     tools[k] # None \/ (ev.type = "ToolCallStart" /\ ev.index = k)
               /\ \/ ev.type \notin Ending /\ phase' = "within" /\ (dialect = "anthropic" => started' = TRUE)
                  \/ ev.type = "Completed" /\ phase' = "ended" /\ open' = {} /\ phase \notin {"before", "within"}
                  \/ ev.type = "Completed" /\ phase' = "ended" /\ open' = {} /\ dialect = "responses"
                  \/ ev.type = "Error" /\ phase' = "failed"
    BY DEF ev
<1>3. CASE dialect = "responses" /\ Begins(ev)
    <2>1. phase = "before" /\ ev.type = "Created" /\ ev.type \notin Ending
        <3>1. ev.type = "Created"
            BY <1>3 DEF Begins
        <3>2. events \in Seq(Waiting) /\ 1 \in 1..Len(events)
            BY <1>1 DEF QueueInv, PumpTyped
        <3>3. QED
            BY <1>0, <1>1, <1>3, <3>1, <3>2 DEF QueueInv, EventsFit, Ending
    <2>2. EmitterTyped'
        BY <1>1, <1>3 DEF Begins, EmitterTyped, Client!HearPhase
    <2>3. BlockInv' /\ UNCHANGED tools
        BY <1>1, <1>2, <1>3, <2>2, BlocksLeftAlone DEF Begins, Client!HearPhase
    <2>4. Client!Next /\ phase' = "within"
        BY <1>2, <1>3, <2>1 DEF Begins, Client!Next, Client!Begin, Client!HearPhase
    <2>5. QED
        BY <1>3, <2>1, <2>3, <2>4
<1>4. CASE Silent(ev)
    <2>1. phase = "within" /\ phase' = "within" /\ ev.type \notin Ending
        <3>1. ev.type \notin Ending
            BY <1>4 DEF Silent, Ending
        <3>2. ev.type = "Created" => phase # "before"
            BY <1>1, <1>4 DEF Silent, QueueInv, PhaseFits
        <3>3. phase' = phase
            BY <1>4 DEF Silent, view
        <3>4. QED
            BY <1>0, <3>1, <3>2, <3>3
    <2>2. usage' \in ToldUsage \cup {None}
        BY <1>0, <1>1, <1>4 DEF Silent, EmitterTyped, Waiting
    <2>3. EmitterTyped'
        BY <1>1, <1>4, <2>2 DEF Silent, EmitterTyped, view
    <2>4. BlockInv' /\ UNCHANGED <<tools, started>>
        BY <1>1, <1>2, <1>4, <2>3, BlocksLeftAlone DEF Silent, view
    <2>5. UNCHANGED <<Client!view, track>>
        BY <1>2, <1>4 DEF Silent, view, Client!view
    <2>6. QED
        BY <1>a, <2>1, <2>4, <2>5
<1>5. CASE PartsReasoning(ev)
    <2>1. reasoning \in Nat /\ [index |-> reasoning, kind |-> "reasoning"] \in open
        BY <1>1, <1>5 DEF PartsReasoning, EmitterTyped, BlockInv, BlocksMatch
    <2>2. phase = "within" /\ phase' = "within" /\ ev.type \notin Ending /\ UNCHANGED <<tools, started>>
        BY <1>0, <1>5 DEF PartsReasoning, Ending, Client!HearPart
    <2>3. BlockInv'
        BY <1>1, <1>2, <1>5, ReasoningGrows
    <2>4. Client!Next
        BY <1>2, <1>5, <2>1, <2>2 DEF PartsReasoning, Client!Next, Client!Part
    <2>5. QED
        BY <1>a, <2>2, <2>3, <2>4
<1>6. CASE PartsMessage(ev)
    <2>1. message \in Nat /\ [index |-> message, kind |-> "text"] \in open
        BY <1>1, <1>6 DEF PartsMessage, EmitterTyped, BlockInv, BlocksMatch
    <2>2. phase = "within" /\ phase' = "within" /\ ev.type \notin Ending /\ UNCHANGED <<tools, started>>
        BY <1>0, <1>6 DEF PartsMessage, Ending, Client!HearPart
    <2>3. BlockInv'
        BY <1>1, <1>2, <1>6, MessageGrows
    <2>4. Client!Next
        BY <1>2, <1>6, <2>1, <2>2 DEF PartsMessage, Client!Next, Client!Part
    <2>5. QED
        BY <1>a, <2>2, <2>3, <2>4
<1>7. CASE PartsTool(ev)
    <2>0. ev.index \in ToolIndex
        BY <1>0, <1>7 DEF PartsTool, OfCalls
    <2>1. tools[ev.index] \in Nat /\ [index |-> tools[ev.index], kind |-> "tool"] \in open
        BY <1>1, <1>7, <2>0 DEF PartsTool, EmitterTyped, BlockInv, BlocksMatch
    <2>2. phase = "within" /\ phase' = "within" /\ ev.type \notin Ending /\ UNCHANGED <<tools, started>>
        BY <1>0, <1>7 DEF PartsTool, Ending, Client!HearPart
    <2>3. BlockInv'
        BY <1>1, <1>2, <1>7, <2>0, ToolGrows
    <2>4. Client!Next
        BY <1>2, <1>7, <2>1, <2>2 DEF PartsTool, Client!Next, Client!Part
    <2>5. QED
        BY <1>a, <2>2, <2>3, <2>4
<1>8. CASE OpensTool(ev)
    <2>1. /\ phase = "within" /\ ev.type = "ToolCallStart" /\ ev.type \notin Ending
          /\ ev.index \in ToolIndex /\ tools[ev.index] = None
        BY <1>0, <1>8 DEF OpensTool, Ending, OfCalls
    <2>2. BlockInv'
        BY <1>1, <1>2, <1>8, <2>1, ToolOpens
    <2>3. ~Client!IsOpen("reasoning") /\ ~Client!IsOpen("text") /\ Len(kinds) = next
        BY <1>1, <1>8 DEF OpensTool, BlockInv, BlocksMatch, BlocksApart, EmitterTyped, BlockKinds, Client!IsOpen
    <2>4. Client!Next
        BY <1>2, <1>8, <2>1, <2>3 DEF OpensTool, Client!Next, Client!Open, Client!BlockKind
    <2>5. phase' = "within" /\ UNCHANGED started /\ \A k \in ToolIndex : k # ev.index => tools'[k] = tools[k]
        BY <1>1, <1>8, <2>1 DEF OpensTool, Client!HearOpen, EmitterTyped
    <2>6. QED
        BY <1>a, <2>1, <2>2, <2>4, <2>5
<1>9. CASE ev.type = "ToolCallDone" /\ ClosesTool(ev.index)
    <2>1. tools[ev.index] \in Nat /\ IsOpenAt(tools[ev.index])
        BY <1>1, <1>9 DEF ClosesTool, EmitterTyped, IsOpenAt
    <2>2. phase = "within" /\ \E b \in open : b.index = tools[ev.index]
        BY <1>0, <2>1, OpenWithin
    <2>3. BlockInv'
        BY <1>1, <1>2, <1>9, ToolCloses
    <2>4. Client!Next
        BY <1>2, <1>9, <2>2 DEF ClosesTool, Client!Next, Client!Close
    <2>5. phase' = "within" /\ UNCHANGED started /\ \A k \in ToolIndex : tools'[k] # None => tools[k] # None
        BY <1>1, <1>9, <2>2 DEF ClosesTool, Client!HearClose, EmitterTyped
    <2>6. ev.type \notin Ending
        BY <1>9 DEF Ending
    <2>7. QED
        BY <1>a, <2>2, <2>3, <2>4, <2>5, <2>6
<1>10. CASE /\ ev.type = "Completed" /\ Tells("ended")
            /\ \/ dialect = "anthropic" /\ phase = "summed"
               \/ dialect = "responses" /\ NothingOpen
    <2>1. open = {}
        BY <1>1, <1>10, NothingIsOpen DEF QueueInv, PhaseFits
    <2>2. EmitterTyped' /\ open' = open /\ phase' = "ended" /\ Client!HearPhase("ended") /\ UNCHANGED tools
        BY <1>1, <1>10 DEF Tells, Client!HearPhase, emitter, EmitterTyped
    <2>3. BlockInv'
        BY <1>1, <1>2, <1>10, <2>2, BlocksLeftAlone DEF Tells, Client!HearPhase, emitter
    <2>4. phase \in {"before", "within", "summed"} \/ (track /\ phase = "ended")
        BY <1>0, <1>1 DEF EmitterTyped, QueueInv, PhaseFits
    <2>5. Client!Next
        BY <1>2, <2>1, <2>2, <2>4 DEF Client!Next, Client!End, Client!Unfinished
    <2>6. QED
        BY <1>10, <2>1, <2>2, <2>3, <2>5
<1>11. CASE ev.type = "Error" /\ Tells("failed")
    <2>1. EmitterTyped' /\ phase' = "failed" /\ Client!HearPhase("failed") /\ UNCHANGED tools
        BY <1>1, <1>11 DEF Tells, Client!HearPhase, emitter, EmitterTyped
    <2>2. BlockInv'
        BY <1>1, <1>2, <1>11, <2>1, BlocksLeftAlone DEF Tells, Client!HearPhase, emitter
    <2>3. phase \in {"before", "within"} \/ (track /\ phase = "ended")
        <3>1. events \in Seq(Waiting) /\ phase # "summed"
            BY <1>0, <1>1, <1>11 DEF QueueInv, PumpTyped, PhaseFits
        <3>2. phase = "ended" => track
            BY <1>1 DEF QueueInv, PhaseFits
        <3>3. QED
            BY <1>0, <1>1, <3>1, <3>2 DEF EmitterTyped
    <2>4. Client!Next
        BY <1>2, <2>1, <2>3 DEF Client!Next, Client!Fail, Client!Unfinished
    <2>5. QED
        BY <1>11, <2>1, <2>2, <2>4
<1>12. QED
    BY <1>2, <1>3, <1>4, <1>5, <1>6, <1>7, <1>8, <1>9, <1>10, <1>11 DEF OwnFrame

-----------------------------------------------------------------------------
(* The steps of the pump.                                                   *)

\* The list of events stays.
LEMMA EmitKeeps ==
    ASSUME IInv, Emit
    PROVE  IInv' /\ Client!Next
<1> DEFINE ev == Head(events)
<1>1. /\ events # <<>> /\ Prepare(ev)
      /\ UNCHANGED <<created, startedTools, script, dialect, track, pos, pc, events, completed, done,
                     cost, tokens, bill>>
    BY DEF Emit, parser, given
<1>2. /\ ev \in Waiting /\ ev = events[1]
      /\ ev.type \in Ending => Len(events) = 1
      /\ ev.type \notin Ending => created
      /\ phase # "failed"
    BY <1>1, AtHand DEF IInv
<1>3. /\ BlockInv' /\ Client!Next /\ FewerTools
      /\ \/ SamePhase
         \/ /\ phase = "before" /\ phase' = "within" /\ started' = TRUE
            /\ ev.type \notin Ending /\ dialect = "anthropic"
         \/ /\ ev.type = "Completed" /\ phase' = "summed" /\ open' = {}
            /\ dialect = "anthropic" /\ UNCHANGED started
    BY <1>1, <1>2, Preparing, PreparingAsClient
<1> HIDE DEF ev
<1>4. PumpTyped /\ PumpTyped' /\ EventsFit /\ StartsOnce /\ PhaseFits
    BY <1>1 DEF IInv, QueueInv, PumpTyped
<1>5. EventsFit'
    <2>1. CASE SamePhase
        BY <1>1, <1>4, <2>1 DEF EventsFit, SamePhase
    <2>2. CASE phase = "before" /\ phase' = "within" /\ ev.type \notin Ending /\ dialect = "anthropic"
        <3>1. created' = TRUE
            BY <1>1, <1>2, <1>4, <2>2 DEF PumpTyped
        <3>2. QED
            BY <1>1, <1>4, <2>2, <3>1 DEF EventsFit
    <2>3. CASE ev.type = "Completed" /\ phase' = "summed"
        <3>1. Len(events) = 1 /\ events[1].type \in Ending
            BY <1>2, <2>3 DEF Ending
        <3>2. \A i \in 1..Len(events) : events[i].type = "Completed"
            BY <1>2, <2>3, <3>1
        <3>3. QED
            BY <1>1, <1>4, <2>3, <3>1, <3>2 DEF EventsFit, Ending
    <2>4. QED
        BY <1>3, <2>1, <2>2, <2>3
<1>6. StartsOnce'
    <2>1. \A k \in ToolIndex : tools'[k] # None => k \in startedTools
        BY <1>3, <1>4 DEF FewerTools, StartsOnce
    <2>2. ASSUME NEW i \in 1..Len(events), events[i].type = "ToolCallStart"
          PROVE  tools'[events[i].index] = None
        <3>1. events[i] \in Waiting /\ events[i].index \in ToolIndex
            BY <2>2, <1>4, ElementOfSeq DEF PumpTyped, Waiting, OfCalls
        <3>2. QED
            BY <1>3, <1>4, <2>2, <3>1 DEF FewerTools, StartsOnce
    <2>3. QED
        BY <1>1, <1>4, <2>1, <2>2 DEF StartsOnce
<1>7. PhaseFits'
    <2>1. CASE SamePhase
        BY <1>1, <1>4, <2>1 DEF PhaseFits, SamePhase
    <2>2. CASE phase = "before" /\ phase' = "within" /\ started' = TRUE /\ ev.type \notin Ending
        BY <1>1, <1>4, <2>2 DEF PhaseFits
    <2>3. CASE /\ ev.type = "Completed" /\ phase' = "summed" /\ open' = {}
               /\ dialect = "anthropic" /\ UNCHANGED started
        BY <1>1, <1>2, <1>4, <2>3 DEF PhaseFits, Ending
    <2>4. QED
        BY <1>3, <2>1, <2>2, <2>3
<1>8. QED
    BY <1>3, <1>4, <1>5, <1>6, <1>7 DEF IInv, QueueInv

\* The list of events gets shorter.
LEMMA EmitLastKeeps ==
    ASSUME IInv, EmitLast
    PROVE  IInv' /\ [Client!Next]_<<Client!view, track>>
<1> DEFINE ev == Head(events)
<1>1. /\ events # <<>> /\ Deliver(ev)
      /\ UNCHANGED <<created, startedTools, script, dialect, track, pos, done, cost, tokens, bill>>
      /\ ev.type = "Error" => events' = <<>> /\ pc' = "over" /\ completed' = TRUE
      /\ ev.type # "Error" => events' = Tail(events) /\ UNCHANGED <<pc, completed>>
      /\ pc \in {"loop", "over"}
    BY DEF EmitLast, parser, given, Leaves
<1>2. /\ ev \in Waiting /\ ev = events[1]
      /\ ev.type \in OfCalls => ev.index \in ToolIndex
      /\ ev.type \in Ending => Len(events) = 1
      /\ ev.type \notin Ending => phase \in {"before", "within"} /\ ~done /\ pc # "over" /\ created
      /\ phase # "failed"
    BY <1>1, AtHand DEF IInv
<1>3. /\ BlockInv' /\ [Client!Next]_<<Client!view, track>>
      /\ \A k \in ToolIndex : tools'[k] # None =>
            tools[k] # None \/ (ev.type = "ToolCallStart" /\ ev.index = k)
      /\ \/ ev.type \notin Ending /\ phase' = "within" /\ (dialect = "anthropic" => started' = TRUE)
         \/ ev.type = "Completed" /\ phase' = "ended" /\ open' = {}
         \/ ev.type = "Error" /\ phase' = "failed"
    BY <1>1, <1>2, Delivering, DeliveringAsClient
<1> HIDE DEF ev
<1>4. PumpTyped /\ EventsFit /\ StartsOnce /\ PhaseFits
    BY DEF IInv, QueueInv
<1>5. /\ events \in Seq(Waiting) /\ Len(events) \in Nat
      /\ Tail(events) \in Seq(Waiting) /\ Len(Tail(events)) = Len(events) - 1
      /\ \A i \in 1..Len(Tail(events)) : i + 1 \in 1..Len(events) /\ Tail(events)[i] = events[i + 1]
    BY <1>1, <1>4 DEF PumpTyped
<1>6. PumpTyped'
    <2>1. events' \in Seq(Waiting)
        <3>1. <<>> \in Seq(Waiting)
            OBVIOUS
        <3>2. events' = <<>> \/ events' = Tail(events)
            BY <1>1
        <3>3. QED
            BY <1>5, <3>1, <3>2
    <2>2. {created', track', completed', done'} \subseteq BOOLEAN
        BY <1>1, <1>4 DEF PumpTyped
    <2>3. pc' \in {"loop", "over", "finished", "gone"}
        BY <1>1
    <2>4. QED
        BY <1>1, <1>4, <2>1, <2>2, <2>3 DEF PumpTyped
<1>7. CASE ev.type \notin Ending
    <2>1. /\ events' = Tail(events) /\ UNCHANGED <<pc, completed>> /\ phase' = "within"
          /\ dialect = "anthropic" => started' = TRUE
        BY <1>1, <1>3, <1>7 DEF Ending
    <2>2. \A i \in 1..Len(events') : i + 1 \in 1..Len(events) /\ events'[i] = events[i + 1]
        BY <1>5, <2>1
    <2>3. \A i \in 1..Len(events') : events'[i].type \notin Ending \cup {"Created"}
        <3>1. Len(events) # 1 => \A i \in 1..Len(events) : events[i].type \notin Ending
            BY <1>4 DEF EventsFit
        <3>2. \A i \in 1..Len(events') : Len(events) # 1 /\ i + 1 # 1
            BY <1>5, <2>2
        <3>3. \A i \in 1..Len(events) : events[i].type = "Created" => i = 1
            BY <1>4 DEF EventsFit
        <3>4. QED
            BY <2>2, <3>1, <3>2, <3>3
    <2>4. EventsFit'
        BY <1>1, <1>2, <1>7, <2>1, <2>3 DEF EventsFit, Ending
    <2>5. StartsOnce'
        <3>1. ASSUME NEW k \in ToolIndex, tools'[k] # None PROVE k \in startedTools
            <4>1. CASE ev.type = "ToolCallStart" /\ ev.index = k
                BY <4>1, <1>2, <1>4, <1>5, <1>1 DEF StartsOnce
            <4>2. QED
                BY <4>1, <3>1, <1>3, <1>4 DEF StartsOnce
        <3>2. ASSUME NEW i \in 1..Len(events'), events'[i].type = "ToolCallStart"
              PROVE  /\ events'[i].index \in startedTools /\ tools'[events'[i].index] = None
                     /\ \A j \in 1..Len(events') :
                           events'[j].type = "ToolCallStart" /\ events'[j].index = events'[i].index => j = i
            <4>1. /\ i + 1 \in 1..Len(events) /\ events'[i] = events[i + 1] /\ i \in Nat
                BY <2>2
            <4>2. /\ events[i + 1].index \in startedTools /\ tools[events[i + 1].index] = None
                  /\ \A j \in 1..Len(events) :
                        events[j].type = "ToolCallStart" /\ events[j].index = events[i + 1].index => j = i + 1
                BY <4>1, <3>2, <1>4 DEF StartsOnce
            <4>3. ~(ev.type = "ToolCallStart" /\ ev.index = events[i + 1].index)
                <5>1. 1 \in 1..Len(events) /\ 1 # i + 1
                    BY <1>5, <4>1
                <5>2. QED
                    BY <5>1, <4>2, <1>2
            <4>4. events[i + 1].index \in ToolIndex
                BY <4>2, <1>4 DEF PumpTyped
            <4>5. tools'[events[i + 1].index] = None
                BY <4>2, <4>3, <4>4, <1>3
            <4>6. \A j \in 1..Len(events') :
                     events'[j].type = "ToolCallStart" /\ events'[j].index = events'[i].index => j = i
                BY <2>2, <4>1, <4>2
            <4>7. QED
                BY <4>1, <4>2, <4>5, <4>6
        <3>3. QED
            BY <1>1, <3>1, <3>2 DEF StartsOnce
    <2>6. PhaseFits'
        <3>1. ~completed
            <4>1. events[1].type \notin Ending /\ phase \notin {"ended", "failed"}
                BY <1>2, <1>7
            <4>2. QED
                BY <1>4, <4>1 DEF PhaseFits
        <3>2. pc' = "loop" /\ completed' = FALSE
            BY <1>1, <1>2, <1>4, <1>7, <2>1, <3>1 DEF PumpTyped
        <3>3. ~done'
            BY <1>1, <1>2, <1>7
        <3>4. QED
            BY <1>1, <2>1, <3>2, <3>3 DEF PhaseFits
    <2>7. QED
        BY <1>3, <1>6, <2>4, <2>5, <2>6 DEF IInv, QueueInv
<1>8. CASE ev.type \in Ending
    <2>1. events' = <<>> /\ Len(events') = 0 /\ FewerTools
        <3>1. Len(events) = 1 /\ Tail(events) = <<>>
            BY <1>2, <1>5, <1>8
        <3>2. QED
            BY <1>1, <1>3, <1>8, <3>1 DEF Ending, FewerTools
    <2>2. \/ ev.type = "Completed" /\ phase' = "ended" /\ open' = {} /\ UNCHANGED <<pc, completed>>
          \/ ev.type = "Error" /\ phase' = "failed" /\ pc' = "over" /\ completed' = TRUE
        BY <1>1, <1>3, <1>8
    <2>3. EventsFit'
        BY <2>1, <2>2 DEF EventsFit
    <2>4. StartsOnce'
        BY <1>1, <1>4, <2>1 DEF StartsOnce, FewerTools
    <2>5. PhaseFits'
        <3>1. ev.type = "Completed" => done \/ pc # "loop"
            BY <1>2, <1>4, <1>5 , <1>1 DEF EventsFit
        <3>2. QED
            BY <1>1, <1>4, <2>1, <2>2, <3>1 DEF PhaseFits
    <2>6. QED
        BY <1>3, <1>6, <2>3, <2>4, <2>5 DEF IInv, QueueInv
<1>9. QED
    BY <1>3, <1>7, <1>8

\* What the upstream sends next.
LEMMA NextItem ==
    ASSUME PumpTyped
    PROVE  /\ script.items \in Seq([kind : ItemKind, chunk : Chunk]) /\ Len(script.items) \in Nat
           /\ pos \in Nat /\ pos >= 1
           /\ pos <= Len(script.items) =>
                 Item \in [kind : ItemKind, chunk : Chunk] /\ pos + 1 \in 1..(Len(script.items) + 1)
<1>1. script.items \in Seq([kind : ItemKind, chunk : Chunk])
    BY StreamAssumption DEF PumpTyped
<1>2. Len(script.items) \in Nat /\ pos \in Nat /\ pos >= 1
    BY <1>1 DEF PumpTyped
<1>3. pos <= Len(script.items) => Item \in [kind : ItemKind, chunk : Chunk]
    <2> DEFINE items == script.items
    <2>1. items \in Seq([kind : ItemKind, chunk : Chunk]) /\ (pos <= Len(items) => pos \in 1..Len(items))
        BY <1>1, <1>2
    <2> HIDE DEF items
    <2>2. pos <= Len(items) => items[pos] \in [kind : ItemKind, chunk : Chunk]
        BY <2>1, ElementOfSeq
    <2>3. QED
        BY <2>2 DEF items, Item
<1>4. QED
    BY <1>1, <1>2, <1>3

\* A pump that reads has told its client all it had.
LEMMA WhenReading ==
    ASSUME IInv, Reading
    PROVE  /\ phase \in {"before", "within", "ended"} /\ events = <<>> /\ Len(events) = 0
           /\ phase = "ended" <=> done
           /\ completed => done
           /\ done => track
           /\ created => phase # "before"
           /\ ~created => phase # "within"
<1>1. events = <<>> /\ Len(events) = 0 /\ pc = "loop"
    BY DEF Reading
<1>2. EmitterTyped /\ PumpTyped /\ PhaseFits /\ EventsFit
    BY DEF IInv, BlockInv, QueueInv
<1>3. phase \in {"before", "within", "ended"}
    BY <1>1, <1>2 DEF EmitterTyped, PhaseFits
<1>4. phase = "ended" => done /\ track
    BY <1>1, <1>2 DEF PhaseFits
<1>5. completed => phase = "ended"
    BY <1>1, <1>2, <1>3 DEF PhaseFits
<1>6. done => completed /\ track
    BY <1>2 DEF PhaseFits
<1>7. created => phase # "before"
    BY <1>1, <1>2 DEF EventsFit
<1>8. ~created => phase # "within"
    BY <1>2 DEF EventsFit
<1>9. QED
    BY <1>1, <1>3, <1>4, <1>5, <1>6, <1>7, <1>8

\* The pump leaves blocks to the emitter.
LEMMA BlocksOfPump ==
    ASSUME IInv, UNCHANGED <<view, emitter, dialect>>
    PROVE  BlockInv' /\ UNCHANGED Client!view
<1>1. EmitterTyped'
    BY DEF IInv, BlockInv, EmitterTyped, view, emitter
<1>2. BlockInv'
    BY <1>1, BlocksLeftAlone DEF IInv, view, emitter
<1>3. QED
    BY <1>2 DEF view, Client!view

LEMMA InitHolds ==
    ASSUME Init
    PROVE  IInv /\ Client!Init
<1>1. EmitterTyped
    <2>1. kinds \in Seq(BlockKinds) /\ parts \in Seq(Nat) /\ output \in Seq(OutputItem)
        BY DEF Init
    <2>2. {started, anyTool} \subseteq BOOLEAN /\ {reasoning, message} \subseteq Nat \cup {None}
             /\ {reasoningText, messageText} \subseteq Nat
        <3>1. started = FALSE /\ anyTool = FALSE
            BY DEF Init
        <3>2. reasoning = None /\ message = None /\ reasoningText = 0 /\ messageText = 0
            BY DEF Init
        <3>3. {started, anyTool} \subseteq BOOLEAN
            BY <3>1
        <3>4. {reasoning, message} \subseteq Nat \cup {None}
            BY <3>2
        <3>5. {reasoningText, messageText} \subseteq Nat
            BY <3>2
        <3>6. QED
            BY <3>3, <3>4, <3>5
    <2>3. tools \in [ToolIndex -> Nat \cup {None}] /\ toolArgs \in [ToolIndex -> Nat]
        BY DEF Init
    <2>4. /\ phase \in {"before", "within", "summed", "ended", "failed"} /\ heard \in Nat /\ next \in Nat
          /\ open \subseteq [index : Nat, kind : BlockKinds] /\ usage \in ToldUsage \cup {None}
        BY DEF Init
    <2>5. QED
        BY <2>1, <2>2, <2>3, <2>4 DEF EmitterTyped
<1>2. BlocksMatch /\ BlocksApart /\ OpenMatches /\ OutputMatches /\ AnyToolMatches
    <2>1. None \notin Nat
        BY StreamAssumption
    <2>2. BlocksMatch /\ BlocksApart
        BY <2>1 DEF Init, BlocksMatch, BlocksApart
    <2>3. OpenMatches /\ OutputMatches /\ AnyToolMatches
        BY DEF Init, OpenMatches, OutputMatches, AnyToolMatches
    <2>4. QED
        BY <2>2, <2>3
<1>3. PumpTyped
    <2>1. IsFiniteSet(startedTools)
        BY FS_EmptySet DEF Init
    <2>2. Len(script.items) \in Nat
        BY StreamAssumption DEF Init
    <2>3. pos \in 1..(Len(script.items) + 1)
        BY <2>2 DEF Init
    <2>4. events \in Seq(Waiting)
        BY DEF Init
    <2>5. QED
        BY <2>1, <2>3, <2>4 DEF Init, PumpTyped
<1>4. EventsFit /\ StartsOnce /\ PhaseFits
    BY DEF Init, EventsFit, StartsOnce, PhaseFits
<1>5. Client!Init
    BY DEF Init, Client!Init, Client!NothingHeard
<1>6. QED
    BY <1>1, <1>2, <1>3, <1>4, <1>5 DEF IInv, BlockInv, QueueInv

\* One event to end the answer with.
LEMMA ToEnd ==
    ASSUME NEW type \in Ending
    PROVE  /\ <<Event(type, None)>> \in Seq(Waiting) /\ Len(<<Event(type, None)>>) = 1
           /\ \A i \in 1..Len(<<Event(type, None)>>) :
                 i = 1 /\ <<Event(type, None)>>[i].type = type
<1>1. Event(type, None) \in Waiting /\ Event(type, None).type = type
    BY DEF Event, Waiting, CanonicalEvent, EventType, OfCalls, Ending
<1> DEFINE e == Event(type, None)
<1> HIDE DEF e
<1>2. <<e>> \in Seq(Waiting) /\ Len(<<e>>) = 1 /\ \A i \in 1..Len(<<e>>) : i = 1 /\ <<e>>[i] = e
    BY <1>1 DEF e
<1>3. QED
    BY <1>1, <1>2 DEF e

\* Counts stay counts.
LEMMA MergedTyped ==
    ASSUME NEW report \in Report \cup {None}, NEW old \in [Field -> Nat \cup {None}]
    PROVE  Merged(report, old) \in [Field -> Nat \cup {None}]
<1>1. report # None => report \in [Field -> Nat \cup {None}]
    BY StreamAssumption
<1>2. \A f \in Field : (IF report = None THEN old[f] ELSE LastOf(report[f], old[f])) \in Nat \cup {None}
    BY <1>1 DEF LastOf
<1>3. QED
    BY <1>2 DEF Merged

\* A chunk is looked at, and translated if the answer has not ended.
LEMMA ReadDataKeeps ==
    ASSUME IInv, ReadData
    PROVE  IInv'
<1>1. /\ Reading /\ pos <= Len(script.items) /\ pos' = pos + 1
      /\ Sniff(Item.chunk)
      /\ UNCHANGED <<view, emitter, script, dialect, track, pc, completed, done, bill>>
      /\ done => UNCHANGED <<events, created, startedTools>>
      /\ ~done => /\ events' = OnChunk(Item.chunk, created, startedTools)
                  /\ created' = (created \/ ~Item.chunk.error)
                  /\ startedTools' = StartedBy(Item.chunk, startedTools)
    BY DEF ReadData, ReadItem, given, parser
<1>2. /\ phase \in {"before", "within", "ended"} /\ events = <<>> /\ Len(events) = 0 /\ pc = "loop"
      /\ phase = "ended" <=> done
      /\ completed => done
      /\ done => track
      /\ created => phase # "before"
      /\ ~created => phase # "within"
    BY <1>1, WhenReading DEF Reading
<1>3. PumpTyped /\ EventsFit /\ StartsOnce /\ PhaseFits /\ EmitterTyped
    BY DEF IInv, QueueInv, BlockInv
<1> DEFINE chunk == Item.chunk
<1>4. chunk \in Chunk /\ pos' \in 1..(Len(script.items) + 1)
    BY <1>1, <1>3, NextItem
<1>5. BlockInv'
    BY <1>1, BlocksOfPump
<1>6. tokens' \in [Field -> Nat \cup {None}] /\ cost' \in Price \cup {None}
    <2>1. Merged(chunk.usage, tokens) \in [Field -> Nat \cup {None}]
        <3>1. chunk.usage \in Report \cup {None} /\ tokens \in [Field -> Nat \cup {None}]
            BY <1>3, <1>4 DEF PumpTyped, Chunk
        <3>2. QED
            BY <3>1, MergedTyped
    <2>2. LastOf(chunk.cost, cost) \in Price \cup {None}
        BY <1>3, <1>4 DEF LastOf, PumpTyped, Chunk
    <2>3. QED
        BY <1>1, <1>3, <2>1, <2>2 DEF Sniff, PumpTyped
<1> HIDE DEF chunk
<1>7. /\ UNCHANGED <<phase, open, started, tools, dialect, pc, completed, done, track, script, bill>>
    BY <1>1 DEF view, emitter
<1>8. CASE done
    <2>1. UNCHANGED <<events, created, startedTools>>
        BY <1>1, <1>8
    <2>2. PumpTyped'
        BY <1>3, <1>4, <1>6, <1>7, <2>1 DEF PumpTyped
    <2>3. EventsFit' /\ StartsOnce' /\ PhaseFits'
        BY <1>3, <1>7, <2>1 DEF EventsFit, StartsOnce, PhaseFits
    <2>4. QED
        BY <1>5, <2>2, <2>3 DEF IInv, QueueInv
<1>9. CASE ~done /\ chunk.error
    <2> DEFINE es == <<Event("Error", None)>>
    <2>1. events' = es /\ startedTools' = startedTools /\ created' = created
        BY <1>1, <1>3, <1>9 DEF OnChunk, StartedBy, chunk, PumpTyped
    <2>2. es \in Seq(Waiting) /\ Len(es) = 1 /\ \A i \in 1..Len(es) : i = 1 /\ es[i].type = "Error"
        BY ToEnd DEF Ending
    <2> HIDE DEF es
    <2>3. PumpTyped'
        BY <1>3, <1>4, <1>6, <1>7, <2>1, <2>2 DEF PumpTyped
    <2>4. EventsFit'
        BY <1>2, <1>7, <2>1, <2>2 DEF EventsFit, Ending
    <2>5. StartsOnce'
        BY <1>3, <1>7, <2>1, <2>2 DEF StartsOnce
    <2>6. PhaseFits'
        BY <1>2, <1>3, <1>7, <1>9, <2>1, <2>2 DEF PhaseFits, Ending
    <2>7. QED
        BY <1>5, <2>3, <2>4, <2>5, <2>6 DEF IInv, QueueInv
<1>10. CASE ~done /\ ~chunk.error
    <2> DEFINE es == OnChunk(chunk, created, startedTools)
    <2>1. events' = es /\ created' = TRUE /\ startedTools' = startedTools \cup CalledIn(chunk.calls)
        BY <1>1, <1>10 DEF StartedBy, chunk
    <2>2. /\ created \in BOOLEAN /\ startedTools \in SUBSET ToolIndex /\ IsFiniteSet(startedTools)
        BY <1>3 DEF PumpTyped
    <2>3. FromChunk(es, created, CalledIn(chunk.calls), startedTools)
        BY <1>4, <1>10, <2>2, OfChunk
    <2>4. CalledIn(chunk.calls) \subseteq ToolIndex /\ IsFiniteSet(CalledIn(chunk.calls))
        <3>1. chunk.calls \in Seq([index : ToolIndex, args : BOOLEAN])
            BY <1>4 DEF Chunk
        <3>2. QED
            BY <3>1, FinitelyCalled
    <2>5. startedTools' \subseteq ToolIndex /\ IsFiniteSet(startedTools')
        BY <2>1, <2>2, <2>4, FS_Union
    <2>6. phase \in {"before", "within"} /\ phase' = phase
        BY <1>2, <1>7, <1>10
    <2> HIDE DEF es
    <2>7. PumpTyped'
        BY <1>3, <1>4, <1>6, <1>7, <2>1, <2>3, <2>5 DEF PumpTyped, FromChunk
    <2>8. EventsFit'
        BY <1>2, <1>7, <1>10, <2>1, <2>3, <2>6 DEF EventsFit, FromChunk, Ending
    <2>9. StartsOnce'
        <3>1. \A k \in ToolIndex : tools'[k] # None => k \in startedTools'
            BY <1>3, <1>7, <2>1 DEF StartsOnce
        <3>2. ASSUME NEW i \in 1..Len(es), es[i].type = "ToolCallStart"
              PROVE  /\ es[i].index \in startedTools' /\ tools'[es[i].index] = None
                     /\ \A j \in 1..Len(es) : es[j].type = "ToolCallStart" /\ es[j].index = es[i].index => j = i
            <4>1. es[i].index \in CalledIn(chunk.calls) /\ es[i].index \notin startedTools
                  /\ \A j \in 1..Len(es) : es[j].type = "ToolCallStart" /\ es[j].index = es[i].index => j = i
                BY <2>3, <3>2 DEF FromChunk, StartsFresh
            <4>2. tools[es[i].index] = None
                BY <1>3, <2>4, <4>1 DEF StartsOnce
            <4>3. QED
                BY <1>7, <2>1, <4>1, <4>2
        <3>3. QED
            BY <2>1, <3>1, <3>2 DEF StartsOnce
    <2>10. PhaseFits'
        BY <1>2, <1>3, <1>7, <1>10, <2>6 DEF PhaseFits
    <2>11. QED
        BY <1>5, <2>7, <2>8, <2>9, <2>10 DEF IInv, QueueInv
<1>11. QED
    BY <1>8, <1>9, <1>10

\* An item that is no chunk is passed over.
LEMMA ReadNoiseKeeps ==
    ASSUME IInv, ReadNoise
    PROVE  IInv'
<1>1. /\ pos <= Len(script.items) /\ pos' = pos + 1
      /\ UNCHANGED <<view, emitter, script, dialect, track, pc, events, created, startedTools, completed,
                     done, cost, tokens, bill>>
    BY DEF ReadNoise, ReadItem, given, parser
<1>2. PumpTyped /\ EventsFit /\ StartsOnce /\ PhaseFits
    BY DEF IInv, QueueInv
<1>3. pos' \in 1..(Len(script.items) + 1)
    BY <1>1, <1>2, NextItem
<1>4. PumpTyped'
    BY <1>1, <1>2, <1>3 DEF PumpTyped
<1>5. EventsFit' /\ StartsOnce' /\ PhaseFits'
    BY <1>1, <1>2 DEF EventsFit, StartsOnce, PhaseFits, view, emitter
<1>6. QED
    BY <1>1, <1>4, <1>5, BlocksOfPump DEF IInv, QueueInv

\* [DONE], a break and the end of the stream leave an ending to be told.
LEMMA ReadDoneKeeps ==
    ASSUME IInv, ReadDone
    PROVE  IInv'
<1>1. /\ Reading /\ pos <= Len(script.items) /\ pos' = pos + 1
      /\ events' = <<Event("Completed", None)>> /\ completed' = TRUE /\ done' = track
      /\ pc' = IF track THEN "loop" ELSE "over"
      /\ UNCHANGED <<view, emitter, created, startedTools, script, dialect, track, cost, tokens, bill>>
    BY DEF ReadDone, ReadItem, given, parser
<1>2. /\ phase \in {"before", "within", "ended"} /\ events = <<>> /\ Len(events) = 0 /\ pc = "loop"
      /\ phase = "ended" <=> done
      /\ done => track
      /\ created => phase # "before"
      /\ ~created => phase # "within"
    BY <1>1, WhenReading DEF Reading
<1>3. PumpTyped /\ StartsOnce /\ PhaseFits
    BY DEF IInv, QueueInv
<1>4. pos' \in 1..(Len(script.items) + 1)
    BY <1>1, <1>3, NextItem
<1> DEFINE es == <<Event("Completed", None)>>
<1>5. es \in Seq(Waiting) /\ Len(es) = 1 /\ \A i \in 1..Len(es) : i = 1 /\ es[i].type = "Completed"
    BY ToEnd DEF Ending
<1>6. events' = es
    BY <1>1
<1> HIDE DEF es
<1>7. UNCHANGED <<phase, open, started, tools, dialect, track, created, startedTools>>
    BY <1>1 DEF view, emitter
<1>8. PumpTyped'
    BY <1>1, <1>3, <1>4, <1>5, <1>6 DEF PumpTyped
<1>9. EventsFit'
    BY <1>1, <1>2, <1>3, <1>5, <1>6, <1>7 DEF EventsFit, Ending, PumpTyped
<1>10. StartsOnce'
    BY <1>3, <1>5, <1>6, <1>7 DEF StartsOnce
<1>11. PhaseFits'
    BY <1>1, <1>2, <1>3, <1>5, <1>6, <1>7 DEF PhaseFits, Ending
<1>12. QED
    BY <1>1, <1>8, <1>9, <1>10, <1>11, BlocksOfPump DEF IInv, QueueInv

LEMMA ReadBreaksKeeps ==
    ASSUME IInv, ReadBreaks
    PROVE  IInv'
<1>1. /\ Reading /\ events' = <<Event("Error", None)>> /\ completed' = TRUE /\ pc' = "over"
      /\ UNCHANGED <<view, emitter, created, startedTools, script, dialect, track, pos, done, cost,
                     tokens, bill>>
    BY DEF ReadBreaks, given, parser
<1>2. /\ phase \in {"before", "within", "ended"} /\ events = <<>> /\ Len(events) = 0 /\ pc = "loop"
      /\ phase = "ended" <=> done
      /\ done => track
      /\ created => phase # "before"
      /\ ~created => phase # "within"
    BY <1>1, WhenReading DEF Reading
<1>3. PumpTyped /\ StartsOnce /\ PhaseFits
    BY DEF IInv, QueueInv
<1> DEFINE es == <<Event("Error", None)>>
<1>4. es \in Seq(Waiting) /\ Len(es) = 1 /\ \A i \in 1..Len(es) : i = 1 /\ es[i].type = "Error"
    BY ToEnd DEF Ending
<1>5. events' = es
    BY <1>1
<1> HIDE DEF es
<1>6. UNCHANGED <<phase, open, started, tools, dialect, track, created, startedTools, done>>
    BY <1>1 DEF view, emitter
<1>7. PumpTyped'
    BY <1>1, <1>3, <1>4, <1>5 DEF PumpTyped
<1>8. EventsFit'
    BY <1>2, <1>4, <1>5, <1>6 DEF EventsFit, Ending
<1>9. StartsOnce'
    BY <1>3, <1>4, <1>5, <1>6 DEF StartsOnce
<1>10. PhaseFits'
    BY <1>1, <1>2, <1>3, <1>4, <1>5, <1>6 DEF PhaseFits, Ending
<1>11. QED
    BY <1>1, <1>7, <1>8, <1>9, <1>10, BlocksOfPump DEF IInv, QueueInv

LEMMA ReadEndsKeeps ==
    ASSUME IInv, ReadEnds
    PROVE  IInv'
<1>1. /\ Reading /\ events' = EventsAtEof /\ pc' = "over"
      /\ UNCHANGED <<view, emitter, created, startedTools, script, dialect, track, pos, completed, done,
                     cost, tokens, bill>>
    BY DEF ReadEnds, given, parser
<1>2. /\ phase \in {"before", "within", "ended"} /\ events = <<>> /\ Len(events) = 0 /\ pc = "loop"
      /\ phase = "ended" <=> done
      /\ completed => done
      /\ done => track
      /\ created => phase # "before"
      /\ ~created => phase # "within"
    BY <1>1, WhenReading DEF Reading
<1>3. PumpTyped /\ StartsOnce /\ PhaseFits
    BY DEF IInv, QueueInv
<1>4. UNCHANGED <<phase, open, started, tools, dialect, track, created, startedTools, completed, done>>
    BY <1>1 DEF view, emitter
<1> DEFINE es == <<Event("Completed", None)>>
<1>5. es \in Seq(Waiting) /\ Len(es) = 1 /\ \A i \in 1..Len(es) : i = 1 /\ es[i].type = "Completed"
    BY ToEnd DEF Ending
<1>6. events' = IF completed THEN <<>> ELSE es
    BY <1>1 DEF EventsAtEof
<1> HIDE DEF es
<1>7. CASE completed
    <2>1. events' = events
        BY <1>2, <1>6, <1>7
    <2>2. PumpTyped'
        BY <1>1, <1>3, <2>1 DEF PumpTyped
    <2>3. EventsFit'
        BY <1>2, <1>4, <2>1 DEF EventsFit
    <2>4. StartsOnce'
        BY <1>3, <1>4, <2>1 DEF StartsOnce
    <2>5. PhaseFits'
        BY <1>1, <1>2, <1>3, <1>4, <1>7, <2>1 DEF PhaseFits
    <2>6. QED
        BY <1>1, <2>2, <2>3, <2>4, <2>5, BlocksOfPump DEF IInv, QueueInv
<1>8. CASE ~completed
    <2>1. events' = es
        BY <1>6, <1>8
    <2>2. PumpTyped'
        BY <1>1, <1>3, <1>5, <2>1 DEF PumpTyped
    <2>3. EventsFit'
        <3>1. Len(events') = 1 /\ \A i \in 1..Len(events') : i = 1 /\ events'[i].type = "Completed"
            BY <1>5, <2>1
        <3>2. pc' # "loop"
            BY <1>1
        <3>3. QED
            BY <1>2, <1>4, <3>1, <3>2 DEF EventsFit, Ending
    <2>4. StartsOnce'
        BY <1>3, <1>4, <1>5, <2>1 DEF StartsOnce
    <2>5. done => completed
        BY <1>3 DEF PhaseFits
    <2>6. PhaseFits'
        BY <1>1, <1>2, <1>3, <1>4, <1>5, <1>8, <2>1, <2>5 DEF PhaseFits, Ending
    <2>7. QED
        BY <1>1, <2>2, <2>3, <2>4, <2>6, BlocksOfPump DEF IInv, QueueInv
<1>9. QED
    BY <1>7, <1>8

\* The pump finishes, or the client hangs up.
LEMMA LeavingKeeps ==
    ASSUME IInv, Finish \/ HangUp
    PROVE  IInv'
<1>1. /\ UNCHANGED <<view, emitter, created, startedTools, script, dialect, track, pos, events, completed,
                     done, cost, tokens>>
      /\ \/ pc = "over" /\ events = <<>> /\ pc' = "finished"
               /\ bill' = IF track THEN [cost |-> cost, tokens |-> tokens] ELSE None
         \/ pc \in {"loop", "over"} /\ pc' = "gone" /\ bill' = bill
    BY DEF Finish, HangUp, given, parser
<1>2. PumpTyped /\ EventsFit /\ StartsOnce /\ PhaseFits
    BY DEF IInv, QueueInv
<1>3. bill' \in [cost : Price \cup {None}, tokens : [Field -> Nat \cup {None}]] \cup {None}
    BY <1>1, <1>2 DEF PumpTyped
<1>4. PumpTyped'
    BY <1>1, <1>2, <1>3 DEF PumpTyped
<1>5. UNCHANGED <<phase, open, started, tools>>
    BY <1>1 DEF view, emitter
<1>6. EventsFit'
    BY <1>1, <1>2, <1>5 DEF EventsFit
<1>7. StartsOnce'
    BY <1>1, <1>2, <1>5 DEF StartsOnce
<1>8. PhaseFits'
    BY <1>1, <1>2, <1>5 DEF PhaseFits
<1>9. QED
    BY <1>1, <1>4, <1>6, <1>7, <1>8, BlocksOfPump DEF IInv, QueueInv

\* Whatever the pump does, the client hears what it may, or nothing.
LEMMA Preservation ==
    ASSUME IInv, [Next]_vars
    PROVE  IInv' /\ [Client!Next]_<<Client!view, track>>
<1>1. CASE ReadData \/ ReadNoise \/ ReadDone \/ ReadBreaks \/ ReadEnds \/ Finish \/ HangUp
    <2>1. UNCHANGED <<Client!view, track>>
        BY <1>1 DEF ReadData, ReadNoise, ReadDone, ReadBreaks, ReadEnds, Finish, HangUp, view, Client!view, given
    <2>2. QED
        BY <1>1, <2>1, ReadDataKeeps, ReadNoiseKeeps, ReadDoneKeeps, ReadBreaksKeeps, ReadEndsKeeps, LeavingKeeps
<1>2. CASE Emit
    BY <1>2, EmitKeeps
<1>3. CASE EmitLast
    BY <1>3, EmitLastKeeps
<1>4. CASE UNCHANGED vars
    <2>1. UNCHANGED <<view, emitter, created, startedTools, script, dialect, track, pos, pc, events,
                      completed, done, cost, tokens, bill>>
        BY <1>4 DEF vars, parser, given
    <2>2. PumpTyped' /\ EventsFit' /\ StartsOnce' /\ PhaseFits'
        BY <2>1 DEF IInv, QueueInv, PumpTyped, EventsFit, StartsOnce, PhaseFits, view, emitter
    <2>3. QED
        BY <2>1, <2>2, BlocksOfPump DEF IInv, QueueInv
<1>5. QED
    BY <1>1, <1>2, <1>3, <1>4 DEF Next, Ended

-----------------------------------------------------------------------------
(* The theorems.                                                            *)

\* The invariant holds of every script, for any set of tool indices.
THEOREM Invariance == Spec => []IInv
<1>1. Init => IInv
    BY InitHolds
<1>2. IInv /\ [Next]_vars => IInv'
    BY Preservation
<1>3. QED
    BY <1>1, <1>2, PTL DEF Spec

\* Every variable of the pump, the parser, the emitter and the client keeps its
\* type (run_stream, ChatStreamParser, the emitters).
THEOREM TypeCorrect == Spec => []TypeOK
<1>1. IInv => TypeOK
    <2> SUFFICES ASSUME IInv PROVE TypeOK
        OBVIOUS
    <2>1. EmitterTyped /\ PumpTyped
        BY DEF IInv, BlockInv, QueueInv
    <2>2. events \in Seq(CanonicalEvent)
        <3>1. Waiting \subseteq CanonicalEvent
            BY DEF Waiting
        <3>2. QED
            BY <2>1, <3>1 DEF PumpTyped
    <2>3. {started, anyTool, created, track, completed, done} \subseteq BOOLEAN
        BY <2>1 DEF EmitterTyped, PumpTyped
    <2>4. QED
        BY <2>1, <2>2, <2>3 DEF TypeOK, EmitterTyped, PumpTyped, BlockKinds, OutputItem
<1>2. QED
    BY <1>1, Invariance, PTL

\* Each dialect's client hears an answer as ClientStream promises it: every step
\* of the pump is a step of the abstract stream, or none (run_stream).
THEOREM PumpImplementsClientStream == Spec => ImplementsClientStream
<1>1. Init => Client!Init
    BY InitHolds
<1>2. IInv /\ [Next]_vars => [Client!Next]_<<Client!view, track>>
    BY Preservation
<1>3. QED
    BY <1>1, <1>2, Invariance, PTL DEF Spec, ImplementsClientStream, Client!Spec

\* A pump that comes to its end has told its client how the answer ended
\* (completed, and the Completed event at the end of the upstream).
THEOREM FinishedTold == Spec => []FinishedMeansToldSo
<1>1. IInv => FinishedMeansToldSo
    BY DEF IInv, QueueInv, PhaseFits, FinishedMeansToldSo
<1>2. QED
    BY <1>1, Invariance, PTL

\* The final object lists what was streamed (final_items, final_blocks, any_tool).
THEOREM OutputStreamed == Spec => []OutputIsWhatWasStreamed
<1>1. ASSUME IInv, phase \in {"summed", "ended"}
      PROVE  /\ Len(output) = Len(kinds)
             /\ {output[n].index : n \in 1..Len(output)} = 0..(Len(kinds) - 1)
             /\ \A n \in 1..Len(output) : LET o == output[n] IN
                   /\ o.kind = kinds[o.index + 1]
                   /\ o.text >= parts[o.index + 1]
                   /\ o.kind = "tool" => o.text = parts[o.index + 1]
             /\ dialect = "anthropic" => (anyTool <=> "tool" \in ToSet(kinds))
    <2>1. /\ EmitterTyped /\ BlocksApart /\ OutputMatches /\ AnyToolMatches
          /\ open = {} /\ output \in Seq(OutputItem) /\ next \in Nat /\ Len(kinds) = next
        BY <1>1 DEF IInv, BlockInv, QueueInv, PhaseFits, EmitterTyped, BlocksApart
    <2>2. Len(output) \in Nat /\ \A n \in 1..Len(output) : output[n].index \in Nat
        <3>1. \A n \in 1..Len(output) : output[n] \in OutputItem
            BY <2>1, ElementOfSeq
        <3>2. QED
            BY <2>1, <3>1, LenProperties DEF OutputItem
    <2>3. \A i \in Nat : ~IsOpenAt(i)
        <3>1. phase # "failed" /\ phase # "within"
            BY <1>1
        <3>2. QED
            BY <1>1, <3>1, OpenWithin
    <2> DEFINE f == [n \in 1..Len(output) |-> output[n].index]
    <2>4. f \in [1..Len(output) -> 0..(next - 1)]
        BY <2>1, <2>2 DEF OutputMatches
    <2>5. ASSUME NEW i \in 0..(next - 1) PROVE \E n \in 1..Len(output) : output[n].index = i
        <3>1. i \in Nat
            BY <2>1
        <3>2. ~IsOpenAt(i)
            BY <2>3, <3>1
        <3>3. QED
            BY <2>1, <3>2 DEF OutputMatches
    <2>6. f \in Bijection(1..Len(output), 0..(next - 1))
        <3>1. \A m, n \in 1..Len(output) : f[m] = f[n] => m = n
            BY <2>1 DEF OutputMatches
        <3>2. \A i \in 0..(next - 1) : \E n \in 1..Len(output) : f[n] = i
            BY <2>5
        <3> HIDE DEF f
        <3>3. QED
            BY <2>4, <3>1, <3>2 DEF Bijection, Injection, Surjection, IsInjective
    <2>7. {output[n].index : n \in 1..Len(output)} = 0..(next - 1)
        <3>1. \A n \in 1..Len(output) : output[n].index \in 0..(next - 1)
            BY <2>4
        <3>2. QED
            BY <2>5, <3>1
    <2> HIDE DEF f
    <2>8. Len(output) = next
        <3> DEFINE size == Len(output)
        <3> HIDE DEF size
        <3>1. size \in Nat /\ next \in Nat
            BY <2>1, <2>2 DEF size
        <3>2. IsFiniteSet(1..size) /\ Cardinality(1..size) = IF 1 > size THEN 0 ELSE size - 1 + 1
            BY <3>1, FS_Interval
        <3>3. Cardinality(0..(next - 1)) = IF 0 > next - 1 THEN 0 ELSE next - 1 - 0 + 1
            <4>1. 0 \in Int /\ next - 1 \in Int
                BY <3>1
            <4>2. QED
                BY <4>1, FS_Interval
        <3>4. ExistsBijection(1..size, 0..(next - 1))
            BY <2>6 DEF size, ExistsBijection
        <3>5. Cardinality(0..(next - 1)) = Cardinality(1..size)
            BY <3>2, <3>4, FS_Bijection
        <3>6. size = next
            BY <3>1, <3>2, <3>3, <3>5
        <3>7. QED
            BY <3>6 DEF size
    <2>9. (\E i \in 1..Len(kinds) : kinds[i] = "tool") <=> "tool" \in ToSet(kinds)
        <3>1. DOMAIN kinds = 1..Len(kinds)
            BY <2>1 DEF EmitterTyped
        <3>2. QED
            BY <3>1 DEF ToSet
    <2>10. QED
        BY <2>1, <2>7, <2>8, <2>9 DEF OutputMatches, AnyToolMatches
<1>2. IInv => OutputIsWhatWasStreamed
    BY <1>1 DEF OutputIsWhatWasStreamed
<1>3. QED
    BY <1>2, Invariance, PTL

\* Only a Usage event tells the emitter of the usage.
LEMMA UsageOfFrames ==
    ASSUME NEW ev
    PROVE  /\ PreparingFrame(ev) => usage' = usage
           /\ OwnFrame(ev) => usage' = IF ev.type = "Usage" THEN ev.usage ELSE usage
<1>1. ASSUME PreparingFrame(ev) PROVE usage' = usage
    BY <1>1 DEF PreparingFrame, Begins, OpensReasoning, OpensMessage, ClosesReasoning, ClosesMessage,
        ClosesTool, Tells, emitter
<1>2. ASSUME OwnFrame(ev) PROVE usage' = IF ev.type = "Usage" THEN ev.usage ELSE usage
    BY <1>2 DEF OwnFrame, Begins, Silent, PartsReasoning, PartsMessage, PartsTool, OpensTool, ClosesTool,
        Tells, emitter
<1>3. QED
    BY <1>1, <1>2

\* The greatest of a set.
LEMMA MaxIs ==
    ASSUME NEW S \in SUBSET Nat, NEW i \in S, \A j \in S : j <= i
    PROVE  Max(S) = i
<1>1. \A x \in S : (\A y \in S : x >= y) => x = i
    OBVIOUS
<1>2. \A y \in S : i >= y
    OBVIOUS
<1>3. QED
    BY <1>1, <1>2 DEF Max

\* Which items are read when.
LEMMA ItemsRead ==
    ASSUME [Next]_vars
    PROVE  /\ script' = script /\ track' = track
           /\ \/ ReadData /\ Item.kind = "data" /\ pos' = pos + 1 /\ pos <= Len(script.items)
                   /\ pc = "loop" /\ pc' = "loop" /\ Sniff(Item.chunk)
              \/ (ReadNoise \/ ReadDone) /\ ~ReadData /\ Item.kind # "data" /\ pos' = pos + 1
                   /\ pos <= Len(script.items) /\ pc' # "finished" /\ UNCHANGED <<cost, tokens>>
              \/ ~ReadData /\ UNCHANGED <<pos, cost, tokens>>
              \/ UNCHANGED <<pos, cost, tokens, pc, bill>>
<1>1. script' = script /\ track' = track
    BY DEF Next, vars, given, ReadData, ReadNoise, ReadDone, ReadBreaks, ReadEnds, Emit, EmitLast,
        Finish, HangUp, Ended
<1>2. CASE ReadData
    BY <1>1, <1>2 DEF ReadData, ReadItem, Reading
<1>3. CASE ReadNoise \/ ReadDone
    BY <1>1, <1>3 DEF ReadData, ReadNoise, ReadDone, ReadItem, Reading
<1>4. CASE ~ReadData /\ (ReadBreaks \/ ReadEnds \/ Emit \/ EmitLast \/ Finish \/ HangUp)
    BY <1>1, <1>4 DEF ReadBreaks, ReadEnds, Emit, EmitLast, Finish, HangUp
<1>5. CASE UNCHANGED vars
    BY <1>1, <1>5 DEF vars
<1>6. QED
    BY <1>2, <1>3, <1>4, <1>5 DEF Next, Ended

\* What an item adds to what has been read.
LEMMA ItemSays ==
    ASSUME PumpTyped, pos <= Len(script.items)
    PROVE  /\ pos \in CostItems <=> Item.kind = "data" /\ Item.chunk.cost # None
           /\ pos \in CostItems => Costs[pos] = Item.chunk.cost
           /\ pos \in UsageItems <=> Item.kind = "data" /\ Item.chunk.usage # None
           /\ \A f \in Field :
                 /\ pos \in CountItems(f) <=> pos \in UsageItems /\ Item.chunk.usage[f] # None
                 /\ pos \in CountItems(f) => Counts(f)[pos] = Item.chunk.usage[f]
           /\ CostItems \subseteq 1..Len(script.items) /\ UsageItems \subseteq 1..Len(script.items)
           /\ \A f \in Field : CountItems(f) \subseteq 1..Len(script.items)
           /\ pos \in Nat /\ Len(script.items) \in Nat
<1>1. pos \in 1..Len(script.items) /\ pos \in Nat /\ Len(script.items) \in Nat
    BY NextItem
<1>2. QED
    BY <1>1 DEF CostItems, UsageItems, CountItems, Costs, Counts, Item

\* A usage object that is read becomes the last one.
LEMMA LastUsageSteps ==
    ASSUME IInv, [Next]_vars
    PROVE  /\ ReadData =>
                LastUsage' = IF Item.chunk.usage # None THEN Item.chunk.usage ELSE LastUsage
           /\ ~ReadData => LastUsage' = LastUsage
<1>1. PumpTyped
    BY DEF IInv, QueueInv
<1>2. script' = script /\ UsageItems' = UsageItems
    BY ItemsRead DEF UsageItems
<1>3. CASE pos' = pos
    <2>1. UsageRead' = UsageRead
        BY <1>2, <1>3 DEF UsageRead
    <2>2. LastUsage' = LastUsage
        BY <1>2, <2>1 DEF LastUsage
    <2>3. ~ReadData
        <3>1. pos \in Nat
            BY <1>1, NextItem
        <3>2. QED
            BY <1>3, <3>1 DEF ReadData, ReadItem
    <2>4. QED
        BY <2>2, <2>3
<1>4. CASE pos <= Len(script.items) /\ pos' = pos + 1
    <2>1. /\ pos \in Nat /\ UsageItems \subseteq Nat
          /\ pos \in UsageItems <=> Item.kind = "data" /\ Item.chunk.usage # None
        <3>1. UsageItems \subseteq 1..Len(script.items) /\ pos \in Nat /\ Len(script.items) \in Nat
            BY <1>1, <1>4, ItemSays
        <3>2. QED
            BY <1>1, <1>4, <3>1, ItemSays
    <2>2. CASE pos \in UsageItems
        <3>1. UsageRead' = UsageRead \cup {pos}
            <4>1. \A i \in UsageItems : i < pos + 1 <=> i < pos \/ i = pos
                BY <2>1
            <4>2. QED
                BY <1>2, <1>4, <2>1, <2>2, <4>1 DEF UsageRead
        <3>2. UsageRead' \in SUBSET Nat /\ pos \in UsageRead' /\ \A j \in UsageRead' : j <= pos
            <4>1. \A i \in UsageRead : i \in Nat /\ i < pos
                BY <2>1 DEF UsageRead
            <4>2. QED
                BY <2>1, <3>1, <4>1
        <3>3. Max(UsageRead') = pos
            BY <3>2, MaxIs
        <3>4. LastUsage' = Item.chunk.usage
            BY <1>2, <3>2, <3>3 DEF LastUsage, Item
        <3>5. ReadData
            BY <1>4, <2>1, <2>2, ItemsRead
        <3>6. QED
            BY <2>1, <2>2, <3>4, <3>5
    <2>3. CASE pos \notin UsageItems
        <3>1. UsageRead' = UsageRead
            <4>1. \A i \in UsageItems : i < pos + 1 <=> i < pos
                BY <2>1, <2>3
            <4>2. QED
                BY <1>2, <1>4, <4>1 DEF UsageRead
        <3>2. LastUsage' = LastUsage
            BY <1>2, <3>1 DEF LastUsage
        <3>3. ReadData => Item.kind = "data"
            BY DEF ReadData, ReadItem
        <3>4. QED
            BY <2>1, <2>3, <3>2, <3>3
    <2>4. QED
        BY <2>2, <2>3
<1>5. QED
    BY <1>3, <1>4, ItemsRead

\* The client is told of the last usage object.
LEMMA UsageFitsKept ==
    ASSUME IInv, UsageFits, [Next]_vars
    PROVE  UsageFits'
<1>1. IInv' /\ PumpTyped
    BY Preservation DEF IInv, QueueInv
<1>0. /\ ReadData => ToldOfRead' = IF Item.chunk.usage # None THEN Told(Item.chunk.usage) ELSE ToldOfRead
      /\ ~ReadData => ToldOfRead' = ToldOfRead
    BY LastUsageSteps DEF ToldOfRead
<1>2. CASE ReadData
    <2>1. /\ Reading /\ pos <= Len(script.items)
          /\ UNCHANGED <<view, emitter, done>>
          /\ ~done => events' = OnChunk(Item.chunk, created, startedTools)
        BY <1>2 DEF ReadData, ReadItem
    <2>2. events = <<>> /\ Len(events) = 0 /\ (done <=> phase = "ended")
        BY <2>1, WhenReading
    <2>3. phase' = phase /\ usage' = usage
        BY <2>1 DEF view, emitter
    <2> DEFINE chunk == Item.chunk
    <2>4. /\ chunk \in Chunk /\ created \in BOOLEAN /\ startedTools \in SUBSET ToolIndex
          /\ IsFiniteSet(startedTools)
        BY <1>1, <2>1, NextItem DEF PumpTyped
    <2>5. ToldOfRead' = IF chunk.usage # None THEN Told(chunk.usage) ELSE ToldOfRead
        BY <1>0, <1>2
    <2>6. ~done => events' = OnChunk(chunk, created, startedTools)
        BY <2>1
    <2> HIDE DEF chunk
    <2>7. CASE phase = "ended"
        BY <2>3, <2>7 DEF UsageFits
    <2>8. CASE phase # "ended" /\ chunk.error
        <3> DEFINE es == <<Event("Error", None)>>
        <3>1. events' = es
            BY <2>2, <2>6, <2>8 DEF OnChunk
        <3>2. Len(es) = 1 /\ \A i \in 1..Len(es) : i = 1 /\ es[i].type = "Error"
            BY ToEnd DEF Ending
        <3> HIDE DEF es
        <3>3. \E i \in 1..Len(events') : events'[i].type = "Error"
            BY <3>1, <3>2
        <3>4. QED
            BY <3>3 DEF UsageFits
    <2>9. CASE phase # "ended" /\ ~chunk.error
        <3> DEFINE es == OnChunk(chunk, created, startedTools)
        <3>1. events' = es
            BY <2>2, <2>6, <2>9
        <3>2. /\ \A i \in 1..Len(es) : es[i].type = "Usage" =>
                    chunk.usage # None /\ es[i].usage = Told(chunk.usage)
              /\ chunk.usage # None => \E i \in 1..Len(es) : es[i].type = "Usage"
            BY <2>4, <2>9, OfChunk
        <3> HIDE DEF es
        <3>3. CASE chunk.usage # None
            BY <2>5, <3>1, <3>2, <3>3 DEF UsageFits
        <3>4. CASE chunk.usage = None
            <4>1. \A i \in 1..Len(es) : es[i].type # "Usage"
                BY <3>2, <3>4
            <4>2. phase \in {"before", "within"} => usage = ToldOfRead
                BY <2>2 DEF UsageFits
            <4>3. QED
                BY <2>3, <2>5, <3>1, <3>4, <4>1, <4>2 DEF UsageFits
        <3>5. QED
            BY <3>3, <3>4
    <2>10. QED
        BY <2>7, <2>8, <2>9
<1>3. CASE ReadNoise
    <2>1. ~ReadData
        BY <1>3 DEF ReadData, ReadNoise, ReadItem
    <2>2. QED
        BY <1>0, <1>3, <2>1 DEF ReadNoise, UsageFits, view, emitter
<1>4. CASE ReadDone
    <2>1. /\ Reading /\ events' = <<Event("Completed", None)>> /\ UNCHANGED <<view, emitter>>
          /\ ToldOfRead' = ToldOfRead
        BY <1>0, <1>4 DEF ReadDone, ReadData, ReadItem
    <2>2. events = <<>> /\ Len(events) = 0
        BY <2>1, WhenReading
    <2> DEFINE es == <<Event("Completed", None)>>
    <2>3. Len(es) = 1 /\ \A i \in 1..Len(es) : i = 1 /\ es[i].type = "Completed"
        BY ToEnd DEF Ending
    <2>4. events' = es
        BY <2>1
    <2> HIDE DEF es
    <2>5. phase \in {"before", "within"} => usage = ToldOfRead
        BY <2>2 DEF UsageFits
    <2>6. QED
        BY <1>1, <2>1, <2>3, <2>4, <2>5 DEF UsageFits, view, emitter
<1>5. CASE ReadBreaks
    <2> DEFINE es == <<Event("Error", None)>>
    <2>1. Len(es) = 1 /\ \A i \in 1..Len(es) : i = 1 /\ es[i].type = "Error"
        BY ToEnd DEF Ending
    <2>2. events' = es
        BY <1>5 DEF ReadBreaks
    <2> HIDE DEF es
    <2>3. \E i \in 1..Len(events') : events'[i].type = "Error"
        BY <2>1, <2>2
    <2>4. QED
        BY <2>3 DEF UsageFits
<1>6. CASE ReadEnds
    <2>1. /\ Reading /\ events' = EventsAtEof /\ UNCHANGED <<view, emitter>>
          /\ ToldOfRead' = ToldOfRead
        <3>1. pos \in Nat /\ pos' = pos
            BY <1>1, <1>6, NextItem DEF ReadEnds
        <3>2. ~ReadData
            BY <3>1 DEF ReadData, ReadItem
        <3>3. QED
            BY <1>0, <1>6, <3>2 DEF ReadEnds
    <2>2. events = <<>> /\ Len(events) = 0
        BY <2>1, WhenReading
    <2> DEFINE es == <<Event("Completed", None)>>
    <2>3. Len(es) = 1 /\ \A i \in 1..Len(es) : i = 1 /\ es[i].type = "Completed"
        BY ToEnd DEF Ending
    <2>4. events' = es \/ events' = <<>>
        BY <2>1 DEF EventsAtEof
    <2> HIDE DEF es
    <2>5. \A i \in 1..Len(events') : events'[i].type = "Completed"
        BY <2>3, <2>4
    <2>6. phase \in {"before", "within"} => usage = ToldOfRead
        BY <2>2 DEF UsageFits
    <2>7. QED
        BY <1>1, <2>1, <2>5, <2>6 DEF UsageFits, view, emitter
<1>7. CASE Emit
    <2> DEFINE ev == Head(events)
    <2>1. /\ events # <<>> /\ Prepare(ev) /\ UNCHANGED <<dialect, track, events>>
          /\ ToldOfRead' = ToldOfRead
        BY <1>0, <1>7 DEF Emit, given, ReadData, ReadItem, Reading
    <2>2. ev \in Waiting
        BY <2>1, AtHand DEF IInv
    <2>3. PreparingFrame(ev)
        BY <2>1, <2>2, Preparing
    <2>4. usage' = usage
        BY <2>3, UsageOfFrames
    <2>5. phase' \in {"before", "within"} => phase \in {"before", "within"}
        <3>1. SamePhase \/ phase = "before" \/ phase' = "summed"
            BY <2>1, <2>3, PreparingAsClient
        <3>2. QED
            BY <3>1 DEF SamePhase
    <2> HIDE DEF ev
    <2>6. QED
        BY <2>1, <2>4, <2>5 DEF UsageFits
<1>8. CASE EmitLast
    <2> DEFINE ev == Head(events)
    <2>1. /\ events # <<>> /\ Deliver(ev) /\ UNCHANGED <<dialect, track>>
          /\ ToldOfRead' = ToldOfRead
          /\ ev.type # "Error" => events' = Tail(events)
        BY <1>0, <1>8 DEF EmitLast, given, Leaves, ReadData, ReadItem, Reading
    <2>2. ev \in Waiting /\ ev = events[1] /\ (ev.type \notin Ending => phase \in {"before", "within"})
          /\ Len(events) \in Nat /\ Len(events) >= 1 /\ (ev.type \in Ending => Len(events) = 1)
        BY <2>1, AtHand DEF IInv
    <2>3. OwnFrame(ev)
        BY <2>1, <2>2, Delivering
    <2>4. usage' = IF ev.type = "Usage" THEN ev.usage ELSE usage
        BY <2>3, UsageOfFrames
    <2>5. ev.type \in Ending => phase' \notin {"before", "within"}
        <3>1. \/ ev.type \notin Ending \/ phase' = "ended" \/ phase' = "failed"
            BY <2>1, <2>3, DeliveringAsClient
        <3>2. QED
            BY <3>1
    <2> HIDE DEF ev
    <2>6. CASE ev.type \in Ending
        BY <2>5, <2>6 DEF UsageFits
    <2>7. CASE ev.type \notin Ending
        <3>1. /\ events' = Tail(events) /\ events \in Seq(Waiting) /\ phase \in {"before", "within"}
            BY <1>1, <2>1, <2>2, <2>7 DEF Ending, PumpTyped
        <3>2. /\ Len(events') = Len(events) - 1
              /\ \A i \in 1..Len(events') : i + 1 \in 1..Len(events) /\ events'[i] = events[i + 1]
            BY <2>1, <2>2, <3>1
        <3>3. \A i \in 1..Len(events) : i # 1 => i - 1 \in 1..Len(events') /\ events[i] = events'[i - 1]
            BY <2>1, <2>2, <3>1
        <3>4. 1 \in 1..Len(events)
            BY <2>2
        <3> SUFFICES ASSUME \A i \in 1..Len(events') : events'[i].type # "Error"
                     PROVE  IF \E i \in 1..Len(events') : events'[i].type = "Usage"
                            THEN \A i \in 1..Len(events') : events'[i].type = "Usage" => events'[i].usage = ToldOfRead'
                            ELSE usage' = ToldOfRead'
            BY <1>1 DEF UsageFits
        <3>5. \A i \in 1..Len(events) : events[i].type # "Error"
            BY <2>2, <2>7, <3>3 DEF Ending
        <3>6. IF \E i \in 1..Len(events) : events[i].type = "Usage"
              THEN \A i \in 1..Len(events) : events[i].type = "Usage" => events[i].usage = ToldOfRead
              ELSE usage = ToldOfRead
            BY <3>1, <3>5 DEF UsageFits
        <3>7. CASE \E i \in 1..Len(events') : events'[i].type = "Usage"
            BY <2>1, <3>2, <3>6, <3>7
        <3>8. CASE \A i \in 1..Len(events') : events'[i].type # "Usage"
            <4>1. CASE ev.type = "Usage"
                BY <2>1, <2>2, <2>4, <3>4, <3>6, <3>8, <4>1
            <4>2. CASE ev.type # "Usage"
                <5>1. \A i \in 1..Len(events) : events[i].type # "Usage"
                    BY <2>2, <3>3, <3>8, <4>2
                <5>2. QED
                    BY <2>1, <2>4, <3>6, <3>8, <4>2, <5>1
            <4>3. QED
                BY <4>1, <4>2
        <3>9. QED
            BY <3>7, <3>8
    <2>8. QED
        BY <2>6, <2>7
<1>9. CASE Finish \/ HangUp \/ UNCHANGED vars
    <2>1. UNCHANGED <<phase, usage, events, pos, script>>
        BY <1>9 DEF Finish, HangUp, vars, view, emitter, given
    <2>2. ToldOfRead' = ToldOfRead
        <3>1. UsageRead' = UsageRead
            BY <2>1 DEF UsageRead, UsageItems
        <3>2. LastUsage' = LastUsage
            BY <2>1, <3>1 DEF LastUsage
        <3>3. QED
            BY <3>2 DEF ToldOfRead
    <2>3. QED
        BY <2>1, <2>2 DEF UsageFits
<1>10. QED
    BY <1>2, <1>3, <1>4, <1>5, <1>6, <1>7, <1>8, <1>9 DEF Next, Ended

\* The meter keeps the counts of the last usage object.
LEMMA TokensFitKept ==
    ASSUME IInv, TokensFit, [Next]_vars
    PROVE  TokensFit'
<1>1. PumpTyped /\ track' = track
    BY ItemsRead DEF IInv, QueueInv
<1>2. CASE ReadData
    <2> DEFINE said == Item.chunk.usage
    <2>1. /\ pos <= Len(script.items) /\ said \in Report \cup {None}
          /\ track => tokens' = Merged(said, tokens)
        <3>1. pos <= Len(script.items) /\ Sniff(Item.chunk)
            BY <1>2 DEF ReadData, ReadItem
        <3>2. Item \in [kind : ItemKind, chunk : Chunk]
            BY <1>1, <3>1, NextItem
        <3>3. QED
            BY <3>1, <3>2 DEF Sniff, Chunk
    <2>2. tokens \in [Field -> Nat \cup {None}]
        BY <1>1 DEF PumpTyped
    <2>3. LastUsage' = IF said # None THEN said ELSE LastUsage
        BY <1>2, LastUsageSteps
    <2> HIDE DEF said
    <2>4. LastUsage' \in Report \cup {None}
        BY <2>1, <2>3 DEF TokensFit
    <2>5. CASE said = None
        <3>1. track => tokens' = tokens
            BY <2>1, <2>2, <2>5 DEF Merged
        <3>2. LastUsage' = LastUsage
            BY <2>3, <2>5
        <3>3. QED
            BY <1>1, <3>1, <3>2 DEF TokensFit
    <2>6. CASE said # None
        <3>1. track => \A f \in Field : tokens'[f] = LastOf(said[f], tokens[f])
            BY <2>1, <2>6 DEF Merged
        <3>2. LastUsage' = said
            BY <2>3, <2>6
        <3>3. track => \A f \in Field : LastUsage'[f] # None => tokens'[f] = LastUsage'[f]
            BY <3>1, <3>2 DEF LastOf
        <3>4. QED
            BY <1>1, <2>4, <2>6, <3>2, <3>3 DEF TokensFit
    <2>7. QED
        BY <2>5, <2>6
<1>3. CASE ~ReadData
    <2>1. LastUsage' = LastUsage
        BY <1>3, LastUsageSteps
    <2>2. tokens' = tokens
        BY <1>3, ItemsRead
    <2>3. QED
        BY <1>1, <2>1, <2>2 DEF TokensFit
<1>4. QED
    BY <1>2, <1>3

\* When the answer first ends, the client was told of the last usage object:
\* of each count in it what the provider is charged by, cut to a u32, and 0 for
\* each count it leaves out (usage_event, tokens_from_usage, ptok and ctok).
THEOREM UsageToldAgrees == Spec => UsageToldAgreesWithCharged
<1>1. Init => UsageFits /\ TokensFit
    <2> SUFFICES ASSUME Init PROVE UsageFits /\ TokensFit
        OBVIOUS
    <2>1. pos = 1 /\ Len(script.items) \in Nat
        BY StreamAssumption DEF Init
    <2>2. UsageRead = {}
        BY <2>1 DEF UsageRead, UsageItems
    <2>3. LastUsage = None
        BY <2>2 DEF LastUsage
    <2>4. QED
        BY <2>3 DEF Init, UsageFits, TokensFit, ToldOfRead
<1>2. IInv /\ UsageFits /\ TokensFit /\ [Next]_vars => UsageFits' /\ TokensFit'
    BY UsageFitsKept, TokensFitKept
<1>3. ASSUME IInv, UsageFits, [Next]_vars, phase \in {"before", "within"}, phase' \in {"summed", "ended"}
      PROVE  usage = ToldOfRead
    <2> DEFINE ev == Head(events)
    <2>1. events # <<>> /\ ev.type = "Completed"
        <3>1. Emit \/ EmitLast
            BY <1>3 DEF Next, vars, ReadData, ReadNoise, ReadDone, ReadBreaks, ReadEnds, Finish, HangUp,
                Ended, view
        <3>2. CASE Emit
            <4>1. events # <<>> /\ Prepare(ev) /\ UNCHANGED <<dialect, track>>
                BY <3>2 DEF Emit, given
            <4>2. ev \in Waiting
                BY <1>3, <4>1, AtHand DEF IInv
            <4>3. SamePhase \/ phase' = "within" \/ ev.type = "Completed"
                BY <1>3, <4>1, <4>2, Preparing, PreparingAsClient
            <4>4. QED
                BY <1>3, <4>1, <4>3 DEF SamePhase
        <3>3. CASE EmitLast
            <4>1. events # <<>> /\ Deliver(ev) /\ UNCHANGED <<dialect, track>>
                BY <3>3 DEF EmitLast, given
            <4>2. ev \in Waiting
                BY <1>3, <4>1, AtHand DEF IInv
            <4>3. phase' = "within" \/ ev.type = "Completed" \/ phase' = "failed"
                BY <1>3, <4>1, <4>2, Delivering, DeliveringAsClient
            <4>4. QED
                BY <1>3, <4>1, <4>3
        <3>4. QED
            BY <3>1, <3>2, <3>3
    <2>2. ev = events[1] /\ Len(events) = 1
        BY <1>3, <2>1, AtHand DEF IInv, Ending
    <2> HIDE DEF ev
    <2>3. \A i \in 1..Len(events) : events[i].type = "Completed"
        BY <2>1, <2>2
    <2>4. QED
        BY <1>3, <2>3 DEF UsageFits
<1>4. ASSUME IInv, usage = ToldOfRead, TokensFit, track
      PROVE  \/ LastUsage = None /\ usage = None /\ tokens = [f \in Field |-> None]
             \/ /\ LastUsage # None /\ usage # None
                /\ \A f \in Field : usage[f] = IF LastUsage[f] = None THEN 0 ELSE tokens[f] % Word
    <2>1. CASE LastUsage = None
        BY <1>4, <2>1 DEF ToldOfRead, TokensFit
    <2>2. CASE LastUsage # None
        <3>1. usage = Told(LastUsage) /\ \A f \in Field : LastUsage[f] # None => tokens[f] = LastUsage[f]
            BY <1>4, <2>2 DEF ToldOfRead, TokensFit
        <3>2. usage # None
            <4>1. Told(LastUsage) \in [Field -> Nat]
                <5>1. LastUsage \in Report
                    BY <1>4, <2>2 DEF TokensFit
                <5>2. Told(LastUsage) \in [Field -> 0..(Word - 1)]
                    BY <5>1, ToldTyped DEF ToldUsage
                <5>3. \A n \in 0..(Word - 1) : n \in Nat
                    BY StreamAssumption
                <5>4. QED
                    BY <5>2, <5>3
            <4>2. QED
                BY <3>1, <4>1, StreamAssumption
        <3>3. \A f \in Field : usage[f] = IF LastUsage[f] = None THEN 0 ELSE LastUsage[f] % Word
            BY <3>1 DEF Told
        <3>4. QED
            BY <2>2, <3>1, <3>2, <3>3
    <2>3. QED
        BY <2>1, <2>2
<1>5. IInv /\ UsageFits /\ TokensFit /\ [Next]_vars =>
         [track /\ phase \in {"before", "within"} /\ phase' \in {"summed", "ended"} =>
             \/ LastUsage = None /\ usage = None /\ tokens = [f \in Field |-> None]
             \/ /\ LastUsage # None /\ usage # None
                /\ \A f \in Field : usage[f] = IF LastUsage[f] = None THEN 0 ELSE tokens[f] % Word]_vars
    BY <1>3, <1>4
<1>6. QED
    BY <1>1, <1>2, <1>5, Invariance, PTL DEF Spec, UsageToldAgreesWithCharged

\* Looking at one more place.
LEMMA OneMorePlace ==
    ASSUME NEW S \in SUBSET Nat, NEW p \in Nat, NEW said, NEW value, IsLast(value, S, said, p)
    PROVE  /\ p \in S => IsLast(said[p], S, said, p + 1)
           /\ p \notin S => IsLast(value, S, said, p + 1)
<1>1. CASE p \in S
    <2>1. p \in Before(S, p + 1) /\ \A j \in Before(S, p + 1) : j <= p
        BY <1>1 DEF Before
    <2>2. QED
        BY <1>1, <2>1 DEF IsLast
<1>2. CASE p \notin S
    <2>1. \A i \in S : i \in Nat /\ i # p
        BY <1>2
    <2>2. \A i \in S : i < p + 1 <=> i < p
        BY <2>1
    <2>3. Before(S, p + 1) = Before(S, p)
        BY <2>2 DEF Before
    <2>4. QED
        BY <1>2, <2>3 DEF IsLast
<1>3. QED
    BY <1>1, <1>2

\* Past all places the value is what the greatest says.
LEMMA LastOfAll ==
    ASSUME NEW n \in Nat, NEW S \in SUBSET (1..n), NEW p \in Nat, p > n,
           NEW said, NEW value, IsLast(value, S, said, p)
    PROVE  /\ S = {} => value = None
           /\ S # {} => Max(S) \in S /\ value = said[Max(S)]
<1>1. Before(S, p) = S /\ S \in SUBSET Nat
    <2>1. \A i \in S : i \in Nat /\ i < p
        OBVIOUS
    <2>2. QED
        BY <2>1 DEF Before
<1>2. CASE S = {}
    BY <1>1, <1>2 DEF IsLast
<1>3. CASE S # {}
    <2>1. PICK i \in S : value = said[i] /\ \A j \in S : j <= i
        BY <1>1, <1>3 DEF IsLast
    <2>2. Max(S) = i
        BY <1>1, <2>1, MaxIs
    <2>3. QED
        BY <1>3, <2>1, <2>2
<1>4. QED
    BY <1>2, <1>3

\* The amounts follow the reports.
LEMMA AmountsFitKept ==
    ASSUME IInv, AmountsFit, [Next]_vars
    PROVE  AmountsFit'
<1>1. PumpTyped /\ script' = script /\ track' = track
    BY ItemsRead DEF IInv, QueueInv
<1>2. /\ CostItems' = CostItems /\ Costs' = Costs
      /\ \A f \in Field : CountItems(f)' = CountItems(f) /\ Counts(f)' = Counts(f)
    BY <1>1 DEF CostItems, Costs, UsageItems, CountItems, Counts
<1>3. SUFFICES ASSUME track
               PROVE  /\ IsLast(cost', CostItems, Costs, pos')
                      /\ \A f \in Field : IsLast(tokens'[f], CountItems(f), Counts(f), pos')
    BY <1>1, <1>2 DEF AmountsFit, IsLast, Before
<1>4. /\ IsLast(cost, CostItems, Costs, pos)
      /\ \A f \in Field : IsLast(tokens[f], CountItems(f), Counts(f), pos)
    BY <1>3 DEF AmountsFit
<1>5. CASE UNCHANGED <<pos, cost, tokens>>
    BY <1>4, <1>5
<1>6. CASE pos <= Len(script.items) /\ pos' = pos + 1
    <2>1. /\ pos \in Nat /\ CostItems \in SUBSET Nat
          /\ \A f \in Field : CountItems(f) \in SUBSET Nat
        BY <1>1, <1>6, ItemSays
    <2>2. /\ pos \in CostItems => IsLast(Costs[pos], CostItems, Costs, pos + 1)
          /\ pos \notin CostItems => IsLast(cost, CostItems, Costs, pos + 1)
        BY <1>4, <2>1, OneMorePlace
    <2>3. ASSUME NEW f \in Field
          PROVE  /\ pos \in CountItems(f) => IsLast(Counts(f)[pos], CountItems(f), Counts(f), pos + 1)
                 /\ pos \notin CountItems(f) => IsLast(tokens[f], CountItems(f), Counts(f), pos + 1)
        BY <1>4, <2>1, OneMorePlace
    <2>4. /\ pos \in CostItems <=> Item.kind = "data" /\ Item.chunk.cost # None
          /\ pos \in CostItems => Costs[pos] = Item.chunk.cost
          /\ pos \in UsageItems <=> Item.kind = "data" /\ Item.chunk.usage # None
          /\ \A f \in Field :
                /\ pos \in CountItems(f) <=> pos \in UsageItems /\ Item.chunk.usage[f] # None
                /\ pos \in CountItems(f) => Counts(f)[pos] = Item.chunk.usage[f]
        BY <1>1, <1>6, ItemSays
    <2>5. CASE Item.kind = "data" /\ Sniff(Item.chunk)
        <3>1. /\ cost' = LastOf(Item.chunk.cost, cost)
              /\ \A f \in Field : tokens'[f] = IF Item.chunk.usage = None THEN tokens[f]
                                               ELSE LastOf(Item.chunk.usage[f], tokens[f])
            BY <1>3, <2>5 DEF Sniff, Merged
        <3>2. cost' = IF pos \in CostItems THEN Costs[pos] ELSE cost
            BY <2>4, <2>5, <3>1 DEF LastOf
        <3>3. \A f \in Field : tokens'[f] = IF pos \in CountItems(f) THEN Counts(f)[pos] ELSE tokens[f]
            BY <2>4, <2>5, <3>1 DEF LastOf
        <3>4. QED
            BY <1>6, <2>2, <2>3, <3>2, <3>3
    <2>6. CASE Item.kind # "data" /\ UNCHANGED <<cost, tokens>>
        <3>1. pos \notin CostItems /\ \A f \in Field : pos \notin CountItems(f)
            BY <2>4, <2>6
        <3>2. QED
            BY <1>6, <2>2, <2>3, <2>6, <3>1
    <2>7. (Item.kind = "data" /\ Sniff(Item.chunk)) \/ (Item.kind # "data" /\ UNCHANGED <<cost, tokens>>)
        BY <1>6, <2>1, ItemsRead
    <2>8. QED
        BY <2>5, <2>6, <2>7
<1>7. QED
    BY <1>5, <1>6, ItemsRead

\* The account follows the amounts.
LEMMA BillFitsKept ==
    ASSUME IInv, BillFits, [Next]_vars
    PROVE  BillFits'
<1>1. AmountsFit'
    BY AmountsFitKept DEF BillFits
<1>2. track' = track
    BY ItemsRead
<1>3. CASE Finish
    BY <1>1, <1>2, <1>3 DEF Finish, BillFits
<1>4. CASE UNCHANGED vars
    BY <1>1, <1>2, <1>4 DEF vars, BillFits
<1>5. CASE ReadData \/ ReadNoise \/ ReadDone \/ ReadBreaks \/ ReadEnds \/ Emit \/ EmitLast \/ HangUp
    <2>1. pc' # "finished"
        BY <1>5 DEF ReadData, ReadNoise, ReadDone, ReadItem, ReadBreaks, ReadEnds, Reading, Emit, EmitLast,
            HangUp
    <2>2. QED
        BY <1>1, <2>1 DEF BillFits
<1>6. QED
    BY <1>3, <1>4, <1>5 DEF Next, Ended

\* A tracked stream that was read to its end is charged by the last cost, the
\* last prompt count and the last completion count that the upstream sent,
\* before or after [DONE]; an untracked one is not charged (the drain of
\* run_stream, record_amounts).
THEOREM ChargedByLastReport == Spec => []ChargedByTheLastReport
<1>1. Init => BillFits
    <2> SUFFICES ASSUME Init PROVE BillFits
        OBVIOUS
    <2>1. pos = 1 /\ Len(script.items) \in Nat
        BY StreamAssumption DEF Init
    <2>2. /\ Before(CostItems, pos) = {}
          /\ \A f \in Field : Before(CountItems(f), pos) = {}
        BY <2>1 DEF Before, CostItems, UsageItems, CountItems
    <2>3. cost = None /\ pc # "finished" /\ \A f \in Field : tokens[f] = None
        BY DEF Init
    <2>4. QED
        BY <2>2, <2>3 DEF BillFits, AmountsFit, IsLast
<1>2. IInv /\ BillFits /\ [Next]_vars => BillFits'
    BY BillFitsKept
<1>3. ASSUME IInv, BillFits, track, pos > Len(script.items)
      PROVE  cost = LastCost /\ tokens = [f \in Field |-> LastCount(f)]
    <2>1. PumpTyped /\ pos \in Nat /\ Len(script.items) \in Nat
        BY <1>3, NextItem DEF IInv, QueueInv
    <2> DEFINE n == Len(script.items)
    <2>2. CostItems \in SUBSET (1..n) /\ \A f \in Field : CountItems(f) \in SUBSET (1..n)
        BY DEF CostItems, UsageItems, CountItems
    <2>3. /\ IsLast(cost, CostItems, Costs, pos)
          /\ \A f \in Field : IsLast(tokens[f], CountItems(f), Counts(f), pos)
        BY <1>3 DEF BillFits, AmountsFit
    <2>4. n \in Nat /\ pos > n
        BY <1>3, <2>1
    <2> HIDE DEF n
    <2>5. /\ CostItems = {} => cost = None
          /\ CostItems # {} => Max(CostItems) \in CostItems /\ cost = Costs[Max(CostItems)]
        BY <2>1, <2>2, <2>3, <2>4, LastOfAll
    <2>6. ASSUME NEW f \in Field
          PROVE  /\ CountItems(f) = {} => tokens[f] = None
                 /\ CountItems(f) # {} => /\ Max(CountItems(f)) \in CountItems(f)
                                          /\ tokens[f] = Counts(f)[Max(CountItems(f))]
        BY <2>1, <2>2, <2>3, <2>4, LastOfAll
    <2>7. cost = LastCost
        BY <2>5 DEF LastCost, Costs
    <2>8. \A f \in Field : tokens[f] = LastCount(f)
        BY <2>6 DEF LastCount, Counts
    <2>9. tokens \in [Field -> Nat \cup {None}]
        BY <2>1 DEF PumpTyped
    <2>10. QED
        BY <2>7, <2>8, <2>9
<1>4. IInv /\ BillFits => ChargedByTheLastReport
    BY <1>3 DEF BillFits, ChargedByTheLastReport
<1>5. QED
    BY <1>1, <1>2, <1>4, Invariance, PTL DEF Spec
=============================================================================
