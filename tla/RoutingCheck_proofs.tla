------------------------ MODULE RoutingCheck_proofs -------------------------
(***************************************************************************)
(* The resolver is right for every configuration, every status map and     *)
(* every exhausted set.                                                    *)
(*                                                                         *)
(* The resolver runs once per request, so the invariant only says what the *)
(* outcome is computed from; all the work is in what KeepProviders does to *)
(* a sequence.  Its lemmas go from what it does to Append(s, x) by         *)
(* induction on the length of s.                                           *)
(***************************************************************************)
EXTENDS RoutingCheck, SequenceLemmas

-----------------------------------------------------------------------------
(* The loop that keeps candidates.                                          *)

\* The function that KeepProviders computes exists, and every step of it is a
\* step of the loop.
LEMMA KeepUnfolds ==
    ASSUME NEW C, NEW s \in Seq(C), NEW P
    PROVE  \E f : /\ KeepProviders(s, P) = f[Len(s)]
                  /\ f[0] = <<>>
                  /\ \A n \in 1..Len(s) :
                        f[n] = IF s[n].provider \in P THEN Append(f[n - 1], s[n]) ELSE f[n - 1]
<1> DEFINE Body(f, n) == IF n = 0 THEN <<>>
                         ELSE IF s[n].provider \in P THEN Append(f[n - 1], s[n])
                         ELSE f[n - 1]
<1> DEFINE T == {m \in Nat : \E f : f = [n \in 0..m |-> Body(f, n)]}
<1>1. 0 \in T
    <2> DEFINE g == [n \in 0..0 |-> <<>>]
    <2>1. \A n \in 0..0 : n = 0 /\ Body(g, n) = <<>>
        OBVIOUS
    <2>2. g = [n \in 0..0 |-> Body(g, n)]
        BY <2>1
    <2> HIDE DEF g, Body
    <2>3. \E h : h = [n \in 0..0 |-> Body(h, n)]
        BY <2>2
    <2>4. QED
        BY <2>3
<1>2. ASSUME NEW m \in Nat, m \in T PROVE m + 1 \in T
    <2>1. PICK f : f = [n \in 0..m |-> Body(f, n)]
        BY <1>2
    <2> DEFINE g == [n \in 0..(m + 1) |-> IF n = m + 1 THEN Body(f, n) ELSE f[n]]
    <2>2. ASSUME NEW n \in 0..(m + 1) PROVE g[n] = Body(g, n)
        <3>1. n # 0 => n - 1 \in 0..(m + 1) /\ n - 1 # m + 1
            OBVIOUS
        <3>2. n # 0 => g[n - 1] = f[n - 1]
            BY <3>1
        <3>3. CASE n = m + 1
            <4>1. g[n] = Body(f, n)
                BY <3>3
            <4> HIDE DEF g
            <4>2. QED
                BY <3>2, <4>1
        <3>4. CASE n # m + 1
            <4>1. n \in 0..m
                BY <3>4
            <4>2. f[n] = Body(f, n)
                BY <4>1, <2>1
            <4>3. g[n] = f[n]
                BY <3>4
            <4> HIDE DEF g
            <4>4. QED
                BY <3>2, <4>2, <4>3
        <3>5. QED
            BY <3>3, <3>4
    <2>3. g = [n \in 0..(m + 1) |-> Body(g, n)]
        <3> HIDE DEF Body
        <3>1. QED
            BY <2>2
    <2> HIDE DEF g, Body
    <2>4. \E h : h = [n \in 0..(m + 1) |-> Body(h, n)]
        BY <2>3
    <2>5. QED
        BY <2>4
<1>3. Len(s) \in Nat /\ Len(s) \in T
    <2>1. Len(s) \in Nat
        OBVIOUS
    <2> HIDE DEF T
    <2>2. QED
        BY <1>1, <1>2, <2>1, Induction
<1> DEFINE f == CHOOSE f : f = [n \in 0..Len(s) |->
                    IF n = 0 THEN <<>>
                    ELSE IF s[n].provider \in P THEN Append(f[n - 1], s[n])
                    ELSE f[n - 1]]
<1>4. f = [n \in 0..Len(s) |-> Body(f, n)]
    BY <1>3
<1>5. KeepProviders(s, P) = f[Len(s)]
    BY DEF KeepProviders
<1> HIDE DEF f
<1>6. \A n \in 0..Len(s) : f[n] = Body(f, n)
    BY <1>4
<1>7. 0 \in 0..Len(s) /\ \A n \in 1..Len(s) : n \in 0..Len(s) /\ n # 0
    BY <1>3
<1>8. f[0] = <<>>
    BY <1>6, <1>7
<1>9. \A n \in 1..Len(s) :
         f[n] = IF s[n].provider \in P THEN Append(f[n - 1], s[n]) ELSE f[n - 1]
    BY <1>6, <1>7
<1>10. QED
    BY <1>5, <1>8, <1>9

\* Nothing is kept of nothing.
LEMMA KeepEmpty ==
    ASSUME NEW P
    PROVE  KeepProviders(<<>>, P) = <<>>
<1>1. <<>> \in Seq({}) /\ Len(<<>>) = 0
    OBVIOUS
<1>2. PICK f : KeepProviders(<<>>, P) = f[Len(<<>>)] /\ f[0] = <<>>
    <2> DEFINE s == <<>>
    <2>1. s \in Seq({})
        BY <1>1
    <2> HIDE DEF s
    <2>2. \E f : KeepProviders(s, P) = f[Len(s)] /\ f[0] = <<>>
        BY <2>1, KeepUnfolds
    <2>3. QED
        BY <2>2 DEF s
<1>3. QED
    BY <1>1, <1>2

\* What is kept of s and one more candidate is what is kept of s, and the
\* candidate if its provider is wanted.
LEMMA KeepAppend ==
    ASSUME NEW C, NEW s \in Seq(C), NEW c \in C, NEW P
    PROVE  KeepProviders(Append(s, c), P) =
              IF c.provider \in P THEN Append(KeepProviders(s, P), c) ELSE KeepProviders(s, P)
<1> DEFINE t == Append(s, c)
           Steps(f, r) == /\ f[0] = <<>>
                          /\ \A n \in 1..Len(r) :
                                f[n] = IF r[n].provider \in P THEN Append(f[n - 1], r[n])
                                       ELSE f[n - 1]
<1>1. /\ t \in Seq(C) /\ Len(t) = Len(s) + 1 /\ t[Len(s) + 1] = c /\ Len(s) \in Nat
      /\ \A n \in 1..Len(s) : t[n] = s[n]
    OBVIOUS
<1>2. PICK f : KeepProviders(s, P) = f[Len(s)] /\ Steps(f, s)
    BY KeepUnfolds
<1> HIDE DEF t
<1>3. PICK g : KeepProviders(t, P) = g[Len(t)] /\ Steps(g, t)
    BY <1>1, KeepUnfolds
<1> DEFINE T == {n \in Nat : n <= Len(s) => f[n] = g[n]}
<1>4. 0 \in T
    BY <1>2, <1>3
<1>5. ASSUME NEW n \in Nat, n \in T PROVE n + 1 \in T
    <2> SUFFICES ASSUME n + 1 <= Len(s) PROVE f[n + 1] = g[n + 1]
        OBVIOUS
    <2>1. n + 1 \in 1..Len(s) /\ n + 1 \in 1..Len(t) /\ (n + 1) - 1 = n /\ f[n] = g[n]
        BY <1>1, <1>5
    <2>2. f[n + 1] = IF s[n + 1].provider \in P THEN Append(f[n], s[n + 1]) ELSE f[n]
        BY <1>2, <2>1
    <2>3. g[n + 1] = IF t[n + 1].provider \in P THEN Append(g[n], t[n + 1]) ELSE g[n]
        BY <1>3, <2>1
    <2>4. QED
        BY <1>1, <2>1, <2>2, <2>3
<1>6. f[Len(s)] = g[Len(s)]
    <2>1. Len(s) \in T
        <3> HIDE DEF T
        <3>1. QED
            BY <1>1, <1>4, <1>5, Induction
    <2>2. QED
        BY <2>1, <1>1
<1>7. g[Len(t)] = IF c.provider \in P THEN Append(g[Len(s)], c) ELSE g[Len(s)]
    <2>1. Len(t) \in 1..Len(t) /\ Len(t) - 1 = Len(s) /\ t[Len(t)] = c
        BY <1>1
    <2>2. QED
        BY <1>3, <2>1
<1>8. QED
    BY <1>2, <1>3, <1>6, <1>7 DEF t

\* Only wanted candidates of s are kept.
LEMMA KeepShape ==
    ASSUME NEW C, NEW P
    PROVE  \A s \in Seq(C) : KeepProviders(s, P) \in Seq({c \in C : c.provider \in P})
<1> DEFINE D == {c \in C : c.provider \in P}
           T == {s \in Seq(C) : KeepProviders(s, P) \in Seq(D)}
<1>1. <<>> \in T
    <2>1. KeepProviders(<<>>, P) \in Seq(D)
        BY KeepEmpty, EmptySeq
    <2>2. QED
        BY <2>1, EmptySeq
<1>2. ASSUME NEW s \in Seq(C), NEW c \in C, s \in T PROVE Append(s, c) \in T
    <2>1. Append(s, c) \in Seq(C) /\ KeepProviders(s, P) \in Seq(D)
        BY <1>2
    <2>2. c.provider \in P => Append(KeepProviders(s, P), c) \in Seq(D)
        BY <2>1
    <2>3. KeepProviders(Append(s, c), P) \in Seq(D)
        <3>1. CASE c.provider \in P
            BY <2>2, <3>1, KeepAppend
        <3>2. CASE c.provider \notin P
            BY <2>1, <3>2, KeepAppend
        <3>3. QED
            BY <3>1, <3>2
    <2>4. QED
        BY <2>1, <2>3
<1> HIDE DEF T
<1>3. \A s \in Seq(C) : s \in T
    BY <1>1, <1>2, Appending
<1>4. QED
    BY <1>3 DEF T

LEMMA KeepTyped ==
    ASSUME NEW C, NEW P
    PROVE  \A s \in Seq(C) : KeepProviders(s, P) \in Seq(C)
<1>1. {c \in C : c.provider \in P} \subseteq C
    OBVIOUS
<1>2. QED
    BY <1>1, KeepShape, SeqMonotonic

\* Keeping twice is keeping what both want.
LEMMA KeepTwice ==
    ASSUME NEW C, NEW P, NEW Q
    PROVE  \A s \in Seq(C) : KeepProviders(KeepProviders(s, P), Q) = KeepProviders(s, P \cap Q)
<1> DEFINE T == {s \in Seq(C) :
                    KeepProviders(KeepProviders(s, P), Q) = KeepProviders(s, P \cap Q)}
<1>1. <<>> \in T
    BY KeepEmpty
<1>2. ASSUME NEW s \in Seq(C), NEW c \in C, s \in T PROVE Append(s, c) \in T
    <2>1. Append(s, c) \in Seq(C) /\ KeepProviders(s, P) \in Seq(C)
        BY KeepTyped
    <2>2. KeepProviders(Append(KeepProviders(s, P), c), Q) =
             IF c.provider \in Q THEN Append(KeepProviders(KeepProviders(s, P), Q), c)
             ELSE KeepProviders(KeepProviders(s, P), Q)
        BY <2>1, KeepAppend
    <2>3. KeepProviders(Append(s, c), P) =
             IF c.provider \in P THEN Append(KeepProviders(s, P), c) ELSE KeepProviders(s, P)
        BY KeepAppend
    <2>4. KeepProviders(Append(s, c), P \cap Q) =
             IF c.provider \in P \cap Q THEN Append(KeepProviders(s, P \cap Q), c)
             ELSE KeepProviders(s, P \cap Q)
        BY KeepAppend
    <2>5. KeepProviders(KeepProviders(s, P), Q) = KeepProviders(s, P \cap Q)
        BY <1>2
    <2>6. KeepProviders(KeepProviders(Append(s, c), P), Q) = KeepProviders(Append(s, c), P \cap Q)
        <3>1. CASE c.provider \in P /\ c.provider \in Q
            BY <2>2, <2>3, <2>4, <2>5, <3>1
        <3>2. CASE c.provider \in P /\ c.provider \notin Q
            BY <2>2, <2>3, <2>4, <2>5, <3>2
        <3>3. CASE c.provider \notin P
            BY <2>3, <2>4, <2>5, <3>3
        <3>4. QED
            BY <3>1, <3>2, <3>3
    <2>7. QED
        BY <2>1, <2>6
<1> HIDE DEF T
<1>3. \A s \in Seq(C) : s \in T
    BY <1>1, <1>2, Appending
<1>4. QED
    BY <1>3 DEF T

\* What is kept of two lists is kept of each.
LEMMA KeepConcat ==
    ASSUME NEW C, NEW P, NEW r \in Seq(C)
    PROVE  \A s \in Seq(C) : KeepProviders(r \o s, P) = KeepProviders(r, P) \o KeepProviders(s, P)
<1> DEFINE T == {s \in Seq(C) : KeepProviders(r \o s, P) = KeepProviders(r, P) \o KeepProviders(s, P)}
<1>0. \A s \in Seq(C) : KeepProviders(s, P) \in Seq(C)
    BY KeepTyped
<1>1. <<>> \in T
    <2>1. r \o <<>> = r /\ KeepProviders(r, P) \o <<>> = KeepProviders(r, P)
        BY <1>0, ConcatEmptySeq
    <2>2. KeepProviders(r \o <<>>, P) = KeepProviders(r, P) \o KeepProviders(<<>>, P)
        BY <2>1, KeepEmpty
    <2>3. QED
        BY <2>2, EmptySeq
<1>2. ASSUME NEW s \in Seq(C), NEW c \in C, s \in T PROVE Append(s, c) \in T
    <2>1. Append(s, c) \in Seq(C) /\ r \o s \in Seq(C) /\ r \o Append(s, c) = Append(r \o s, c)
        OBVIOUS
    <2>2. KeepProviders(Append(r \o s, c), P) =
             IF c.provider \in P THEN Append(KeepProviders(r \o s, P), c) ELSE KeepProviders(r \o s, P)
        <3> DEFINE q == r \o s
        <3>1. q \in Seq(C)
            BY <2>1
        <3> HIDE DEF q, T
        <3>2. KeepProviders(Append(q, c), P) =
                 IF c.provider \in P THEN Append(KeepProviders(q, P), c) ELSE KeepProviders(q, P)
            BY <3>1, KeepAppend
        <3>3. QED
            BY <3>2 DEF q
    <2>3. KeepProviders(Append(s, c), P) =
             IF c.provider \in P THEN Append(KeepProviders(s, P), c) ELSE KeepProviders(s, P)
        BY KeepAppend
    <2>4. KeepProviders(r, P) \o Append(KeepProviders(s, P), c)
            = Append(KeepProviders(r, P) \o KeepProviders(s, P), c)
        <3>1. KeepProviders(r, P) \in Seq(C) /\ KeepProviders(s, P) \in Seq(C)
            BY <1>0
        <3>2. QED
            BY <3>1
    <2>5. KeepProviders(r \o s, P) = KeepProviders(r, P) \o KeepProviders(s, P)
        BY <1>2
    <2>6. KeepProviders(r \o Append(s, c), P) = KeepProviders(r, P) \o KeepProviders(Append(s, c), P)
        BY <2>1, <2>2, <2>3, <2>4, <2>5
    <2>7. QED
        BY <2>1, <2>6
<1> HIDE DEF T
<1>3. \A s \in Seq(C) : s \in T
    BY <1>1, <1>2, Appending
<1>4. QED
    BY <1>3 DEF T

\* The positions of the candidates that are kept.
KeptPositions(s, P) == {i \in 1..Len(s) : s[i].provider \in P}

LEMMA KeptPositionsAppend ==
    ASSUME NEW C, NEW s \in Seq(C), NEW c \in C, NEW P
    PROVE  KeptPositions(Append(s, c), P) =
              IF c.provider \in P THEN KeptPositions(s, P) \cup {Len(s) + 1}
              ELSE KeptPositions(s, P)
<1> DEFINE t == Append(s, c)
<1>1. /\ Len(t) = Len(s) + 1 /\ t[Len(s) + 1] = c /\ Len(s) \in Nat
      /\ \A n \in 1..Len(s) : t[n] = s[n]
    OBVIOUS
<1> HIDE DEF t
<1>2. 1..Len(t) = 1..Len(s) \cup {Len(s) + 1} /\ Len(s) + 1 \notin 1..Len(s)
    BY <1>1
<1>3. QED
    BY <1>1, <1>2 DEF KeptPositions, t

LEMMA KeptPositionsFinite ==
    ASSUME NEW C, NEW s \in Seq(C), NEW P
    PROVE  IsFiniteSet(KeptPositions(s, P)) /\ KeptPositions(s, P) \subseteq 1..Len(s)
<1>1. KeptPositions(s, P) \in SUBSET (1..Len(s))
    BY DEF KeptPositions
<1>2. Len(s) \in Nat /\ IsFiniteSet(1..Len(s))
    BY FS_Interval
<1>3. QED
    BY <1>1, <1>2, FS_Subset

\* As many are kept as there are positions to keep.
LEMMA KeepCount ==
    ASSUME NEW C, NEW P
    PROVE  \A s \in Seq(C) : Len(KeepProviders(s, P)) = Cardinality(KeptPositions(s, P))
<1> DEFINE T == {s \in Seq(C) : Len(KeepProviders(s, P)) = Cardinality(KeptPositions(s, P))}
<1>1. <<>> \in T
    <2>1. KeptPositions(<<>>, P) = {}
        BY DEF KeptPositions
    <2>2. QED
        BY <2>1, KeepEmpty, FS_EmptySet
<1>2. ASSUME NEW s \in Seq(C), NEW c \in C, s \in T PROVE Append(s, c) \in T
    <2>1. Append(s, c) \in Seq(C) /\ Len(s) \in Nat
        OBVIOUS
    <2>2. KeepProviders(s, P) \in Seq({d \in C : d.provider \in P})
        BY KeepShape
    <2>3. Len(KeepProviders(s, P)) = Cardinality(KeptPositions(s, P))
        BY <1>2
    <2>4. IsFiniteSet(KeptPositions(s, P)) /\ Len(s) + 1 \notin KeptPositions(s, P)
        BY <2>1, KeptPositionsFinite
    <2>5. Cardinality(KeptPositions(s, P) \cup {Len(s) + 1}) = Cardinality(KeptPositions(s, P)) + 1
        BY <2>4, FS_AddElement
    <2>6. KeepProviders(Append(s, c), P) =
             IF c.provider \in P THEN Append(KeepProviders(s, P), c) ELSE KeepProviders(s, P)
        BY KeepAppend
    <2>7. c.provider \in P =>
             Len(Append(KeepProviders(s, P), c)) = Len(KeepProviders(s, P)) + 1
        BY <2>2
    <2>8. Len(KeepProviders(Append(s, c), P)) = Cardinality(KeptPositions(Append(s, c), P))
        <3>1. CASE c.provider \in P
            BY <2>3, <2>5, <2>6, <2>7, <3>1, KeptPositionsAppend
        <3>2. CASE c.provider \notin P
            BY <2>3, <2>6, <3>2, KeptPositionsAppend
        <3>3. QED
            BY <3>1, <3>2
    <2>9. QED
        BY <2>1, <2>8
<1> HIDE DEF T
<1>3. \A s \in Seq(C) : s \in T
    BY <1>1, <1>2, Appending
<1>4. QED
    BY <1>3 DEF T

\* The positions before i that are kept.
KeptBefore(s, P, i) == {j \in KeptPositions(s, P) : j < i}

\* The candidate at a position that is kept comes after those that are kept of
\* the positions before it.
LEMMA KeepPlace ==
    ASSUME NEW C, NEW P
    PROVE  \A s \in Seq(C) : \A i \in KeptPositions(s, P) :
              KeepProviders(s, P)[Cardinality(KeptBefore(s, P, i)) + 1] = s[i]
<1> DEFINE At(s, i) == Cardinality(KeptBefore(s, P, i)) + 1
           T == {s \in Seq(C) :
                    \A i \in KeptPositions(s, P) : KeepProviders(s, P)[At(s, i)] = s[i]}
<1>1. <<>> \in T
    BY DEF KeptPositions
<1>2. ASSUME NEW s \in Seq(C), NEW c \in C, s \in T PROVE Append(s, c) \in T
    <2> DEFINE t == Append(s, c)
    <2>1. /\ t \in Seq(C) /\ Len(t) = Len(s) + 1 /\ t[Len(s) + 1] = c /\ Len(s) \in Nat
          /\ \A n \in 1..Len(s) : t[n] = s[n]
        OBVIOUS
    <2>2. KeepProviders(s, P) \in Seq({d \in C : d.provider \in P})
        BY KeepShape
    <2>3. Len(KeepProviders(s, P)) = Cardinality(KeptPositions(s, P))
        BY KeepCount
    <2>4. KeepProviders(t, P) =
             IF c.provider \in P THEN Append(KeepProviders(s, P), c) ELSE KeepProviders(s, P)
        BY KeepAppend
    <2>5. KeptPositions(t, P) =
             IF c.provider \in P THEN KeptPositions(s, P) \cup {Len(s) + 1} ELSE KeptPositions(s, P)
        BY KeptPositionsAppend
    <2>6. IsFiniteSet(KeptPositions(s, P)) /\ KeptPositions(s, P) \subseteq 1..Len(s)
        BY KeptPositionsFinite
    <2> HIDE DEF t
    <2>7. ASSUME NEW i \in KeptPositions(s, P) PROVE KeepProviders(t, P)[At(t, i)] = t[i]
        <3> DEFINE E == KeptBefore(s, P, i)
        <3>1. i \in 1..Len(s) /\ ~(Len(s) + 1 < i)
            BY <2>1, <2>6
        <3>2. KeptBefore(t, P, i) = E
            BY <2>5, <3>1 DEF KeptBefore
        <3>3. E \in SUBSET KeptPositions(s, P) /\ E # KeptPositions(s, P)
            BY <3>1 DEF KeptBefore
        <3> HIDE DEF E
        <3>4. /\ Cardinality(E) \in Nat /\ Cardinality(KeptPositions(s, P)) \in Nat
              /\ Cardinality(E) < Cardinality(KeptPositions(s, P))
            <4>1. /\ IsFiniteSet(E) /\ Cardinality(E) <= Cardinality(KeptPositions(s, P))
                  /\ Cardinality(E) # Cardinality(KeptPositions(s, P))
                BY <2>6, <3>3, FS_Subset
            <4>2. Cardinality(E) \in Nat /\ Cardinality(KeptPositions(s, P)) \in Nat
                BY <2>6, <4>1, FS_CardinalityType
            <4>3. QED
                BY <4>1, <4>2
        <3>5. Cardinality(E) + 1 \in 1..Len(KeepProviders(s, P))
            BY <2>3, <3>4
        <3>6. KeepProviders(t, P)[Cardinality(E) + 1] = KeepProviders(s, P)[Cardinality(E) + 1]
            BY <2>2, <2>4, <3>5
        <3>7. KeepProviders(s, P)[Cardinality(E) + 1] = s[i]
            BY <1>2 DEF E
        <3>8. t[i] = s[i]
            BY <2>1, <3>1
        <3>9. QED
            BY <3>2, <3>6, <3>7, <3>8
    <2>8. ASSUME c.provider \in P PROVE KeepProviders(t, P)[At(t, Len(s) + 1)] = t[Len(s) + 1]
        <3>1. KeptBefore(t, P, Len(s) + 1) = KeptPositions(s, P)
            BY <2>1, <2>5, <2>6, <2>8 DEF KeptBefore
        <3>2. KeepProviders(t, P) = Append(KeepProviders(s, P), c)
            BY <2>4, <2>8
        <3>3. KeepProviders(t, P)[Len(KeepProviders(s, P)) + 1] = c
            BY <2>2, <3>2
        <3>4. QED
            BY <2>1, <2>3, <3>1, <3>3
    <2> HIDE DEF At
    <2>9. QED
        BY <2>1, <2>5, <2>7, <2>8 DEF t
<1> HIDE DEF T
<1>3. \A s \in Seq(C) : s \in T
    BY <1>1, <1>2, Appending
<1>4. QED
    BY <1>3 DEF T

-----------------------------------------------------------------------------
(* The resolver.                                                            *)

UsableProviders(c, st, x) == {p \in c.providers : Preferred(c, st, x, p)}
AnyTarget(c, a) == Candidate \cup {DefaultTarget(c, a)}

\* Both chains are sequences of targets.
LEMMA RawTyped ==
    ASSUME NEW c \in Configs, NEW a
    PROVE  RouteChain(c, a) \in Seq(AnyTarget(c, a)) /\ RawChain(c, a) \in Seq(AnyTarget(c, a))
<1>1. RouteChain(c, a) \in Seq(AnyTarget(c, a))
    <2>1. CASE a \in DOMAIN c.routes
        <3>1. c.routes[a] \in Seq(Candidate) /\ Candidate \subseteq AnyTarget(c, a)
            BY <2>1, ConfigsAssumption DEF AnyTarget
        <3>2. QED
            BY <2>1, <3>1, SeqMonotonic DEF RouteChain
    <2>2. CASE a \notin DOMAIN c.routes /\ c.default # None
        BY <2>2 DEF RouteChain, AnyTarget
    <2>3. CASE a \notin DOMAIN c.routes /\ c.default = None
        BY <2>3, EmptySeq DEF RouteChain
    <2>4. QED
        BY <2>1, <2>2, <2>3
<1>2. c.fallback # None => c.fallback \in AnyTarget(c, a)
    BY ConfigsAssumption DEF AnyTarget
<1>3. RawChain(c, a) = RouteChain(c, a) \/ RawChain(c, a) = Append(RouteChain(c, a), c.fallback)
    BY DEF RawChain
<1>4. c.fallback # None => Append(RouteChain(c, a), c.fallback) \in Seq(AnyTarget(c, a))
    BY <1>1, <1>2
<1>5. c.fallback = None => RawChain(c, a) = RouteChain(c, a)
    BY DEF RawChain
<1>6. QED
    BY <1>1, <1>3, <1>4, <1>5

\* The preferred positions are those of the usable providers.
LEMMA PreferredShape ==
    ASSUME NEW c \in Configs, NEW st, NEW x, NEW a
    PROVE  PreferredPositions(c, st, x, a) = KeptPositions(RawChain(c, a), UsableProviders(c, st, x))
<1> DEFINE r == RawChain(c, a)
<1>1. DOMAIN r = 1..Len(r)
    <2>1. r \in Seq(AnyTarget(c, a))
        BY RawTyped
    <2> HIDE DEF r
    <2>2. QED
        BY <2>1
<1>2. QED
    BY <1>1 DEF KnownPositions, KeptPositions, PreferredPositions, UsableProviders

\* The chain is what is kept of the raw chain for the usable providers, then for
\* the rest of the configured ones, and the known positions are what is kept.
LEMMA ChainShape ==
    ASSUME NEW c \in Configs, NEW st, NEW x, NEW a
    PROVE  LET r == RawChain(c, a)
               U == UsableProviders(c, st, x)
           IN  /\ ResolveCandidates(c, st, x, a)
                     = KeepProviders(r, U) \o KeepProviders(r, c.providers \ U)
               /\ KnownPositions(c, a) = KeptPositions(r, c.providers)
               /\ KnownPositions(c, a) = KeptPositions(r, U) \cup KeptPositions(r, c.providers \ U)
               /\ KeptPositions(r, U) \cap KeptPositions(r, c.providers \ U) = {}
<1> DEFINE r == RawChain(c, a)
           U == UsableProviders(c, st, x)
<1>1. DOMAIN r = 1..Len(r)
    <2>1. r \in Seq(AnyTarget(c, a))
        BY RawTyped
    <2> HIDE DEF r
    <2>2. QED
        BY <2>1
<1>2. ResolveCandidates(c, st, x, a) = KeepProviders(r, U) \o KeepProviders(r, c.providers \ U)
    BY DEF ResolveCandidates, UsableProviders
<1>3. KnownPositions(c, a) = KeptPositions(r, c.providers)
    BY <1>1 DEF KnownPositions, KeptPositions
<1> HIDE DEF r
<1>4. /\ KnownPositions(c, a) = KeptPositions(r, U) \cup KeptPositions(r, c.providers \ U)
      /\ KeptPositions(r, U) \cap KeptPositions(r, c.providers \ U) = {}
    <2>1. U \subseteq c.providers
        BY DEF UsableProviders
    <2> HIDE DEF U
    <2>2. QED
        BY <1>3, <2>1 DEF KeptPositions
<1>5. QED
    BY <1>2, <1>3, <1>4 DEF r

\* The chain has one candidate for every known position.
LEMMA ChainLength ==
    ASSUME NEW c \in Configs, NEW st, NEW x, NEW a
    PROVE  Len(ResolveCandidates(c, st, x, a)) = Cardinality(KnownPositions(c, a))
<1> DEFINE r == RawChain(c, a)
           U == UsableProviders(c, st, x)
           D == c.providers \ U
           C == AnyTarget(c, a)
<1>1. r \in Seq(C)
    BY RawTyped
<1>2. /\ ResolveCandidates(c, st, x, a) = KeepProviders(r, U) \o KeepProviders(r, D)
      /\ KnownPositions(c, a) = KeptPositions(r, U) \cup KeptPositions(r, D)
      /\ KeptPositions(r, U) \cap KeptPositions(r, D) = {}
    BY ChainShape
<1> HIDE DEF r, U, D, C
<1>3. KeepProviders(r, U) \in Seq(C) /\ KeepProviders(r, D) \in Seq(C)
    BY <1>1, KeepTyped
<1>4. Len(KeepProviders(r, U) \o KeepProviders(r, D))
        = Len(KeepProviders(r, U)) + Len(KeepProviders(r, D))
    BY <1>3
<1>5. /\ Len(KeepProviders(r, U)) = Cardinality(KeptPositions(r, U))
      /\ Len(KeepProviders(r, D)) = Cardinality(KeptPositions(r, D))
    BY <1>1, KeepCount
<1>6. IsFiniteSet(KeptPositions(r, U)) /\ IsFiniteSet(KeptPositions(r, D))
    BY <1>1, KeptPositionsFinite
<1>7. Cardinality(KeptPositions(r, U) \cup KeptPositions(r, D))
        = Cardinality(KeptPositions(r, U)) + Cardinality(KeptPositions(r, D)) - Cardinality({})
    BY <1>2, <1>6, FS_Union
<1>8. Cardinality(KeptPositions(r, U)) \in Nat /\ Cardinality(KeptPositions(r, D)) \in Nat
    BY <1>6, FS_CardinalityType
<1>9. Cardinality({}) = 0
    BY FS_EmptySet
<1>10. QED
    BY <1>2, <1>4, <1>5, <1>7, <1>8, <1>9

\* The candidate at a known position comes after those Before says.
LEMMA ChainOrder ==
    ASSUME NEW c \in Configs, NEW st, NEW x, NEW a, NEW i \in KnownPositions(c, a)
    PROVE  LET preferred == PreferredPositions(c, st, x, a)
               earlier   == {j \in KnownPositions(c, a) : Before(preferred, j, i)}
           IN  ResolveCandidates(c, st, x, a)[Cardinality(earlier) + 1] = RawChain(c, a)[i]
<1> DEFINE r == RawChain(c, a)
           U == UsableProviders(c, st, x)
           D == c.providers \ U
           C == AnyTarget(c, a)
           G == KeptPositions(r, U)
           B == KeptPositions(r, D)
           earlier == {j \in KnownPositions(c, a) : Before(PreferredPositions(c, st, x, a), j, i)}
<1>1. r \in Seq(C)
    BY RawTyped
<1>2. /\ ResolveCandidates(c, st, x, a) = KeepProviders(r, U) \o KeepProviders(r, D)
      /\ KnownPositions(c, a) = G \cup B /\ PreferredPositions(c, st, x, a) = G
      /\ G \cap B = {}
    <2> HIDE DEF earlier, C, r, U, D, G, B
    <2>1. ResolveCandidates(c, st, x, a) = KeepProviders(r, U) \o KeepProviders(r, D)
        BY ChainShape DEF r, U, D
    <2>2. PreferredPositions(c, st, x, a) = G
        BY PreferredShape DEF r, U, G
    <2>3. KnownPositions(c, a) = G \cup B
        BY ChainShape DEF r, U, D, G, B
    <2>4. G \cap B = {}
        BY ChainShape DEF r, U, D, G, B
    <2>5. QED
        BY <2>1, <2>2, <2>3, <2>4
<1> HIDE DEF r, U, D, C
<1>3. /\ KeepProviders(r, U) \in Seq(C) /\ KeepProviders(r, D) \in Seq(C)
      /\ Len(KeepProviders(r, U)) = Cardinality(G) /\ Len(KeepProviders(r, D)) = Cardinality(B)
    BY <1>1, KeepTyped, KeepCount
<1>4. /\ IsFiniteSet(G) /\ IsFiniteSet(B)
      /\ G \subseteq 1..Len(r) /\ B \subseteq 1..Len(r) /\ Len(r) \in Nat
    BY <1>1, KeptPositionsFinite
<1>5. Cardinality(G) \in Nat /\ Cardinality(B) \in Nat
    BY <1>4, FS_CardinalityType
<1>6. /\ \A k \in G : KeepProviders(r, U)[Cardinality(KeptBefore(r, U, k)) + 1] = r[k]
      /\ \A k \in B : KeepProviders(r, D)[Cardinality(KeptBefore(r, D, k)) + 1] = r[k]
      /\ \A k : KeptBefore(r, U, k) = {j \in G : j < k} /\ KeptBefore(r, D, k) = {j \in B : j < k}
    <2>1. /\ \A k \in G : KeepProviders(r, U)[Cardinality(KeptBefore(r, U, k)) + 1] = r[k]
          /\ \A k \in B : KeepProviders(r, D)[Cardinality(KeptBefore(r, D, k)) + 1] = r[k]
        BY <1>1, KeepPlace
    <2>2. \A k : KeptBefore(r, U, k) = {j \in G : j < k} /\ KeptBefore(r, D, k) = {j \in B : j < k}
        BY DEF KeptBefore
    <2>3. QED
        BY <2>1, <2>2
<1> HIDE DEF G, B
<1>7. ASSUME NEW S, IsFiniteSet(S), S \subseteq 1..Len(r), NEW k \in S
      PROVE  /\ Cardinality({j \in S : j < k}) \in Nat /\ IsFiniteSet({j \in S : j < k})
             /\ Cardinality({j \in S : j < k}) < Cardinality(S)
    <2> DEFINE E == {j \in S : j < k}
    <2>1. E \in SUBSET S /\ k \notin E /\ E # S
        BY <1>4, <1>7
    <2> HIDE DEF E
    <2>2. IsFiniteSet(E) /\ Cardinality(E) <= Cardinality(S) /\ Cardinality(E) # Cardinality(S)
        BY <1>7, <2>1, FS_Subset
    <2>3. Cardinality(E) \in Nat /\ Cardinality(S) \in Nat
        BY <1>7, <2>2, FS_CardinalityType
    <2>4. QED
        BY <2>2, <2>3 DEF E
<1>8. CASE i \in G
    <2> DEFINE E == {j \in G : j < i}
    <2>1. earlier = E
        BY <1>2, <1>8 DEF Before
    <2>2. Cardinality(E) \in Nat /\ Cardinality(E) < Cardinality(G)
        BY <1>4, <1>7, <1>8
    <2>3. KeepProviders(r, U)[Cardinality(E) + 1] = r[i]
        BY <1>6, <1>8
    <2> HIDE DEF E, earlier
    <2>4. Cardinality(E) + 1 \in 1..Len(KeepProviders(r, U))
        BY <1>3, <1>5, <2>2
    <2>5. (KeepProviders(r, U) \o KeepProviders(r, D))[Cardinality(E) + 1] = r[i]
        BY <1>3, <2>3, <2>4
    <2>6. QED
        BY <1>2, <2>1, <2>5 DEF r, earlier
<1>9. CASE i \in B
    <2> DEFINE E == {j \in B : j < i}
    <2>1. earlier = G \cup E
        BY <1>2, <1>9 DEF Before
    <2>2. Cardinality(E) \in Nat /\ IsFiniteSet(E) /\ Cardinality(E) < Cardinality(B)
        BY <1>4, <1>7, <1>9
    <2>3. KeepProviders(r, D)[Cardinality(E) + 1] = r[i]
        BY <1>6, <1>9
    <2>4. G \cap E = {}
        BY <1>2
    <2> HIDE DEF E, earlier
    <2>5. Cardinality(G \cup E) = Cardinality(G) + Cardinality(E)
        <3>1. Cardinality(G \cup E) = Cardinality(G) + Cardinality(E) - Cardinality(G \cap E)
            BY <1>4, <2>2, FS_Union
        <3>2. Cardinality(G \cap E) = 0
            BY <2>4, FS_EmptySet
        <3>3. QED
            BY <1>5, <2>2, <3>1, <3>2
    <2>6. Cardinality(E) + 1 \in 1..Len(KeepProviders(r, D))
        BY <1>3, <1>5, <2>2
    <2>7. (KeepProviders(r, U) \o KeepProviders(r, D))[Len(KeepProviders(r, U)) + (Cardinality(E) + 1)]
            = r[i]
        BY <1>3, <2>3, <2>6
    <2>8. Len(KeepProviders(r, U)) + (Cardinality(E) + 1) = Cardinality(earlier) + 1
        BY <1>3, <1>5, <2>1, <2>2, <2>5
    <2>9. QED
        BY <1>2, <2>7, <2>8 DEF r, earlier
<1>10. QED
    BY <1>2, <1>8, <1>9

-----------------------------------------------------------------------------
(* The properties.                                                          *)

\* What the resolver is given does not change, and its outcome is computed from it.
IInv ==
    /\ cfg \in Configs /\ status \in Statuses /\ exhausted \in Exhaustions /\ alias \in Alias
    /\ outcome \in {Pending, Resolve(cfg, status, exhausted, alias)}

\* The invariant that the properties follow from.
THEOREM Invariance == Spec => []IInv
<1>1. Init => IInv
    BY DEF Init, IInv
<1>2. IInv /\ [Next]_vars => IInv'
    BY DEF IInv, Next, ResolveRequest, vars
<1>3. QED
    BY <1>1, <1>2, PTL DEF Spec

\* A chain that was resolved is the resolver's, and not empty.
LEMMA ResolvedShape ==
    ASSUME IInv, Resolved
    PROVE  /\ outcome.chain = ResolveCandidates(cfg, status, exhausted, alias)
           /\ outcome.chain # <<>>
BY DEF IInv, Resolved, Pending, Resolve

\* For every configuration, status map and exhausted set, the chain handed to
\* the failover loop lists exactly the raw candidates whose provider is
\* configured, the usable ones first and each class in its configured order.
THEOREM KnownAreListedInOrder == Spec => []ListsKnownInOrder
<1>1. IInv => ListsKnownInOrder
    <2> SUFFICES ASSUME IInv, Resolved
                 PROVE  /\ Len(outcome.chain) = Cardinality(KnownPositions(cfg, alias))
                        /\ \A i \in KnownPositions(cfg, alias) :
                              outcome.chain[Cardinality({j \in KnownPositions(cfg, alias) :
                                                            Before(good, j, i)}) + 1] = raw[i]
        BY DEF ListsKnownInOrder
    <2>1. outcome.chain = ResolveCandidates(cfg, status, exhausted, alias) /\ cfg \in Configs
        BY ResolvedShape DEF IInv
    <2>2. QED
        BY <2>1, ChainLength, ChainOrder DEF good, raw
<1>2. QED
    BY <1>1, Invariance, PTL

\* Whether a chain comes out empty is decided by the configuration.
LEMMA ChainEmpty ==
    ASSUME NEW c \in Configs, NEW st, NEW x, NEW a
    PROVE  ResolveCandidates(c, st, x, a) = <<>> <=> KnownPositions(c, a) = {}
<1> DEFINE r == RawChain(c, a)
           U == UsableProviders(c, st, x)
           chain == ResolveCandidates(c, st, x, a)
<1>1. Len(chain) = Cardinality(KnownPositions(c, a))
    BY ChainLength
<1>2. r \in Seq(AnyTarget(c, a)) /\ KnownPositions(c, a) = KeptPositions(r, c.providers)
    BY RawTyped, ChainShape
<1>3. chain = KeepProviders(r, U) \o KeepProviders(r, c.providers \ U)
    BY ChainShape
<1> HIDE DEF r, U, chain
<1>4. IsFiniteSet(KnownPositions(c, a))
    BY <1>2, KeptPositionsFinite
<1>5. chain \in Seq(AnyTarget(c, a))
    BY <1>2, <1>3, KeepTyped
<1>6. chain = <<>> <=> Len(chain) = 0
    BY <1>5, EmptySeq
<1>7. chain = <<>> <=> KnownPositions(c, a) = {}
    BY <1>1, <1>4, <1>6, FS_EmptySet
<1>8. QED
    BY <1>7 DEF chain

\* Whether a name is refused, why, and how many candidates it has otherwise
\* depend on the configuration alone, whatever the watchers and the usage meter
\* say.
THEOREM HealthOnlyReorders == Spec => []HealthNeverRefuses
<1>1. IInv => HealthNeverRefuses
    <2> SUFFICES ASSUME IInv, outcome # Pending
                 PROVE  /\ outcome.kind = Resolve(cfg, NothingProbed, {}, alias).kind
                        /\ Len(outcome.chain) = Len(Resolve(cfg, NothingProbed, {}, alias).chain)
        BY DEF HealthNeverRefuses
    <2> DEFINE judged == ResolveCandidates(cfg, status, exhausted, alias)
               unjudged == ResolveCandidates(cfg, NothingProbed, {}, alias)
    <2>1. outcome = Resolve(cfg, status, exhausted, alias) /\ cfg \in Configs
        BY DEF IInv
    <2>2. judged = <<>> <=> unjudged = <<>>
        BY <2>1, ChainEmpty
    <2>3. Len(judged) = Len(unjudged)
        BY <2>1, ChainLength
    <2>4. Resolve(cfg, status, exhausted, alias) =
            IF DefaultDangles(cfg, alias) THEN [kind |-> "internal", chain |-> <<>>]
            ELSE IF judged = <<>> THEN [kind |-> "unknown_model", chain |-> <<>>]
            ELSE [kind |-> "chain", chain |-> judged]
        BY DEF Resolve
    <2>5. Resolve(cfg, NothingProbed, {}, alias) =
            IF DefaultDangles(cfg, alias) THEN [kind |-> "internal", chain |-> <<>>]
            ELSE IF unjudged = <<>> THEN [kind |-> "unknown_model", chain |-> <<>>]
            ELSE [kind |-> "chain", chain |-> unjudged]
        BY DEF Resolve
    <2> HIDE DEF judged, unjudged
    <2>6. QED
        BY <2>1, <2>2, <2>3, <2>4, <2>5
<1>2. QED
    BY <1>1, Invariance, PTL

-----------------------------------------------------------------------------
\* What a mark of p leaves usable.
LEMMA MarkedUsable ==
    ASSUME NEW c \in Configs, NEW st \in Statuses, NEW x, NEW p
    PROVE  UsableProviders(c, MarkedStatus(st, p), x) = UsableProviders(c, st, x) \ {p}
<1> DEFINE marked == MarkedStatus(st, p)
<1>0. marked = [q \in DOMAIN st \cup {p} |->
                   IF q \in DOMAIN st THEN [st[q] EXCEPT !.available = @ /\ q # p]
                   ELSE [available |-> FALSE, remaining |-> None]]
    BY DEF MarkedStatus
<1> HIDE DEF marked
<1>1. \A q \in DOMAIN st : st[q] \in Entry
    BY StatusesAssumption
<1>2. DOMAIN marked = DOMAIN st \cup {p}
    BY <1>0
<1>3. ~IsUsable(c, marked, p)
    <2>1. p \in DOMAIN st => marked[p] = [st[p] EXCEPT !.available = @ /\ p # p]
        BY <1>0
    <2>2. p \notin DOMAIN st => marked[p] = [available |-> FALSE, remaining |-> None]
        BY <1>0
    <2>3. ~marked[p].available
        <3>1. CASE p \in DOMAIN st
            <4>1. st[p] \in Entry /\ marked[p] = [st[p] EXCEPT !.available = @ /\ p # p]
                BY <1>1, <2>1, <3>1
            <4>2. (st[p].available /\ p # p) = FALSE
                OBVIOUS
            <4>3. marked[p] = [st[p] EXCEPT !.available = FALSE]
                BY <4>1, <4>2
            <4>4. QED
                BY <4>1, <4>3 DEF Entry
        <3>2. CASE p \notin DOMAIN st
            BY <2>2, <3>2
        <3>3. QED
            BY <3>1, <3>2
    <2>4. QED
        BY <1>2, <2>3 DEF IsUsable
<1>4. ASSUME NEW q, q # p PROVE IsUsable(c, marked, q) <=> IsUsable(c, st, q)
    <2>1. CASE q \in DOMAIN st
        <3>1. marked[q] = [st[q] EXCEPT !.available = @ /\ q # p]
            BY <1>0, <2>1
        <3>2. st[q] \in Entry /\ (st[q].available <=> st[q].available /\ q # p)
            BY <1>1, <1>4, <2>1
        <3>3. (marked[q].available <=> st[q].available) /\ marked[q].remaining = st[q].remaining
            BY <3>1, <3>2 DEF Entry
        <3>4. QED
            BY <1>2, <2>1, <3>3 DEF IsUsable
    <2>2. CASE q \notin DOMAIN st
        BY <1>2, <1>4, <2>2 DEF IsUsable
    <2>3. QED
        BY <2>1, <2>2
<1>5. QED
    BY <1>3, <1>4 DEF UsableProviders, Preferred, marked

\* A reactive failure of any provider only demotes it: no candidate is lost,
\* the others keep their order, and every place of the marked provider is behind
\* all that is still usable.
THEOREM MarksOnlyDemote == Spec => []MarkingOnlyDemotes
<1>1. IInv => MarkingOnlyDemotes
    <2> SUFFICES ASSUME IInv, Resolved, NEW p \in cfg.providers,
                        NEW marked, marked = MarkedStatus(status, p),
                        NEW after, after = ResolveCandidates(cfg, marked, exhausted, alias)
                 PROVE  /\ KeepProviders(after, cfg.providers \ {p})
                              = KeepProviders(outcome.chain, cfg.providers \ {p})
                        /\ Len(after) = Len(outcome.chain)
                        /\ \A i, j \in DOMAIN after :
                              i < j /\ after[i].provider = p =>
                                  ~Preferred(cfg, marked, exhausted, after[j].provider)
        BY DEF MarkingOnlyDemotes
    <2> DEFINE r == RawChain(cfg, alias)
               C == AnyTarget(cfg, alias)
               U == UsableProviders(cfg, status, exhausted)
               W == UsableProviders(cfg, marked, exhausted)
               V == cfg.providers \ {p}
    <2>1. /\ outcome.chain = ResolveCandidates(cfg, status, exhausted, alias)
          /\ cfg \in Configs /\ status \in Statuses
        BY ResolvedShape DEF IInv
    <2>2. Len(after) = Len(outcome.chain)
        BY <2>1, ChainLength
    <2>3. /\ r \in Seq(C)
          /\ outcome.chain = KeepProviders(r, U) \o KeepProviders(r, cfg.providers \ U)
          /\ after = KeepProviders(r, W) \o KeepProviders(r, cfg.providers \ W)
        BY <2>1, RawTyped, ChainShape
    <2>4. W = U \ {p} /\ U \subseteq cfg.providers
        <3>1. W = U \ {p}
            BY <2>1, MarkedUsable
        <3>2. U \subseteq cfg.providers
            BY DEF UsableProviders
        <3>3. QED
            BY <3>1, <3>2
    <2>5. W \cap V = U \cap V /\ (cfg.providers \ W) \cap V = (cfg.providers \ U) \cap V
        BY <2>4
    <2>6. \A q : Preferred(cfg, marked, exhausted, q) /\ q \in cfg.providers <=> q \in W
        BY DEF UsableProviders
    <2> HIDE DEF r, C, U, W, V
    <2>7. ASSUME NEW P, NEW Q
          PROVE  KeepProviders(KeepProviders(r, P) \o KeepProviders(r, Q), V)
                   = KeepProviders(r, P \cap V) \o KeepProviders(r, Q \cap V)
        <3>1. KeepProviders(r, P) \in Seq(C) /\ KeepProviders(r, Q) \in Seq(C)
            BY <2>3, KeepTyped
        <3>2. KeepProviders(KeepProviders(r, P) \o KeepProviders(r, Q), V)
                = KeepProviders(KeepProviders(r, P), V) \o KeepProviders(KeepProviders(r, Q), V)
            BY <3>1, KeepConcat
        <3>3. KeepProviders(KeepProviders(r, P), V) = KeepProviders(r, P \cap V)
            BY <2>3, KeepTwice
        <3>4. KeepProviders(KeepProviders(r, Q), V) = KeepProviders(r, Q \cap V)
            BY <2>3, KeepTwice
        <3>5. QED
            BY <3>2, <3>3, <3>4
    <2>8. KeepProviders(after, V) = KeepProviders(outcome.chain, V)
        <3>1. KeepProviders(after, V)
                = KeepProviders(r, W \cap V) \o KeepProviders(r, (cfg.providers \ W) \cap V)
            BY <2>3, <2>7
        <3>2. KeepProviders(outcome.chain, V)
                = KeepProviders(r, U \cap V) \o KeepProviders(r, (cfg.providers \ U) \cap V)
            BY <2>3, <2>7
        <3>3. QED
            BY <2>5, <3>1, <3>2
    <2>9. ASSUME NEW i \in DOMAIN after, NEW j \in DOMAIN after,
                 i < j, after[i].provider = p
          PROVE  ~Preferred(cfg, marked, exhausted, after[j].provider)
        <3> DEFINE front == KeepProviders(r, W)
                   rest == KeepProviders(r, cfg.providers \ W)
        <3>1. /\ front \in Seq({c \in C : c.provider \in W})
              /\ rest \in Seq({c \in C : c.provider \in cfg.providers \ W})
            BY <2>3, KeepShape
        <3>2. after = front \o rest
            BY <2>3
        <3> HIDE DEF front, rest
        <3>3. /\ DOMAIN after = 1..(Len(front) + Len(rest))
              /\ Len(front) \in Nat /\ Len(rest) \in Nat
              /\ \A k \in 1..Len(front) : after[k] = front[k]
              /\ \A k \in 1..Len(rest) : after[Len(front) + k] = rest[k]
            BY <3>1, <3>2
        <3>4. \A k \in 1..Len(front) : front[k].provider \in W
            BY <3>1
        <3>5. i \notin 1..Len(front)
            BY <2>4, <2>9, <3>3, <3>4
        <3>6. j - Len(front) \in 1..Len(rest) /\ j = Len(front) + (j - Len(front))
            BY <2>9, <3>3, <3>5
        <3>7. after[j] = rest[j - Len(front)]
            BY <3>3, <3>6
        <3>8. after[j].provider \in cfg.providers \ W
            BY <3>1, <3>6, <3>7
        <3>9. QED
            BY <2>6, <3>8
    <2>10. QED
        BY <2>2, <2>8, <2>9 DEF V
<1>2. QED
    BY <1>1, Invariance, PTL

\* The global fallback route is the last resort of its class: a candidate
\* behind it is less usable than it is.
THEOREM FallbackComesLast == Spec => []FallbackClosesTheChain
<1>1. IInv => FallbackClosesTheChain
    <2> DEFINE base == RouteChain(cfg, alias)
    <2> SUFFICES ASSUME IInv, Resolved, cfg.fallback # None,
                        \A i \in DOMAIN base : base[i] # cfg.fallback,
                        NEW i \in DOMAIN outcome.chain, NEW j \in DOMAIN outcome.chain,
                        i < j, outcome.chain[i] = cfg.fallback
                 PROVE  /\ Preferred(cfg, status, exhausted, outcome.chain[i].provider)
                        /\ ~Preferred(cfg, status, exhausted, outcome.chain[j].provider)
        BY DEF FallbackClosesTheChain
    <2> DEFINE fb == cfg.fallback
               C == AnyTarget(cfg, alias)
               U == UsableProviders(cfg, status, exhausted)
               D == cfg.providers \ U
               O == {base[k] : k \in DOMAIN base}
    <2>1. /\ outcome.chain = ResolveCandidates(cfg, status, exhausted, alias)
          /\ cfg \in Configs
        BY ResolvedShape DEF IInv
    <2>2. RawChain(cfg, alias) = Append(base, fb)
        BY DEF RawChain
    <2>3. base \in Seq(C) /\ fb \in Candidate
        BY <2>1, RawTyped, ConfigsAssumption
    <2>4. outcome.chain = KeepProviders(Append(base, fb), U) \o KeepProviders(Append(base, fb), D)
        <3> DEFINE r == RawChain(cfg, alias)
        <3>1. outcome.chain = KeepProviders(r, U) \o KeepProviders(r, D)
            BY <2>1, ChainShape
        <3> HIDE DEF r, U, D
        <3>2. QED
            BY <2>2, <3>1 DEF r
    <2>5. \A q : Preferred(cfg, status, exhausted, q) /\ q \in cfg.providers <=> q \in U
        BY DEF UsableProviders
    <2>6. fb \notin O
        OBVIOUS
    <2>0. D \cap U = {}
        OBVIOUS
    <2> HIDE DEF base, C, U, D
    <2>7. base \in Seq(O)
        BY <2>3
    <2>8. /\ base \in Seq(O \cup {fb}) /\ fb \in O \cup {fb}
        BY <2>7, SeqMonotonic
    <2> HIDE DEF O
    <2> DEFINE front == KeepProviders(base, U)
               rest == KeepProviders(base, D)
               E == O \cup {fb}
    <2>9. /\ KeepProviders(Append(base, fb), U) = IF fb.provider \in U THEN Append(front, fb) ELSE front
          /\ KeepProviders(Append(base, fb), D) = IF fb.provider \in D THEN Append(rest, fb) ELSE rest
        <3>1. base \in Seq(E) /\ fb \in E
            BY <2>8
        <3> HIDE DEF E, fb
        <3>2. ASSUME NEW P
              PROVE  KeepProviders(Append(base, fb), P) =
                        IF fb.provider \in P THEN Append(KeepProviders(base, P), fb)
                        ELSE KeepProviders(base, P)
            BY <3>1, KeepAppend
        <3>3. QED
            BY <3>2
    <2>10. front \in Seq({c \in O : c.provider \in U}) /\ rest \in Seq({c \in O : c.provider \in D})
        BY <2>7, KeepShape
    <2> HIDE DEF front, rest
    <2>11. front \in Seq(O) /\ rest \in Seq(O)
        BY <2>10
    <2>12. CASE fb.provider \in U
        <3>1. outcome.chain = Append(front, fb) \o rest
            BY <2>0, <2>4, <2>9, <2>12
        <3>2. /\ DOMAIN outcome.chain = 1..(Len(front) + 1 + Len(rest))
              /\ Len(front) \in Nat /\ Len(rest) \in Nat
              /\ \A k \in 1..Len(front) : outcome.chain[k] = front[k]
              /\ \A k \in 1..Len(rest) : outcome.chain[Len(front) + 1 + k] = rest[k]
            BY <2>10, <3>1
        <3>3. i \notin 1..Len(front)
            BY <2>6, <2>11, <3>2
        <3>4. j - (Len(front) + 1) \in 1..Len(rest)
            BY <3>2, <3>3
        <3>5. outcome.chain[j] = rest[j - (Len(front) + 1)]
            BY <3>2, <3>4
        <3>6. outcome.chain[j].provider \in D
            BY <2>10, <3>4, <3>5
        <3>7. D \subseteq cfg.providers
            BY DEF D
        <3>8. QED
            BY <2>5, <2>0, <2>12, <3>6, <3>7
    <2>13. CASE fb.provider \in D
        <3>1. outcome.chain = front \o Append(rest, fb)
            BY <2>0, <2>4, <2>9, <2>13
        <3>2. /\ DOMAIN outcome.chain = 1..(Len(front) + Len(rest) + 1)
              /\ Len(front) \in Nat /\ Len(rest) \in Nat
              /\ \A k \in 1..Len(front) : outcome.chain[k] = front[k]
              /\ \A k \in 1..Len(rest) : outcome.chain[Len(front) + k] = rest[k]
            BY <2>11, <3>1
        <3>3. i \notin 1..Len(front)
            BY <2>6, <2>11, <3>2
        <3>4. i - Len(front) \in 1..Len(rest) /\ i = Len(front) + (i - Len(front))
            BY <3>2, <3>3
        <3>5. outcome.chain[i] = rest[i - Len(front)]
            BY <3>2, <3>4
        <3>6. QED
            BY <2>6, <2>11, <3>4, <3>5
    <2>14. CASE fb.provider \notin U /\ fb.provider \notin D
        <3>1. outcome.chain = front \o rest
            BY <2>4, <2>9, <2>14
        <3>2. outcome.chain \in Seq(O)
            BY <2>11, <3>1
        <3>3. QED
            BY <2>6, <3>2
    <2>15. QED
        BY <2>12, <2>13, <2>14
<1>2. QED
    BY <1>1, Invariance, PTL
=============================================================================
