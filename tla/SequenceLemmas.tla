--------------------------- MODULE SequenceLemmas ---------------------------
(***************************************************************************)
(* Induction over the natural numbers in a first-order form, from the      *)
(* well-foundedness of their order, and what the proofs need to know of    *)
(* operators that are defined by recursive functions or by CHOOSE.         *)
(***************************************************************************)
EXTENDS SequencesExt, Selecting, SequenceTheorems, FiniteSetTheorems, WellFoundedInduction, TLAPS

\* A set of natural numbers has a least element.
LEMMA Least ==
    ASSUME NEW T \in SUBSET Nat, T # {}
    PROVE  \E n \in T : \A m \in T : n <= m
<1> DEFINE R == {ss \in Nat \X Nat : ss[1] < ss[2]}
<1>1. IsWellFoundedOn(R, Nat)
    BY NatLessThanWellFounded DEF OpToRel
<1>2. \E n \in T : \A m \in T : <<m, n>> \notin R
    <2> HIDE DEF R
    <2>1. QED
        BY <1>1, WFMin
<1>3. PICK n \in T : \A m \in T : <<m, n>> \notin R
    BY <1>2
<1>4. ASSUME NEW m \in T PROVE n <= m
    <2>1. <<m, n>> \notin R /\ m \in Nat /\ n \in Nat
        BY <1>3
    <2>2. ~(m < n)
        BY <2>1
    <2> HIDE DEF R
    <2>3. QED
        BY <2>1, <2>2
<1>5. QED
    BY <1>4

\* What holds of zero, and of n + 1 if it does of n, holds of all.
LEMMA Induction ==
    ASSUME NEW T, 0 \in T, \A n \in Nat : n \in T => n + 1 \in T
    PROVE  \A n \in Nat : n \in T
<1> DEFINE Bad == {n \in Nat : n \notin T}
<1> SUFFICES ASSUME Bad # {} PROVE FALSE
    OBVIOUS
<1>1. PICK n \in Bad : \A m \in Bad : n <= m
    BY Least
<1>2. n \in Nat /\ n \notin T /\ n # 0
    OBVIOUS
<1>3. n - 1 \in Nat /\ n - 1 < n /\ (n - 1) + 1 = n
    BY <1>2
<1>4. n - 1 \in T
    BY <1>1, <1>3, <1>2
<1>5. QED
    BY <1>2, <1>3, <1>4

\* What holds of the empty set, and of S if of S without any one of its elements,
\* holds of every subset of a finite set.
LEMMA Shrinking ==
    ASSUME NEW E, IsFiniteSet(E), NEW T, {} \in T,
           \A S \in SUBSET E : S # {} /\ (\A e \in S : S \ {e} \in T) => S \in T
    PROVE  \A S \in SUBSET E : S \in T
<1> DEFINE N == {n \in Nat : \A S \in SUBSET E : Cardinality(S) = n => S \in T}
<1>1. 0 \in N
    <2>1. ASSUME NEW S \in SUBSET E, Cardinality(S) = 0 PROVE S \in T
        BY <2>1, FS_Subset, FS_EmptySet
    <2>2. QED
        BY <2>1
<1>2. ASSUME NEW n \in Nat, n \in N PROVE n + 1 \in N
    <2> SUFFICES ASSUME NEW S \in SUBSET E, Cardinality(S) = n + 1 PROVE S \in T
        OBVIOUS
    <2>1. S # {} /\ IsFiniteSet(S)
        BY FS_EmptySet, FS_Subset
    <2>2. ASSUME NEW e \in S PROVE S \ {e} \in T
        <3>1. Cardinality(S \ {e}) = Cardinality(S) - 1
            BY <2>1, FS_RemoveElement
        <3>2. Cardinality(S \ {e}) = n /\ S \ {e} \in SUBSET E
            BY <3>1
        <3>3. QED
            BY <1>2, <3>2
    <2>3. QED
        BY <2>1, <2>2
<1>3. \A S \in SUBSET E : Cardinality(S) \in Nat
    BY FS_Subset, FS_CardinalityType
<1>4. \A n \in Nat : n \in N
    <2> HIDE DEF N
    <2>1. QED
        BY <1>1, <1>2, Induction
<1>5. QED
    BY <1>3, <1>4

\* What holds of the empty sequence, and of Append(s, c) if it does of s, holds
\* of every sequence.
LEMMA Appending ==
    ASSUME NEW C, NEW T, <<>> \in T,
           \A s \in Seq(C) : \A c \in C : s \in T => Append(s, c) \in T
    PROVE  \A s \in Seq(C) : s \in T
<1> DEFINE N == {n \in Nat : \A s \in Seq(C) : Len(s) = n => s \in T}
<1>1. 0 \in N
    BY EmptySeq
<1>2. ASSUME NEW n \in Nat, n \in N PROVE n + 1 \in N
    <2> SUFFICES ASSUME NEW s \in Seq(C), Len(s) = n + 1 PROVE s \in T
        OBVIOUS
    <2> DEFINE r == [i \in 1..n |-> s[i]]
    <2>1. \A i \in 1..n : s[i] \in C
        OBVIOUS
    <2>2. r \in Seq(C) /\ Len(r) = n /\ s[n + 1] \in C
        BY <2>1
    <2>3. Append(r, s[n + 1]) = s
        OBVIOUS
    <2>4. r \in T
        BY <2>2, <1>2
    <2> HIDE DEF r
    <2>5. QED
        BY <2>2, <2>3, <2>4
<1> HIDE DEF N
<1>3. \A n \in Nat : n \in N
    BY <1>1, <1>2, Induction
<1>4. QED
    BY <1>3 DEF N

\* The least element is the one that Min chooses.
LEMMA MinIsLeast ==
    ASSUME NEW S \in SUBSET Nat, S # {}
    PROVE  Min(S) \in S /\ \A m \in S : Min(S) <= m
BY Least DEF Min

-----------------------------------------------------------------------------
\* A loop over a sequence: what is in D stays there with every element of C.
StepsWithin(G, D, C) == \A d \in D : \A c \in C : G[<<d, c>>] \in D

\* What such a loop has made after each element of s.
IsRun(f, s, D, start, G) ==
    /\ f \in [0..Len(s) -> D]
    /\ f[0] = start
    /\ \A n \in 1..Len(s) : f[n] = G[<<f[n - 1], s[n]>>]

\* What it makes of every sequence.
IsFold(F, C, D, start, G) ==
    /\ F \in [Seq(C) -> D]
    /\ F[<<>>] = start
    /\ \A s \in Seq(C) : \A c \in C : F[Append(s, c)] = G[<<F[s], c>>]

\* There is such a run of every sequence.
LEMMA Running ==
    ASSUME NEW C, NEW D, NEW start \in D, NEW G, StepsWithin(G, D, C), NEW s \in Seq(C)
    PROVE  \E f : IsRun(f, s, D, start, G)
<1> DEFINE Steps(f, m) == f[0] = start /\ \A n \in 1..m : f[n] = G[<<f[n - 1], s[n]>>]
           T == {m \in Nat : m <= Len(s) => \E f \in [0..m -> D] : Steps(f, m)}
<1>0. Len(s) \in Nat /\ \A n \in 1..Len(s) : s[n] \in C
    BY LenProperties, ElementOfSeq
<1>1. 0 \in T
    <2> DEFINE f == [n \in 0..0 |-> start]
    <2>1. f \in [0..0 -> D] /\ Steps(f, 0)
        OBVIOUS
    <2> HIDE DEF f, Steps
    <2>2. QED
        BY <2>1
<1>2. ASSUME NEW m \in Nat, m \in T PROVE m + 1 \in T
    <2> SUFFICES ASSUME m + 1 <= Len(s) PROVE \E f \in [0..(m + 1) -> D] : Steps(f, m + 1)
        OBVIOUS
    <2>1. PICK f \in [0..m -> D] : Steps(f, m)
        BY <1>0, <1>2
    <2> DEFINE next == G[<<f[m], s[m + 1]>>]
               g == [n \in 0..(m + 1) |-> IF n = m + 1 THEN next ELSE f[n]]
    <2>2. next \in D
        <3>1. f[m] \in D /\ s[m + 1] \in C
            BY <1>0
        <3>2. QED
            BY <3>1 DEF StepsWithin
    <2>3. g \in [0..(m + 1) -> D]
        BY <2>2
    <2>4. Steps(g, m + 1)
        <3>1. g[0] = start
            BY <2>1
        <3>2. ASSUME NEW n \in 1..(m + 1) PROVE g[n] = G[<<g[n - 1], s[n]>>]
            <4>1. n - 1 \in 0..m /\ g[n - 1] = f[n - 1]
                OBVIOUS
            <4>2. CASE n = m + 1
                <5>1. n - 1 = m /\ g[n] = next
                    BY <4>2
                <5> HIDE DEF g
                <5>2. QED
                    BY <4>1, <4>2, <5>1
            <4>3. CASE n # m + 1
                <5>1. n \in 1..m /\ g[n] = f[n]
                    BY <4>3
                <5>2. f[n] = G[<<f[n - 1], s[n]>>]
                    BY <2>1, <5>1
                <5> HIDE DEF g
                <5>3. QED
                    BY <4>1, <5>1, <5>2
            <4>4. QED
                BY <4>2, <4>3
        <3> HIDE DEF g
        <3>3. QED
            BY <3>1, <3>2
    <2> HIDE DEF g, Steps
    <2>5. QED
        BY <2>3, <2>4
<1>3. Len(s) \in T
    <2> HIDE DEF T
    <2>1. QED
        BY <1>0, <1>1, <1>2, Induction
<1>4. QED
    BY <1>0, <1>3 DEF IsRun

\* The run over a longer sequence begins with the run over a shorter one.
LEMMA RunsAgree ==
    ASSUME NEW C, NEW D, NEW start, NEW G, NEW s \in Seq(C), NEW c \in C, NEW f, NEW g,
           IsRun(f, s, D, start, G), IsRun(g, Append(s, c), D, start, G)
    PROVE  g[Len(Append(s, c))] = G[<<f[Len(s)], c>>]
<1> DEFINE t == Append(s, c)
<1>0. /\ Len(s) \in Nat /\ Len(t) = Len(s) + 1 /\ t[Len(t)] = c
      /\ \A n \in 1..Len(s) : t[n] = s[n]
    BY AppendProperties, LenProperties
<1>a. IsRun(g, t, D, start, G)
    OBVIOUS
<1> HIDE DEF t
<1> DEFINE T == {n \in Nat : n <= Len(s) => f[n] = g[n]}
<1>1. 0 \in T
    BY <1>a DEF IsRun
<1>2. ASSUME NEW n \in Nat, n \in T PROVE n + 1 \in T
    <2> SUFFICES ASSUME n + 1 <= Len(s) PROVE f[n + 1] = g[n + 1]
        OBVIOUS
    <2>1. n + 1 \in 1..Len(s) /\ n + 1 \in 1..Len(t) /\ (n + 1) - 1 = n /\ t[n + 1] = s[n + 1] /\ n <= Len(s)
        BY <1>0
    <2>2. f[n + 1] = G[<<f[n], s[n + 1]>>] /\ g[n + 1] = G[<<g[n], t[n + 1]>>]
        BY <1>a, <2>1 DEF IsRun
    <2>3. QED
        BY <1>2, <2>1, <2>2
<1>3. f[Len(s)] = g[Len(s)]
    <2>1. Len(s) \in T
        <3> HIDE DEF T
        <3>1. QED
            BY <1>0, <1>1, <1>2, Induction
    <2>2. QED
        BY <2>1
<1>4. Len(t) \in 1..Len(t) /\ Len(t) - 1 = Len(s)
    BY <1>0
<1>5. QED
    BY <1>0, <1>a, <1>3, <1>4 DEF IsRun, t

\* There is a function that says what a loop makes of a sequence.
LEMMA Folding ==
    ASSUME NEW C, NEW D, NEW start \in D, NEW G, StepsWithin(G, D, C)
    PROVE  \E F : IsFold(F, C, D, start, G)
<1> DEFINE Run(s) == CHOOSE f : IsRun(f, s, D, start, G)
           F == [s \in Seq(C) |-> Run(s)[Len(s)]]
<1>1. ASSUME NEW s \in Seq(C) PROVE IsRun(Run(s), s, D, start, G) /\ Run(s)[Len(s)] \in D
    <2>1. IsRun(Run(s), s, D, start, G)
        BY Running
    <2> HIDE DEF Run
    <2>2. Len(s) \in 0..Len(s)
        BY LenProperties
    <2>3. QED
        BY <2>1, <2>2 DEF IsRun
<1> HIDE DEF Run
<1>2. F \in [Seq(C) -> D]
    BY <1>1
<1>3. F[<<>>] = start
    <2>1. <<>> \in Seq(C) /\ Len(<<>>) = 0
        BY EmptySeq
    <2>2. Run(<<>>)[0] = start
        BY <1>1, <2>1 DEF IsRun
    <2>3. QED
        BY <2>1, <2>2
<1>4. ASSUME NEW s \in Seq(C), NEW c \in C PROVE F[Append(s, c)] = G[<<F[s], c>>]
    <2> DEFINE t == Append(s, c)
    <2>1. /\ t \in Seq(C) /\ Len(s) \in Nat /\ Len(t) = Len(s) + 1 /\ t[Len(t)] = c
          /\ \A n \in 1..Len(s) : t[n] = s[n]
        BY AppendProperties, LenProperties
    <2> HIDE DEF t
    <2>2. IsRun(Run(s), s, D, start, G) /\ IsRun(Run(t), t, D, start, G)
        BY <1>1, <2>1
    <2>3. Run(t)[Len(t)] = G[<<Run(s)[Len(s)], c>>]
        BY <2>2, RunsAgree DEF t
    <2>4. QED
        BY <2>1, <2>3 DEF t
<1> HIDE DEF F
<1>5. QED
    BY <1>2, <1>3, <1>4 DEF IsFold

-----------------------------------------------------------------------------
\* Flattening is by a function that appends one sequence after another.
LEMMA Flattening ==
    ASSUME NEW ss, Len(ss) \in Nat, Len(ss) # 0
    PROVE  \E f : /\ FlattenSeq(ss) = f[Len(ss)]
                  /\ f[1] = ss[1]
                  /\ \A i \in 2..Len(ss) : f[i] = f[i - 1] \o ss[i]
<1> DEFINE Body(f, i) == IF i = 1 THEN ss[i] ELSE f[i - 1] \o ss[i]
<1> DEFINE T == {n \in Nat : \E f : f = [i \in 1..n |-> Body(f, i)]}
<1>1. 0 \in T
    <2>1. PICK f : f = [i \in {} |-> 0]
        OBVIOUS
    <2>2. DOMAIN f = {} /\ f = [i \in DOMAIN f |-> f[i]]
        BY <2>1
    <2>3. f = [i \in {} |-> Body(f, i)]
        BY <2>2
    <2>4. 1..0 = {}
        OBVIOUS
    <2>5. QED
        BY <2>3, <2>4
<1>2. ASSUME NEW n \in Nat, n \in T PROVE n + 1 \in T
    <2>1. PICK f : f = [i \in 1..n |-> Body(f, i)]
        BY <1>2
    <2> DEFINE g == [i \in 1..(n + 1) |-> IF i = n + 1 THEN Body(f, i) ELSE f[i]]
    <2>2. ASSUME NEW i \in 1..(n + 1) PROVE g[i] = Body(g, i)
        <3>1. i # 1 => i - 1 \in 1..(n + 1) /\ i - 1 # n + 1
            OBVIOUS
        <3>2. i # 1 => g[i - 1] = f[i - 1]
            BY <3>1
        <3>3. CASE i = n + 1
            BY <3>2, <3>3
        <3>4. CASE i # n + 1
            <4>1. i \in 1..n
                BY <3>4
            <4>2. f[i] = Body(f, i)
                BY <4>1, <2>1
            <4>3. QED
                BY <3>2, <3>4, <4>2
        <3>5. QED
            BY <3>3, <3>4
    <2>3. g = [i \in 1..(n + 1) |-> Body(g, i)]
        BY <2>2
    <2> HIDE DEF g
    <2>4. \E h : h = [i \in 1..(n + 1) |-> Body(h, i)]
        BY <2>3
    <2>5. n + 1 \in Nat
        OBVIOUS
    <2> HIDE DEF Body
    <2>6. QED
        BY <2>4, <2>5
<1>3. Len(ss) \in T
    <2> HIDE DEF T
    <2>1. QED
        BY <1>1, <1>2, Induction
<1> DEFINE f == CHOOSE f : f = [i \in 1..Len(ss) |-> IF i = 1 THEN ss[i] ELSE f[i - 1] \o ss[i]]
<1>4. f = [i \in 1..Len(ss) |-> IF i = 1 THEN ss[i] ELSE f[i - 1] \o ss[i]]
    BY <1>3
<1>5. FlattenSeq(ss) = f[Len(ss)]
    BY DEF FlattenSeq
<1> HIDE DEF f
<1>6. f[1] = ss[1] /\ \A i \in 2..Len(ss) : f[i] = f[i - 1] \o ss[i]
    <2>1. \A i \in 1..Len(ss) : f[i] = IF i = 1 THEN ss[i] ELSE f[i - 1] \o ss[i]
        BY <1>4
    <2>2. 1 \in 1..Len(ss) /\ \A i \in 2..Len(ss) : i \in 1..Len(ss) /\ i # 1
        OBVIOUS
    <2>3. QED
        BY <2>1, <2>2
<1>7. QED
    BY <1>5, <1>6

\* What is flattened has the elements of the parts.
LEMMA FlattenTyped ==
    ASSUME NEW C, NEW ss \in Seq(Seq(C))
    PROVE  FlattenSeq(ss) \in Seq(C)
<1>0. Len(ss) \in Nat /\ \A i \in 1..Len(ss) : ss[i] \in Seq(C)
    BY LenProperties, ElementOfSeq
<1>1. CASE Len(ss) = 0
    <2>1. ss = <<>>
        BY <1>1, EmptySeq
    <2>2. FlattenSeq(ss) = ss
        BY <1>1 DEF FlattenSeq
    <2>3. QED
        BY <2>1, <2>2, EmptySeq
<1>2. CASE Len(ss) # 0
    <2>1. PICK f : /\ FlattenSeq(ss) = f[Len(ss)]
                   /\ f[1] = ss[1]
                   /\ \A i \in 2..Len(ss) : f[i] = f[i - 1] \o ss[i]
        BY <1>0, <1>2, Flattening
    <2> DEFINE T == {n \in Nat : n \in 1..Len(ss) => f[n] \in Seq(C)}
    <2>2. 0 \in T
        OBVIOUS
    <2>3. ASSUME NEW n \in Nat, n \in T PROVE n + 1 \in T
        <3> SUFFICES ASSUME n + 1 \in 1..Len(ss) PROVE f[n + 1] \in Seq(C)
            OBVIOUS
        <3>1. CASE n = 0
            BY <1>0, <2>1, <3>1
        <3>2. CASE n # 0
            <4>1. n + 1 \in 2..Len(ss) /\ n \in 1..Len(ss) /\ (n + 1) - 1 = n
                BY <1>0, <3>2
            <4>2. f[n] \in Seq(C) /\ ss[n + 1] \in Seq(C) /\ f[n + 1] = f[n] \o ss[n + 1]
                BY <1>0, <2>1, <2>3, <4>1
            <4>3. f[n] \o ss[n + 1] \in Seq(C)
                BY <4>2, ConcatProperties
            <4>4. QED
                BY <4>2, <4>3
        <3>3. QED
            BY <3>1, <3>2
    <2>4. Len(ss) \in T
        <3> HIDE DEF T
        <3>1. QED
            BY <1>0, <2>2, <2>3, Induction
    <2>5. QED
        BY <1>0, <1>2, <2>1, <2>4
<1>3. QED
    BY <1>1, <1>2

\* A finite set of natural numbers can be listed in ascending order.
LEMMA Listing ==
    ASSUME NEW S \in SUBSET Nat, IsFiniteSet(S)
    PROVE  \E s \in [1..Cardinality(S) -> S] :
              \A i, j \in 1..Cardinality(S) : i < j => s[i] < s[j]
<1> DEFINE Listed(U, n) == \E s \in [1..n -> U] : \A i, j \in 1..n : i < j => s[i] < s[j]
<1> DEFINE T == {n \in Nat : \A U \in SUBSET Nat :
                    IsFiniteSet(U) /\ Cardinality(U) = n => Listed(U, n)}
<1>1. 0 \in T
    <2> SUFFICES ASSUME NEW U \in SUBSET Nat PROVE Listed(U, 0)
        OBVIOUS
    <2>1. 1..0 = {}
        OBVIOUS
    <2>2. PICK s : s = [i \in {} |-> 0]
        OBVIOUS
    <2>3. s \in [{} -> U]
        BY <2>2
    <2>4. s \in [1..0 -> U] /\ \A i, j \in 1..0 : i < j => s[i] < s[j]
        BY <2>1, <2>3
    <2>5. QED
        BY <2>4
<1>2. ASSUME NEW n \in Nat, n \in T PROVE n + 1 \in T
    <2> SUFFICES ASSUME NEW U \in SUBSET Nat, IsFiniteSet(U), Cardinality(U) = n + 1
                 PROVE  Listed(U, n + 1)
        OBVIOUS
    <2>1. U # {}
        BY FS_EmptySet
    <2>2. PICK m \in U : \A k \in U : m <= k
        BY <2>1, Least
    <2>3. IsFiniteSet(U \ {m}) /\ Cardinality(U \ {m}) = n /\ U \ {m} \in SUBSET Nat
        BY FS_RemoveElement
    <2>4. PICK s \in [1..n -> U \ {m}] : \A i, j \in 1..n : i < j => s[i] < s[j]
        BY <1>2, <2>3
    <2> DEFINE t == [i \in 1..(n + 1) |-> IF i = 1 THEN m ELSE s[i - 1]]
    <2>5. \A i \in 1..(n + 1) : i # 1 => i - 1 \in 1..n /\ s[i - 1] \in U /\ s[i - 1] # m
        OBVIOUS
    <2>6. t \in [1..(n + 1) -> U]
        BY <2>5
    <2>7. ASSUME NEW i \in 1..(n + 1), NEW j \in 1..(n + 1), i < j PROVE t[i] < t[j]
        <3>1. j # 1 /\ t[j] = s[j - 1] /\ t[j] \in U /\ t[j] # m /\ j - 1 \in 1..n
            BY <2>5, <2>7
        <3>2. CASE i = 1
            <4>1. t[i] = m /\ m <= t[j] /\ t[j] # m
                BY <3>1, <3>2, <2>2
            <4> HIDE DEF t
            <4>2. m \in Nat /\ t[j] \in Nat
                BY <3>1
            <4>3. QED
                BY <4>1, <4>2
        <3>3. CASE i # 1
            BY <3>1, <3>3, <2>4, <2>5, <2>7
        <3>4. QED
            BY <3>2, <3>3
    <2> HIDE DEF t
    <2>8. QED
        BY <2>6, <2>7
<1>3. Cardinality(S) \in Nat
    BY FS_CardinalityType
<1>4. Cardinality(S) \in T
    <2> HIDE DEF T
    <2>1. QED
        BY <1>1, <1>2, <1>3, Induction
<1>5. QED
    BY <1>4

-----------------------------------------------------------------------------
\* Sequences that begin with others.

\* A sequence up to n + 1 is the one up to n, and one more element.
LEMMA UpTo ==
    ASSUME NEW C, NEW s \in Seq(C)
    PROVE  /\ Len(s) \in Nat
           /\ SubSeq(s, 1, 0) = <<>>
           /\ SubSeq(s, 1, Len(s)) = s
           /\ \A n \in 0..Len(s) : SubSeq(s, 1, n) \in Seq(C) /\ Len(SubSeq(s, 1, n)) = n
           /\ \A n \in 1..Len(s) : SubSeq(s, 1, n) = Append(SubSeq(s, 1, n - 1), s[n])
<1>1. Len(s) \in Nat /\ \A n \in 1..Len(s) : s[n] \in C
    BY LenProperties, ElementOfSeq
<1>2. ASSUME NEW n \in 0..Len(s)
      PROVE  /\ SubSeq(s, 1, n) = [i \in 1..n |-> s[i]]
             /\ SubSeq(s, 1, n) \in Seq(C) /\ Len(SubSeq(s, 1, n)) = n
    <2>1. SubSeq(s, 1, n) = [i \in 1..n |-> s[i]]
        BY <1>1
    <2>2. [i \in 1..n |-> s[i]] \in Seq(C) /\ Len([i \in 1..n |-> s[i]]) = n
        BY <1>1
    <2>3. QED
        BY <2>1, <2>2
<1>3. SubSeq(s, 1, 0) = <<>>
    <2>1. 0 \in 0..Len(s)
        BY <1>1
    <2>2. QED
        BY <1>2, <2>1, EmptySeq
<1>4. SubSeq(s, 1, Len(s)) = s
    <2>1. Len(s) \in 0..Len(s) /\ s = [i \in 1..Len(s) |-> s[i]]
        BY <1>1, LenProperties
    <2>2. QED
        BY <1>2, <2>1
<1>5. ASSUME NEW n \in 1..Len(s) PROVE SubSeq(s, 1, n) = Append(SubSeq(s, 1, n - 1), s[n])
    <2> DEFINE r == [i \in 1..(n - 1) |-> s[i]]
    <2>1. n \in 0..Len(s) /\ n - 1 \in 0..Len(s) /\ s[n] \in C
        BY <1>1
    <2>2. SubSeq(s, 1, n) = [i \in 1..n |-> s[i]] /\ SubSeq(s, 1, n - 1) = r
        BY <1>2, <2>1
    <2>3. r \in Seq(C) /\ Len(r) = n - 1
        BY <1>2, <2>1, <2>2
    <2>4. Append(r, s[n]) = [i \in 1..n |-> s[i]]
        <3>1. /\ Append(r, s[n]) \in Seq(C) /\ Len(Append(r, s[n])) = (n - 1) + 1
              /\ \A i \in 1..(n - 1) : Append(r, s[n])[i] = r[i]
              /\ Append(r, s[n])[(n - 1) + 1] = s[n]
            <4> HIDE DEF r
            <4>1. QED
                BY <2>1, <2>3, AppendProperties
        <3> DEFINE t == Append(r, s[n])
        <3>2. Len(t) = n /\ t = [i \in 1..Len(t) |-> t[i]]
            <4>1. (n - 1) + 1 = n
                BY <2>1
            <4> HIDE DEF r
            <4>2. QED
                BY <3>1, <4>1, LenProperties
        <3>3. \A i \in 1..n : t[i] = s[i]
            <4>1. \A i \in 1..(n - 1) : r[i] = s[i]
                OBVIOUS
            <4>2. (n - 1) + 1 = n /\ \A i \in 1..n : i # n => i \in 1..(n - 1)
                BY <2>1
            <4> HIDE DEF r, t
            <4>3. QED
                BY <3>1, <4>1, <4>2 DEF t
        <3> HIDE DEF t, r
        <3>4. QED
            BY <3>2, <3>3 DEF t
    <2>5. QED
        BY <2>2, <2>4
<1>6. QED
    BY <1>1, <1>2, <1>3, <1>4, <1>5

\* t begins with s.
Extends(s, t) == Len(s) <= Len(t) /\ \A i \in 1..Len(s) : t[i] = s[i]

\* That is what it means to be a prefix.
LEMMA ExtendsIsPrefix ==
    ASSUME NEW C, NEW s \in Seq(C), NEW t \in Seq(C), Extends(s, t)
    PROVE  IsPrefix(s, t) /\ s = SubSeq(t, 1, Len(s)) /\ Len(s) \in 0..Len(t)
<1>1. Len(s) \in 0..Len(t) /\ Len(s) \in Nat /\ Len(t) \in Nat /\ Len(s) <= Len(t)
    BY LenProperties DEF Extends
<1>2. SubSeq(s, 1, Len(s)) = s
    BY UpTo
<1>3. SubSeq(t, 1, Len(s)) = s
    <2>1. SubSeq(t, 1, Len(s)) = [i \in 1..Len(s) |-> t[i]]
        BY <1>1
    <2>2. [i \in 1..Len(s) |-> t[i]] = [i \in 1..Len(s) |-> s[i]]
        BY DEF Extends
    <2>3. s = [i \in 1..Len(s) |-> s[i]]
        BY LenProperties
    <2>4. QED
        BY <2>1, <2>2, <2>3
<1>4. QED
    BY <1>1, <1>2, <1>3 DEF IsPrefix

\* Extending is transitive.
LEMMA ExtendsFurther ==
    ASSUME NEW C, NEW r \in Seq(C), NEW s \in Seq(C), NEW t \in Seq(C), Extends(r, s), Extends(s, t)
    PROVE  Extends(r, t)
<1>1. Len(r) \in Nat /\ Len(s) \in Nat /\ Len(t) \in Nat
    BY LenProperties
<1>2. QED
    BY <1>1 DEF Extends

\* What is put behind a sequence extends it.
LEMMA ExtendedByMore ==
    ASSUME NEW C, NEW s \in Seq(C), NEW t \in Seq(C)
    PROVE  Extends(s, s \o t) /\ Extends(s, s)
<1>1. /\ Len(s) \in Nat /\ Len(t) \in Nat /\ Len(s \o t) = Len(s) + Len(t)
      /\ \A i \in 1..(Len(s) + Len(t)) : (s \o t)[i] = IF i <= Len(s) THEN s[i] ELSE t[i - Len(s)]
    BY LenProperties, ConcatProperties
<1>2. QED
    BY <1>1 DEF Extends

\* So does one more element.
LEMMA ExtendedByOne ==
    ASSUME NEW C, NEW s \in Seq(C), NEW e \in C
    PROVE  Extends(s, Append(s, e))
<1>1. /\ Len(s) \in Nat /\ Len(Append(s, e)) = Len(s) + 1
      /\ \A i \in 1..Len(s) : Append(s, e)[i] = s[i]
    BY LenProperties, AppendProperties
<1>2. QED
    BY <1>1 DEF Extends

\* One more part goes behind the others.
LEMMA FlattenAppend ==
    ASSUME NEW C, NEW ss \in Seq(Seq(C)), NEW s \in Seq(C)
    PROVE  FlattenSeq(Append(ss, s)) = FlattenSeq(ss) \o s
<1> DEFINE t == Append(ss, s)
           n == Len(ss)
<1>1. /\ n \in Nat /\ t \in Seq(Seq(C)) /\ Len(t) = n + 1
      /\ \A i \in 1..n : t[i] = ss[i]
      /\ t[n + 1] = s
    BY AppendProperties, LenProperties
<1> HIDE DEF t
<1>0. Len(t) \in Nat /\ Len(t) # 0
    BY <1>1
<1>2. PICK g : /\ FlattenSeq(t) = g[Len(t)]
               /\ g[1] = t[1]
               /\ \A i \in 2..Len(t) : g[i] = g[i - 1] \o t[i]
    BY <1>0, Flattening
<1>3. CASE n = 0
    <2>1. ss = <<>>
        BY <1>3, EmptySeq
    <2>2. FlattenSeq(ss) = <<>>
        BY <2>1 DEF FlattenSeq
    <2>3. FlattenSeq(t) = s
        BY <1>1, <1>2, <1>3
    <2>4. <<>> \o s = s
        BY ConcatEmptySeq
    <2>5. QED
        BY <2>2, <2>3, <2>4 DEF t
<1>4. CASE n # 0
    <2>1. PICK f : /\ FlattenSeq(ss) = f[n]
                   /\ f[1] = ss[1]
                   /\ \A i \in 2..n : f[i] = f[i - 1] \o ss[i]
        BY <1>1, <1>4, Flattening
    <2> DEFINE T == {m \in Nat : m \in 1..n => g[m] = f[m]}
    <2>2. 0 \in T
        OBVIOUS
    <2>3. ASSUME NEW m \in Nat, m \in T PROVE m + 1 \in T
        <3> SUFFICES ASSUME m + 1 \in 1..n PROVE g[m + 1] = f[m + 1]
            OBVIOUS
        <3>1. CASE m = 0
            <4>1. 1 \in 1..n
                BY <1>1, <1>4
            <4>2. g[1] = f[1]
                BY <1>1, <1>2, <2>1, <4>1
            <4>3. QED
                BY <3>1, <4>2
        <3>2. CASE m # 0
            <4>1. m \in 1..n /\ m + 1 \in 2..n /\ m + 1 \in 2..Len(t) /\ (m + 1) - 1 = m
                BY <1>1, <3>2
            <4>2. g[m] = f[m]
                BY <2>3, <4>1
            <4>3. g[m + 1] = g[m] \o t[m + 1] /\ f[m + 1] = f[m] \o ss[m + 1]
                BY <1>2, <2>1, <4>1
            <4>4. t[m + 1] = ss[m + 1]
                BY <1>1
            <4>5. QED
                BY <4>2, <4>3, <4>4
        <3>3. QED
            BY <3>1, <3>2
    <2> HIDE DEF T
    <2>4. n \in T
        BY <1>1, <2>2, <2>3, Induction
    <2>5. n \in 1..n /\ n + 1 \in 2..Len(t) /\ (n + 1) - 1 = n
        BY <1>1, <1>4
    <2>6. g[n] = f[n]
        BY <2>4, <2>5 DEF T
    <2>7. g[n + 1] = g[n] \o t[n + 1]
        BY <1>2, <2>5
    <2>8. QED
        BY <1>1, <1>2, <2>1, <2>6, <2>7 DEF t
<1>5. QED
    BY <1>3, <1>4

\* As many elements as places: none stands twice.
LEMMA NoneTwice ==
    ASSUME NEW C, NEW s \in Seq(C)
    PROVE  Len(s) = Cardinality(ToSet(s)) <=> \A i, j \in 1..Len(s) : s[i] = s[j] => i = j
<1> DEFINE P == 1..Len(s)
           E == ToSet(s)
<1>1. Len(s) \in Nat /\ DOMAIN s = P /\ s = [i \in P |-> s[i]]
    BY LenProperties
<1>2. E = {s[i] : i \in P}
    BY <1>1 DEF ToSet
<1>3. IsFiniteSet(P) /\ Cardinality(P) = Len(s)
    <2>1. Cardinality(P) = IF 1 > Len(s) THEN 0 ELSE Len(s) - 1 + 1
        BY <1>1, FS_Interval
    <2>2. 1 \in Int /\ Len(s) \in Int
        BY <1>1
    <2>3. IsFiniteSet(1..Len(s))
        BY <2>2, FS_Interval
    <2>4. QED
        BY <1>1, <2>1, <2>3
<1> HIDE DEF P, E
<1>4. s \in [P -> E]
    BY <1>1, <1>2
<1>5. s \in Surjection(P, E)
    BY <1>2, <1>4 DEF Surjection
<1>6. ASSUME Len(s) = Cardinality(E) PROVE \A i, j \in P : s[i] = s[j] => i = j
    <2>1. s \in Injection(P, E)
        BY <1>3, <1>5, <1>6, FS_SurjSameCardinalityImpliesInj
    <2>2. QED
        BY <2>1 DEF Injection, IsInjective
<1>7. ASSUME \A i, j \in P : s[i] = s[j] => i = j PROVE Len(s) = Cardinality(E)
    <2>1. s \in Injection(P, E)
        BY <1>4, <1>7 DEF Injection, IsInjective
    <2>2. s \in Bijection(P, E)
        BY <1>5, <2>1 DEF Bijection
    <2>3. ExistsBijection(P, E)
        BY <2>2 DEF ExistsBijection
    <2>4. QED
        BY <1>3, <2>3, FS_Bijection
<1>8. QED
    BY <1>6, <1>7 DEF P, E

\* What the messages are does not matter, only that they stand in a sequence.
IsSequence(s) == s \in Seq({s[i] : i \in 1..Len(s)})

\* What one more message does to those that go out (out.push).
LEMMA Appended ==
    ASSUME NEW s, NEW e, IsSequence(s)
    PROVE  /\ IsSequence(Append(s, e))
           /\ Len(s) \in Nat
           /\ Len(Append(s, e)) = Len(s) + 1
           /\ \A i \in 1..Len(s) : Append(s, e)[i] = s[i]
           /\ Append(s, e)[Len(s) + 1] = e
<1> DEFINE S == {s[i] : i \in 1..Len(s)} \cup {e}
<1>1. s \in Seq(S) /\ Len(s) \in Nat
    BY LenProperties, SeqMonotonic DEF IsSequence
<1>2. /\ Append(s, e) \in Seq(S)
      /\ Len(Append(s, e)) = Len(s) + 1
      /\ \A i \in 1..Len(s) : Append(s, e)[i] = s[i]
      /\ Append(s, e)[Len(s) + 1] = e
    BY <1>1, AppendProperties
<1>3. IsSequence(Append(s, e))
    <2> DEFINE t == Append(s, e)
    <2>1. Len(t) \in Nat /\ t = [i \in 1..Len(t) |-> t[i]]
        BY <1>2, LenProperties
    <2> HIDE DEF t
    <2>2. [i \in 1..Len(t) |-> t[i]] \in Seq({t[i] : i \in 1..Len(t)})
        BY <2>1
    <2>3. QED
        BY <2>1, <2>2 DEF IsSequence, t
<1>4. QED
    BY <1>1, <1>2, <1>3

\* A parent and its result, one after the other.
LEMMA AppendedBoth ==
    ASSUME NEW s, NEW e, NEW f, IsSequence(s)
    PROVE  /\ IsSequence(s \o <<e, f>>)
           /\ Len(s) \in Nat
           /\ Len(s \o <<e, f>>) = Len(s) + 2
           /\ \A i \in 1..Len(s) : (s \o <<e, f>>)[i] = s[i]
           /\ (s \o <<e, f>>)[Len(s) + 1] = e
           /\ (s \o <<e, f>>)[Len(s) + 2] = f
<1> DEFINE S == {s[i] : i \in 1..Len(s)} \cup {e, f}
           t == s \o <<e, f>>
<1>1. s \in Seq(S) /\ Len(s) \in Nat
    BY LenProperties, SeqMonotonic DEF IsSequence
<1>2. <<e, f>> \in Seq(S) /\ Len(<<e, f>>) = 2
    OBVIOUS
<1> HIDE DEF S
<1>3. /\ t \in Seq(S) /\ Len(t) = Len(s) + 2
      /\ \A i \in 1..(Len(s) + 2) : t[i] = IF i <= Len(s) THEN s[i] ELSE <<e, f>>[i - Len(s)]
    BY <1>1, <1>2, ConcatProperties
<1> HIDE DEF t
<1>4. /\ \A i \in 1..Len(s) : t[i] = s[i]
      /\ t[Len(s) + 1] = e
      /\ t[Len(s) + 2] = f
    BY <1>1, <1>3
<1>5. IsSequence(t)
    <2>1. t = [i \in 1..Len(t) |-> t[i]]
        BY <1>3, LenProperties
    <2>2. [i \in 1..Len(t) |-> t[i]] \in Seq({t[i] : i \in 1..Len(t)})
        BY <1>1, <1>3
    <2>3. QED
        BY <2>1, <2>2 DEF IsSequence
<1>6. QED
    BY <1>1, <1>3, <1>4, <1>5 DEF t

-----------------------------------------------------------------------------
\* What loops pick of sequences, and where it came from.

\* One element of such a loop.
Picking(C, S) ==
    [p \in Seq(C) \X C |-> IF p[2] \in S THEN Append(p[1], p[2]) ELSE p[1]]

\* One step of it.
LEMMA PickingSteps ==
    ASSUME NEW C, NEW S
    PROVE  /\ StepsWithin(Picking(C, S), Seq(C), C)
           /\ \A s \in Seq(C) : \A c \in C :
                 Picking(C, S)[<<s, c>>] = IF c \in S THEN Append(s, c) ELSE s
<1>1. ASSUME NEW s \in Seq(C), NEW c \in C
      PROVE  /\ Picking(C, S)[<<s, c>>] = IF c \in S THEN Append(s, c) ELSE s
             /\ Picking(C, S)[<<s, c>>] \in Seq(C)
    <2>1. <<s, c>> \in Seq(C) \X C
        OBVIOUS
    <2>2. Picking(C, S)[<<s, c>>] = IF c \in S THEN Append(s, c) ELSE s
        BY <2>1 DEF Picking
    <2>3. Append(s, c) \in Seq(C)
        BY AppendProperties
    <2>4. QED
        BY <2>2, <2>3
<1>2. QED
    BY <1>1 DEF StepsWithin

\* Among is that loop.
LEMMA AmongIsFold ==
    ASSUME NEW C, NEW S, NEW F, IsFold(F, C, Seq(C), <<>>, Picking(C, S)), NEW s \in Seq(C)
    PROVE  Among(s, S) = F[s]
<1> DEFINE Body(f, n) == IF n = 0 THEN <<>>
                         ELSE IF s[n] \in S THEN Append(f[n - 1], s[n])
                         ELSE f[n - 1]
           made(n) == F[SubSeq(s, 1, n)]
<1>0. Len(s) \in Nat /\ \A n \in 1..Len(s) : s[n] \in C
    BY LenProperties, ElementOfSeq
<1>1. made(0) = <<>> /\ made(Len(s)) = F[s]
    BY UpTo DEF IsFold
<1>2. ASSUME NEW n \in 1..Len(s)
      PROVE  made(n) = IF s[n] \in S THEN Append(made(n - 1), s[n]) ELSE made(n - 1)
    <2>1. n - 1 \in 0..Len(s) /\ s[n] \in C
        BY <1>0
    <2>2. SubSeq(s, 1, n - 1) \in Seq(C) /\ SubSeq(s, 1, n) = Append(SubSeq(s, 1, n - 1), s[n])
        BY <2>1, UpTo
    <2>3. made(n) = Picking(C, S)[<<made(n - 1), s[n]>>] /\ made(n - 1) \in Seq(C)
        BY <2>1, <2>2 DEF IsFold
    <2>4. QED
        BY <2>1, <2>3, PickingSteps
<1> HIDE DEF made
<1>3. \E f : f = [n \in 0..Len(s) |-> Body(f, n)]
    <2> DEFINE g == [n \in 0..Len(s) |-> made(n)]
    <2>1. ASSUME NEW n \in 0..Len(s) PROVE made(n) = Body(g, n)
        <3>1. CASE n = 0
            BY <1>1, <3>1
        <3>2. CASE n # 0
            <4>1. n \in 1..Len(s) /\ n - 1 \in 0..Len(s)
                BY <1>0, <3>2
            <4>2. g[n - 1] = made(n - 1)
                BY <4>1
            <4> HIDE DEF g
            <4>3. QED
                BY <1>2, <3>2, <4>1, <4>2
        <3>3. QED
            BY <3>1, <3>2
    <2> HIDE DEF Body
    <2>2. g = [n \in 0..Len(s) |-> Body(g, n)]
        BY <2>1
    <2> HIDE DEF g
    <2>3. QED
        BY <2>2
<1> DEFINE pushed == CHOOSE f : f = [n \in 0..Len(s) |->
                        IF n = 0 THEN <<>>
                        ELSE IF s[n] \in S THEN Append(f[n - 1], s[n])
                        ELSE f[n - 1]]
<1>4. pushed = [n \in 0..Len(s) |-> Body(pushed, n)]
    BY <1>3
<1>5. Among(s, S) = pushed[Len(s)]
    BY DEF Among
<1> HIDE DEF pushed
<1>6. \A n \in 0..Len(s) : pushed[n] = Body(pushed, n)
    BY <1>4
<1> DEFINE T == {n \in Nat : n <= Len(s) => pushed[n] = made(n)}
<1>7. 0 \in T
    <2>1. 0 \in 0..Len(s)
        BY <1>0
    <2>2. pushed[0] = <<>>
        BY <1>6, <2>1
    <2>3. QED
        BY <1>1, <2>2
<1>8. ASSUME NEW n \in Nat, n \in T PROVE n + 1 \in T
    <2> SUFFICES ASSUME n + 1 <= Len(s) PROVE pushed[n + 1] = made(n + 1)
        OBVIOUS
    <2>1. n + 1 \in 0..Len(s) /\ n + 1 \in 1..Len(s) /\ n + 1 # 0 /\ (n + 1) - 1 = n
        BY <1>0
    <2>2. pushed[n] = made(n)
        BY <1>0, <1>8
    <2>3. pushed[n + 1] = Body(pushed, n + 1)
        BY <1>6, <2>1
    <2>4. made(n + 1) = IF s[n + 1] \in S THEN Append(made(n), s[n + 1]) ELSE made(n)
        BY <1>2, <2>1
    <2> HIDE DEF T
    <2>5. QED
        BY <2>1, <2>2, <2>3, <2>4
<1>9. Len(s) \in T
    <2> HIDE DEF T
    <2>1. QED
        BY <1>0, <1>7, <1>8, Induction
<1>10. QED
    BY <1>1, <1>5, <1>9

\* So it can be followed element by element.
LEMMA AmongUnfolds ==
    ASSUME NEW C, NEW S
    PROVE  /\ Among(<<>>, S) = <<>>
           /\ \A s \in Seq(C) : Among(s, S) \in Seq(C)
           /\ \A s \in Seq(C) : \A c \in C :
                 Among(Append(s, c), S) = IF c \in S THEN Append(Among(s, S), c) ELSE Among(s, S)
<1>1. <<>> \in Seq(C)
    BY EmptySeq
<1>2. PICK F : IsFold(F, C, Seq(C), <<>>, Picking(C, S))
    BY <1>1, PickingSteps, Folding
<1>3. \A s \in Seq(C) : Among(s, S) = F[s]
    BY <1>2, AmongIsFold
<1>4. \A s \in Seq(C) : F[s] \in Seq(C)
    BY <1>2 DEF IsFold
<1>5. ASSUME NEW s \in Seq(C), NEW c \in C
      PROVE  Among(Append(s, c), S) = IF c \in S THEN Append(Among(s, S), c) ELSE Among(s, S)
    <2>1. Append(s, c) \in Seq(C)
        BY AppendProperties
    <2>2. F[Append(s, c)] = Picking(C, S)[<<F[s], c>>]
        BY <1>2 DEF IsFold
    <2>3. Among(Append(s, c), S) = F[Append(s, c)] /\ Among(s, S) = F[s]
        BY <1>3, <2>1
    <2>4. \A r \in Seq(C) : Picking(C, S)[<<r, c>>] = IF c \in S THEN Append(r, c) ELSE r
        BY PickingSteps
    <2>5. F[s] \in Seq(C)
        BY <1>4
    <2>6. QED
        BY <2>2, <2>3, <2>4, <2>5
<1>6. Among(<<>>, S) = <<>>
    BY <1>1, <1>2, <1>3 DEF IsFold
<1>7. QED
    BY <1>3, <1>4, <1>5, <1>6

\* What is picked is in both.
LEMMA AmongTyped ==
    ASSUME NEW C, NEW S, NEW s \in Seq(C)
    PROVE  Among(s, S) \in Seq(C \cap S)
<1> DEFINE T == {r \in Seq(C) : Among(r, S) \in Seq(C \cap S)}
<1>1. <<>> \in T
    BY AmongUnfolds, EmptySeq
<1>2. ASSUME NEW r \in Seq(C), NEW c \in C, r \in T PROVE Append(r, c) \in T
    <2>1. Append(r, c) \in Seq(C)
        BY AppendProperties
    <2>2. Among(Append(r, c), S) = IF c \in S THEN Append(Among(r, S), c) ELSE Among(r, S)
        <3>1. \A q \in Seq(C) : \A e \in C :
                 Among(Append(q, e), S) = IF e \in S THEN Append(Among(q, S), e) ELSE Among(q, S)
            BY AmongUnfolds
        <3> HIDE DEF T
        <3>2. QED
            BY <3>1
    <2>3. CASE c \in S
        <3>1. c \in C \cap S /\ Among(r, S) \in Seq(C \cap S)
            BY <1>2, <2>3
        <3>2. Append(Among(r, S), c) \in Seq(C \cap S)
            BY <3>1, AppendProperties
        <3>3. QED
            BY <2>1, <2>2, <2>3, <3>2
    <2>4. CASE c \notin S
        BY <1>2, <2>1, <2>2, <2>4
    <2>5. QED
        BY <2>3, <2>4
<1> HIDE DEF T
<1>3. \A r \in Seq(C) : r \in T
    BY <1>1, <1>2, Appending
<1>4. QED
    BY <1>3 DEF T

\* One more behind both is one more behind the second.
LEMMA BehindBoth ==
    ASSUME NEW C, NEW s \in Seq(C), NEW t \in Seq(C), NEW c \in C
    PROVE  s \o Append(t, c) = Append(s \o t, c)
<1>1. <<c>> \in Seq(C) /\ s \o t \in Seq(C)
    BY ConcatProperties
<1>2. Append(t, c) = t \o <<c>> /\ Append(s \o t, c) = (s \o t) \o <<c>>
    BY <1>1, AppendIsConcat
<1>3. QED
    BY <1>1, <1>2, ConcatAssociative

\* The parts are picked from one after the other.
LEMMA AmongJoins ==
    ASSUME NEW C, NEW S, NEW s \in Seq(C), NEW t \in Seq(C)
    PROVE  Among(s \o t, S) = Among(s, S) \o Among(t, S)
<1> DEFINE T == {r \in Seq(C) : Among(s \o r, S) = Among(s, S) \o Among(r, S)}
<1>0. /\ Among(<<>>, S) = <<>>
      /\ \A q \in Seq(C) : Among(q, S) \in Seq(C)
      /\ \A q \in Seq(C) : \A c \in C :
            Among(Append(q, c), S) = IF c \in S THEN Append(Among(q, S), c) ELSE Among(q, S)
    BY AmongUnfolds
<1>1. <<>> \in T
    BY <1>0, EmptySeq, ConcatEmptySeq
<1>2. ASSUME NEW r \in Seq(C), NEW c \in C, r \in T PROVE Append(r, c) \in T
    <2>1. Append(r, c) \in Seq(C) /\ s \o r \in Seq(C) /\ s \o Append(r, c) = Append(s \o r, c)
        BY AppendProperties, ConcatProperties, BehindBoth
    <2>2. Among(s \o r, S) = Among(s, S) \o Among(r, S)
        BY <1>2
    <2> HIDE DEF T
    <2>3. CASE c \in S
        <3>1. Among(Append(s \o r, c), S) = Append(Among(s, S) \o Among(r, S), c)
            BY <1>0, <2>1, <2>2, <2>3
        <3>2. Among(Append(r, c), S) = Append(Among(r, S), c)
            BY <1>0, <2>3
        <3>3. Among(s, S) \in Seq(C) /\ Among(r, S) \in Seq(C)
            BY <1>0
        <3>4. Among(s, S) \o Append(Among(r, S), c) = Append(Among(s, S) \o Among(r, S), c)
            BY <3>3, BehindBoth
        <3>5. QED
            BY <2>1, <3>1, <3>2, <3>4 DEF T
    <2>4. CASE c \notin S
        BY <1>0, <2>1, <2>2, <2>4 DEF T
    <2>5. QED
        BY <2>3, <2>4
<1> HIDE DEF T
<1>3. \A r \in Seq(C) : r \in T
    BY <1>1, <1>2, Appending
<1>4. QED
    BY <1>3 DEF T

\* All is picked, or nothing.
LEMMA AmongAll ==
    ASSUME NEW C, NEW S, NEW s \in Seq(C)
    PROVE  /\ (\A i \in 1..Len(s) : s[i] \in S) => Among(s, S) = s
           /\ (\A i \in 1..Len(s) : s[i] \notin S) => Among(s, S) = <<>>
<1> DEFINE T == {r \in Seq(C) : /\ (\A i \in 1..Len(r) : r[i] \in S) => Among(r, S) = r
                                /\ (\A i \in 1..Len(r) : r[i] \notin S) => Among(r, S) = <<>>}
<1>0. /\ Among(<<>>, S) = <<>>
      /\ \A q \in Seq(C) : \A c \in C :
            Among(Append(q, c), S) = IF c \in S THEN Append(Among(q, S), c) ELSE Among(q, S)
    BY AmongUnfolds
<1>1. <<>> \in T
    BY <1>0, EmptySeq
<1>2. ASSUME NEW r \in Seq(C), NEW c \in C, r \in T PROVE Append(r, c) \in T
    <2> DEFINE a == Append(r, c)
    <2>1. /\ a \in Seq(C) /\ Len(r) \in Nat /\ Len(a) = Len(r) + 1
          /\ \A i \in 1..Len(r) : a[i] = r[i]
          /\ a[Len(r) + 1] = c
        BY AppendProperties, LenProperties
    <2>2. Among(a, S) = IF c \in S THEN Append(Among(r, S), c) ELSE Among(r, S)
        BY <1>0
    <2>3. /\ (\A i \in 1..Len(r) : r[i] \in S) => Among(r, S) = r
          /\ (\A i \in 1..Len(r) : r[i] \notin S) => Among(r, S) = <<>>
        BY <1>2
    <2> HIDE DEF T
    <2>4. a = Append(r, c)
        OBVIOUS
    <2> HIDE DEF a
    <2>5. Len(r) + 1 \in 1..Len(a) /\ \A i \in 1..Len(r) : i \in 1..Len(a)
        BY <2>1
    <2>6. (\A i \in 1..Len(a) : a[i] \in S) => Among(a, S) = a
        BY <2>1, <2>2, <2>3, <2>4, <2>5
    <2>7. (\A i \in 1..Len(a) : a[i] \notin S) => Among(a, S) = <<>>
        BY <2>1, <2>2, <2>3, <2>5
    <2>8. QED
        BY <2>1, <2>6, <2>7 DEF a, T
<1> HIDE DEF T
<1>3. \A r \in Seq(C) : r \in T
    BY <1>1, <1>2, Appending
<1>4. QED
    BY <1>3 DEF T

\* One piece is picked, or nothing.
LEMMA AmongOne ==
    ASSUME NEW C, NEW S, NEW p \in C
    PROVE  Among(<<>>, S) = <<>> /\ Among(<<p>>, S) = IF p \in S THEN <<p>> ELSE <<>>
<1> DEFINE r == <<p>>
<1>1. r \in Seq(C) /\ \A i \in 1..Len(r) : r[i] = p
    OBVIOUS
<1> HIDE DEF r
<1>2. p \in S => Among(r, S) = r
    BY <1>1, AmongAll
<1>3. p \notin S => Among(r, S) = <<>>
    BY <1>1, AmongAll
<1>4. Among(<<>>, S) = <<>>
    BY AmongUnfolds
<1>5. QED
    BY <1>2, <1>3, <1>4 DEF r

\* a is what a loop pushes of s: it comes from s, all of S does, and in order.
Places(s, a, S) ==
    /\ \A i \in 1..Len(a) : \E x \in 1..Len(s) : a[i] = s[x] /\ s[x] \in S
    /\ \A x \in 1..Len(s) : s[x] \in S => \E i \in 1..Len(a) : a[i] = s[x]
    /\ \A i, j \in 1..Len(a) : i < j => \E x, y \in 1..Len(s) : x < y /\ a[i] = s[x] /\ a[j] = s[y]

\* One more element is picked, or passed over.
LEMMA PlacesMore ==
    ASSUME NEW C, NEW S, NEW s \in Seq(C), NEW a \in Seq(C), NEW c \in C, Places(s, a, S)
    PROVE  /\ c \in S => Places(Append(s, c), Append(a, c), S)
           /\ c \notin S => Places(Append(s, c), a, S)
<1> DEFINE t == Append(s, c)
           b == Append(a, c)
           n == Len(s)
           k == Len(a)
<1>1. /\ n \in Nat /\ Len(t) = n + 1 /\ t[n + 1] = c
      /\ \A x \in 1..n : t[x] = s[x]
    BY AppendProperties, LenProperties
<1>2. /\ k \in Nat /\ Len(b) = k + 1 /\ b[k + 1] = c
      /\ \A i \in 1..k : b[i] = a[i]
    BY AppendProperties, LenProperties
<1>3. /\ \A i \in 1..k : \E x \in 1..n : a[i] = s[x] /\ s[x] \in S
      /\ \A x \in 1..n : s[x] \in S => \E i \in 1..k : a[i] = s[x]
      /\ \A i, j \in 1..k : i < j => \E x, y \in 1..n : x < y /\ a[i] = s[x] /\ a[j] = s[y]
    BY DEF Places
<1> HIDE DEF t, b, n, k
<1>4. 1..n \subseteq 1..(n + 1) /\ n + 1 \in 1..(n + 1) /\ \A x \in 1..(n + 1) : x \in 1..n \/ x = n + 1
    BY <1>1
<1>5. 1..k \subseteq 1..(k + 1) /\ k + 1 \in 1..(k + 1) /\ \A x \in 1..(k + 1) : x \in 1..k \/ x = k + 1
    BY <1>2
<1>6. ASSUME c \notin S PROVE Places(t, a, S)
    <2>1. ASSUME NEW i \in 1..k PROVE \E x \in 1..(n + 1) : a[i] = t[x] /\ t[x] \in S
        <3>1. PICK x \in 1..n : a[i] = s[x] /\ s[x] \in S
            BY <1>3
        <3>2. QED
            BY <1>1, <1>4, <3>1
    <2>2. \A x \in 1..(n + 1) : t[x] \in S => \E i \in 1..k : a[i] = t[x]
        BY <1>1, <1>3, <1>4, <1>6
    <2>3. ASSUME NEW i \in 1..k, NEW j \in 1..k, i < j
          PROVE  \E x, y \in 1..(n + 1) : x < y /\ a[i] = t[x] /\ a[j] = t[y]
        <3>1. PICK x \in 1..n, y \in 1..n : x < y /\ a[i] = s[x] /\ a[j] = s[y]
            BY <1>3, <2>3
        <3>2. QED
            BY <1>1, <1>4, <3>1
    <2>4. Len(t) = n + 1 /\ Len(a) = k
        BY <1>1 DEF k
    <2>5. \A i \in 1..Len(a) : \E x \in 1..Len(t) : a[i] = t[x] /\ t[x] \in S
        BY <2>1, <2>4
    <2>6. \A x \in 1..Len(t) : t[x] \in S => \E i \in 1..Len(a) : a[i] = t[x]
        BY <2>2, <2>4
    <2>7. ASSUME NEW i \in 1..Len(a), NEW j \in 1..Len(a), i < j
          PROVE  \E x, y \in 1..Len(t) : x < y /\ a[i] = t[x] /\ a[j] = t[y]
        <3>1. i \in 1..k /\ j \in 1..k
            BY <2>4
        <3>2. PICK x \in 1..(n + 1), y \in 1..(n + 1) : x < y /\ a[i] = t[x] /\ a[j] = t[y]
            BY <2>3, <2>7, <3>1
        <3>3. QED
            BY <2>4, <3>2
    <2>8. QED
        BY <2>5, <2>6, <2>7 DEF Places
<1>7. ASSUME c \in S PROVE Places(t, b, S)
    <2>1. ASSUME NEW i \in 1..(k + 1) PROVE \E x \in 1..(n + 1) : b[i] = t[x] /\ t[x] \in S
        <3>1. CASE i = k + 1
            BY <1>1, <1>2, <1>4, <1>7, <3>1
        <3>2. CASE i \in 1..k
            <4>1. PICK x \in 1..n : a[i] = s[x] /\ s[x] \in S
                BY <1>3, <3>2
            <4>2. QED
                BY <1>1, <1>2, <1>4, <3>2, <4>1
        <3>3. QED
            BY <1>5, <3>1, <3>2
    <2>2. ASSUME NEW x \in 1..(n + 1), t[x] \in S PROVE \E i \in 1..(k + 1) : b[i] = t[x]
        <3>1. CASE x = n + 1
            BY <1>1, <1>2, <1>5, <3>1
        <3>2. CASE x \in 1..n
            <4>1. PICK i \in 1..k : a[i] = s[x]
                BY <1>1, <1>3, <2>2, <3>2
            <4>2. QED
                BY <1>1, <1>2, <1>5, <3>2, <4>1
        <3>3. QED
            BY <1>4, <3>1, <3>2
    <2>3. ASSUME NEW i \in 1..(k + 1), NEW j \in 1..(k + 1), i < j
          PROVE  \E x, y \in 1..(n + 1) : x < y /\ b[i] = t[x] /\ b[j] = t[y]
        <3>0. i \in 1..k
            BY <1>2, <2>3
        <3>1. CASE j = k + 1
            <4>1. PICK x \in 1..n : a[i] = s[x]
                BY <1>3, <3>0
            <4>2. x < n + 1
                BY <1>1
            <4>3. QED
                BY <1>1, <1>2, <1>4, <3>0, <3>1, <4>1, <4>2
        <3>2. CASE j \in 1..k
            <4>1. PICK x \in 1..n, y \in 1..n : x < y /\ a[i] = s[x] /\ a[j] = s[y]
                BY <1>3, <2>3, <3>0, <3>2
            <4>2. QED
                BY <1>1, <1>2, <1>4, <3>0, <3>2, <4>1
        <3>3. QED
            BY <1>5, <3>1, <3>2
    <2>4. QED
        BY <1>1, <1>2, <2>1, <2>2, <2>3 DEF Places
<1>8. QED
    BY <1>6, <1>7 DEF t, b

\* All that is wanted is picked, nothing else, and in its order.
LEMMA AmongPlaces ==
    ASSUME NEW C, NEW S
    PROVE  \A s \in Seq(C) : Places(s, Among(s, S), S)
<1> DEFINE T == {s \in Seq(C) : Places(s, Among(s, S), S)}
<1>1. <<>> \in T
    <2>1. <<>> \in Seq(C) /\ Len(<<>>) = 0 /\ 1..0 = {} /\ Among(<<>>, S) = <<>>
        BY EmptySeq, AmongUnfolds
    <2>2. QED
        BY <2>1 DEF Places
<1>2. ASSUME NEW s \in Seq(C), NEW c \in C, s \in T PROVE Append(s, c) \in T
    <2>1. /\ Among(s, S) \in Seq(C)
          /\ Among(Append(s, c), S) = IF c \in S THEN Append(Among(s, S), c) ELSE Among(s, S)
        <3>1. /\ \A r \in Seq(C) : Among(r, S) \in Seq(C)
              /\ \A r \in Seq(C) : \A e \in C :
                    Among(Append(r, e), S) = IF e \in S THEN Append(Among(r, S), e) ELSE Among(r, S)
            BY AmongUnfolds
        <3>2. QED
            BY <3>1
    <2>2. Append(s, c) \in Seq(C)
        BY AppendProperties
    <2> DEFINE a == Among(s, S)
    <2>3. Places(s, a, S) /\ a \in Seq(C)
        BY <1>2, <2>1
    <2> HIDE DEF a
    <2>4. /\ c \in S => Places(Append(s, c), Append(a, c), S)
          /\ c \notin S => Places(Append(s, c), a, S)
        BY <2>3, PlacesMore
    <2>5. QED
        BY <2>1, <2>2, <2>4 DEF a
<1> HIDE DEF T
<1>3. \A s \in Seq(C) : s \in T
    BY <1>1, <1>2, Appending
<1>4. QED
    BY <1>3 DEF T

-----------------------------------------------------------------------------
\* What sequences hold once.

\* What is in two sequences, one behind the other.
LEMMA BothHold ==
    ASSUME NEW C, NEW s \in Seq(C), NEW t \in Seq(C)
    PROVE  /\ \A f : f \in ToSet(s \o t) <=> f \in ToSet(s) \/ f \in ToSet(t)
           /\ OnlyOnce(s) /\ OnlyOnce(t) /\ (\A f : ~(f \in ToSet(s) /\ f \in ToSet(t))) => OnlyOnce(s \o t)
<1> DEFINE u == s \o t
           n == Len(s)
           k == Len(t)
<1>1. /\ n \in Nat /\ k \in Nat /\ Len(u) = n + k
      /\ \A i \in 1..(n + k) : u[i] = IF i <= n THEN s[i] ELSE t[i - n]
    BY LenProperties, ConcatProperties
<1> HIDE DEF u
<1>2. \A i \in 1..n : i \in 1..(n + k) /\ u[i] = s[i]
    BY <1>1
<1>3. ASSUME NEW i \in 1..k PROVE n + i \in 1..(n + k) /\ u[n + i] = t[i]
    <2>1. n + i \in 1..(n + k) /\ ~(n + i <= n) /\ (n + i) - n = i
        BY <1>1
    <2>2. QED
        BY <1>1, <2>1
<1>4. ASSUME NEW i \in 1..(n + k) PROVE (i \in 1..n /\ u[i] = s[i]) \/ (i - n \in 1..k /\ u[i] = t[i - n])
    BY <1>1
<1>5. \A f : f \in ToSet(u) <=> f \in ToSet(s) \/ f \in ToSet(t)
    <2>1. \A f : f \in ToSet(u) <=> \E i \in 1..(n + k) : f = u[i]
        BY <1>1 DEF ToSet
    <2>2. \A f : f \in ToSet(s) <=> \E i \in 1..n : f = s[i]
        BY DEF ToSet
    <2>3. \A f : f \in ToSet(t) <=> \E i \in 1..k : f = t[i]
        BY DEF ToSet
    <2>4. ASSUME NEW f PROVE f \in ToSet(u) <=> f \in ToSet(s) \/ f \in ToSet(t)
        <3>1. ASSUME f \in ToSet(u) PROVE f \in ToSet(s) \/ f \in ToSet(t)
            <4>1. PICK i \in 1..(n + k) : f = u[i]
                BY <2>1, <3>1
            <4>2. QED
                BY <1>4, <2>2, <2>3, <4>1
        <3>2. ASSUME f \in ToSet(s) PROVE f \in ToSet(u)
            <4>1. PICK i \in 1..n : f = s[i]
                BY <2>2, <3>2
            <4>2. QED
                BY <1>2, <2>1, <4>1
        <3>3. ASSUME f \in ToSet(t) PROVE f \in ToSet(u)
            <4>1. PICK i \in 1..k : f = t[i]
                BY <2>3, <3>3
            <4>2. QED
                BY <1>3, <2>1, <4>1
        <3>4. QED
            BY <3>1, <3>2, <3>3
    <2>5. QED
        BY <2>4
<1>6. ASSUME OnlyOnce(s), OnlyOnce(t), \A f : ~(f \in ToSet(s) /\ f \in ToSet(t)) PROVE OnlyOnce(u)
    <2>0. (\A i \in 1..n : s[i] \in ToSet(s)) /\ \A i \in 1..k : t[i] \in ToSet(t)
        BY DEF ToSet
    <2>1. ASSUME NEW i \in 1..(n + k), NEW j \in 1..(n + k), u[i] = u[j] PROVE i = j
        <3>1. CASE i \in 1..n /\ j \in 1..n
            BY <1>2, <1>6, <2>1, <3>1 DEF OnlyOnce
        <3>2. CASE i - n \in 1..k /\ j - n \in 1..k /\ u[i] = t[i - n] /\ u[j] = t[j - n]
            <4>1. i - n = j - n
                BY <1>6, <2>1, <3>2 DEF OnlyOnce
            <4>2. QED
                BY <1>1, <4>1
        <3>3. QED
            BY <1>2, <1>4, <1>6, <2>0, <2>1, <3>1, <3>2
    <2>2. QED
        BY <1>1, <2>1 DEF OnlyOnce
<1>7. QED
    BY <1>5, <1>6 DEF u

\* No two places in parts hold the same.
PartsDiffer(ss) ==
    \A i, j \in 1..Len(ss) :
        /\ OnlyOnce(ss[i])
        /\ i # j => ToSet(ss[i]) \cap ToSet(ss[j]) = {}

\* What parts hold together.
LEMMA FlatHolds ==
    ASSUME NEW C, NEW ss \in Seq(Seq(C))
    PROVE  /\ \A f : f \in ToSet(FlattenSeq(ss)) <=> \E i \in 1..Len(ss) : f \in ToSet(ss[i])
           /\ PartsDiffer(ss) => OnlyOnce(FlattenSeq(ss))
<1> DEFINE Flat(t) == /\ \A f : f \in ToSet(FlattenSeq(t)) <=> \E i \in 1..Len(t) : f \in ToSet(t[i])
                      /\ PartsDiffer(t) => OnlyOnce(FlattenSeq(t))
           T == {t \in Seq(Seq(C)) : Flat(t)}
<1>1. <<>> \in T
    <2>1. <<>> \in Seq(Seq(C)) /\ Len(<<>>) = 0 /\ 1..0 = {} /\ FlattenSeq(<<>>) = <<>>
        BY EmptySeq DEF FlattenSeq
    <2>2. QED
        BY <2>1 DEF OnlyOnce, ToSet
<1>2. ASSUME NEW t \in Seq(Seq(C)), NEW s \in Seq(C), t \in T PROVE Append(t, s) \in T
    <2> DEFINE u == Append(t, s)
               n == Len(t)
               x == FlattenSeq(t)
               y == FlattenSeq(u)
    <2>1. /\ u \in Seq(Seq(C)) /\ n \in Nat /\ Len(u) = n + 1 /\ u[n + 1] = s
          /\ \A i \in 1..n : u[i] = t[i]
        BY AppendProperties, LenProperties
    <2>2. y = x \o s
        BY FlattenAppend
    <2>3. x \in Seq(C)
        BY FlattenTyped
    <2>4. Flat(t)
        BY <1>2
    <2>5. \A i \in 1..n : i \in 1..(n + 1) /\ i # n + 1
        BY <2>1
    <2>6. \A i \in 1..(n + 1) : i \in 1..n \/ i = n + 1
        BY <2>1
    <2>7. n + 1 \in 1..(n + 1)
        BY <2>1
    <2> HIDE DEF u
    <2>8. /\ \A f : f \in ToSet(x) <=> \E i \in 1..n : f \in ToSet(t[i])
          /\ PartsDiffer(t) => OnlyOnce(x)
        BY <2>4
    <2> HIDE DEF x, y, n
    <2>9. /\ \A f : f \in ToSet(y) <=> f \in ToSet(x) \/ f \in ToSet(s)
          /\ OnlyOnce(x) /\ OnlyOnce(s) /\ (\A f : ~(f \in ToSet(x) /\ f \in ToSet(s))) => OnlyOnce(y)
        BY <2>2, <2>3, BothHold
    <2>10. ASSUME NEW f PROVE f \in ToSet(y) <=> \E i \in 1..(n + 1) : f \in ToSet(u[i])
        <3>1. f \in ToSet(y) <=> (\E i \in 1..n : f \in ToSet(t[i])) \/ f \in ToSet(s)
            BY <2>8, <2>9
        <3>2. (\E i \in 1..(n + 1) : f \in ToSet(u[i])) <=> (\E i \in 1..n : f \in ToSet(u[i])) \/ f \in ToSet(u[n + 1])
            BY <2>5, <2>6, <2>7
        <3>3. (\E i \in 1..n : f \in ToSet(u[i])) <=> \E i \in 1..n : f \in ToSet(t[i])
            BY <2>1
        <3>4. QED
            BY <2>1, <3>1, <3>2, <3>3
    <2>11. ASSUME PartsDiffer(u) PROVE OnlyOnce(y)
        <3>1. /\ \A i \in 1..(n + 1) : OnlyOnce(u[i])
              /\ \A i, j \in 1..(n + 1) : i # j => ToSet(u[i]) \cap ToSet(u[j]) = {}
            BY <2>1, <2>11 DEF PartsDiffer
        <3>2. PartsDiffer(t)
            <4>1. Len(t) = n
                BY DEF n
            <4>2. QED
                BY <2>1, <2>5, <3>1, <4>1 DEF PartsDiffer
        <3>3. OnlyOnce(s)
            BY <2>1, <2>7, <3>1
        <3>4. ASSUME NEW f, f \in ToSet(x), f \in ToSet(s) PROVE FALSE
            <4>1. PICK i \in 1..n : f \in ToSet(t[i])
                BY <2>8, <3>4
            <4>2. ToSet(u[i]) \cap ToSet(u[n + 1]) = {}
                BY <2>5, <2>7, <3>1
            <4>3. QED
                BY <2>1, <3>4, <4>1, <4>2
        <3>5. QED
            BY <2>8, <2>9, <3>2, <3>3, <3>4
    <2>12. Flat(u)
        BY <2>1, <2>10, <2>11 DEF y
    <2>13. QED
        BY <2>1, <2>12 DEF u
<1> HIDE DEF T
<1>3. \A t \in Seq(Seq(C)) : t \in T
    BY <1>1, <1>2, Appending
<1>4. QED
    BY <1>3 DEF T

\* If none stands twice afterwards, the new ones are new.
LEMMA NewOnes ==
    ASSUME NEW C, NEW s \in Seq(C), NEW x \in Seq(C), NEW t, t = s \o x, Len(t) = Cardinality(ToSet(t))
    PROVE  /\ Len(s) = Cardinality(ToSet(s))
           /\ ToSet(s) \subseteq ToSet(t)
           /\ \A i \in 1..Len(x) : x[i] \in ToSet(t) /\ x[i] \notin ToSet(s)
           /\ \A i, j \in 1..Len(x) : x[i] = x[j] => i = j
<1> DEFINE n == Len(s)
<1>1. /\ n \in Nat /\ Len(x) \in Nat /\ t \in Seq(C) /\ Len(t) = n + Len(x)
      /\ \A i \in 1..(n + Len(x)) : t[i] = IF i <= n THEN s[i] ELSE x[i - n]
    BY ConcatProperties, LenProperties
<1>2. \A i, j \in 1..Len(t) : t[i] = t[j] => i = j
    BY <1>1, NoneTwice
<1>3. \A i \in 1..n : i \in 1..Len(t) /\ t[i] = s[i]
    BY <1>1
<1>4. ASSUME NEW i \in 1..Len(x) PROVE n + i \in 1..Len(t) /\ t[n + i] = x[i] /\ n + i \notin 1..n
    <2>1. n + i \in 1..(n + Len(x)) /\ ~(n + i <= n) /\ (n + i) - n = i
        BY <1>1
    <2>2. QED
        BY <1>1, <2>1
<1>5. DOMAIN s = 1..n /\ DOMAIN t = 1..Len(t)
    BY <1>1, LenProperties
<1>6. Len(s) = Cardinality(ToSet(s))
    <2>1. \A i, j \in 1..n : s[i] = s[j] => i = j
        BY <1>2, <1>3
    <2>2. QED
        BY <2>1, NoneTwice
<1>7. ToSet(s) \subseteq ToSet(t)
    BY <1>3, <1>5 DEF ToSet
<1>8. ASSUME NEW i \in 1..Len(x) PROVE x[i] \in ToSet(t) /\ x[i] \notin ToSet(s)
    <2>1. n + i \in 1..Len(t) /\ t[n + i] = x[i] /\ n + i \notin 1..n
        BY <1>4
    <2>2. x[i] \in ToSet(t)
        BY <1>5, <2>1 DEF ToSet
    <2>3. \A j \in 1..n : s[j] # x[i]
        BY <1>2, <1>3, <2>1
    <2>4. QED
        BY <1>5, <2>2, <2>3 DEF ToSet
<1>9. ASSUME NEW i \in 1..Len(x), NEW j \in 1..Len(x), x[i] = x[j] PROVE i = j
    <2>1. n + i \in 1..Len(t) /\ t[n + i] = x[i] /\ n + j \in 1..Len(t) /\ t[n + j] = x[j]
        BY <1>4
    <2>2. n + i = n + j
        BY <1>2, <1>9, <2>1
    <2>3. QED
        BY <1>1, <2>2
<1>10. QED
    BY <1>6, <1>7, <1>8, <1>9

\* One fragment does not.
LEMMA OneFragment ==
    /\ \A f : OnlyOnce(<<f>>) /\ ToSet(<<f>>) = {f}
    /\ OnlyOnce(<<>>) /\ ToSet(<<>>) = {}
<1>1. ASSUME NEW f PROVE OnlyOnce(<<f>>) /\ ToSet(<<f>>) = {f}
    <2> DEFINE s == <<f>>
    <2>1. Len(s) = 1 /\ s[1] = f /\ DOMAIN s = {1} /\ \A j \in 1..1 : j = 1
        OBVIOUS
    <2> HIDE DEF s
    <2>2. OnlyOnce(s) /\ ToSet(s) = {f}
        BY <2>1 DEF OnlyOnce, ToSet
    <2>3. QED
        BY <2>2 DEF s
<1>2. OnlyOnce(<<>>) /\ ToSet(<<>>) = {}
    <2>1. Len(<<>>) = 0 /\ 1..0 = {} /\ DOMAIN <<>> = {}
        BY EmptySeq
    <2>2. QED
        BY <2>1 DEF OnlyOnce, ToSet
<1>3. QED
    BY <1>1, <1>2

-----------------------------------------------------------------------------
\* Counting the elements of a kind.

\* How many elements before the i-th are in S.
CountBefore(s, S, i) == Cardinality({j \in 1..(i - 1) : s[j] \in S})

\* They are counted from the start, element by element.
LEMMA CountBeforeLaws ==
    ASSUME NEW C, NEW s \in Seq(C), NEW e \in C, NEW S
    PROVE  /\ \A i \in 1..(Len(s) + 1) : CountBefore(s, S, i) \in Nat /\ CountBefore(s, S, i) <= CountBefore(s, S, Len(s) + 1)
           /\ \A i \in 1..(Len(s) + 1) : CountBefore(Append(s, e), S, i) = CountBefore(s, S, i)
           /\ CountBefore(Append(s, e), S, Len(s) + 2) = CountBefore(s, S, Len(s) + 1) + (IF e \in S THEN 1 ELSE 0)
<1> DEFINE n == Len(s)
           t == Append(s, e)
           At(r, i) == {j \in 1..(i - 1) : r[j] \in S}
<1>1. n \in Nat /\ (\A i \in 1..n : t[i] = s[i]) /\ t[n + 1] = e
    BY AppendProperties, LenProperties
<1> HIDE DEF n, t
<1>2. ASSUME NEW i \in 1..(n + 1)
      PROVE  At(s, i) \subseteq At(s, n + 1) /\ At(t, i) = At(s, i) /\ At(s, i) \subseteq 1..n
    BY <1>1
<1>3. IsFiniteSet(1..n)
    BY <1>1, FS_Interval
<1>4. ASSUME NEW i \in 1..(n + 1)
      PROVE  IsFiniteSet(At(s, i)) /\ Cardinality(At(s, i)) \in Nat /\ Cardinality(At(s, i)) <= Cardinality(At(s, n + 1))
    <2>1. IsFiniteSet(At(s, i)) /\ n + 1 \in 1..(n + 1)
        BY <1>1, <1>2, <1>3, FS_Subset
    <2>2. IsFiniteSet(At(s, n + 1))
        BY <1>2, <1>3, <2>1, FS_Subset
    <2> HIDE DEF At
    <2>3. QED
        BY <1>2, <2>1, <2>2, FS_Subset, FS_CardinalityType
<1>5. Cardinality(At(t, n + 2)) = Cardinality(At(s, n + 1)) + (IF e \in S THEN 1 ELSE 0)
    <2>1. At(t, n + 2) = At(s, n + 1) \cup (IF e \in S THEN {n + 1} ELSE {}) /\ n + 1 \notin At(s, n + 1)
        BY <1>1
    <2>2. n + 1 \in 1..(n + 1)
        BY <1>1
    <2>3. IsFiniteSet(At(s, n + 1)) /\ Cardinality(At(s, n + 1)) \in Nat
        BY <1>4, <2>2
    <2> HIDE DEF At
    <2>4. CASE e \in S
        BY <2>1, <2>3, <2>4, FS_AddElement
    <2>5. CASE e \notin S
        <3>1. At(t, n + 2) = At(s, n + 1)
            BY <2>1, <2>5
        <3>2. QED
            BY <2>3, <2>5, <3>1
    <2>6. QED
        BY <2>4, <2>5
<1>6. \A r, i : CountBefore(r, S, i) = Cardinality(At(r, i))
    BY DEF CountBefore
<1> HIDE DEF At
<1>7. QED
    BY <1>2, <1>4, <1>5, <1>6 DEF n, t
=============================================================================
