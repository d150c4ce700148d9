----------------------------- MODULE Selecting ------------------------------
(***************************************************************************)
(* What loops over a sequence push, and sequences without repetition.      *)
(***************************************************************************)
EXTENDS Naturals, Sequences

\* The elements of s that are in S, in their order: what a loop over s pushes.
Among(s, S) ==
    LET pushed[n \in 0..Len(s)] ==
            IF n = 0 THEN <<>>
            ELSE IF s[n] \in S THEN Append(pushed[n - 1], s[n])
            ELSE pushed[n - 1]
    IN  pushed[Len(s)]

OnlyOnce(s) == \A i, j \in 1..Len(s) : s[i] = s[j] => i = j
=============================================================================
