---------------------------- MODULE MCUsageMeter ----------------------------
(***************************************************************************)
(* One provider with a window per spec.  Windows are one and two ticks     *)
(* long, three ticks are kept, the clock may be one tick back.             *)
(***************************************************************************)
EXTENDS UsageMeter, TLC

CONSTANTS p1, r1, r2

MCSymmetry == Permutations({r1, r2})

\* A request quota and a spending cap.
MCSpecs ==
    [p \in {p1} |-> << [kind |-> "billing", windows |-> {[secs |-> 2, limit |-> 2]}],
                       [kind |-> "count", windows |-> {[secs |-> 1, limit |-> 1]}] >>]

\* A real cost, a subscription with an estimate, a subscription without a
\* price, and a price that makes the estimate negative.
MCResponses ==
    { [real |-> 2, estimate |-> 1, tokens |-> 1],
      [real |-> 0, estimate |-> Unknown, tokens |-> 1],
      [real |-> Unknown, estimate |-> 0 - 1, tokens |-> 0] }
=============================================================================
