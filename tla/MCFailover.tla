----------------------------- MODULE MCFailover -----------------------------
(***************************************************************************)
(* A monitored and an unmonitored provider.  The routed alias goes from    *)
(* the monitored primary over a provider that was deleted to the second    *)
(* one, which is the fallback route too and so is not named twice; the     *)
(* unrouted alias goes from the default provider, the same primary, to the *)
(* fallback route.  So two requests may mark the same provider.            *)
(***************************************************************************)
EXTENDS Failover, TLC

CONSTANTS p1, p2, gone, routed, plain, m1, r1, r2

MCCfg ==
    [providers |-> {p1, p2},
     routes    |-> routed :> <<Target(p1, ModelName(None, m1)),
                               Target(gone, ModelName(None, m1)),
                               Target(p2, ModelName(None, m1))>>,
     default   |-> p1,
     fallback  |-> Target(p2, ModelName(None, m1)),
     prefix    |-> (p1 :> None @@ p2 :> None),
     quotaMin  |-> (p1 :> 2 @@ p2 :> None)]

MCReqAlias == [r \in Request |-> IF r = r1 THEN routed ELSE plain]
=============================================================================
