--------------------------- MODULE MCConfigReload ---------------------------
(***************************************************************************)
(* Two provider names and one alias.  The file configures one provider,    *)
(* which the environment has a key for, a route to it and no fallback      *)
(* route, so the settings table starts without a row.                      *)
(***************************************************************************)
EXTENDS ConfigReload, TLC

CONSTANTS n1, n2, al, a1, a2, r1, k1, k2

MCFileProviders == n1 :> [key |-> NoKey, probed |-> n1 \in Probeable]
MCFileRoutes == al :> n1
=============================================================================
