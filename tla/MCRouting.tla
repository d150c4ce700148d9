----------------------------- MODULE MCRouting -----------------------------
(***************************************************************************)
(* Bounded inputs for RoutingCheck.  Two models, three providers: enough   *)
(* for a route with a repeated provider, a dangling default or fallback    *)
(* route and every mix of usable, unusable and unmonitored candidates.     *)
(***************************************************************************)
EXTENDS RoutingCheck, TLC

CONSTANTS p1, p2, p3, routed, plain, slashed, px, m

M == ModelName(None, m)
MCModel == {ModelName(x, n) : x \in {None, px}, n \in {m, plain}}

\* The routes of the alias that has one.  The repeated provider in the third
\* is legal: only the primary is tied to the providers table.
MCRoutes ==
    {<<Target(p1, M)>>,
     <<Target(p1, M), Target(p2, M)>>,
     <<Target(p2, M), Target(p1, M), Target(p2, ModelName(px, m)), Target(p3, M)>>}

MCFallbacks ==
    {None, Target(p3, M), Target(p2, M), Target(p2, ModelName(px, plain))}

\* routes.provider references providers(name); the default provider and the
\* fallback route are not tied to the table, nor is a route's fallback list.
MCConfigs ==
    {[providers |-> ps, routes |-> rs, default |-> d, fallback |-> fb,
      prefix |-> (p1 :> None @@ p2 :> px @@ p3 :> None),
      quotaMin |-> (p1 :> 5 @@ p2 :> None @@ p3 :> 5)] :
        ps \in {{p1, p2, p3}, {p1, p2}, {p2}},
        rs \in {<<>>} \cup {routed :> r : r \in MCRoutes},
        d \in {None, p2, p3},
        fb \in MCFallbacks}

ValidConfigs == {c \in MCConfigs : \A a \in DOMAIN c.routes : c.routes[a][1].provider \in c.providers}

Entries == {[available |-> up, remaining |-> r] : up \in BOOLEAN, r \in {None, 3}}
             \cup {[available |-> TRUE, remaining |-> 5]}

MCStatuses ==
    UNION {[D -> Entries] : D \in {{}, {p1}, {p1, p2}, {p2, p3}}}

MCExhaustions == {{}, {p1}, {p2, p3}}
=============================================================================
