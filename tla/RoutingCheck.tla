---------------------------- MODULE RoutingCheck ----------------------------
(***************************************************************************)
(* The resolver over bounded inputs: one request is resolved against any   *)
(* configuration, status map and exhausted set the constants offer.        *)
(***************************************************************************)
EXTENDS Routing

CONSTANTS
    Configs,     \* the configurations tried
    Statuses,    \* the status maps tried
    Exhaustions, \* the sets of usage-exhausted providers tried
    Model        \* the upstream models that routes name

Candidate == [provider : Provider, model : Model]
Entry == [available : BOOLEAN, remaining : Nat \cup {None}]

\* default_provider and the fallback route need not name a configured provider,
\* nor does a route; an entry may be of a provider that is not configured.
ASSUME ConfigsAssumption ==
    \A c \in Configs :
        /\ c.providers \subseteq Provider
        /\ c.default \in Provider \cup {None}
        /\ c.fallback \in Candidate \cup {None}
        /\ DOMAIN c.routes \subseteq Alias
        /\ \A a \in DOMAIN c.routes : c.routes[a] \in Seq(Candidate)

ASSUME StatusesAssumption ==
    \A st \in Statuses : DOMAIN st \subseteq Provider /\ st \in [DOMAIN st -> Entry]

VARIABLES cfg, status, exhausted, alias, outcome

vars == <<cfg, status, exhausted, alias, outcome>>

Pending == [kind |-> "pending", chain |-> <<>>]

Init ==
    /\ cfg \in Configs
    /\ status \in Statuses
    /\ exhausted \in Exhaustions
    /\ alias \in Alias
    /\ outcome = Pending

ResolveRequest ==
    /\ outcome = Pending
    /\ outcome' = Resolve(cfg, status, exhausted, alias)
    /\ UNCHANGED <<cfg, status, exhausted, alias>>

Next == ResolveRequest

Spec == Init /\ [][Next]_vars

-----------------------------------------------------------------------------
Resolved == outcome.kind = "chain"
raw == RawChain(cfg, alias)
good == PreferredPositions(cfg, status, exhausted, alias)

\* The chain handed to the failover loop lists exactly the raw candidates with
\* a configured provider, in the order Before describes: usable ones first and
\* the configured order inside each class (router.rs: drop unknown providers,
\* usable.append(degraded)).
ListsKnownInOrder ==
    Resolved =>
        /\ Len(outcome.chain) = Cardinality(KnownPositions(cfg, alias))
        /\ \A i \in KnownPositions(cfg, alias) :
              LET earlier == {j \in KnownPositions(cfg, alias) : Before(good, j, i)}
              IN  outcome.chain[Cardinality(earlier) + 1] = raw[i]

\* No provider has an entry in the status map.
NothingProbed == [p \in {} |-> [available |-> TRUE, remaining |-> None]]

\* Health and usage reorder a chain and do nothing else: whatever the status
\* map and the usage meter say, a name that the configuration alone lets through
\* is let through with as many candidates, and one it refuses is refused for the
\* same reason ("degraded providers stay in the chain as a last resort").
HealthNeverRefuses ==
    outcome # Pending =>
        LET unjudged == Resolve(cfg, NothingProbed, {}, alias)
        IN  /\ outcome.kind = unjudged.kind
            /\ Len(outcome.chain) = Len(unjudged.chain)

\* A usable fallback route stands behind every name, whatever the rest of the
\* configuration says of it ("in every case, a configured fallback_route is
\* appended as the final candidate of the chain").  The code returns before it
\* looks at the fallback route when the default provider is not configured, so
\* this does not hold (run routing_dangling).
FallbackBacksEveryName ==
    outcome # Pending /\ cfg.fallback # None /\ cfg.fallback.provider \in cfg.providers
        => Resolved

\* The status map once p is marked as a reactive failure marks it.
MarkedStatus(st, p) ==
    [q \in DOMAIN st \cup {p} |->
        IF q \in DOMAIN st THEN [st[q] EXCEPT !.available = @ /\ q # p]
        ELSE [available |-> FALSE, remaining |-> None]]

\* Marking one more provider unavailable, as a reactive failure does, only
\* demotes it: as many candidates stay in the chain, the others keep their
\* relative order, and nothing behind any place of the marked provider is usable.
MarkingOnlyDemotes ==
    Resolved =>
        \A p \in cfg.providers :
            LET marked == MarkedStatus(status, p)
                after  == ResolveCandidates(cfg, marked, exhausted, alias)
                Others(s) == KeepProviders(s, cfg.providers \ {p})
            IN  /\ Others(after) = Others(outcome.chain)
                /\ Len(after) = Len(outcome.chain)
                /\ \A i, j \in DOMAIN after :
                      i < j /\ after[i].provider = p =>
                          ~Preferred(cfg, marked, exhausted, after[j].provider)

\* The fallback route is the last resort of its class: no candidate behind it
\* in the chain is as usable as it is, when the route does not name it itself.
FallbackClosesTheChain ==
    Resolved /\ cfg.fallback # None
             /\ (\A i \in DOMAIN RouteChain(cfg, alias) : RouteChain(cfg, alias)[i] # cfg.fallback) =>
        \A i, j \in DOMAIN outcome.chain :
            i < j /\ outcome.chain[i] = cfg.fallback =>
                /\ Preferred(cfg, status, exhausted, outcome.chain[i].provider)
                /\ ~Preferred(cfg, status, exhausted, outcome.chain[j].provider)
=============================================================================
