------------------------------ MODULE Routing ------------------------------
(***************************************************************************)
(* Model alias -> ordered chain of upstream candidates (src/router.rs).    *)
(*                                                                         *)
(* The module is constant-level: the resolver is a pure function of the    *)
(* configuration snapshot, the provider status map and the set of usage-   *)
(* exhausted providers that the handler holds when it calls it.            *)
(*                                                                         *)
(* A configuration is a record with                                        *)
(*   providers  the names in the providers table                           *)
(*   routes     alias -> <<primary>> \o fallback list (aliases are the     *)
(*              primary key of the routes table)                           *)
(*   default    default_provider, or None                                  *)
(*   fallback   the global fallback_route, or None                         *)
(*   prefix     provider -> model_prefix, or None                          *)
(*   quotaMin   provider -> quota_min, or None                             *)
(* A model name is its base name and the prefix put in front of it.        *)
(***************************************************************************)
EXTENDS Integers, Sequences, FiniteSets

CONSTANTS
    Provider,    \* provider names
    Alias,       \* model names clients ask for
    SlashAlias,  \* those that contain a '/'
    None         \* an absent Option

ASSUME RoutingAssumption == SlashAlias \subseteq Alias

Target(p, m) == [provider |-> p, model |-> m]
ModelName(prefix, name) == [prefix |-> prefix, name |-> name]

-----------------------------------------------------------------------------
(* The raw chain, before anything is known about the providers' health.     *)

\* The default provider serves the alias under its own name, with the
\* provider's prefix unless the name is already qualified.
DefaultTarget(cfg, a) ==
    Target(cfg.default,
           ModelName(IF a \in SlashAlias THEN None ELSE cfg.prefix[cfg.default], a))

RouteChain(cfg, a) ==
    IF a \in DOMAIN cfg.routes THEN cfg.routes[a]
    ELSE IF cfg.default # None THEN <<DefaultTarget(cfg, a)>>
    ELSE <<>>

\* Mutant of RawChain: the fallback route goes in front.
RawChainFallbackFirst(cfg, a) ==
    LET base == RouteChain(cfg, a)
    IN  IF cfg.fallback = None \/ \E i \in DOMAIN base : base[i] = cfg.fallback
        THEN base
        ELSE <<cfg.fallback>> \o base

\* The fallback route closes every chain that does not hold that exact target.
RawChain(cfg, a) ==
    LET base == RouteChain(cfg, a)
    IN  IF cfg.fallback = None \/ \E i \in DOMAIN base : base[i] = cfg.fallback
        THEN base
        ELSE Append(base, cfg.fallback)

\* An unrouted alias whose default provider is not configured is refused
\* before the fallback route is looked at.
DefaultDangles(cfg, a) ==
    /\ a \notin DOMAIN cfg.routes
    /\ cfg.default # None
    /\ cfg.default \notin cfg.providers

\* The positions of the raw chain that name a configured provider.
KnownPositions(cfg, a) ==
    {i \in DOMAIN RawChain(cfg, a) : RawChain(cfg, a)[i].provider \in cfg.providers}

Refused(cfg, a) == DefaultDangles(cfg, a) \/ KnownPositions(cfg, a) = {}

-----------------------------------------------------------------------------
(* Health of a candidate.  st is the status map: a function on the names    *)
(* that have an entry, each [available, remaining].                         *)

\* Mutant of IsUsable: a known quota decides alone.
IsUsableByQuota(cfg, st, p) ==
    p \in DOMAIN st =>
        IF st[p].remaining # None /\ cfg.quotaMin[p] # None
        THEN st[p].remaining >= cfg.quotaMin[p]
        ELSE st[p].available

IsUsable(cfg, st, p) ==
    p \in DOMAIN st =>
        /\ st[p].available
        /\ (st[p].remaining # None /\ cfg.quotaMin[p] # None)
              => st[p].remaining >= cfg.quotaMin[p]

Preferred(cfg, st, exhausted, p) == IsUsable(cfg, st, p) /\ p \notin exhausted

-----------------------------------------------------------------------------
(* The resolver.                                                            *)

\* The candidates of s whose provider is in P, in their order (what a loop over
\* s pushes one by one).
KeepProviders(s, P) ==
    LET kept[n \in 0..Len(s)] ==
            IF n = 0 THEN <<>>
            ELSE IF s[n].provider \in P THEN Append(kept[n - 1], s[n])
            ELSE kept[n - 1]
    IN  kept[Len(s)]

\* Mutant of ResolveCandidates: degraded providers are dropped.
ResolveDropsDegraded(cfg, st, exhausted, a) ==
    KeepProviders(RawChain(cfg, a), {p \in cfg.providers : Preferred(cfg, st, exhausted, p)})

\* Mutant of ResolveCandidates: a cost-exhausted provider keeps its place.
ResolveIgnoresExhausted(cfg, st, exhausted, a) ==
    LET usable == {p \in cfg.providers : IsUsable(cfg, st, p)}
    IN  KeepProviders(RawChain(cfg, a), usable)
          \o KeepProviders(RawChain(cfg, a), cfg.providers \ usable)

\* Candidates of unknown providers are in neither list.
ResolveCandidates(cfg, st, exhausted, a) ==
    LET usable == {p \in cfg.providers : Preferred(cfg, st, exhausted, p)}
    IN  KeepProviders(RawChain(cfg, a), usable)
          \o KeepProviders(RawChain(cfg, a), cfg.providers \ usable)

\* Err(Internal), Err(UnknownModel) or Ok(chain).
Resolve(cfg, st, exhausted, a) ==
    LET chain == ResolveCandidates(cfg, st, exhausted, a)
    IN  IF DefaultDangles(cfg, a) THEN [kind |-> "internal", chain |-> <<>>]
        ELSE IF chain = <<>> THEN [kind |-> "unknown_model", chain |-> <<>>]
        ELSE [kind |-> "chain", chain |-> chain]

-----------------------------------------------------------------------------
(* The same order without sequences: which of the known positions is tried  *)
(* before which.  The failover loop is stated with these; RoutingCheck      *)
(* shows that they describe ResolveCandidates.                              *)

PreferredPositions(cfg, st, exhausted, a) ==
    {i \in KnownPositions(cfg, a) :
        Preferred(cfg, st, exhausted, RawChain(cfg, a)[i].provider)}

\* good is the set of preferred positions.
Before(good, i, j) ==
    \/ i \in good /\ j \notin good
    \/ (i \in good <=> j \in good) /\ i < j
=============================================================================
