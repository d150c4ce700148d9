CONSTANTS
    p1 = p1
    p2 = p2
    gone = gone
    routed = routed
    plain = plain
    m1 = m1
    r1 = r1
    r2 = r2
    None = None
    Watcher = Watcher
    Provider = {p1, p2, gone}
    Alias = {routed, plain}
    SlashAlias = {}
    Request = {r1, r2}
    Monitored = {p1}
    Streaming = {r1}
    Quota = {None}
    Exhaustions = {{}, {p1}}
    MaxFlips = 1
    MaxRestarts = 1
    Cfg <- MCCfg
    ReqAlias <- MCReqAlias
SPECIFICATION FairSpec
INVARIANTS
    TypeOK
    NeverGivesUpEarly
    PreferredFirst
    SuspectIsReprobed
PROPERTIES
    UnmonitoredMarkSticks
    SelfHeals
    RequestsFinish
