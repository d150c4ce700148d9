CONSTANTS
    p1 = p1
    p2 = p2
    p3 = p3
    routed = routed
    plain = plain
    slashed = slashed
    px = px
    m = m
    None = None
    Provider = {p1, p2, p3}
    Alias = {routed, plain, slashed}
    SlashAlias = {slashed}
    Model <- MCModel
    Configs <- ValidConfigs
    Statuses <- MCStatuses
    Exhaustions <- MCExhaustions
SPECIFICATION Spec
INVARIANTS
    ListsKnownInOrder
    HealthNeverRefuses
    MarkingOnlyDemotes
    FallbackClosesTheChain
CHECK_DEADLOCK FALSE
