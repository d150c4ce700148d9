CONSTANTS
    p1 = p1
    r1 = r1
    r2 = r2
    Unknown = Unknown
    Provider = {p1}
    Specs <- MCSpecs
    Request = {r1, r2}
    Responses <- MCResponses
    CostTracking = TRUE
    Retain = 3
    Slack = 1
    MaxTime = 4
    MaxToggles = 1
    MaxRestarts = 1
SYMMETRY MCSymmetry
SPECIFICATION Spec
INVARIANTS
    TypeOK
    WindowsAreExact
    TableIsCounted
    NoChargeWhileOff
PROPERTIES
    DemotionLasts
    RestartRemembers
    EverySpecCharged
CHECK_DEADLOCK FALSE
