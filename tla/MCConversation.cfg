\* Every short history in every dialect, and conversations of several turns.
SPECIFICATION Spec
CONSTANTS
    None = None
    NoId = NoId
    a = a
    b = b
    CallId = {a, b, NoId}
    Histories <- MCHistories
    Shapes <- MCShapes
    MaxRecalled = 3
    MaxUtterances = 5
    Stride = 10
INVARIANTS
    ToolsHaveParents
    StrictUpstreamsAccept
    EverythingIsPassedOn
    ReasoningGoesWithItsTurn
    AnswersComeBack
PROPERTIES
    RequestsOnlyGrow
