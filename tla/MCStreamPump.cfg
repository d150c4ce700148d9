CONSTANTS
    None = None
    c1 = c1
    ToolIndex = {0, 1}
    Report <- MCReport
    Word = 4
    Price = {c1}
    MaxItems = 4
    Scripts <- MCScripts
SPECIFICATION Spec
INVARIANTS
    TypeOK
    OutputIsWhatWasStreamed
    FinishedMeansToldSo
    ChargedByTheLastReport
PROPERTIES
    ImplementsClientStream
    UsageToldAgreesWithCharged
