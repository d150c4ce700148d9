\* The decoder, over every short stream and every way to split it into reads.
SPECIFICATION Spec
CONSTANTS
    Wires <- MCWires
INVARIANTS
    NoTornCharacter
PROPERTIES
    ImplementsSseStream
    EveryEventDecoded
\* A stream ends.
CHECK_DEADLOCK FALSE
