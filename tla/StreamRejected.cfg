SPECIFICATION Spec
CONSTANTS
    Attempts = 1
    Chunks = 1
    Kinds = {"mock"}
    EventsCap = 4
    OutputCap = 1
INVARIANTS
    RejectionKeepsItsCode
