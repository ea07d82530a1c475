SPECIFICATION Spec
CONSTANTS
    c1 = c1
    c2 = c2
    s1 = s1
    None = None
    Call = {c1, c2}
    Stop = {s1}
    Chunks = 1
    Rebuilds = 1
    StreamsDie = TRUE
    CommandsLost = FALSE
SYMMETRY Symmetry
CHECK_DEADLOCK FALSE
INVARIANTS
    TypeOK
    OneHolder
PROPERTIES
    NothingKeysOnceShut
    KeepsPromise
