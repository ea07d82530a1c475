SPECIFICATION RecoverySpec
CONSTANTS
    c1 = c1
    c2 = c2
    s1 = s1
    None = None
    Call = {c1}
    Stop = {s1}
    Chunks = 2
    Rebuilds = 2
    StreamsDie = TRUE
    CommandsLost = TRUE
CHECK_DEADLOCK FALSE
INVARIANT NeverLeftKeyed
PROPERTIES
    RadioComesDown
