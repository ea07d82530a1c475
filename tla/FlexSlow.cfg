SPECIFICATION Spec
CONSTANTS
    c1 = c1
    s1 = s1
    None = None
    Call = {c1}
    Stop = {s1}
    Client = {c1,s1}
    Packets = 2
    SlowLink = TRUE
    CommandsLost = TRUE
SYMMETRY Symmetry
CHECK_DEADLOCK FALSE
PROPERTY NothingKeysOnceShut
