SPECIFICATION Spec
CONSTANTS
    c1 = c1
    c2 = c2
    s1 = s1
    None = None
    Call = {c1,c2}
    Stop = {s1}
    Client = {c1,c2,s1}
    Packets = 2
    SlowLink = FALSE
    CommandsLost = FALSE
SYMMETRY Symmetry
CHECK_DEADLOCK FALSE
INVARIANT TypeOK
INVARIANT OneHolder
INVARIANT HaltedIsSilent
INVARIANT NeverLeftKeyed
PROPERTY KeepsPromise
