SPECIFICATION FramedFairSpec
CONSTANTS
    c1 = c1
    c2 = c2
    s1 = s1
    None = None
    Call = {c1,c2}
    Stop = {s1}
    Client = {c1,c2,s1}
    Packets = 2
    SlowLink = FALSE
    CommandsLost = FALSE
CHECK_DEADLOCK FALSE
PROPERTIES
    EveryCallReturns
    RadioComesDown
