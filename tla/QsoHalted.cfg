SPECIFICATION Spec
CONSTANTS
    None = None
    x = x
    Me = Me
    ByOperator = {}
    ByAuto = {a1}
    Station = {s1}
    Spoken <- Heard
    maxRepeats = 2
    maxConsecutiveTx = 2
PROPERTY HaltMeansEverything
