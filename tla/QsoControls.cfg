SPECIFICATION Spec
CONSTANTS
    None = None
    x = x
    Me = Me
    ByOperator = {o1}
    ByAuto = {a1}
    Station = {s1}
    Spoken <- Heard
    maxRepeats = 2
    maxConsecutiveTx = 2
INVARIANTS
    TypeOK
    ReportedOnce
    PendingMeansInFlight
PROPERTIES
    LiveContactHolds
    OwnWindowsOnly
    StoppedStaysSilent
