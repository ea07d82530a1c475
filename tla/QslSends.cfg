SPECIFICATION TwoPassSpec
CONSTANTS
    q1 = q1
    q2 = q2
    k1 = k1
    t1 = t1
    t2 = t2
    t3 = t3
    None = None
    Qso = {q1, q2}
    Callsign = {k1}
    callsignOf <- oneStation
    Gateway = {q2}
    Task = {t1, t2, t3}
    Kinds <- EveryKind
    MaxPerDay = 2
    MaxPerRun = 1
    Approvals = 2
    Crashes = TRUE
    FailsAt = {"checking", "declining", "smtp"}
SYMMETRY Symmetry
CHECK_DEADLOCK FALSE
INVARIANTS
    TypeOK
    MailedOncePerApproval
    OnlyCrashStrands
    FlagIsDurable
PROPERTIES
    OptOutHonoured
    SkippedStays
