SPECIFICATION FairSpec
CONSTANTS
    None = None
    Empty = Empty
    Process = {p1, p2}
    Mortal = {p1, p2}
    Token = {t1, t2, t3, t4}
    DiesMidCall = FALSE
    AsksTwice = FALSE
INVARIANTS
    OneRun
PROPERTIES
    ReleasesItsOwn
    LeftLockGoes
