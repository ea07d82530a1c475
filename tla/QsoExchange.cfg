SPECIFICATION FairSpec
CONSTANTS
    None = None
    Caller = Caller
    Answerer = Answerer
    Third = {x, y}
    maxRepeats = 4
INVARIANTS
    TypeOK
    LoggedInEarnest
    SentWithinPatience
PROPERTIES
    EveryContactEnds
    EndsAgree
