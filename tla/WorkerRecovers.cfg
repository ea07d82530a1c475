SPECIFICATION FairSpec
CONSTANTS
    Job = {j1, j2, j3}
    Nobody = Nobody
    Generations = 3
CHECK_DEADLOCK FALSE
INVARIANTS
    OwedByLive
    InService
    OwnAnswer
    HeldOpenWhileOwed
PROPERTIES
    HealthyStays
    EveryJobAnswered
