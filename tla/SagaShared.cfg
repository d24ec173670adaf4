SPECIFICATION FairSpec
CONSTANTS
    q1 = q1
    q2 = q2
    shared = shared
    Runs <- TwoCalls
    Instances = {shared}
    InstanceOf <- SharedObject
    NumProcs = 2
    Retries <- RetriesOf2
    HasTimeout <- SecondTimed2
    HasDelay <- SecondDelayed2
    PartialRejects = FALSE
    FallbacksMayFail = TRUE
INVARIANTS
    AllOrNothing
    CompensatesInReverse
    OverlapOnlyAfterTimeout
    TriesAreBoundedAndOrdered
PROPERTIES
    EveryCallEnds
