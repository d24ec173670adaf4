SPECIFICATION Spec
CONSTANTS
    q1 = q1
    q2 = q2
    shared = shared
    Runs <- TwoCalls
    Instances <- TwoCalls
    InstanceOf <- OwnObjects
    NumProcs = 3
    Retries <- RetriesOf3
    HasTimeout <- NeverTimed3
    HasDelay <- ThirdDelayed3
    PartialRejects = FALSE
    FallbacksMayFail = FALSE
INVARIANTS
    TypeOK
PROPERTIES
    IsAtomic
