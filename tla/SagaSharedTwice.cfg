SPECIFICATION Spec
CONSTANTS
    q1 = q1
    q2 = q2
    shared = shared
    Runs <- TwoCalls
    Instances = {shared}
    InstanceOf <- SharedObject
    NumProcs = 2
    Retries <- RetriesOf2
    HasTimeout <- NeverTimed2
    HasDelay <- NeverDelayed2
    PartialRejects = FALSE
    FallbacksMayFail = FALSE
INVARIANTS
    RunsEachProcedureOnce
