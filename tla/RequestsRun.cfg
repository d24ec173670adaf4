SPECIFICATION Spec
CONSTANTS
    before = before
    call1 = call1
    call2 = call2
    request1 = request1
    ann = ann
    bob = bob
    secret1 = secret1
    secret2 = secret2
    Calls <- SomeCalls
    Earlier = before
    Emails <- TwoUsers
    Known = ann
    Passwords <- TwoPasswords
    FlowLengths <- AroundFive
    Forged = forged
    None = none
    MaxFaults = 1
    Requests <- SomeRequests
    Chain <- AuthThenAudit
SYMMETRY Alike
INVARIANTS
    TypeOK
    TokenIsForItsCaller
    RefusedForCause
    HandledMeansAccepted
    AnsweredOnce
PROPERTIES
    OnlyItsCreatorSecures
    VerdictsAreLocal
