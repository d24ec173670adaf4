SPECIFICATION FairSpec
CONSTANTS
    events = events
    audit = audit
    demo1 = demo1
    demo2 = demo2
    demo3 = demo3
    Servers <- ThreeServers
    Topics <- TwoTopics
    RouterTopics <- ConsumeEvents
    ConfigTopics <- DeclaresAudit
    Serializer <- HaveSerializer
    Stopped <- FirstStops
    MaxLog <- TwoEvents
    MaxFaults = 1
CHECK_DEADLOCK FALSE
INVARIANTS
    TypeOK
    HandlersCanSend
    CommittedIsHandled
    HandledInOrder
    StoppedMeansDisconnected
PROPERTIES
    GoodMessagesAreHandled
