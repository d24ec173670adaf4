SPECIFICATION Spec
CONSTANTS
    init1 = init1
    init2 = init2
    init3 = init3
    auth1 = auth1
    auth2 = auth2
    InitPods <- ThreeInitPods
    AuthPods <- TwoAuthPods
    MaxInits = 2
    Threshold = 3
CHECK_DEADLOCK FALSE
PROPERTIES
    RefusalLeavesItUninitialised
