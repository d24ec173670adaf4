SPECIFICATION Spec
CONSTANTS
    fixed = fixed
    changing = changing
    one1 = one1
    one2 = one2
    all1 = all1
    Ids <- BothIds
    Readers <- TwoReaders
    AllReaders <- OneAllReader
    MaxVersion = 2
    Mutable <- Changing
    MaxScan = 3
SYMMETRY ReadersAlike
CHECK_DEADLOCK FALSE
INVARIANTS
    TypeOK
    LastingRowsAreRead
    CoherentIfImmutable
