SPECIFICATION FairSpec
CONSTANTS
    w1 = w1
    w2 = w2
    c1 = c1
    c2 = c2
    None = None
    Outers <- TwoOuters
    Checks <- TwoChecks
CHECK_DEADLOCK FALSE
INVARIANTS
    TypeOK
    ActsUnderLock
    OrphanIsDoomed
    ConflictIsReal
PROPERTIES
    ImplementsDutyAuthority
    AuthorityReturns
