SPECIFICATION Spec
CONSTANTS
    s1 = s1
    s2 = s2
    Sessions <- TwoSessions
    Home = s1
    Servers <- StoreServers
    Hydrates = TRUE
    SlowStarts = FALSE
    BusyBoots = FALSE
    Interrupts = TRUE
CHECK_DEADLOCK FALSE
INVARIANTS
    TypeOK
    LiveIsOpen
    LatchIsLive
    StashMatches
    SubmittedOnce
PROPERTIES
    NoConcurrentSubmit
    StoppedStaysIdle
