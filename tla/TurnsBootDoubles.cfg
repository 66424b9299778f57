SPECIFICATION Spec
CONSTANTS
    s1 = s1
    s2 = s2
    Sessions <- OneSession
    Home = s1
    Servers <- OneDeath
    Hydrates = FALSE
    SlowStarts = FALSE
    BusyBoots = TRUE
    Interrupts = FALSE
CHECK_DEADLOCK FALSE
INVARIANTS
    SubmittedOnce
