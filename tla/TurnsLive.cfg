SPECIFICATION FairSpec
CONSTANTS
    s1 = s1
    s2 = s2
    Sessions <- OneSession
    Home = s1
    Servers <- LiveServers
    Hydrates = TRUE
    SlowStarts = FALSE
    BusyBoots = FALSE
    Interrupts = TRUE
CHECK_DEADLOCK FALSE
INVARIANTS
    PromptKept
    AnsweredOnce
    DoneIsOver
PROPERTIES
    PromptsDrain
    PhantomEnds
