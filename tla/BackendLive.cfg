SPECIFICATION FairSpec
CONSTANTS
    a = a
    b = b
    NoSession = NoSession
    Sessions <- TwoSessions
    LaunchSession = a
    Stdio = TRUE
    Readonly = FALSE
    UserKinds <- ScopedKinds
    Answers = {"ok", "odd"}
    FrameLoss = TRUE
    MaxPending = 3
    MaxCommands = 2
    MaxConns = 3
PROPERTIES
    ScopedWork
    BarriersRelease
    DeferredDrains
