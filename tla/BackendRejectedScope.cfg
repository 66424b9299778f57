SPECIFICATION Spec
CONSTANTS
    a = a
    b = b
    NoSession = NoSession
    Sessions <- TwoSessions
    LaunchSession = a
    Stdio = TRUE
    Readonly = FALSE
    UserKinds <- ScopedKinds
    Answers = {"ok", "err"}
    FrameLoss = TRUE
    MaxPending = 3
    MaxCommands = 3
    MaxConns = 2
PROPERTIES
    ScopedWork
