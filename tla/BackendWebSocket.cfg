SPECIFICATION Spec
CONSTANTS
    a = a
    b = b
    NoSession = NoSession
    Sessions <- TwoSessions
    LaunchSession = a
    Stdio = FALSE
    Readonly = TRUE
    UserKinds <- AllUserKinds
    Answers = {"ok", "odd"}
    FrameLoss = FALSE
    MaxPending = 5
    MaxCommands = 3
    MaxConns = 3
INVARIANTS
    TargetInScope
