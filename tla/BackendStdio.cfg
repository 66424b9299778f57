SPECIFICATION Spec
CONSTANTS
    a = a
    b = b
    NoSession = NoSession
    Sessions <- TwoSessions
    LaunchSession = a
    Stdio = TRUE
    Readonly = FALSE
    UserKinds <- ScopedKinds
    Answers = {"ok", "err", "odd"}
    FrameLoss = TRUE
    MaxPending = 3
    MaxCommands = 3
    MaxConns = 3
INVARIANTS
    TypeOK
    DownIsClean
    WaitersHaveABarrier
    BarrierCoversCandidate
PROPERTIES
    ImplementsCommandFate
    NeverSentAfterReport
    ReconcileBeforeWork
