SPECIFICATION FairSpec
CONSTANTS
    Base = 1
    Cap = 10
    ShortLived = 2
    ConnectTicks <- StdioConnect
    MaxFailures = 7
INVARIANTS
    TypeOK
    CrashLoopBacksOff
    HealthyRestartIsImmediate
PROPERTIES
    DialAllowedAgain
