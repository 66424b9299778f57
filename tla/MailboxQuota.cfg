SPECIFICATION Spec
CONSTANTS
    a = a
    b = b
    Servers <- OneServer
    Quota = 3
    MaxAsks = 4
    MaxFaults = 0
INVARIANTS
    FullQuota
