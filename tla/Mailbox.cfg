SPECIFICATION FairSpec
CONSTANTS
    a = a
    b = b
    Servers <- TwoServers
    Quota = 3
    MaxAsks = 3
    MaxFaults = 2
INVARIANTS
    TypeOK
    MailboxKept
PROPERTIES
    AskEnds
