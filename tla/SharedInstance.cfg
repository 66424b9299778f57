SPECIFICATION FairSpec
CONSTANTS
    p1 = p1
    p2 = p2
    s1 = s1
    s2 = s2
    s3 = s3
    None = None
    Bad = Bad
    Clients <- TwoClients
    Servers <- TwoServers
CHECK_DEADLOCK FALSE
INVARIANTS
    TypeOK
    CompetitorsWereLeft
PROPERTIES
    ImplementsSharedServer
    DiscoveryEnds
