CONSTANTS
    s1 = s1
    s2 = s2
    Servers <- MCServers
    Rank <- MCRank
    Clients = {c1}
    EmptyWrites = {1}
    Before = 1
    MaxTime = 3
    Expected = {0, 1}
    MaxFaults = 1
SPECIFICATION FairSpec
CHECK_DEADLOCK FALSE
INVARIANTS TypeOK CASAtomic
PROPERTIES Converges
