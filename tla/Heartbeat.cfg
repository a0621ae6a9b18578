CONSTANTS
    me = me
    s2 = s2
    s3 = s3
    c1 = c1
    Nil = Nil
    Servers <- MCServers
    Chunks = {c1}
    Sums = {1}
    timeoutRetries = 2
    MaxChanges = 1
    MaxCrashes = 1
    MaxNews = 1
SPECIFICATION MCFairSpec
INVARIANTS HTypeOK TablesAgree NoDuplicateHolder DeadHoldsNothing OwnLists
PROPERTIES OthersKeepTheirPlace DownIsFound UpIsFound NewsAreFollowed
