SPECIFICATION FairSpec
CONSTANTS
    NumFetches = 3
    Objects = {page, image}
    Null = Null
    HostOf <- Hosts
    MaxFetchers = 2
    MaxPerHost = 1
    StartMayFail = TRUE
    PerformMayFail = TRUE
INVARIANTS FetchInv
PROPERTIES EndsOnce EveryFetchEnds
CHECK_DEADLOCK FALSE
