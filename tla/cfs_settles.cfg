\* Three CPUs of which one may balance at a time, a task that is cache-hot;
\* three CPUs without a tick, two tasks of a process that scan its memory, one
\* search at a time.  The other parts stay as they are.
CONSTANTS
    t1 = t1
    t2 = t2
    t3 = t3
    None = None
    grpA = grpA
    Parts = {"balance", "nohz", "scan", "move"}
    Churn = FALSE
    RqCPUs = {1, 2}
    RqTasks = {t1, t2}
    Cost <- MCCost
    W = 16
    RqHorizon = 1
    Lag = 1
    Latency = 2
    Gran = 1
    MinGran = 1
    NrLatency = 2
    Ops = {"wake_remote", "migrate", "change", "class"}
    CPUs = {0, 1, 2}
    SdTopology <- MCSdTopology
    Capacity <- MCCapacity
    sd_imbalance_pct = 125
    Flags = {}
    LbTasks = {t1, t2, t3}
    Load <- MCLoad
    LbAllowed <- MCLbAllowed
    CacheHot = {t2}
    cache_nice_tries = 0
    Balancers = 1
    NohzCPUs = {0, 1, 2}
    MaxTasks = 3
    Horizon = 1
    TaskWeight = 2
    Shares = 4
    Tasks = {t1, t2, t3}
    Nodes = {0, 1, 2}
    Touches <- MCTouches
    Addresses = {1, 2}
    MaxFaults = 2
    NodeOf <- MCNodeOf
    Faults <- MCFaults
    Group <- MCGroup
    Allowed <- MCAllowed
    Distance <- MCDistance
    NumaTopology = "BACKPLANE"
    Trapped = {}
    Searchers = 1
    scan_period_min = 20
    scan_period_max = 60
    Floor = 14
    Windows = {1, 2}
    MaxCount = 3
    ScanTasks = {t1, t2}
    Vmas <- MCVmas
    scan_size = 1
    HPAGE = 2
SPECIFICATION FairSpec
INVARIANT SettleInv
PROPERTIES NoIdleCpu EveryPageScanned Settles
CHECK_DEADLOCK FALSE
