\* Two runqueues, three CPUs of which two may balance at a time, two CPUs
\* without a tick, a clock of one step after which a load is half of what it
\* was, two addresses for NUMA groups, so that one is freed and taken again,
\* two searches at a time, a period between 14 and 60 units of a process of one
\* window or two.
CONSTANTS
    t1 = t1
    t2 = t2
    t3 = t3
    None = None
    grpA = grpA
    Parts = {"rq", "balance", "nohz", "load", "numa", "move", "period"}
    Churn = TRUE
    RqCPUs = {1, 2}
    RqTasks = {t1, t2}
    Cost <- MCCost
    W = 16
    RqHorizon = 1
    Lag = 1
    Latency = 2
    Gran = 1
    MinGran = 1
    NrLatency = 2
    Ops = {"wake_remote", "migrate", "change", "class"}
    CPUs = {0, 1, 2}
    SdTopology <- MCSdTopology
    Capacity <- MCCapacity
    sd_imbalance_pct = 125
    Flags = {}
    LbTasks = {t1, t2}
    Load <- MCLoad
    LbAllowed <- MCLbAllowed
    CacheHot = {}
    cache_nice_tries = 0
    Balancers = 2
    NohzCPUs = {0, 1}
    MaxTasks = 2
    Horizon = 1
    TaskWeight = 2
    Shares = 4
    Tasks = {t1, t2, t3}
    Nodes = {0, 1}
    Touches <- MCTouches
    Addresses = {1, 2}
    MaxFaults = 2
    NodeOf <- MCNodeOf
    Faults <- MCFaults
    Group <- MCGroup
    Allowed <- MCAllowed
    Distance <- MCDistance
    NumaTopology = "DIRECT"
    Trapped = {t3}
    Searchers = 2
    scan_period_min = 20
    scan_period_max = 60
    Floor = 14
    Windows = {1, 2}
    MaxCount = 3
    ScanTasks = {t1}
    Vmas <- MCVmas
    scan_size = 1
    HPAGE = 1
SPECIFICATION MCSpec
INVARIANTS MigrateInv BalanceInv LoadInv NumaInv
PROPERTY RemoteScansFaster
CHECK_DEADLOCK FALSE
