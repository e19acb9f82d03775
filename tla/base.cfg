\* Three pools and two borrowers: the list gets as short as one pool.  Two
\* engines of three with statistics, and arrays shorter and longer than a
\* round.  Every failure of the probe.  One engine of each direction with
\* interrupts, and the C2S engine by itself with errors.  Three tests one after
\* the other, each start and stop at any time.
CONSTANTS
    MAX_POOL = 3
    Borrowers = {b1, b2}
    NULL = NULL
    MAX_STATS = 2
    Samples = {0, 1}
    StatsEngines = 3
    StatsMask = {0, 2}
    Guis = {g1}
    Counts = {1, 3}
    Bars = {0, 1}
    Faults = {"enable", "kmalloc", "regions", "dma_mask", "bar0", "bar_type", "ioremap",
              "chrdev", "cdev_alloc"}
    PerDirection = 2
    IntrMask = {0, 2}
    ErrorEngines = {2}
    Settings = {{"PKTCHK"}, {"PKTGEN"}, {"PKTCHK", "PKTGEN"}, {"LOOPBACK"}, {}}
    SeqMod = 3
    MaxPkts = 2
    MaxTimes = 2
    MaxStarts = 3
    MayReopen = TRUE
SPECIFICATION MCSpec
INVARIANTS ListSound StatsInv LifeInv IntrInv RawInv
PROPERTIES ImplementsQueue ImplementsLossyQueue CompletedIsHandled WorkEnds
CHECK_DEADLOCK FALSE
