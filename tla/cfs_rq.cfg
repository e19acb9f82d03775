\* One CPU, and a vruntime that wraps around; a latency of two units, so that
\* a slice is one or none.
CONSTANTS
    CPUs = {1}
    t1 = t1
    t2 = t2
    Tasks = {t1, t2}
    None = None
    Cost <- MCCost
    W = 16
    Horizon = 16
    Lag = 2
    Latency = 2
    Gran = 1
    MinGran = 1
    NrLatency = 2
    Ops = {"exit", "yield", "child_first", "class"}
SPECIFICATION MCSpec
INVARIANT Inv
PROPERTY NoStarvation
