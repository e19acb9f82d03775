\* A stop command just after the start has been noticed.
CONSTANTS
    Settings = {{"LOOPBACK"}}
    SeqMod = 4
    MaxPkts = 2
    MaxTimes = 2
    MaxStarts = 1
    MayReopen = FALSE
SPECIFICATION Spec
INVARIANT StopStops
CHECK_DEADLOCK FALSE
