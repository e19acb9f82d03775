SPECIFICATION Spec
CONSTANTS
    N = 3
    IsRxChannel = FALSE
    NULL = NULL
    ErrMod = 4
    TotalNum = 2
    Handlers = {poll}
    BdLimit = 4
    SeqMod = 1
    MaxPkts = 1
    Frags = {1}
    MaxSessions = 2
    AllocFails = {2}
    MayUnregister = TRUE
    HwErrors = {}
    MaxRxFrags = 1
INVARIANTS
    EnabledEngineHasRing
CHECK_DEADLOCK FALSE
