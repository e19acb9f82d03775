SPECIFICATION Spec
CONSTANTS
    N = 4
    IsRxChannel = TRUE
    NULL = NULL
    ErrMod = 4
    TotalNum = 3
    Handlers = {poll}
    BdLimit = 4
    SeqMod = 1
    MaxPkts = 0
    Frags = {}
    MaxSessions = 1
    AllocFails = {}
    MayUnregister = TRUE
    HwErrors = {}
    MaxRxFrags = 2
INVARIANTS
    UnregisterReturnsAll
CHECK_DEADLOCK FALSE
