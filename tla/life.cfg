\* A ring of five BDs, two of which stay free, so that a whole packet can precede
\* one that does not fit, and a pool of four buffers.  The driver is loaded and
\* unloaded at any moment, twice, the first time without getting a ring.
\* No action reads the error counters, which are modulo ErrMod.
CONSTANTS
    N = 5
    IsRxChannel = FALSE
    NULL = NULL
    ErrMod = 1
    TotalNum = 4
    Handlers = {poll}
    BdLimit = 4
    SeqMod = 1
    MaxPkts = 2
    Frags = {1, 2}
    MaxSessions = 2
    AllocFails = {1}
    MayUnregister = TRUE
    HwErrors = {"SHORT"}
    MaxRxFrags = 1
    RxMaxRxFrags = 1
SPECIFICATION TxSpec
INVARIANTS HoldersAgree PacketsWhole
CHECK_DEADLOCK FALSE
