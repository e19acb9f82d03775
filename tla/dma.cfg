\* A ring of four, so that two packets fill it; up to three packets of one or
\* two fragments at a time, so that DmaSendPkt runs out of BDs in a packet.
\* The receive ring has four BDs too, for packets of one or two.
CONSTANTS
    N = 4
    IsRxChannel = FALSE
    NULL = NULL
    ErrMod = 4
    TotalNum = 4
    Handlers = {poll}
    BdLimit = 4
    SeqMod = 3
    MaxPkts = 3
    Frags = {1, 2}
    MaxSessions = 1
    AllocFails = {}
    MayUnregister = FALSE
    HwErrors = {}
    MaxRxFrags = 1
    RxMaxRxFrags = 2
SPECIFICATION MCSpec
INVARIANTS RingSound SeqNosConsecutive ReceiverSound
PROPERTIES BuffersComeBack PacketsDelivered RingReplenished
