\* Rings of three, so that they fill up and wrap; a quota smaller than a ring;
\* an EEPROM of four words; three PHY addresses.
CONSTANTS
    Cbs = 3
    InitCbs = 1
    Rfds = 3
    Quota = 2
    Ops = {"probe", "open", "close", "ringparam", "diag", "timeout", "error", "io_resume", "suspend", "resume"}
    UpFails = {"open", "ringparam", "diag", "timeout", "resume", "io_resume"}
    WC = 4
    M = 2
    MaxLen = 4
    Addrs = {0, 1, 2}
SPECIFICATION MCSpec
INVARIANTS RingsInv InterfaceInv
PROPERTIES StoppedQueueWakes RuRestarts
CHECK_DEADLOCK FALSE
