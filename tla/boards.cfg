\* MMC: two segments of two words and a FIFO of two.  Two events in the CS8900,
\* two files of the USB skeleton, two by two keys with two readers, a ring of
\* four events with one reader.
CONSTANTS
    Segments = 2
    SegWords = 2
    FIFO = 2
    Clocks = {2}
    clk_rate = 8
    MaxPsc = 3
    MaxIsq = 2
    Files = {f1, f2}
    WRITES_IN_FLIGHT = 2
    Rows = {1, 2}
    Cols = {1, 2}
    MaxDown = 2
    Readers = {r1, r2}
    MAX_BUTTON_BUF = 4
    RingReaders = {r1}
SPECIFICATION MCSpec
INVARIANTS MciInv ChipInv SkelInv PadInv KeyRingInv
PROPERTY WaitersGoOn
CHECK_DEADLOCK FALSE
