------------------------------- MODULE MCBoards -------------------------------
(***************************************************************************)
(* The drivers of the S3C2410 board, in one run: the MMC host s3cmci, the  *)
(* CS8900 network chip, the USB skeleton and the two button drivers.  They *)
(* share no state, so a behaviour is of one part, chosen at the start, and *)
(* the others stay as they are.                                            *)
(***************************************************************************)
EXTENDS Naturals, FiniteSets

CONSTANTS
    Segments, SegWords, FIFO, Clocks, clk_rate, MaxPsc,
    MaxIsq,
    Files, WRITES_IN_FLIGHT,
    Rows, Cols, MaxDown, Readers,
    MAX_BUTTON_BUF, RingReaders

ASSUME MciAssumption ==
    /\ Segments \in Nat \ {0} /\ SegWords \in Nat \ {0} /\ FIFO \in Nat \ {0}
    /\ MaxPsc \in Nat
ASSUME ChipAssumption == MaxIsq \in Nat
ASSUME SkelAssumption ==
    IsFiniteSet(Files) /\ "nobody" \notin Files /\ WRITES_IN_FLIGHT \in Nat
ASSUME PadAssumption ==
    Rows \subseteq 1 .. 4 /\ Cols \subseteq 1 .. 4 /\ "free" \notin Readers
ASSUME RingAssumption == MAX_BUTTON_BUF \in Nat \ {0}

VARIABLES
    part,
    host, hw, irq_off, tasklet, core, taken, oops,
    chipDev, prog, half, val, addr, regs, isq, line, queue, txBuf, sender, txlen,
    mode, hit, region,
    skel, intf, file, mutex, bkl, inflight, disc, bad,
    down, cur_irq, timer, key_value, irqs, owned, st, sem, reader, got, since,
    buf, head, tail, flag, buttonStatus, unread, ringIrqs, others, opened, waiting

Mci == INSTANCE S3cMci WITH held <- taken
Chip == INSTANCE Cs8900 WITH dev <- chipDev, irq <- line, tx <- txBuf
Skel == INSTANCE UsbSkel WITH dev <- skel, AutopmSleeps <- FALSE
Pad == INSTANCE KeyButton
Ring == INSTANCE KeyRing WITH Readers <- RingReaders, irqs <- ringIrqs,
            file <- opened, reader <- waiting

mciVars == <<host, hw, irq_off, tasklet, core, taken, oops>>
chipVars == <<chipDev, prog, half, val, addr, regs, isq, line, queue, txBuf, sender,
              txlen, mode, hit, region>>
skelVars == <<skel, intf, file, mutex, bkl, inflight, disc, bad>>
padVars == <<down, cur_irq, timer, key_value, irqs, owned, st, sem, reader, got, since>>
ringVars == <<buf, head, tail, flag, buttonStatus, unread, ringIrqs, others, opened, waiting>>

all == <<part, mciVars, chipVars, skelVars, padVars, ringVars>>

MCInit ==
    /\ part \in {"mci", "chip", "skel", "pad", "ring"}
    /\ Mci!Init /\ Chip!Init /\ Skel!Init /\ Pad!Init /\ Ring!Init
    /\ part # "pad" => owned = {}
    /\ part # "ring" => others = {}

MCNext ==
    /\ UNCHANGED part
    /\ \/ part = "mci" /\ Mci!Next /\ UNCHANGED <<chipVars, skelVars, padVars, ringVars>>
       \/ part = "chip" /\ Chip!Next /\ UNCHANGED <<mciVars, skelVars, padVars, ringVars>>
       \/ part = "skel" /\ Skel!Next /\ UNCHANGED <<mciVars, chipVars, padVars, ringVars>>
       \/ part = "pad" /\ Pad!Next /\ UNCHANGED <<mciVars, chipVars, skelVars, ringVars>>
       \/ part = "ring" /\ Ring!Next /\ UNCHANGED <<mciVars, chipVars, skelVars, padVars>>

\* The fairness of each part (see Fairness in its module), for the behaviours
\* that are its own.
MCSpec ==
    /\ MCInit /\ [][MCNext]_all
    /\ WF_mciVars(part = "mci" /\ Mci!IrqAny) /\ WF_mciVars(part = "mci" /\ Mci!Tasklet)
    /\ WF_mciVars(part = "mci" /\ Mci!HwCmd) /\ WF_mciVars(part = "mci" /\ Mci!HwData)
    /\ WF_chipVars(part = "chip" /\ Chip!cs8900_interrupt)
    /\ WF_chipVars(part = "chip" /\ Chip!Process)
    /\ WF_chipVars(part = "chip" /\ Chip!cs8900_transmit_timeout)
    /\ WF_skelVars(part = "skel" /\ Skel!skel_write_bulk_callback)
    /\ WF_skelVars(part = "skel" /\ Skel!skel_disconnect)
    /\ WF_skelVars(part = "skel" /\ Skel!Disconnected)
    /\ SF_skelVars(part = "skel" /\ Skel!NoInterface)
    /\ \A f \in Files : WF_skelVars(part = "skel" /\ Skel!GoesOn(f))
                          /\ SF_skelVars(part = "skel" /\ Skel!Interfaced(f))
    /\ WF_padVars(part = "pad" /\ Pad!delay_timer_fn)
    /\ \A r \in Readers : WF_padVars(part = "pad" /\ Pad!GoesOn(r))
    /\ \A r \in RingReaders :
          /\ WF_ringVars(part = "ring" /\ Ring!Wake(r))
          /\ WF_ringVars(part = "ring" /\ Ring!Retry(r))
          /\ WF_ringVars(part = "ring" /\ Ring!Read(r))

-----------------------------------------------------------------------------
\* The MMC host: a request that succeeds was moved to its last word, and the
\* interrupt is enabled while a command is on its way, and only then.
MciInv == part = "mci" => Mci!Inv

\* The CS8900: an interface that is up receives in the mode it was asked for,
\* and no event is left without an interrupt to come.
ChipInv == part = "chip" => Chip!Inv

\* The USB skeleton: its state is freed by the last that has it, and there is no
\* I/O after the disconnect.
SkelInv == part = "skel" => Skel!Inv

\* The keypad: a read gives a key that was down.
PadInv == part = "pad" => Pad!Inv

\* The ring of button events holds what was put and not taken.
KeyRingInv == part = "ring" => Ring!Inv

\* Who waits goes on: the core for an MMC request (S3cMci!RequestEnds), the
\* network core for the queue of the CS8900 (Cs8900!QueueWakes), the disconnect
\* for writers (UsbSkel!DisconnectEnds), a reader for a key
\* (KeyButton!KeyIsRead) or for an event in the ring (KeyRing!ReaderSeesEvent).
WaitersGoOn ==
    \A r \in Readers :
        \/ part = "mci" /\ core.busy
        \/ part = "chip" /\ chipDev = "up" /\ queue = "stopped"
        \/ part = "skel" /\ disc # "idle"
        \/ part = "pad" /\ reader[r] = "waiting" /\ timer /\ cur_irq # 0 /\ down # {}
        \/ part = "ring" /\ r \in RingReaders /\ waiting[r] = "sleep" /\ head # tail
        ~>
        /\ part = "mci" => ~core.busy \/ oops
        /\ part = "chip" => queue = "awake" \/ chipDev # "up"
        /\ part = "skel" => disc = "idle"
        /\ part = "pad" => reader[r] = "idle" \/ down = {}
        /\ part = "ring" /\ r \in RingReaders => waiting[r] # "sleep" \/ head = tail
=============================================================================
