------------------------------- MODULE RawTest -------------------------------
(***************************************************************************)
(* The test mode of the raw data driver (sguser.c): the xpmon GUI starts   *)
(* and stops tests by ioctls that end in mySetState, and the driver's      *)
(* poll_routine notices a started test, and transmits while it goes on.    *)
(*                                                                         *)
(* mySetState works under RawLock; poll_routine reads RawTestMode without  *)
(* it, and takes TxSeqNo back without it when DmaSendPkt takes fewer       *)
(* packets than were prepared.  Here a packet has one fragment, the buffer *)
(* pool gives any number of buffers and DmaSendPkt takes any part of them: *)
(* module DmaEngine says which.  The driver has been registered.           *)
(***************************************************************************)
EXTENDS Naturals, Sequences

CONSTANTS
    Settings,   \* what the GUI's buttons may be set to
    SeqMod,     \* modulus of TxSeqNo (2^16 in the code)
    MaxPkts,    \* bound: packets of one DmaSetupTransmit (100)
    MaxTimes,   \* DmaSetupTransmit calls in one poll_routine (9)
    MaxStarts,  \* bound: start commands
    MayReopen   \* whether the GUI is closed and opened again

Enables == {"PKTCHK", "PKTGEN", "LOOPBACK"}

VARIABLES
    RawTestMode,    \* set of the flags TEST_START, TEST_IN_PROGRESS, ENABLE_*
    testmode,       \* static of mySetState: value for the registers
    TX_CONFIG, RX_CONFIG,
    TxSeqNo,
    pc,             \* where poll_routine is
    times,          \* DmaSetupTransmit calls left in this poll_routine
    pkts,           \* sequence numbers of the packets being sent
    result,         \* what DmaSendPkt returned
    expected,       \* number the next packet of this test should have
    fresh,          \* TRUE from the start of a transmission until its first packets
    gui,            \* the GUI's flags: running (TEST_START) and buttons, and
                    \* whether it is open and has been closed before
    starts

stateVars == <<RawTestMode, testmode, TX_CONFIG, RX_CONFIG>>
pollVars == <<pc, times, pkts, result>>
vars == <<stateVars, TxSeqNo, pollVars, expected, fresh, gui, starts>>

Init ==
    /\ RawTestMode = {}
    /\ testmode = {}
    /\ TX_CONFIG = {} /\ RX_CONFIG = {}
    /\ TxSeqNo = 0
    /\ pc = "idle" /\ times = 0 /\ pkts = <<>> /\ result = 0
    /\ expected = 0 /\ fresh = FALSE
    /\ gui = [open |-> TRUE, reopened |-> FALSE, running |-> FALSE,
              buttons |-> {"LOOPBACK"}]
    /\ starts = 0

\* The two modes in which the driver transmits.
TxMode(mode) == mode \cap {"PKTCHK", "LOOPBACK"} # {}

-----------------------------------------------------------------------------
(* mySetState, called by ISTART_TEST and ISTOP_TEST.                       *)

\* PKTCHKR and PKTGENR are the same bit of the two registers.
RegBits(mode) ==
    (IF "LOOPBACK" \in mode THEN {"LOOPBACK"} ELSE {})
    \cup (IF mode \cap {"PKTCHK", "PKTGEN"} # {} THEN {"CHKGEN"} ELSE {})

\* A start that enables nothing is refused.
StartCommand(s) ==
    /\ testmode' = RegBits(s)
    /\ IF s = {}
       THEN /\ RawTestMode' = {}
            /\ UNCHANGED <<TX_CONFIG, RX_CONFIG, TxSeqNo>>
       ELSE /\ RawTestMode' = s \cup {"TEST_START"}
            /\ TX_CONFIG' = IF TxMode(s) THEN RegBits(s) ELSE {}
            /\ TxSeqNo' = IF TxMode(s) THEN 0 ELSE TxSeqNo
            /\ RX_CONFIG' = IF "PKTGEN" \in s THEN RegBits(s) ELSE RX_CONFIG

\* Mutant: only the checker's flag clears the bit.
StopCommand_CheckerOnly(s) ==
    LET mode == testmode \ (IF "PKTCHK" \in s THEN {"CHKGEN"} ELSE {})
    IN  /\ RawTestMode' = s
        /\ testmode' = mode
        /\ TX_CONFIG' = mode
        /\ RX_CONFIG' = mode
        /\ UNCHANGED TxSeqNo

\* The loopback stays, so that the queues drain.
StopCommand(s) ==
    LET mode == testmode \ (IF s \cap {"PKTCHK", "PKTGEN"} # {}
                            THEN {"CHKGEN"} ELSE {})
    IN  /\ RawTestMode' = s
        /\ testmode' = mode
        /\ TX_CONFIG' = mode
        /\ RX_CONFIG' = mode
        /\ UNCHANGED TxSeqNo

-----------------------------------------------------------------------------
(* The GUI.  While a test runs its buttons cannot be changed.              *)

StartTest ==
    /\ gui.open /\ ~gui.running
    /\ starts < MaxStarts
    /\ \E s \in Settings :
        /\ StartCommand(s)
        /\ gui' = [gui EXCEPT !.running = (s # {}), !.buttons = s]
        /\ expected' = IF TxMode(s) THEN 0 ELSE expected
        /\ fresh' = TxMode(s)
    /\ starts' = starts + 1
    /\ UNCHANGED pollVars

StopTest ==
    /\ gui.open /\ gui.running
    /\ StopCommand(gui.buttons)
    /\ gui' = [gui EXCEPT !.running = FALSE]
    /\ UNCHANGED <<pollVars, expected, fresh, starts>>

Close ==
    /\ MayReopen
    /\ gui.open
    /\ gui' = [gui EXCEPT !.open = FALSE]
    /\ UNCHANGED <<stateVars, TxSeqNo, pollVars, expected, fresh, starts>>

\* Started again, the GUI reads the driver's state; PutTestButtons1 shows
\* loopback unless one of the others is on.
Open ==
    LET going == "TEST_IN_PROGRESS" \in RawTestMode
        enabled == (IF going THEN RawTestMode ELSE {}) \cup
                   (RawTestMode \cap {"PKTGEN"})
        shown == enabled \cap {"PKTCHK", "PKTGEN"}
    IN  /\ ~gui.open
        /\ gui' = [open |-> TRUE, reopened |-> TRUE, running |-> going,
                   buttons |-> IF shown = {} THEN {"LOOPBACK"} ELSE shown]
        /\ UNCHANGED <<stateVars, TxSeqNo, pollVars, expected, fresh, starts>>

-----------------------------------------------------------------------------
(* poll_routine and DmaSetupTransmit.                                      *)

\* RawTestMode is looked at without a lock.
PollCheck ==
    LET started == "TEST_START" \in RawTestMode /\ TxMode(RawTestMode)
    IN  /\ pc = "idle"
        /\ \/ /\ started
              /\ pc' = "start"
              /\ times' = 1
           \/ /\ ~started
              /\ "TEST_IN_PROGRESS" \in RawTestMode
              /\ pc' = "setup"
              /\ times' = MaxTimes
        /\ UNCHANGED <<stateVars, TxSeqNo, pkts, result, expected, fresh, gui, starts>>

\* RawLock: the state is changed whatever it has become.
TestInProgress ==
    /\ pc = "start"
    /\ RawTestMode' = (RawTestMode \ {"TEST_START"}) \cup {"TEST_IN_PROGRESS"}
    /\ pc' = "first"
    /\ UNCHANGED <<testmode, TX_CONFIG, RX_CONFIG, TxSeqNo, times, pkts, result,
                   expected, fresh, gui, starts>>

\* RawLock: packets are prepared, one the first time, as many as there are
\* buffers.  Without any, poll_routine ends.
DmaSetupTransmit ==
    /\ pc \in {"first", "setup"}
    /\ \E n \in 0 .. IF pc = "first" THEN 1 ELSE MaxPkts :
        /\ pkts' = [j \in 1 .. n |-> (TxSeqNo + j-1) % SeqMod]
        /\ TxSeqNo' = (TxSeqNo + n) % SeqMod
        /\ pc' = IF n = 0 THEN "idle" ELSE "send"
        /\ fresh' = (fresh /\ n = 0)
    /\ UNCHANGED <<stateVars, times, result, expected, gui, starts>>

DmaSendPkt ==
    /\ pc = "send"
    /\ result' \in 0 .. Len(pkts)
    /\ expected' = IF result' = 0 THEN expected
                   ELSE (pkts[result'] + 1) % SeqMod
    /\ pc' = "trim"
    /\ UNCHANGED <<stateVars, TxSeqNo, times, pkts, fresh, gui, starts>>

\* No lock: TxSeqNo is set to the number of the first packet not sent.
TakeBack ==
    /\ pc = "trim"
    /\ TxSeqNo' = IF result # Len(pkts) THEN pkts[result + 1] ELSE TxSeqNo
    /\ pkts' = <<>>
    /\ result' = 0
    /\ times' = IF result # Len(pkts) THEN 0 ELSE times - 1
    /\ pc' = IF times' = 0 THEN "idle" ELSE "setup"
    /\ UNCHANGED <<stateVars, expected, fresh, gui, starts>>

-----------------------------------------------------------------------------
Poll == PollCheck \/ TestInProgress \/ DmaSetupTransmit \/ DmaSendPkt
            \/ TakeBack

Next == StartTest \/ StopTest \/ Close \/ Open \/ Poll

\* poll_timer is re-armed at the end of poll_routine.
Spec == Init /\ [][Next]_vars /\ WF_vars(Poll)

-----------------------------------------------------------------------------
Flags == Enables \cup {"TEST_START", "TEST_IN_PROGRESS"}

TypeOK ==
    /\ RawTestMode \subseteq Flags
    /\ testmode \subseteq {"LOOPBACK", "CHKGEN"}
    /\ TX_CONFIG \subseteq {"LOOPBACK", "CHKGEN"}
    /\ RX_CONFIG \subseteq {"LOOPBACK", "CHKGEN"}
    /\ TxSeqNo \in 0 .. SeqMod - 1
    /\ pc \in {"idle", "start", "first", "setup", "send", "trim"}
    /\ times \in 0 .. MaxTimes
    /\ pkts \in Seq(0 .. SeqMod - 1)
    /\ result \in 0 .. Len(pkts)
    /\ expected \in 0 .. SeqMod - 1
    /\ fresh \in BOOLEAN
    /\ gui \in [open : BOOLEAN, reopened : BOOLEAN, running : BOOLEAN,
               buttons : SUBSET Enables]
    /\ starts \in 0 .. MaxStarts

\* "reset the sequence numbers when starting a test" (mySetState): the
\* packets of the first test are numbered from zero, one by one, however many
\* of the prepared packets DmaSendPkt refuses.
NumbersFromZero == starts <= 1 /\ pc = "send" => pkts[1] = expected

\* The same comment: until the first packets of a test are prepared the
\* number stays reset, although the last test's may still be taken back.  The
\* code does not keep it; see the README.
ResetStays == fresh => TxSeqNo = 0

\* The packet generator is on only during a test that asked for it: the bit
\* it shares with the checker, and testmode, which stays from one command to
\* the next, never leave it on or turn it on for another test, as long as the
\* GUI has not been closed in between.
GeneratorOnlyInItsTest ==
    ~gui.reopened /\ "CHKGEN" \in RX_CONFIG => gui.running /\ "PKTGEN" \in gui.buttons

\* What the raw data driver keeps through every start and stop of a test.
Inv == TypeOK /\ NumbersFromZero /\ GeneratorOnlyInItsTest

\* A test that transmits gets going: poll_routine takes the command up, or
\* it is stopped first.
TestGetsGoing ==
    (gui.running /\ TxMode(gui.buttons)) ~>
        ("TEST_IN_PROGRESS" \in RawTestMode \/ ~gui.running)

\* "Else, stop the test" (mySetState): after a stop command the driver no
\* longer takes a test to be in progress.  The code does not keep it; see run
\* raw_stop.
StopStops == ~gui.running => "TEST_IN_PROGRESS" \notin RawTestMode

\* "Incase a test is going on, then enable the buttons to be correct"
\* (ConfigGui.c): the GUI shows a test to be running while one is.  The code
\* does not keep it; see the README.
GuiShowsTest == gui.open /\ "CHKGEN" \in RX_CONFIG => gui.running
=============================================================================
