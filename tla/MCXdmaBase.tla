----------------------------- MODULE MCXdmaBase -----------------------------
(***************************************************************************)
(* What runs beside the DMA engines, checked in one run: the packet pools, *)
(* the statistics device, the life of the module and the interrupt path of *)
(* the base driver, and the test mode of the raw data driver.  These parts *)
(* share no state in the code, so a behaviour is of one part, chosen at the*)
(* start, and the others stay as they are.  The interrupt path is there    *)
(* twice: engines that work side by side, and engines with errors.         *)
(***************************************************************************)
EXTENDS PktPool

CONSTANTS
    MAX_STATS, Samples, StatsEngines, StatsMask, Guis, Counts,
    Bars, Faults,
    PerDirection, IntrMask, ErrorEngines,
    Settings, SeqMod, MaxPkts, MaxTimes, MaxStarts, MayReopen

VARIABLES
    part,
    ring, pollAt, UserOpen, reader, call, from,
    DriverState, at, have, bound, mapped, dmaData, badFree, timer, lockedBy,
    CrSr, done, assigned, PendingMask, recent, sched, isr, bh,
    RawTestMode, testmode, TX_CONFIG, RX_CONFIG, TxSeqNo, pc, times, pkts,
    result, expected, fresh, gui, starts

Stats == INSTANCE StatsDevice WITH MAX_DMA_ENGINES <- StatsEngines,
            engineMask <- StatsMask, pc <- reader
Life == INSTANCE XdmaLife WITH pc <- at, held <- have
Path(mask, failing) ==
    INSTANCE IntrPath WITH engineMask <- mask, ErrorEngines <- failing
Raw == INSTANCE RawTest

\* A call of the ioctl with no room for a sample has no turn of the loop: it
\* changes nothing and is left out of Counts.
ASSUME StatsAssumption ==
    /\ MAX_STATS \in Nat \ {0} /\ Samples # {}
    /\ StatsEngines \in Nat \ {0} /\ StatsMask \subseteq 0 .. StatsEngines - 1
    /\ IsFiniteSet(Guis)
    /\ Counts \subseteq Nat \ {0}

\* The engines there are have bits in the register.
ASSUME IntrAssumption ==
    /\ PerDirection \in Nat \ {0}
    /\ IntrMask \subseteq 0 .. 2 * PerDirection - 1
    /\ ErrorEngines \subseteq 0 .. 2 * PerDirection - 1

ASSUME RawAssumption ==
    /\ Settings \subseteq SUBSET {"PKTCHK", "PKTGEN", "LOOPBACK"}
    /\ SeqMod \in Nat \ {0}
    /\ MaxPkts \in Nat /\ MaxTimes \in Nat \ {0} /\ MaxStarts \in Nat

statsVars == <<ring, pollAt, UserOpen, reader, call, from>>
lifeVars ==
    <<DriverState, at, have, bound, mapped, dmaData, badFree, timer, lockedBy>>
intrVars == <<CrSr, done, assigned, PendingMask, recent, sched, isr, bh>>
rawVars == <<RawTestMode, testmode, TX_CONFIG, RX_CONFIG, TxSeqNo, pc, times,
             pkts, result, expected, fresh, gui, starts>>

all == <<part, vars, statsVars, lifeVars, intrVars, rawVars>>

MCInit ==
    /\ part \in {"pool", "stats", "life", "intr", "faulty", "raw"}
    /\ Init /\ Stats!Init /\ Life!Init /\ Raw!Init
    /\ IF part = "faulty" THEN Path(ErrorEngines, ErrorEngines)!Init
                          ELSE Path(IntrMask, {})!Init

MCNext ==
    /\ UNCHANGED part
    /\ \/ /\ part = "pool" /\ Next
          /\ UNCHANGED <<statsVars, lifeVars, intrVars, rawVars>>
       \/ /\ part = "stats" /\ Stats!Next
          /\ UNCHANGED <<vars, lifeVars, intrVars, rawVars>>
       \/ /\ part = "life" /\ Life!Next
          /\ UNCHANGED <<vars, statsVars, intrVars, rawVars>>
       \/ /\ part = "intr" /\ Path(IntrMask, {})!Next
          /\ UNCHANGED <<vars, statsVars, lifeVars, rawVars>>
       \/ /\ part = "faulty" /\ Path(ErrorEngines, ErrorEngines)!Next
          /\ UNCHANGED <<vars, statsVars, lifeVars, rawVars>>
       \/ /\ part = "raw" /\ Raw!Next
          /\ UNCHANGED <<vars, statsVars, lifeVars, intrVars>>

\* The fairness of each part, for the behaviours that are its own.
MCSpec ==
    /\ MCInit /\ [][MCNext]_all
    /\ \A g \in Guis : WF_statsVars(part = "stats" /\ Stats!Ioctl(g))
    /\ WF_lifeVars(part = "life" /\ Life!Unloading)
    /\ \A r \in Life!Routines :
          /\ WF_lifeVars(part = "life" /\ Life!Fire(r))
          /\ WF_lifeVars(part = "life" /\ Life!TakeLock(r))
          /\ WF_lifeVars(part = "life" /\ Life!DropLock(r))
          /\ SF_lifeVars(part = "life" /\ Life!Rearm(r))
    /\ WF_intrVars(part \in {"intr", "faulty"} /\ Path(IntrMask, {})!Isr)
    /\ WF_intrVars(part \in {"intr", "faulty"} /\ Path(IntrMask, {})!BottomHalf)
    /\ \A e \in IntrMask :
          /\ WF_intrVars(part = "intr" /\ Path(IntrMask, {})!Elapse(e))
          /\ WF_intrVars(part = "intr" /\ Path(IntrMask, {})!poll_routine(e))
    /\ \A e \in ErrorEngines :
          /\ WF_intrVars(/\ part = "faulty"
                         /\ Path(ErrorEngines, ErrorEngines)!Elapse(e))
          /\ WF_intrVars(/\ part = "faulty"
                         /\ Path(ErrorEngines, ErrorEngines)!poll_routine(e))
    /\ WF_rawVars(part = "raw" /\ Raw!Poll)

-----------------------------------------------------------------------------
\* The properties of the parts, by the names they have in the run.

\* The statistics ioctl never writes past the GUI's array and reports the
\* engines in turn.
StatsInv == Stats!Inv

\* The statistics rings are queues that lose their oldest sample.
ImplementsLossyQueue == Stats!ImplementsLossyQueue

\* Timer routines find the device they work on, and after the removal of a
\* device that the PCI core had bound nothing of the probe is left.
LifeInv == Life!Inv

\* An interrupt turned off by IntrCheck is turned on again by IntrBH.
IntrInv == IF part = "faulty" THEN Path(ErrorEngines, ErrorEngines)!Inv
                              ELSE Path(IntrMask, {})!Inv

\* Completed BDs are handled, with an interrupt or without.
CompletedIsHandled == Path(IntrMask, {})!CompletedIsHandled

\* Tests number their packets from zero and have the generator on only when
\* they asked for it.
RawInv == Raw!Inv

\* What has begun ends, for the parts that have one such thing each: the
\* statistics ioctl returns (StatsDevice!CallsReturn), the removal of the
\* module ends where every timer was set up (XdmaLife!UnloadEnds), and a test that transmits gets going or
\* is stopped first (RawTest!TestGetsGoing).
WorkEnds ==
    \/ part = "stats" /\ \E g \in Guis : reader[g] = "test"
    \/ part = "life" /\ DriverState = "UNREGISTERING" /\ ~Life!NeverEnds
    \/ part = "raw" /\ gui.running /\ Raw!TxMode(gui.buttons)
    ~>
    /\ part = "stats" => \E g \in Guis : reader[g] = "open"
    /\ part = "life" => at = "unloaded"
    /\ part = "raw" => "TEST_IN_PROGRESS" \in RawTestMode \/ ~gui.running
=============================================================================
