------------------------------- MODULE XdmaLife -------------------------------
(***************************************************************************)
(* The life of the xdma driver (xdma_base.c): xdma_probe acquires the PCI  *)
(* resources one by one and starts two timers, xdma_cleanup and xdma_remove*)
(* stop the timers and give everything back.  The timer routines poll_stats*)
(* and poll_routine take the lock that xdma_remove holds while it waits for*)
(* them in del_timer_sync.                                                 *)
(***************************************************************************)
EXTENDS Naturals, FiniteSets

CONSTANTS
    Bars,           \* 0 .. MAX_BARS-1
    Faults          \* the failures of xdma_probe that may happen

VARIABLES
    DriverState,
    pc,             \* where the module's thread is
    held,           \* what the driver has: PCI device, regions, cdev
    bound,          \* TRUE once the PCI core takes the device for the driver's
    mapped,         \* the BARs it has mapped
    dmaData,        \* "null" (0), "live", or "freed" memory
    badFree,        \* TRUE once freed memory has been freed again
    timer,          \* of each routine: uninit, off, armed, entered, locked
    lockedBy        \* holder of DmaStatsLock and of DmaLock

vars ==
    <<DriverState, pc, held, bound, mapped, dmaData, badFree, timer, lockedBy>>

Routines == {"poll_stats", "poll_routine"}

Free == "nobody"

Init ==
    /\ DriverState = "UNINITIALIZED"
    /\ pc = "loaded"
    /\ held = {}
    /\ bound = FALSE
    /\ mapped = {}
    /\ dmaData = "null"
    /\ badFree = FALSE
    /\ timer = [r \in Routines |-> "uninit"]
    /\ lockedBy = [r \in Routines |-> Free]

-----------------------------------------------------------------------------
(* xdma_probe.                                                             *)

\* An error exit gives back the device and its regions, no BAR, and frees
\* dmaData where it has been allocated.
ProbeError(bars, memory) ==
    /\ mapped' = bars
    /\ dmaData' = memory
    /\ pc' = "probe_failed"
    /\ UNCHANGED <<DriverState, held, timer>>

\* What may be mapped of some BARs: one that cannot be mapped is done without.
Mappings(B) == IF "ioremap" \in Faults THEN SUBSET B ELSE {B}

\* The PCI device, memory, regions and BARs.  The PCI core gives the device up
\* if the result is negative; it takes XST_FAILURE, which is 1, for success.
\* BAR 0 is done without too, and the driver goes on to turn the interrupts off
\* through its null address.
ProbeResources ==
    /\ pc = "loaded"
    /\ \/ /\ "enable" \in Faults
          /\ ProbeError({}, "null") /\ UNCHANGED bound
       \/ /\ "kmalloc" \in Faults
          /\ ProbeError({}, "null") /\ bound' = TRUE
       \/ /\ Faults \cap {"regions", "dma_mask"} # {}
          /\ ProbeError({}, "freed") /\ UNCHANGED bound
       \/ /\ "bar0" \in Faults
          /\ ProbeError({}, "freed") /\ bound' = TRUE
       \/ /\ "bar_type" \in Faults /\ bound' = TRUE
          /\ \E b \in Bars : \E S \in Mappings({c \in Bars : c < b}) :
                ProbeError(S, "freed")
       \/ \E S \in Mappings(Bars) :
          /\ held' = {"device", "regions"}
          /\ mapped' = S
          /\ dmaData' = "live"
          /\ pc' = IF 0 \in S THEN "engines" ELSE "oops"
          /\ UNCHANGED <<DriverState, bound, timer>>
    /\ UNCHANGED <<badFree, lockedBy>>

\* The character device, which the driver can do without, and the timers.
\* Without the device poll_stats has no timer.  cdev_alloc reports its failure
\* by a null pointer, which is not tested for and written through.
ProbeDevice ==
    /\ pc = "engines"
    /\ \/ \E chr \in IF "chrdev" \in Faults THEN BOOLEAN ELSE {TRUE} :
          /\ held' = IF chr THEN held \cup {"cdev"} ELSE held
          /\ timer' = [r \in Routines |->
                        IF r = "poll_stats" /\ ~chr THEN timer[r] ELSE "armed"]
          /\ DriverState' = "INITIALIZED"
          /\ bound' = TRUE
          /\ pc' = "running"
       \/ /\ "cdev_alloc" \in Faults
          /\ pc' = "oops"
          /\ UNCHANGED <<DriverState, held, bound, timer>>
    /\ UNCHANGED <<mapped, dmaData, badFree, lockedBy>>

-----------------------------------------------------------------------------
(* The timer routines.                                                     *)

\* Once the driver is being unloaded the timer is not armed again.
Fire(r) ==
    /\ timer[r] = "armed"
    /\ timer' = [timer EXCEPT ![r] =
                    IF DriverState = "UNREGISTERING" THEN "off" ELSE "entered"]
    /\ UNCHANGED <<DriverState, pc, held, bound, mapped, dmaData, badFree,
                   lockedBy>>

\* The lock is taken and released for each engine: a routine either waits for
\* it or has no engine left and arms its timer again.
WantLock(r) ==
    /\ timer[r] = "entered"
    /\ timer' = [timer EXCEPT ![r] = "waiting"]
    /\ UNCHANGED <<DriverState, pc, held, bound, mapped, dmaData, badFree,
                   lockedBy>>

TakeLock(r) ==
    /\ timer[r] = "waiting"
    /\ lockedBy[r] = Free
    /\ lockedBy' = [lockedBy EXCEPT ![r] = "timer"]
    /\ timer' = [timer EXCEPT ![r] = "locked"]
    /\ UNCHANGED <<DriverState, pc, held, bound, mapped, dmaData, badFree>>

DropLock(r) ==
    /\ timer[r] = "locked"
    /\ lockedBy' = [lockedBy EXCEPT ![r] = Free]
    /\ timer' = [timer EXCEPT ![r] = "entered"]
    /\ UNCHANGED <<DriverState, pc, held, bound, mapped, dmaData, badFree>>

Rearm(r) ==
    /\ timer[r] = "entered"
    /\ timer' = [timer EXCEPT ![r] = "armed"]
    /\ UNCHANGED <<DriverState, pc, held, bound, mapped, dmaData, badFree,
                   lockedBy>>

-----------------------------------------------------------------------------
(* xdma_cleanup and xdma_remove.                                           *)

\* The PCI core calls xdma_remove for a device that is bound, also after a
\* probe that has failed.  xdma_remove begins with a read through dmaData.
xdma_cleanup ==
    /\ pc \in {"running", "probe_failed"}
    /\ lockedBy["poll_routine"] = Free
    /\ DriverState' = "UNREGISTERING"
    /\ pc' = IF ~bound THEN "free"
             ELSE IF dmaData = "null" THEN "oops" ELSE "delay"
    /\ UNCHANGED <<held, bound, mapped, dmaData, badFree, timer, lockedBy>>

\* Mutant: no delay.
Delay_None ==
    /\ pc = "delay"
    /\ pc' = "lock_stats"
    /\ UNCHANGED <<DriverState, held, bound, mapped, dmaData, badFree, timer,
                   lockedBy>>

\* mdelay(1000): longer than the period of either timer, HZ - 3 and 0, so that
\* a routine under way has ended and an armed timer has fired since.
Delay ==
    /\ pc = "delay"
    /\ \A r \in Routines : timer[r] \in {"uninit", "off"}
    /\ pc' = "lock_stats"
    /\ UNCHANGED <<DriverState, held, bound, mapped, dmaData, badFree, timer,
                   lockedBy>>

\* Each timer is deleted under the lock its routine takes.
LockFor(r, here, next) ==
    /\ pc = here
    /\ lockedBy[r] = Free
    /\ lockedBy' = [lockedBy EXCEPT ![r] = "remove"]
    /\ pc' = next
    /\ UNCHANGED <<DriverState, held, bound, mapped, dmaData, badFree, timer>>

\* del_timer_sync waits for the routine; for a timer that was not initialised
\* it waits for ever.
DelTimerSync(r, here, next) ==
    /\ pc = here
    /\ timer[r] \in {"off", "armed"}
    /\ timer' = [timer EXCEPT ![r] = "off"]
    /\ lockedBy' = [lockedBy EXCEPT ![r] = Free]
    /\ pc' = next
    /\ UNCHANGED <<DriverState, held, bound, mapped, dmaData, badFree>>

LockStats == LockFor("poll_stats", "lock_stats", "del_stats")
DelStats == DelTimerSync("poll_stats", "del_stats", "lock_dma")
LockDma == LockFor("poll_routine", "lock_dma", "del_dma")
DelPoll == DelTimerSync("poll_routine", "del_dma", "reset")

\* Mutant: the mapped BARs stay.
Reset_NoUnmap ==
    /\ pc = "reset"
    /\ lockedBy["poll_routine"] = Free
    /\ pc' = "release"
    /\ UNCHANGED <<DriverState, held, bound, mapped, dmaData, badFree, timer,
                   lockedBy>>

\* The FIFOs are waited for, for a time; the engines are reset, and the BARs
\* unmapped, under DmaLock.
Reset ==
    /\ pc = "reset"
    /\ lockedBy["poll_routine"] = Free
    /\ mapped' = {}
    /\ pc' = "release"
    /\ UNCHANGED <<DriverState, held, bound, dmaData, badFree, timer, lockedBy>>

Release ==
    /\ pc = "release"
    /\ held' = held \ {"cdev", "regions", "device"}
    /\ pc' = "free"
    /\ UNCHANGED <<DriverState, bound, mapped, dmaData, badFree, timer, lockedBy>>

\* Back in xdma_cleanup: dmaData is not 0 after an error exit of xdma_probe.
FreeData ==
    /\ pc = "free"
    /\ badFree' = (badFree \/ dmaData = "freed")
    /\ dmaData' = IF dmaData = "null" THEN "null" ELSE "freed"
    /\ pc' = "unloaded"
    /\ UNCHANGED <<DriverState, held, bound, mapped, timer, lockedBy>>

-----------------------------------------------------------------------------
Unloading == Delay \/ LockStats \/ DelStats \/ LockDma \/ DelPoll \/ Reset
                \/ Release \/ FreeData

Timer(r) == Fire(r) \/ WantLock(r) \/ TakeLock(r) \/ DropLock(r) \/ Rearm(r)

Next == ProbeResources \/ ProbeDevice \/ xdma_cleanup \/ Unloading
            \/ \E r \in Routines : Timer(r)

\* A routine ends after one turn for each engine, and the timer fires.
Fairness ==
    /\ WF_vars(Unloading)
    /\ \A r \in Routines :
          /\ WF_vars(Fire(r)) /\ WF_vars(TakeLock(r)) /\ WF_vars(DropLock(r))
          /\ SF_vars(Rearm(r))

Spec == Init /\ [][Next]_vars /\ Fairness

-----------------------------------------------------------------------------
TypeOK ==
    /\ DriverState \in {"UNINITIALIZED", "INITIALIZED", "UNREGISTERING"}
    /\ held \subseteq {"device", "regions", "cdev"} /\ mapped \subseteq Bars
    /\ bound \in BOOLEAN
    /\ dmaData \in {"null", "live", "freed"}
    /\ badFree \in BOOLEAN
    /\ timer \in [Routines -> {"uninit", "off", "armed", "entered", "waiting", "locked"}]
    /\ lockedBy \in [Routines -> {Free, "timer", "remove"}]

\* The timer routines read the engines' registers and dmaData: they never do
\* so after xdma_remove has unmapped the one or xdma_cleanup freed the other.
RoutinesFindDevice ==
    \A r \in Routines : timer[r] \in {"entered", "waiting", "locked"} =>
        dmaData = "live" /\ 0 \in mapped

\* Once the module is gone xdma_remove has given back all that xdma_probe had
\* acquired, freed no memory twice and left no timer armed, if the PCI core had
\* the device bound; if it had not, no timer was ever set up.
AllReleased ==
    pc = "unloaded" =>
        /\ held = {}
        /\ bound => mapped = {} /\ dmaData = "freed" /\ ~badFree
        /\ \A r \in Routines : timer[r] = IF bound THEN "off" ELSE "uninit"

\* What holds from the probe to the removal of the board.
Inv == TypeOK /\ RoutinesFindDevice /\ AllReleased

\* xdma_remove comes to timers that xdma_probe has never initialised: it has
\* failed with a positive result, or found no character device.
NeverEnds == bound /\ \E r \in Routines : timer[r] = "uninit"

\* Unloading the module ends, although xdma_remove waits for the timer
\* routines with the locks they take, unless it comes to a timer that was not
\* initialised.
UnloadEnds ==
    DriverState = "UNREGISTERING" /\ ~NeverEnds ~> pc = "unloaded"

\* The error exits of xdma_probe give back what it has acquired, and nothing
\* is freed twice.  The code does not keep it; see the README.
ProbeFailsCleanly ==
    /\ pc = "probe_failed" => held = {} /\ mapped = {}
    /\ ~badFree
=============================================================================
