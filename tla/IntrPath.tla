------------------------------- MODULE IntrPath -------------------------------
(***************************************************************************)
(* The interrupt path of xdma_base.c, in a build with TH_BH_ISR: the       *)
(* interrupt routine IntrCheck acknowledges an engine's interrupt, turns it*)
(* off and leaves the engine in PendingMask; the bottom half IntrBH runs   *)
(* PktHandler and turns it on again; poll_routine looks after engines that *)
(* have had no interrupt for a while.                                      *)
(*                                                                         *)
(* The event bits of the control register CrSr are cleared by writing one. *)
(* A read-modify-write is one step here: an event that the hardware sets   *)
(* between the read and the write is not in the value written, so it stays,*)
(* as if it came after the write.                                          *)
(***************************************************************************)
EXTENDS Naturals, FiniteSets

CONSTANTS
    PerDirection,   \* engines of one direction the register has bits for (8)
    engineMask,     \* the engines there are
    ErrorEngines    \* engines that may report an error

S2C == 0 .. PerDirection - 1
C2S == PerDirection .. 2 * PerDirection - 1
Engines == S2C \cup C2S
MAX_DMA_ENGINES == 2 * PerDirection

Events == {"INT_ACTIVE", "BDCOMP", "ERROR"}

VARIABLES
    CrSr,           \* control and status register of each engine
    done,           \* engines with completed BDs nobody has handled
    assigned,       \* engines in state USER_ASSIGNED, their rings started
    PendingMask,
    recent,         \* engines whose LastIntr is less than HZ/50 ago
    sched,          \* whether DmaBH is scheduled
    isr,            \* the interrupt routine: pc, imask, i, dirqval, retval
    bh              \* the bottom half: pc and i

vars == <<CrSr, done, assigned, PendingMask, recent, sched, isr, bh>>

NoIsr == [pc |-> "idle", imask |-> {}, i |-> 0, dirqval |-> {}, retval |-> FALSE]

Init ==
    /\ CrSr = [e \in Engines |-> {}]
    /\ done = {} /\ assigned = {}
    /\ PendingMask = {}
    /\ recent = engineMask
    /\ sched = FALSE
    /\ isr = NoIsr
    /\ bh = [pc |-> "idle", i |-> 0]

\* Register with content cur after val has been written to it.
Written(cur, val) == (val \cap {"INT_ENABLE"}) \cup ((cur \cap Events) \ val)

\* DmaRegister and DmaUnregister (with Dma_Reset), as far as interrupts go.
Register(e) ==
    /\ e \in engineMask \ assigned
    /\ assigned' = assigned \cup {e}
    /\ CrSr' = [CrSr EXCEPT ![e] = Written(@, @ \cup {"INT_ENABLE"})]
    /\ UNCHANGED <<done, PendingMask, recent, sched, isr, bh>>

Unregister(e) ==
    /\ e \in assigned
    /\ assigned' = assigned \ {e}
    /\ CrSr' = [CrSr EXCEPT ![e] = {}]
    /\ done' = done \ {e}
    /\ UNCHANGED <<PendingMask, recent, sched, isr, bh>>

\* The engine completes a BD, or reports an error.
HwEvent(e) ==
    /\ e \in assigned
    /\ \/ /\ CrSr' = [CrSr EXCEPT ![e] = @ \cup {"INT_ACTIVE", "BDCOMP"}]
          /\ done' = done \cup {e}
       \/ /\ e \in ErrorEngines
          /\ CrSr' = [CrSr EXCEPT ![e] = @ \cup {"INT_ACTIVE", "ERROR"}]
          /\ UNCHANGED done
    /\ UNCHANGED <<assigned, PendingMask, recent, sched, isr, bh>>

-----------------------------------------------------------------------------
(* IntrCheck.                                                              *)

Interrupting(e) == {"INT_ACTIVE", "INT_ENABLE"} \subseteq CrSr[e]

IsrEnter ==
    /\ isr.pc = "idle"
    /\ \E e \in Engines : Interrupting(e)
    /\ isr' = [NoIsr EXCEPT !.pc = "look",
                            !.imask = {e \in Engines : "INT_ACTIVE" \in CrSr[e]}]
    /\ UNCHANGED <<CrSr, done, assigned, PendingMask, recent, sched, bh>>

\* Engines of imask the loops come to: they leave out the last of each
\* direction.
Looked(imask) ==
    (imask \cap engineMask) \ {PerDirection - 1, MAX_DMA_ENGINES - 1}

\* One turn of a loop: CrSr is read without a lock.
IsrLook ==
    /\ isr.pc = "look"
    /\ \E e \in Looked(isr.imask) :
        /\ \A f \in Looked(isr.imask) : e <= f
        /\ isr' = IF Interrupting(e)
                  THEN [isr EXCEPT !.pc = "ack", !.i = e, !.dirqval = CrSr[e],
                                   !.imask = @ \ {e}]
                  ELSE [isr EXCEPT !.imask = @ \ {e}]
    /\ UNCHANGED <<CrSr, done, assigned, PendingMask, recent, sched, bh>>

\* What is written to acknowledge what was read: INT_ENABLE is not in it.
Acks(dirqval) == dirqval \cap Events

\* IntrLock.  An S2C engine is acknowledged by a plain write, a C2S engine by
\* a read-modify-write, and another one to turn its interrupt off.
IsrAck ==
    LET e == isr.i
        comp == "BDCOMP" \in isr.dirqval
        ackC2S == Written(CrSr[e], CrSr[e] \cup Acks(isr.dirqval))
    IN  /\ isr.pc = "ack"
        /\ CrSr' = [CrSr EXCEPT ![e] =
                IF e \in S2C THEN Written(@, Acks(isr.dirqval))
                ELSE IF comp THEN Written(ackC2S, ackC2S \ {"INT_ENABLE"})
                ELSE ackC2S]
        /\ PendingMask' = IF comp THEN PendingMask \cup {e} ELSE PendingMask
        /\ isr' = [isr EXCEPT !.pc = "look", !.i = 0, !.dirqval = {}, !.retval = TRUE]
        /\ UNCHANGED <<done, assigned, recent, sched, bh>>

\* Mutant: the bottom half is scheduled when it is not running.
IsrLeave_IfIdle ==
    /\ isr.pc = "look"
    /\ Looked(isr.imask) = {}
    /\ sched' = (sched \/ (PendingMask # {} /\ isr.retval /\ bh.pc = "idle"))
    /\ isr' = NoIsr
    /\ UNCHANGED <<CrSr, done, assigned, PendingMask, recent, bh>>

\* IntrLock: the bottom half is scheduled, while it runs too.
IsrLeave ==
    /\ isr.pc = "look"
    /\ Looked(isr.imask) = {}
    /\ sched' = (sched \/ (PendingMask # {} /\ isr.retval))
    /\ isr' = NoIsr
    /\ UNCHANGED <<CrSr, done, assigned, PendingMask, recent, bh>>

-----------------------------------------------------------------------------
(* IntrBH, a tasklet: it runs in one place at a time.                      *)

BhStart ==
    /\ sched /\ bh.pc = "idle"
    /\ sched' = FALSE
    /\ bh' = [pc |-> "loop", i |-> 0]
    /\ UNCHANGED <<CrSr, done, assigned, PendingMask, recent, isr>>

\* The loop stops when PendingMask is empty, or has no engine further on.
BhTake ==
    LET ahead == {e \in PendingMask : e >= bh.i}
    IN  /\ bh.pc = "loop"
        /\ IF ahead = {}
           THEN /\ bh' = [pc |-> "idle", i |-> 0]
                /\ UNCHANGED PendingMask
           ELSE \E e \in ahead :
                /\ \A f \in ahead : e <= f
                /\ PendingMask' = PendingMask \ {e}
                /\ bh' = IF e \in assigned THEN [pc |-> "handle", i |-> e]
                                           ELSE [pc |-> "loop", i |-> e + 1]
        /\ UNCHANGED <<CrSr, done, assigned, recent, sched, isr>>

\* PktHandler takes every BD completed so far; see module DmaEngine.
BhHandle ==
    /\ bh.pc = "handle"
    /\ done' = done \ {bh.i}
    /\ bh' = [bh EXCEPT !.pc = "enable"]
    /\ UNCHANGED <<CrSr, assigned, PendingMask, recent, sched, isr>>

\* IntrLock.  Dma_mEngIntEnable writes back the events it reads.
BhEnable ==
    /\ bh.pc = "enable"
    /\ CrSr' = [CrSr EXCEPT ![bh.i] =
            IF bh.i \in assigned THEN Written(@, @ \cup {"INT_ENABLE"}) ELSE @]
    /\ recent' = recent \cup {bh.i}
    /\ bh' = [pc |-> "loop", i |-> bh.i + 1]
    /\ UNCHANGED <<done, assigned, PendingMask, sched, isr>>

-----------------------------------------------------------------------------
(* poll_routine, which starts again from its timer.                        *)

\* Mutant: an engine whose interrupt is on is left to the interrupt.
poll_routine_IntOff(e) ==
    /\ e \in assigned \ recent
    /\ "INT_ENABLE" \notin CrSr[e]
    /\ done' = done \ {e}
    /\ UNCHANGED <<CrSr, assigned, PendingMask, recent, sched, isr, bh>>

\* Its turn for engine e, with PktHandler.
poll_routine(e) ==
    /\ e \in assigned \ recent
    /\ done' = done \ {e}
    /\ UNCHANGED <<CrSr, assigned, PendingMask, recent, sched, isr, bh>>

\* HZ/50 go by without an interrupt of engine e.
Elapse(e) ==
    /\ e \in recent
    /\ recent' = recent \ {e}
    /\ UNCHANGED <<CrSr, done, assigned, PendingMask, sched, isr, bh>>

-----------------------------------------------------------------------------
Isr == IsrEnter \/ IsrLook \/ IsrAck \/ IsrLeave
BottomHalf == BhStart \/ BhTake \/ BhHandle \/ BhEnable

Next ==
    \/ Isr \/ BottomHalf
    \/ \E e \in engineMask :
          \/ Register(e) \/ Unregister(e) \/ HwEvent(e)
          \/ poll_routine(e) \/ Elapse(e)

\* Interrupts and tasklets are served, poll_timer is re-armed, time goes by.
Fairness ==
    /\ WF_vars(Isr) /\ WF_vars(BottomHalf)
    /\ \A e \in engineMask : WF_vars(Elapse(e)) /\ WF_vars(poll_routine(e))

Spec == Init /\ [][Next]_vars /\ Fairness

-----------------------------------------------------------------------------
TypeOK ==
    /\ CrSr \in [Engines -> SUBSET (Events \cup {"INT_ENABLE"})]
    /\ done \subseteq assigned /\ assigned \subseteq engineMask
    /\ PendingMask \subseteq engineMask /\ recent \subseteq engineMask
    /\ sched \in BOOLEAN
    /\ isr.pc \in {"idle", "look", "ack"} /\ isr.i \in Engines
    /\ bh.pc \in {"idle", "loop", "handle", "enable"}

\* An interrupt that has been turned off is turned on again: the engine is in
\* PendingMask, or the bottom half has it in hand.  (An error without a
\* completion turns the interrupt of an S2C engine off for good; see the
\* README.)
OffIsPending ==
    \A e \in assigned \ (ErrorEngines \cap S2C) :
        "INT_ENABLE" \notin CrSr[e] =>
            \/ e \in PendingMask
            \/ bh.pc \in {"handle", "enable"} /\ bh.i = e

\* "If this is not done, interrupts can stall" (comment of IntrCheck): the
\* bottom half will come to every engine in PendingMask, although the mask is
\* filled while it runs and its loop does not go back.
PendingIsScheduled ==
    \A e \in PendingMask :
        \/ sched
        \/ isr.pc # "idle" /\ isr.retval
        \/ bh.pc = "loop" /\ e >= bh.i
        \/ bh.pc \in {"handle", "enable"} /\ e > bh.i

\* What keeps the interrupts of the engines from stalling.
Inv == TypeOK /\ OffIsPending /\ PendingIsScheduled

\* Every completed BD is handled, also one whose interrupt Dma_mEngIntEnable
\* acknowledged unseen, or whose engine the loops of IntrCheck leave out.
CompletedIsHandled ==
    \A e \in engineMask : (e \in done) ~> (e \notin done)
=============================================================================
