---------------------------- MODULE XdmaBaseProofs ----------------------------
(***************************************************************************)
(* What runs beside the DMA engines is safe for every number of engines,   *)
(* ring entries, GUIs, packets and tests: interrupts do not stall, timer   *)
(* routines find their device, tests are numbered, reports are fair, and   *)
(* the statistics rings are queues.                                        *)
(***************************************************************************)
EXTENDS MCXdmaBase, FiniteSetTheorems, SequenceTheorems, NatLemmas, TLAPS

-----------------------------------------------------------------------------
(* The interrupt path, for any engines M of which those in E may report    *)
(* errors.                                                                 *)

Bits == {"INT_ACTIVE", "BDCOMP", "ERROR", "INT_ENABLE"}

All == 0 .. 2 * PerDirection - 1

\* What the interrupt routine and the bottom half have in their locals.
PathLocals(M, E) ==
    /\ isr \in [pc : {"idle", "look", "ack"}, imask : SUBSET All, i : All,
                dirqval : SUBSET Bits, retval : BOOLEAN]
    /\ bh \in [pc : {"idle", "loop", "handle", "enable"}, i : Nat]
    /\ isr.pc = "ack" => /\ isr.i \in M /\ "INT_ACTIVE" \in isr.dirqval
                         /\ "BDCOMP" \in isr.dirqval \/ isr.i \in E
    /\ bh.pc \in {"handle", "enable"} => bh.i \in M

\* Why an interrupt is active: a BD has been completed, unless the engine may
\* report errors.
PathCause(E) ==
    \A e \in All : "INT_ACTIVE" \in CrSr[e] => "BDCOMP" \in CrSr[e] \/ e \in E

PathIInv(M, E) == Path(M, E)!Inv /\ PathLocals(M, E) /\ PathCause(E)

\* The engines of the two directions are the numbers below MAX_DMA_ENGINES.
LEMMA PathEngines ==
    ASSUME NEW M, NEW E
    PROVE  /\ Path(M, E)!Engines = All
           /\ Path(M, E)!S2C \subseteq All
           /\ Path(M, E)!Events \cup {"INT_ENABLE"} = Bits
           /\ 0 \in All
BY IntrAssumption DEF All, Bits, Path!Engines, Path!S2C, Path!C2S, Path!Events

\* The invariant holds at first.
LEMMA PathInit ==
    ASSUME NEW M, M \subseteq All, NEW E, Path(M, E)!Init
    PROVE  PathIInv(M, E)
BY PathEngines DEF PathIInv, PathLocals, PathCause, Path!Init, Path!Inv,
     Path!TypeOK, Path!OffIsPending, Path!PendingIsScheduled, Path!NoIsr, Bits

\* What a write leaves in the register.
LEMMA PathWritten ==
    ASSUME NEW M, NEW E, NEW cur \in SUBSET Bits, NEW val
    PROVE  LET w == Path(M, E)!Written(cur, val)
           IN  /\ w \in SUBSET Bits
               /\ "INT_ENABLE" \in w <=> "INT_ENABLE" \in val
               /\ \A b \in Bits \ {"INT_ENABLE"} : b \in w <=> b \in cur /\ b \notin val
BY DEF Path!Written, Path!Events, Bits

\* Engines come and go, and the hardware sets events.
LEMMA PathEngineSteps ==
    ASSUME NEW M, M \subseteq All, NEW E, PathIInv(M, E), NEW e \in M,
           \/ Path(M, E)!Register(e) \/ Path(M, E)!Unregister(e)
           \/ Path(M, E)!HwEvent(e) \/ Path(M, E)!poll_routine(e)
           \/ Path(M, E)!Elapse(e)
    PROVE  PathIInv(M, E)'
<1> USE DEF PathIInv, Path!Inv
<1>0. CrSr \in [All -> SUBSET Bits] /\ e \in All
  BY PathEngines DEF Path!TypeOK
<1>1. /\ UNCHANGED <<PendingMask, sched, isr, bh>>
      /\ recent' \subseteq recent
  BY DEF Path!Register, Path!Unregister, Path!HwEvent, Path!poll_routine, Path!Elapse
<1>2. Path(M, E)!PendingIsScheduled' /\ PathLocals(M, E)'
  BY <1>1 DEF Path!PendingIsScheduled, PathLocals
<1>3. CASE Path(M, E)!Register(e)
  <2>1. CrSr' \in [All -> SUBSET Bits] /\ assigned' = assigned \cup {e} /\ done' = done
    BY <1>0, <1>3, PathWritten DEF Path!Register
  <2>2. \A f \in All : IF f = e THEN "INT_ENABLE" \in CrSr'[f] /\ "INT_ACTIVE" \notin CrSr'[f]
                                ELSE CrSr'[f] = CrSr[f]
    BY <1>0, <1>3, PathWritten DEF Path!Register, Bits
  <2> QED
    BY <1>0, <1>1, <1>2, <2>1, <2>2, PathEngines
    DEF Path!TypeOK, Path!OffIsPending, PathCause
<1>4. CASE Path(M, E)!Unregister(e)
  BY <1>0, <1>1, <1>2, <1>4, PathEngines
  DEF Path!Unregister, Path!TypeOK, Path!OffIsPending, PathCause
<1>5. CASE Path(M, E)!HwEvent(e)
  <2>1. /\ CrSr' \in [All -> SUBSET Bits] /\ assigned' = assigned
        /\ done' \subseteq assigned
        /\ \A f \in All : "INT_ENABLE" \in CrSr'[f] <=> "INT_ENABLE" \in CrSr[f]
    BY <1>0, <1>5 DEF Path!HwEvent, Path!TypeOK, Bits
  <2>2. PathCause(E)'
    BY <1>0, <1>5 DEF Path!HwEvent, PathCause
  <2> QED
    BY <1>0, <1>1, <1>2, <2>1, <2>2, PathEngines DEF Path!TypeOK, Path!OffIsPending
<1>6. CASE Path(M, E)!poll_routine(e) \/ Path(M, E)!Elapse(e)
  BY <1>0, <1>1, <1>2, <1>6
  DEF Path!poll_routine, Path!Elapse, Path!TypeOK, Path!OffIsPending, PathCause,
      Path!Engines, Path!S2C, Path!C2S
<1> QED BY <1>3, <1>4, <1>5, <1>6

\* The interrupt routine.
LEMMA PathIsrSteps ==
    ASSUME NEW M, M \subseteq All, NEW E, PathIInv(M, E), Path(M, E)!Isr
    PROVE  PathIInv(M, E)'
<1> USE DEF PathIInv, Path!Inv
<1>0. CrSr \in [All -> SUBSET Bits] /\ UNCHANGED <<done, assigned, recent, bh>>
  BY PathEngines DEF Path!TypeOK, Path!Isr, Path!IsrEnter, Path!IsrLook, Path!IsrAck,
                     Path!IsrLeave
<1>1. CASE Path(M, E)!IsrEnter
  <2>1. PathLocals(M, E)'
    BY <1>0, <1>1, PathEngines DEF Path!IsrEnter, PathLocals, Path!NoIsr
  <2>2. Path(M, E)!PendingIsScheduled'
    BY <1>0, <1>1 DEF Path!IsrEnter, Path!PendingIsScheduled
  <2> QED
    BY <1>0, <1>1, <2>1, <2>2, PathEngines
    DEF Path!IsrEnter, Path!TypeOK, Path!OffIsPending, PathCause, PathLocals
<1>2. CASE Path(M, E)!IsrLook
  <2>1. PICK e \in Path(M, E)!Looked(isr.imask) :
            isr' = IF Path(M, E)!Interrupting(e)
                   THEN [isr EXCEPT !.pc = "ack", !.i = e, !.dirqval = CrSr[e],
                                    !.imask = @ \ {e}]
                   ELSE [isr EXCEPT !.imask = @ \ {e}]
    BY <1>2 DEF Path!IsrLook
  <2>2. e \in M /\ e \in All
    BY DEF Path!Looked
  <2>3. PathLocals(M, E)'
    BY <1>0, <1>2, <2>1, <2>2 DEF Path!IsrLook, PathLocals, PathCause, Path!Interrupting
  <2>4. isr'.pc # "idle" /\ isr'.retval = isr.retval
    BY <1>2, <2>1 DEF Path!IsrLook, PathLocals
  <2>5. Path(M, E)!PendingIsScheduled'
    BY <1>0, <1>2, <2>4 DEF Path!IsrLook, Path!PendingIsScheduled
  <2> QED
    BY <1>0, <1>2, <2>3, <2>5, PathEngines
    DEF Path!IsrLook, Path!TypeOK, Path!OffIsPending, PathCause, PathLocals
<1>3. CASE Path(M, E)!IsrAck
  <2> DEFINE e == isr.i
             comp == "BDCOMP" \in isr.dirqval
  <2>1. /\ e \in M /\ e \in All /\ isr.dirqval \in SUBSET Bits
        /\ "INT_ACTIVE" \in isr.dirqval /\ (comp \/ e \in E)
    BY <1>3 DEF Path!IsrAck, PathLocals
  <2>2. /\ isr' = [isr EXCEPT !.pc = "look", !.i = 0, !.dirqval = {}, !.retval = TRUE]
        /\ PendingMask' = (IF comp THEN PendingMask \cup {e} ELSE PendingMask)
        /\ sched' = sched
    BY <1>3 DEF Path!IsrAck
  <2>3. CrSr' \in [All -> SUBSET Bits] /\ \A f \in All \ {e} : CrSr'[f] = CrSr[f]
    BY <1>0, <1>3, <2>1, PathWritten DEF Path!IsrAck
  <2>4. "INT_ACTIVE" \in Path(M, E)!Acks(isr.dirqval)
    BY <2>1 DEF Path!Acks, Path!Events
  <2>5. "INT_ACTIVE" \notin CrSr'[e]
    <3> HIDE DEF e
    <3>1. CASE e \in Path(M, E)!S2C
      BY <1>0, <1>3, <2>1, <2>4, <3>1, PathWritten DEF Path!IsrAck, Bits, e
    <3>2. CASE e \notin Path(M, E)!S2C
      BY <1>0, <1>3, <2>1, <2>4, <3>2, PathWritten DEF Path!IsrAck, Bits, e
    <3> QED BY <3>1, <3>2
  <2>6. ~comp /\ e \notin Path(M, E)!S2C /\ "INT_ENABLE" \in CrSr[e]
            => "INT_ENABLE" \in CrSr'[e]
    BY <1>0, <1>3, <2>1, PathWritten DEF Path!IsrAck
  <2>7. PathLocals(M, E)'
    BY <1>0, <2>2, PathEngines DEF PathLocals
  <2>8. Path(M, E)!PendingIsScheduled'
    BY <1>0, <2>2 DEF Path!PendingIsScheduled, PathLocals
  <2>9. Path(M, E)!OffIsPending'
    BY <1>0, <2>1, <2>2, <2>3, <2>6, PathEngines DEF Path!OffIsPending, Path!TypeOK
  <2>10. PathCause(E)'
    BY <2>3, <2>5 DEF PathCause
  <2> QED
    BY <1>0, <2>1, <2>2, <2>3, <2>7, <2>8, <2>9, <2>10, PathEngines
    DEF Path!TypeOK, PathLocals
<1>4. CASE Path(M, E)!IsrLeave
  <2>1. PathLocals(M, E)'
    BY <1>0, <1>4, PathEngines DEF Path!IsrLeave, PathLocals, Path!NoIsr
  <2>2. Path(M, E)!PendingIsScheduled'
    BY <1>0, <1>4 DEF Path!IsrLeave, Path!PendingIsScheduled
  <2> QED
    BY <1>0, <1>4, <2>1, <2>2, PathEngines
    DEF Path!IsrLeave, Path!TypeOK, Path!OffIsPending, PathCause, PathLocals
<1> QED BY <1>1, <1>2, <1>3, <1>4 DEF Path!Isr

\* The bottom half.
LEMMA PathBhSteps ==
    ASSUME NEW M, M \subseteq All, NEW E, PathIInv(M, E), Path(M, E)!BottomHalf
    PROVE  PathIInv(M, E)'
<1> USE DEF PathIInv, Path!Inv
<1>0. CrSr \in [All -> SUBSET Bits] /\ UNCHANGED <<assigned, isr>> /\ M \subseteq Nat
  BY PathEngines, IntrAssumption DEF Path!TypeOK, Path!BottomHalf, Path!BhStart, Path!BhTake,
     Path!BhHandle, Path!BhEnable, All
<1>1. CASE Path(M, E)!BhStart
  <2>1. PathLocals(M, E)'
    BY <1>0, <1>1 DEF Path!BhStart, PathLocals
  <2>2. Path(M, E)!PendingIsScheduled'
    BY <1>0, <1>1 DEF Path!BhStart, Path!PendingIsScheduled, Path!TypeOK
  <2> QED
    BY <1>0, <1>1, <2>1, <2>2, PathEngines
    DEF Path!BhStart, Path!TypeOK, Path!OffIsPending, PathCause, PathLocals
<1>2. CASE Path(M, E)!BhTake
  <2> DEFINE ahead == {e \in PendingMask : e >= bh.i}
  <2>0. UNCHANGED <<CrSr, done, recent, sched>> /\ bh.pc = "loop" /\ bh.i \in Nat
        /\ PendingMask \subseteq M
    BY <1>2 DEF Path!BhTake, PathLocals, Path!TypeOK
  <2>1. CASE ahead = {}
    <3>1. bh' = [pc |-> "idle", i |-> 0] /\ PendingMask' = PendingMask
      BY <1>2, <2>1 DEF Path!BhTake
    <3>2. Path(M, E)!PendingIsScheduled'
      BY <1>0, <2>0, <2>1, <3>1 DEF Path!PendingIsScheduled
    <3> QED
      BY <1>0, <2>0, <3>1, <3>2, PathEngines
      DEF Path!TypeOK, Path!OffIsPending, PathCause, PathLocals
  <2>2. CASE ahead # {}
    <3>1. PICK e \in ahead :
             /\ \A f \in ahead : e <= f
             /\ PendingMask' = PendingMask \ {e}
             /\ bh' = IF e \in assigned THEN [pc |-> "handle", i |-> e]
                                        ELSE [pc |-> "loop", i |-> e + 1]
      BY <1>2, <2>2 DEF Path!BhTake
    <3>2. e \in M /\ e \in Nat
      BY <1>0, <2>0
    <3>3. PathLocals(M, E)'
      BY <1>0, <3>1, <3>2 DEF PathLocals
    <3>4. Path(M, E)!PendingIsScheduled'
      BY <1>0, <2>0, <3>1, <3>2 DEF Path!PendingIsScheduled
    <3>5. Path(M, E)!OffIsPending'
      BY <1>0, <2>0, <3>1, <3>2 DEF Path!OffIsPending, Path!S2C
    <3> QED
      BY <1>0, <2>0, <3>1, <3>3, <3>4, <3>5, PathEngines DEF Path!TypeOK, PathCause, PathLocals
  <2> QED BY <2>1, <2>2
<1>3. CASE Path(M, E)!BhHandle
  <2>1. PathLocals(M, E)'
    BY <1>0, <1>3 DEF Path!BhHandle, PathLocals
  <2>2. bh'.i = bh.i /\ bh'.pc = "enable"
    BY <1>3 DEF Path!BhHandle, PathLocals
  <2> QED
    BY <1>0, <1>3, <2>1, <2>2, PathEngines
    DEF Path!BhHandle, Path!TypeOK, Path!OffIsPending, Path!PendingIsScheduled, PathCause,
        PathLocals
<1>4. CASE Path(M, E)!BhEnable
  <2> DEFINE e == bh.i
  <2>1. e \in M /\ e \in All /\ e \in Nat
    BY <1>0, <1>4 DEF Path!BhEnable, PathLocals
  <2>2. CrSr' \in [All -> SUBSET Bits] /\ \A f \in All \ {e} : CrSr'[f] = CrSr[f]
    BY <1>0, <1>4, <2>1, PathWritten DEF Path!BhEnable
  <2>3. e \in assigned => "INT_ENABLE" \in CrSr'[e] /\ "INT_ACTIVE" \notin CrSr'[e]
    BY <1>0, <1>4, <2>1, PathWritten DEF Path!BhEnable, Bits
  <2>4. e \notin assigned => CrSr'[e] = CrSr[e]
    BY <1>0, <1>4, <2>1 DEF Path!BhEnable
  <2>5. /\ bh' = [pc |-> "loop", i |-> e + 1] /\ bh.pc = "enable"
        /\ recent' = recent \cup {e} /\ UNCHANGED <<done, PendingMask, sched>>
    BY <1>4 DEF Path!BhEnable
  <2>6. PathLocals(M, E)' /\ PathCause(E)'
    BY <1>0, <2>1, <2>2, <2>3, <2>4, <2>5 DEF PathLocals, PathCause
  <2>7. Path(M, E)!PendingIsScheduled'
    BY <1>0, <2>1, <2>5 DEF Path!PendingIsScheduled, Path!TypeOK
  <2>8. Path(M, E)!OffIsPending'
    BY <1>0, <2>1, <2>2, <2>3, <2>4, <2>5, PathEngines
    DEF Path!OffIsPending, Path!TypeOK, Path!S2C
  <2> QED
    BY <1>0, <2>1, <2>2, <2>5, <2>6, <2>7, <2>8, PathEngines DEF Path!TypeOK, PathLocals
<1> QED BY <1>1, <1>2, <1>3, <1>4 DEF Path!BottomHalf

\* Every step of the interrupt path keeps its invariant, and so does no step.
LEMMA PathStep ==
    ASSUME NEW M, M \subseteq All, NEW E, PathIInv(M, E),
           Path(M, E)!Next \/ UNCHANGED intrVars
    PROVE  PathIInv(M, E)'
<1>1. CASE UNCHANGED intrVars
  BY <1>1 DEF intrVars, PathIInv, PathLocals, PathCause, Path!Inv, Path!TypeOK,
     Path!OffIsPending, Path!PendingIsScheduled
<1> QED BY <1>1, PathIsrSteps, PathBhSteps, PathEngineSteps DEF Path!Next

-----------------------------------------------------------------------------
(* The life of the module.                                                 *)

Probing == {"loaded", "engines", "probe_failed"}
Stopping == {"lock_stats", "del_stats", "lock_dma", "del_dma", "reset"}
Places == Probing \cup {"oops", "running", "delay"} \cup Stopping
            \cup {"release", "free", "unloaded"}

\* The timers rest: not set up yet, deleted, or the one or the other.
Unset == timer["poll_stats"] = "uninit" /\ timer["poll_routine"] = "uninit"
Deleted == timer["poll_stats"] = "off" /\ timer["poll_routine"] = "off"
AtRest == timer["poll_stats"] \in {"uninit", "off"} /\ timer["poll_routine"] \in {"uninit", "off"}

\* Memory and BARs, at each place from the probe to the unmapping: after a
\* failed probe they are gone, and no timer was ever set up.
Memory ==
    /\ at = "loaded" => mapped = {}
    /\ at = "probe_failed" => dmaData \in {"null", "freed"}
    /\ at = "engines" => dmaData = "live" /\ 0 \in mapped
    /\ at \in {"running", "delay"} =>
          \/ dmaData = "live" /\ 0 \in mapped
          \/ dmaData = "freed" /\ Unset
    /\ at \in Stopping \cup {"release"} =>
          dmaData = "live" \/ (dmaData = "freed" /\ Unset)
    /\ at = "release" => mapped = {}
    /\ at = "free" => IF bound THEN mapped = {} /\ dmaData = "live" ELSE Unset

\* Timers are set up after the probe and rest after the delay of xdma_remove.
Timers ==
    /\ at \in Probing \cup {"oops"} => Unset
    /\ at \in Stopping \cup {"release", "free", "unloaded"} => AtRest
    /\ at \in {"lock_dma", "del_dma", "reset", "release"} => timer["poll_stats"] = "off"
    /\ at \in {"reset", "release"} => timer["poll_routine"] = "off"
    /\ at = "free" /\ bound => Deleted

\* The device is bound from the probe on, or was given up by the PCI core.
Binding ==
    /\ at \in {"loaded", "engines"} => ~bound
    /\ at \in {"running", "delay", "release"} \cup Stopping => bound
    /\ at \in {"loaded", "engines", "probe_failed", "running", "delay", "release"}
          \cup Stopping => ~badFree
    /\ at = "free" /\ bound => ~badFree
    /\ at \in {"loaded", "probe_failed", "free"} => have = {}

LifeIInv == Life!Inv /\ at \in Places /\ Memory /\ Timers /\ Binding

\* The invariant holds at first.
LEMMA LifeInit ==
    ASSUME Life!Init
    PROVE  LifeIInv
BY DEF LifeIInv, Life!Init, Life!Inv, Life!TypeOK, Life!RoutinesFindDevice,
       Life!AllReleased, Life!Free, Life!Routines, Places, Probing, Stopping,
       Memory, Timers, Binding, Unset

\* xdma_probe.
LEMMA LifeProbe ==
    ASSUME LifeIInv, Life!ProbeResources \/ Life!ProbeDevice
    PROVE  LifeIInv'
<1> USE DEF Places, Probing, Stopping, Life!Routines
<1>1. CASE Life!ProbeResources
  <2>1. /\ at = "loaded" /\ UNCHANGED <<badFree, lockedBy, timer, DriverState>>
        /\ Life!TypeOK /\ Unset /\ ~bound /\ ~badFree /\ have = {}
    BY <1>1 DEF Life!ProbeResources, Life!ProbeError, LifeIInv, Life!Inv, Timers, Binding
  <2>2. \/ /\ at' = "probe_failed" /\ have' = have /\ bound' \in BOOLEAN
           /\ mapped' \subseteq Bars /\ dmaData' \in {"null", "freed"}
        \/ /\ at' \in {"engines", "oops"} /\ have' = {"device", "regions"}
           /\ bound' = bound /\ dmaData' = "live" /\ mapped' \subseteq Bars
           /\ at' = "engines" => 0 \in mapped'
    <3>1. ASSUME NEW B \in SUBSET Bars, NEW S \in Life!Mappings(B)
          PROVE  S \in SUBSET Bars
      BY <3>1 DEF Life!Mappings
    <3>2. \A b \in Bars : {c \in Bars : c < b} \in SUBSET Bars
      OBVIOUS
    <3>3. bound \in BOOLEAN /\ have' \in {have, {"device", "regions"}}
      BY <1>1, <2>1 DEF Life!ProbeResources, Life!ProbeError, Life!TypeOK
    <3>4. CASE at' = "probe_failed"
      BY <1>1, <2>1, <3>1, <3>2, <3>3, <3>4 DEF Life!ProbeResources, Life!ProbeError
    <3>5. CASE at' # "probe_failed"
      BY <1>1, <2>1, <3>1, <3>5 DEF Life!ProbeResources, Life!ProbeError
    <3> QED BY <3>4, <3>5
  <2>3. Life!TypeOK'
    BY <2>1, <2>2 DEF Life!TypeOK
  <2>4. Life!RoutinesFindDevice' /\ Life!AllReleased'
    BY <2>1, <2>2 DEF Life!RoutinesFindDevice, Life!AllReleased, Unset
  <2>5. Memory' /\ Timers' /\ Binding'
    BY <2>1, <2>2 DEF Memory, Timers, Binding, Unset
  <2> QED BY <2>2, <2>3, <2>4, <2>5 DEF LifeIInv, Life!Inv
<1>2. CASE Life!ProbeDevice
  <2>1. /\ at = "engines" /\ UNCHANGED <<mapped, dmaData, badFree, lockedBy>>
        /\ Life!TypeOK /\ Unset /\ dmaData = "live" /\ 0 \in mapped /\ ~badFree
    BY <1>2 DEF Life!ProbeDevice, LifeIInv, Life!Inv, Timers, Binding, Memory
  <2>2. \/ /\ at' = "running" /\ DriverState' = "INITIALIZED" /\ bound' = TRUE
           /\ timer' \in [Life!Routines -> {"uninit", "armed"}]
           /\ have' \subseteq have \cup {"cdev"}
        \/ at' = "oops" /\ UNCHANGED <<DriverState, have, bound, timer>>
    BY <1>2, <2>1 DEF Life!ProbeDevice, Unset
  <2>3. Life!TypeOK'
    BY <2>1, <2>2 DEF Life!TypeOK
  <2>4. Life!RoutinesFindDevice' /\ Life!AllReleased'
    BY <2>1, <2>2 DEF Life!RoutinesFindDevice, Life!AllReleased, Unset
  <2>5. Memory' /\ Timers' /\ Binding'
    BY <2>1, <2>2 DEF Memory, Timers, Binding, Unset
  <2> QED BY <2>2, <2>3, <2>4, <2>5 DEF LifeIInv, Life!Inv
<1> QED BY <1>1, <1>2

\* The timer routines.
LEMMA LifeTimer ==
    ASSUME LifeIInv, NEW r \in Life!Routines, Life!Timer(r)
    PROVE  LifeIInv'
<1> USE DEF LifeIInv, Life!Inv
<1>1. /\ timer[r] \notin {"uninit", "off"}
      /\ UNCHANGED <<DriverState, at, have, bound, mapped, dmaData, badFree>>
  BY DEF Life!Timer, Life!Fire, Life!WantLock, Life!TakeLock, Life!DropLock, Life!Rearm
<1>2. at \in {"running", "delay"} /\ dmaData = "live" /\ 0 \in mapped
  BY <1>1 DEF Places, Probing, Stopping, Life!Routines, Timers, Memory, Unset, AtRest
<1>3. /\ timer' \in [Life!Routines -> {"uninit", "off", "armed", "entered", "waiting", "locked"}]
      /\ lockedBy' \in [Life!Routines -> {Life!Free, "timer", "remove"}]
  BY DEF Life!Timer, Life!Fire, Life!WantLock, Life!TakeLock, Life!DropLock, Life!Rearm,
         Life!TypeOK
<1>4. Life!Inv' /\ at' \in Places
  BY <1>1, <1>2, <1>3 DEF Life!TypeOK, Life!RoutinesFindDevice, Life!AllReleased
<1>5. Memory' /\ Timers' /\ Binding'
  BY <1>1, <1>2 DEF Memory, Timers, Binding, Probing, Stopping
<1> QED BY <1>4, <1>5

\* xdma_cleanup and xdma_remove.
LEMMA LifeUnload ==
    ASSUME LifeIInv, Life!xdma_cleanup \/ Life!Unloading
    PROVE  LifeIInv'
<1> USE DEF LifeIInv, Life!Inv, Places, Probing, Stopping, Life!TypeOK,
            Life!RoutinesFindDevice, Life!AllReleased, Life!Routines,
            Memory, Timers, Binding, Unset, Deleted, AtRest
<1>1. CASE Life!xdma_cleanup
  BY <1>1 DEF Life!xdma_cleanup
<1>2. CASE Life!Delay
  BY <1>2 DEF Life!Delay
<1>3. CASE Life!LockStats
  BY <1>3 DEF Life!LockStats, Life!LockFor
<1>9. CASE Life!LockDma
  BY <1>9 DEF Life!LockDma, Life!LockFor
<1>4. CASE Life!DelStats
  BY <1>4 DEF Life!DelStats, Life!DelTimerSync
<1>5. CASE Life!DelPoll
  BY <1>5 DEF Life!DelPoll, Life!DelTimerSync
<1>6. CASE Life!Reset
  BY <1>6 DEF Life!Reset
<1>7. CASE Life!Release
  BY <1>7 DEF Life!Release
<1>8. CASE Life!FreeData
  BY <1>8 DEF Life!FreeData
<1> QED BY <1>1, <1>2, <1>3, <1>4, <1>5, <1>6, <1>7, <1>8, <1>9 DEF Life!Unloading

\* Every step of the module's life keeps its invariant, and so does no step.
LEMMA LifeStep ==
    ASSUME LifeIInv, Life!Next \/ UNCHANGED lifeVars
    PROVE  LifeIInv'
<1>1. CASE UNCHANGED lifeVars
  BY <1>1 DEF lifeVars, LifeIInv, Life!Inv, Life!TypeOK, Life!RoutinesFindDevice,
     Life!AllReleased, Memory, Timers, Binding, Unset, Deleted, AtRest
<1> QED BY <1>1, LifeProbe, LifeTimer, LifeUnload DEF Life!Next

-----------------------------------------------------------------------------
(* The test mode of the raw data driver.                                   *)

\* Until the first test has ended: nothing has run before its start; then the
\* packets that are prepared follow on those that have been sent.
FirstTest ==
    /\ starts = 0 => RawTestMode = {} /\ pc = "idle" /\ ~gui.running
    /\ pc \notin {"send", "trim"} => TxSeqNo = expected
    /\ pc = "send" =>
          /\ pkts # <<>>
          /\ \A j \in 1 .. Len(pkts) : pkts[j] = (expected + (j-1)) % SeqMod
          /\ TxSeqNo = (expected + Len(pkts)) % SeqMod
    /\ pc = "trim" =>
          expected = IF result # Len(pkts) THEN pkts[result + 1] ELSE TxSeqNo

\* Besides: the locals of poll_routine, and that testmode has the bit the
\* generator shares with the checker only during a test of one of them.
RawIInv ==
    /\ Raw!Inv
    /\ pc # "idle" => times > 0
    /\ pc # "trim" => result = 0
    /\ starts <= 1 => FirstTest
    /\ ~gui.reopened /\ "CHKGEN" \in testmode =>
          gui.running /\ gui.buttons \cap {"PKTCHK", "PKTGEN"} # {}

\* The invariant holds at first.
LEMMA RawInit ==
    ASSUME Raw!Init
    PROVE  RawIInv
<1>1. 0 \in 0 .. SeqMod - 1 /\ 0 \in 0 .. MaxTimes /\ 0 \in 0 .. MaxStarts
  BY RawAssumption
<1>2. pkts = <<>> /\ pkts \in Seq(0 .. SeqMod - 1) /\ result = 0 /\ result \in 0 .. Len(pkts)
  BY DEF Raw!Init
<1>3. gui \in [open : BOOLEAN, reopened : BOOLEAN, running : BOOLEAN,
               buttons : SUBSET Raw!Enables]
  BY DEF Raw!Init, Raw!Enables
<1>4. Raw!TypeOK
  BY <1>1, <1>2, <1>3 DEF Raw!Init, Raw!TypeOK
<1> QED
  BY <1>4
  DEF RawIInv, FirstTest, Raw!Init, Raw!Inv, Raw!NumbersFromZero, Raw!GeneratorOnlyInItsTest

\* The GUI's commands.
LEMMA RawGui ==
    ASSUME RawIInv, Raw!StartTest \/ Raw!StopTest \/ Raw!Close \/ Raw!Open
    PROVE  RawIInv'
<1> USE DEF RawIInv, Raw!Inv, Raw!Enables, Raw!Flags
<1>1. UNCHANGED <<pc, times, pkts, result>>
  BY DEF Raw!StartTest, Raw!StopTest, Raw!Close, Raw!Open, Raw!pollVars
<1>2. CASE Raw!StartTest
  <2>1. PICK s \in Settings :
          /\ Raw!StartCommand(s)
          /\ gui' = [gui EXCEPT !.running = (s # {}), !.buttons = s]
          /\ expected' = IF Raw!TxMode(s) THEN 0 ELSE expected
          /\ fresh' = Raw!TxMode(s)
    BY <1>2 DEF Raw!StartTest
  <2>2. /\ s \subseteq {"PKTCHK", "PKTGEN", "LOOPBACK"}
        /\ gui.open /\ ~gui.running /\ starts < MaxStarts /\ starts' = starts + 1
    BY <1>2, <2>1, RawAssumption DEF Raw!StartTest
  <2>3. Raw!TypeOK'
    <3>1. /\ RawTestMode' \subseteq Raw!Flags
          /\ testmode' \subseteq {"LOOPBACK", "CHKGEN"}
          /\ TX_CONFIG' \subseteq {"LOOPBACK", "CHKGEN"}
          /\ RX_CONFIG' \subseteq {"LOOPBACK", "CHKGEN"}
      BY <2>1, <2>2 DEF Raw!TypeOK, Raw!StartCommand, Raw!RegBits
    <3>2. 0 \in 0 .. SeqMod - 1
      BY RawAssumption
    <3>3. TxSeqNo' \in 0 .. SeqMod - 1 /\ expected' \in 0 .. SeqMod - 1
      BY <2>1, <3>2 DEF Raw!TypeOK, Raw!StartCommand
    <3>4. starts' \in 0 .. MaxStarts
      BY <2>2, RawAssumption DEF Raw!TypeOK
    <3>5. fresh' \in BOOLEAN
      BY <2>1 DEF Raw!TxMode
    <3>6. gui' \in [open : BOOLEAN, reopened : BOOLEAN, running : BOOLEAN,
                    buttons : SUBSET Raw!Enables]
      BY <2>1, <2>2 DEF Raw!TypeOK
    <3> QED BY <1>1, <3>1, <3>3, <3>4, <3>5, <3>6 DEF Raw!TypeOK
  <2>4. starts' <= 1 => FirstTest'
    <3> SUFFICES ASSUME starts' <= 1 PROVE FirstTest'
      OBVIOUS
    <3>1. starts = 0
      BY <2>2 DEF Raw!TypeOK
    <3>2. TxSeqNo = expected /\ pc = "idle"
      BY <3>1 DEF FirstTest
    <3>3. TxSeqNo' = expected'
      BY <2>1, <3>2 DEF Raw!StartCommand, Raw!TxMode
    <3> QED BY <1>1, <2>2, <3>1, <3>2, <3>3 DEF FirstTest
  <2>5. Raw!NumbersFromZero'
    BY <1>1, <2>2, <2>4 DEF Raw!NumbersFromZero, FirstTest, Raw!TypeOK
  <2>6. Raw!GeneratorOnlyInItsTest' /\
          (~gui'.reopened /\ "CHKGEN" \in testmode' =>
              gui'.running /\ gui'.buttons \cap {"PKTCHK", "PKTGEN"} # {})
    BY <2>1, <2>2
    DEF Raw!GeneratorOnlyInItsTest, Raw!StartCommand, Raw!RegBits, Raw!TypeOK
  <2> QED BY <1>1, <2>3, <2>4, <2>5, <2>6
<1>3. CASE Raw!StopTest
  <2>1. /\ Raw!StopCommand(gui.buttons) /\ gui.running
        /\ gui' = [gui EXCEPT !.running = FALSE] /\ UNCHANGED <<expected, fresh, starts, TxSeqNo>>
    BY <1>3 DEF Raw!StopTest, Raw!StopCommand
  <2>2. Raw!TypeOK'
    BY <1>1, <2>1 DEF Raw!TypeOK, Raw!StopCommand
  <2>3. starts' <= 1 => FirstTest'
    BY <1>1, <2>1 DEF FirstTest
  <2>4. Raw!GeneratorOnlyInItsTest' /\ (~gui'.reopened => "CHKGEN" \notin testmode')
    BY <2>1 DEF Raw!GeneratorOnlyInItsTest, Raw!StopCommand, Raw!TypeOK
  <2> QED BY <1>1, <2>1, <2>2, <2>3, <2>4 DEF Raw!NumbersFromZero
<1>4. CASE Raw!Close
  BY <1>1, <1>4
  DEF Raw!Close, Raw!stateVars, Raw!TypeOK, Raw!NumbersFromZero, FirstTest,
      Raw!GeneratorOnlyInItsTest
<1>5. CASE Raw!Open
  <2>1. /\ UNCHANGED <<RawTestMode, testmode, TX_CONFIG, RX_CONFIG, TxSeqNo,
                       expected, fresh, starts>>
        /\ gui'.reopened /\ gui'.running = ("TEST_IN_PROGRESS" \in RawTestMode)
        /\ gui' \in [open : BOOLEAN, reopened : BOOLEAN, running : BOOLEAN,
                     buttons : SUBSET Raw!Enables]
    BY <1>5 DEF Raw!Open, Raw!stateVars
  <2> QED
    BY <1>1, <2>1
    DEF Raw!TypeOK, Raw!NumbersFromZero, FirstTest, Raw!GeneratorOnlyInItsTest
<1> QED BY <1>2, <1>3, <1>4, <1>5

\* The packets DmaSetupTransmit prepares follow on those sent, and DmaSendPkt
\* sends the first few of them.
LEMMA RawSend ==
    ASSUME RawIInv, Raw!DmaSetupTransmit \/ Raw!DmaSendPkt
    PROVE  RawIInv'
<1> USE DEF RawIInv, Raw!Inv
<1>0. SeqMod \in Int /\ SeqMod > 0 /\ \A a \in Int : a % SeqMod \in 0 .. SeqMod - 1
  BY RawAssumption
<1>t. /\ TxSeqNo \in 0 .. SeqMod - 1 /\ expected \in 0 .. SeqMod - 1
      /\ pkts \in Seq(0 .. SeqMod - 1) /\ result \in 0 .. Len(pkts) /\ times \in 0 .. MaxTimes
  BY DEF Raw!TypeOK
<1>1. CASE Raw!DmaSetupTransmit
  <2>1. PICK n \in Nat :
            /\ pkts' = [j \in 1 .. n |-> (TxSeqNo + j-1) % SeqMod]
            /\ TxSeqNo' = (TxSeqNo + n) % SeqMod
            /\ pc' = IF n = 0 THEN "idle" ELSE "send"
            /\ fresh' = (fresh /\ n = 0)
    BY <1>1, RawAssumption DEF Raw!DmaSetupTransmit
  <2>2. /\ pc \in {"first", "setup"} /\ result = 0
        /\ UNCHANGED <<RawTestMode, testmode, TX_CONFIG, RX_CONFIG, times, result,
                       expected, gui, starts>>
    BY <1>1 DEF Raw!DmaSetupTransmit, Raw!stateVars
  <2>3. pkts' \in Seq(0 .. SeqMod - 1) /\ Len(pkts') = n
    <3>1. \A j \in 1 .. n : (TxSeqNo + j-1) % SeqMod \in 0 .. SeqMod - 1
      BY <1>0, <1>t
    <3> QED BY <2>1, <3>1
  <2>4. Raw!TypeOK'
    BY <1>0, <1>t, <2>1, <2>2, <2>3 DEF Raw!TypeOK
  <2>5. starts' <= 1 => FirstTest'
    <3> SUFFICES ASSUME starts' <= 1 PROVE FirstTest'
      OBVIOUS
    <3>1. TxSeqNo = expected /\ starts # 0
      BY <2>2 DEF FirstTest
    <3>2. CASE n = 0
      <4>1. TxSeqNo' = TxSeqNo
        BY <1>0, <1>t, <2>1, <3>2
      <4> QED BY <2>1, <2>2, <3>1, <3>2, <4>1 DEF FirstTest
    <3>3. CASE n # 0
      <4>1. \A j \in 1 .. n : pkts'[j] = (expected + (j-1)) % SeqMod
        BY <1>t, <2>1, <3>1
      <4>2. pkts' # <<>>
        BY <2>3, <3>3
      <4> QED BY <2>1, <2>2, <2>3, <3>1, <3>3, <4>1, <4>2 DEF FirstTest
    <3> QED BY <3>2, <3>3
  <2>6. Raw!NumbersFromZero'
    <3> SUFFICES ASSUME starts <= 1, n # 0 PROVE pkts'[1] = expected
      BY <2>1, <2>2 DEF Raw!NumbersFromZero
    <3>1. TxSeqNo = expected
      BY <2>2 DEF FirstTest
    <3>2. pkts'[1] = (TxSeqNo + 1-1) % SeqMod
      BY <2>1
    <3>3. TxSeqNo + 1-1 = TxSeqNo
      BY <1>t
    <3> QED BY <1>0, <1>t, <3>1, <3>2, <3>3, ModSmall
  <2> QED BY <2>1, <2>2, <2>4, <2>5, <2>6 DEF Raw!GeneratorOnlyInItsTest
<1>2. CASE Raw!DmaSendPkt
  <2>1. /\ pc = "send" /\ pc' = "trim" /\ result' \in 0 .. Len(pkts)
        /\ expected' = IF result' = 0 THEN expected ELSE (pkts[result'] + 1) % SeqMod
        /\ UNCHANGED <<RawTestMode, testmode, TX_CONFIG, RX_CONFIG, TxSeqNo, times,
                       pkts, fresh, gui, starts>>
    BY <1>2 DEF Raw!DmaSendPkt, Raw!stateVars
  <2>2. expected' \in 0 .. SeqMod - 1
    <3>1. CASE result' # 0
      <4>1. result' \in 1 .. Len(pkts)
        BY <1>t, <2>1, <3>1
      <4>2. pkts[result'] \in 0 .. SeqMod - 1
        BY <1>t, <4>1, ElementOfSeq
      <4>3. pkts[result'] + 1 \in Int
        BY <4>2
      <4> QED BY <1>0, <2>1, <3>1, <4>3
    <3> QED BY <1>t, <2>1, <3>1
  <2>3. Raw!TypeOK'
    BY <2>1, <2>2 DEF Raw!TypeOK
  <2>4. starts' <= 1 => FirstTest'
    <3> SUFFICES ASSUME starts <= 1 PROVE FirstTest'
      BY <2>1
    <3>1. /\ pkts # <<>>
          /\ \A j \in 1 .. Len(pkts) : pkts[j] = (expected + (j-1)) % SeqMod
          /\ TxSeqNo = (expected + Len(pkts)) % SeqMod
      BY <2>1 DEF FirstTest
    <3>2. Len(pkts) \in Nat /\ result' \in Nat
      BY <1>t, <2>1
    <3>3. expected' = (expected + result') % SeqMod
      <4>1. CASE result' = 0
        BY <1>0, <1>t, <2>1, <4>1
      <4>2. CASE result' # 0
        <5>1. expected' = (((expected + (result' - 1)) % SeqMod) + 1) % SeqMod
          BY <2>1, <3>1, <3>2, <4>2
        <5>2. expected + (result' - 1) \in Int
          BY <1>t, <3>2
        <5>3. expected' = ((expected + (result' - 1)) + 1) % SeqMod
          BY <1>0, <5>1, <5>2, ModAdd
        <5> QED BY <1>t, <3>2, <5>3
      <4> QED BY <4>1, <4>2
    <3>4. result' # Len(pkts) => pkts[result' + 1] = (expected + result') % SeqMod
      BY <1>t, <2>1, <3>1, <3>2
    <3>5. expected' = IF result' # Len(pkts) THEN pkts[result' + 1] ELSE TxSeqNo
      BY <3>1, <3>3, <3>4
    <3>6. starts # 0
      BY <2>1 DEF FirstTest
    <3> QED BY <2>1, <3>5, <3>6 DEF FirstTest
  <2> QED
    BY <2>1, <2>3, <2>4 DEF Raw!NumbersFromZero, Raw!GeneratorOnlyInItsTest
<1> QED BY <1>1, <1>2

\* The other steps of poll_routine.
LEMMA RawPoll ==
    ASSUME RawIInv, Raw!PollCheck \/ Raw!TestInProgress \/ Raw!TakeBack
    PROVE  RawIInv'
<1> USE DEF RawIInv, Raw!Inv
<1>1. CASE Raw!PollCheck
  BY <1>1, RawAssumption
  DEF Raw!PollCheck, Raw!stateVars, Raw!TypeOK, Raw!NumbersFromZero, FirstTest,
      Raw!GeneratorOnlyInItsTest
<1>2. CASE Raw!TestInProgress
  BY <1>2
  DEF Raw!TestInProgress, Raw!TypeOK, Raw!Flags, Raw!NumbersFromZero, FirstTest,
      Raw!GeneratorOnlyInItsTest
<1>3. CASE Raw!TakeBack
  <2>1. /\ TxSeqNo' = IF result # Len(pkts) THEN pkts[result + 1] ELSE TxSeqNo
        /\ pkts' = <<>> /\ result' = 0 /\ pc = "trim" /\ pc' \in {"idle", "setup"}
        /\ times' = 0 \/ times' = times - 1
        /\ pc' # "idle" => times' # 0
        /\ UNCHANGED <<RawTestMode, testmode, TX_CONFIG, RX_CONFIG, expected, fresh,
                       gui, starts>>
    BY <1>3 DEF Raw!TakeBack, Raw!stateVars
  <2>2. /\ times \in 1 .. MaxTimes /\ pkts \in Seq(0 .. SeqMod - 1)
        /\ result \in 0 .. Len(pkts)
    BY <2>1 DEF Raw!TypeOK
  <2>3. times' \in 0 .. MaxTimes /\ (pc' # "idle" => times' > 0)
    BY <2>1, <2>2, RawAssumption
  <2>4. TxSeqNo' \in 0 .. SeqMod - 1
    <3>1. result # Len(pkts) => result + 1 \in 1 .. Len(pkts)
      BY <2>2
    <3>2. result # Len(pkts) => pkts[result + 1] \in 0 .. SeqMod - 1
      BY <2>2, <3>1, ElementOfSeq
    <3> QED BY <2>1, <3>2 DEF Raw!TypeOK
  <2>5. pkts' \in Seq(0 .. SeqMod - 1) /\ result' \in 0 .. Len(pkts')
    BY <2>1
  <2>6. Raw!TypeOK'
    BY <2>1, <2>3, <2>4, <2>5 DEF Raw!TypeOK
  <2>7. starts <= 1 => TxSeqNo' = expected /\ starts # 0
    BY <2>1 DEF FirstTest
  <2> QED
    BY <2>1, <2>3, <2>6, <2>7
    DEF Raw!NumbersFromZero, FirstTest, Raw!GeneratorOnlyInItsTest
<1> QED BY <1>1, <1>2, <1>3

\* Every step of the test mode keeps its invariant, and so does no step.
LEMMA RawStep ==
    ASSUME RawIInv, Raw!Next \/ UNCHANGED rawVars
    PROVE  RawIInv'
<1>1. CASE UNCHANGED rawVars
  BY <1>1 DEF rawVars, RawIInv, FirstTest, Raw!Inv, Raw!TypeOK, Raw!NumbersFromZero,
     Raw!GeneratorOnlyInItsTest
<1> QED BY <1>1, RawGui, RawSend, RawPoll DEF Raw!Next, Raw!Poll

-----------------------------------------------------------------------------
(* The statistics rings.                                                   *)

\* A ring whose indices agree with its number of samples.
Sound(r) ==
    /\ r \in [slots : [0 .. MAX_STATS - 1 -> Samples], num : 0 .. MAX_STATS,
              read : 0 .. MAX_STATS - 1, write : 0 .. MAX_STATS - 1]
    /\ r.write = (r.read + r.num) % MAX_STATS

Slots == 0 .. MAX_STATS - 1

\* There is a slot.
LEMMA MaxStats == MAX_STATS \in Int /\ MAX_STATS > 0 /\ 0 \in Slots
BY StatsAssumption DEF Slots

\* Every sample of a ring is found in a slot.
LEMMA SlotOf ==
    ASSUME NEW r, Sound(r), NEW k \in Int
    PROVE  (r.read + k) % MAX_STATS \in Slots
<1>1. r.read \in Int
  BY MaxStats DEF Sound
<1> QED BY <1>1, MaxStats, DivMod DEF Slots

\* The queue is as long as the ring's number says.
LEMMA QueuedType ==
    ASSUME NEW r, Sound(r)
    PROVE  /\ Stats!Queued(r) \in Seq(Samples) /\ Len(Stats!Queued(r)) = r.num
           /\ \A k \in 1 .. r.num :
                 Stats!Queued(r)[k] = r.slots[(r.read + k-1) % MAX_STATS]
<1>1. r.num \in Nat /\ r.slots \in [Slots -> Samples] /\ r.read \in Int
  BY MaxStats DEF Sound, Slots
<1>2. \A k \in 1 .. r.num : (r.read + k-1) % MAX_STATS \in Slots
  <2> SUFFICES ASSUME NEW k \in 1 .. r.num PROVE (r.read + k-1) % MAX_STATS \in Slots
    OBVIOUS
  <2>1. r.read + k-1 = r.read + (k-1) /\ k-1 \in Int
    BY <1>1
  <2> QED BY <2>1, SlotOf
<1> QED BY <1>1, <1>2 DEF Stats!Queued

\* An index moves on by one, round the ring.
LEMMA WrappedIsMod ==
    ASSUME NEW r, Sound(r), NEW x \in Slots
    PROVE  Stats!Wrapped(x + 1) = (x + 1) % MAX_STATS /\ Stats!Wrapped(x + 1) \in Slots
BY MaxStats, ModNext DEF Stats!Wrapped, Slots

\* What a sample that is put makes of the queue.
LEMMA PutIsAppend ==
    ASSUME NEW r, Sound(r), NEW s \in Samples
    PROVE  LET q == Stats!Queued(r)
               p == Stats!PutSample(r, s)
           IN  /\ Sound(p)
               /\ p.num >= r.num
               /\ Stats!Queued(p) =
                     Append(IF Len(q) < MAX_STATS THEN q ELSE Tail(q), s)
<1> DEFINE q == Stats!Queued(r)
           p == Stats!PutSample(r, s)
           S == MAX_STATS
<1>t. /\ r.num \in 0 .. S /\ r.slots \in [Slots -> Samples] /\ r.read \in Slots
      /\ r.write \in Slots /\ r.write = (r.read + r.num) % S /\ r.read \in Int
      /\ r \in [slots : [Slots -> Samples], num : 0 .. S, read : Slots, write : Slots]
      /\ S \in Int /\ S > 0
  BY MaxStats DEF Sound, Slots
<1>q. q \in Seq(Samples) /\ Len(q) = r.num
      /\ \A k \in 1 .. r.num : q[k] = r.slots[(r.read + k-1) % S]
  BY QueuedType
<1>x. /\ Stats!Wrapped(r.write + 1) = (r.write + 1) % S
      /\ Stats!Wrapped(r.read + 1) = (r.read + 1) % S
      /\ Stats!Wrapped(r.write + 1) \in Slots /\ Stats!Wrapped(r.read + 1) \in Slots
      /\ r.read + 1 \in Int
  BY <1>t, WrappedIsMod
<1>n. (IF r.num < S THEN r.num + 1 ELSE r.num) \in 0 .. S
  BY <1>t
<1>p. /\ p.slots = [r.slots EXCEPT ![r.write] = s]
      /\ p.write = Stats!Wrapped(r.write + 1)
      /\ p.num = (IF r.num < S THEN r.num + 1 ELSE r.num)
      /\ p.read = (IF r.num < S THEN r.read ELSE Stats!Wrapped(r.read + 1))
      /\ p \in [slots : [Slots -> Samples], num : 0 .. S, read : Slots, write : Slots]
  BY <1>t, <1>x, <1>n DEF Stats!PutSample
<1>w. p.write = ((r.read + r.num) + 1) % S
  <2>1. p.write = (((r.read + r.num) % S) + 1) % S
    BY <1>t, <1>p, <1>x
  <2> QED BY <1>t, <2>1, ModAdd
<1> HIDE DEF p, q
\* The slots between the first and the new one stay.
<1>d. ASSUME NEW a \in Int, a < r.num, r.num - a < S
      PROVE  p.slots[(r.read + a) % S] = r.slots[(r.read + a) % S]
  <2>1. (r.read + a) % S # (r.read + r.num) % S
    BY <1>t, <1>d, ModDistinct
  <2>2. (r.read + a) % S \in Slots
    BY SlotOf
  <2> QED BY <1>t, <1>p, <2>1, <2>2
<1>e. p.slots[(r.read + r.num) % S] = s
  BY <1>t, <1>p
<1>1. CASE r.num < S
  <2>1. p.num = r.num + 1 /\ p.read = r.read
    BY <1>p, <1>1
  <2>2. Sound(p)
    <3>1. (r.read + r.num) + 1 = p.read + p.num
      BY <1>t, <2>1
    <3> QED BY <1>p, <1>w, <3>1 DEF Sound, Slots
  <2>3. /\ Stats!Queued(p) \in Seq(Samples) /\ Len(Stats!Queued(p)) = r.num + 1
        /\ \A k \in 1 .. r.num + 1 : Stats!Queued(p)[k] = p.slots[(r.read + k-1) % S]
    BY <2>1, <2>2, QueuedType
  <2>4. \A k \in 1 .. r.num : Stats!Queued(p)[k] = q[k]
    <3> SUFFICES ASSUME NEW k \in 1 .. r.num PROVE Stats!Queued(p)[k] = q[k]
      OBVIOUS
    <3>1. r.read + k-1 = r.read + (k-1) /\ k-1 \in Int /\ k-1 < r.num /\ r.num - (k-1) < S
      BY <1>t, <1>1
    <3>2. p.slots[(r.read + k-1) % S] = r.slots[(r.read + k-1) % S]
      BY <1>d, <3>1
    <3> QED BY <1>q, <1>t, <2>3, <3>2
  <2>5. Stats!Queued(p)[r.num + 1] = s
    <3>1. r.read + (r.num + 1)-1 = r.read + r.num /\ r.num + 1 \in 1 .. r.num + 1
      BY <1>t
    <3> QED BY <1>e, <2>3, <3>1
  <2>6. Stats!Queued(p) = Append(q, s)
    BY <1>q, <1>t, <2>3, <2>4, <2>5
  <2> QED BY <1>q, <1>t, <1>1, <2>1, <2>2, <2>6 DEF p, q
<1>2. CASE r.num = S
  <2>1. p.num = S /\ p.read = (r.read + 1) % S
    BY <1>p, <1>2, <1>t, <1>x
  <2>2. p.write = (p.read + p.num) % S
    <3>1. (p.read + p.num) % S = ((r.read + 1) + S) % S
      BY <1>t, <1>x, <2>1, ModAdd
    <3>2. (r.read + 1) + S = (r.read + r.num) + 1
      BY <1>t, <1>2
    <3> QED BY <1>w, <3>1, <3>2
  <2>3. Sound(p)
    BY <1>p, <2>2 DEF Sound, Slots
  <2>4. /\ Stats!Queued(p) \in Seq(Samples) /\ Len(Stats!Queued(p)) = S
        /\ \A k \in 1 .. S : Stats!Queued(p)[k] = p.slots[(p.read + k-1) % S]
    BY <2>1, <2>3, QueuedType
  <2>5. \A k \in 1 .. S : Stats!Queued(p)[k] = p.slots[(r.read + k) % S]
    <3> SUFFICES ASSUME NEW k \in 1 .. S
                 PROVE  (p.read + k-1) % S = (r.read + k) % S
      BY <2>4
    <3>1. p.read + k-1 = ((r.read + 1) % S) + (k-1) /\ k-1 \in Int
      <4>1. p.read \in Int
        BY <1>p, <1>t DEF Slots
      <4> QED BY <2>1, <4>1
    <3>2. (((r.read + 1) % S) + (k-1)) % S = ((r.read + 1) + (k-1)) % S
      BY <1>t, <1>x, <3>1, ModAdd
    <3>3. (r.read + 1) + (k-1) = r.read + k
      BY <1>t
    <3> QED BY <3>1, <3>2, <3>3
  <2>6. \A k \in 1 .. S - 1 : Stats!Queued(p)[k] = q[k + 1]
    <3> SUFFICES ASSUME NEW k \in 1 .. S - 1 PROVE Stats!Queued(p)[k] = q[k + 1]
      OBVIOUS
    <3>1. /\ k \in 1 .. S /\ k + 1 \in 1 .. r.num /\ r.read + (k+1)-1 = r.read + k
          /\ k \in Int /\ k < r.num /\ r.num - k < S
      BY <1>t, <1>2
    <3>2. p.slots[(r.read + k) % S] = r.slots[(r.read + k) % S]
      BY <1>d, <3>1
    <3> QED BY <1>q, <2>5, <3>1, <3>2
  <2>7. Stats!Queued(p)[S] = s
    BY <1>e, <1>t, <1>2, <2>5
  <2>8. q # <<>> /\ Tail(q) \in Seq(Samples) /\ Len(Tail(q)) = S - 1
        /\ \A k \in 1 .. S - 1 : Tail(q)[k] = q[k + 1]
    BY <1>q, <1>t, <1>2
  <2>9. Stats!Queued(p) = Append(Tail(q), s)
    BY <1>t, <2>4, <2>6, <2>7, <2>8
  <2>10. p.num >= r.num /\ ~(Len(q) < S)
    BY <1>q, <1>t, <1>2, <2>1
  <2> QED BY <2>3, <2>9, <2>10 DEF p, q
<1> QED BY <1>1, <1>2, <1>t

\* A sample that is taken is the head of the queue.
LEMMA TakeIsTail ==
    ASSUME NEW r, Sound(r), r.num > 0
    PROVE  LET q == Stats!Queued(r)
               t == Stats!TakeSample(r)
           IN  /\ Sound(t)
               /\ q # <<>>
               /\ Head(q) = r.slots[r.read]
               /\ Stats!Queued(t) = Tail(q)
<1> DEFINE q == Stats!Queued(r)
           t == Stats!TakeSample(r)
           S == MAX_STATS
<1>t. /\ r.num \in 1 .. S /\ r.slots \in [Slots -> Samples] /\ r.read \in Slots
      /\ r.write \in Slots /\ r.write = (r.read + r.num) % S /\ r.read \in Int
      /\ r \in [slots : [Slots -> Samples], num : 0 .. S, read : Slots, write : Slots]
      /\ S \in Int /\ S > 0
  BY MaxStats DEF Sound, Slots
<1>q. q \in Seq(Samples) /\ Len(q) = r.num
      /\ \A k \in 1 .. r.num : q[k] = r.slots[(r.read + k-1) % S]
  BY QueuedType
<1>x. /\ Stats!Wrapped(r.read + 1) = (r.read + 1) % S
      /\ Stats!Wrapped(r.read + 1) \in Slots
      /\ r.read + 1 \in Int /\ r.num - 1 \in 0 .. S
  BY <1>t, WrappedIsMod
<1>1. /\ t.slots = r.slots /\ t.write = r.write /\ t.num = r.num - 1
      /\ t.read = (r.read + 1) % S
      /\ t \in [slots : [Slots -> Samples], num : 0 .. S, read : Slots, write : Slots]
  BY <1>t, <1>x DEF Stats!TakeSample
<1> HIDE DEF t, q
<1>a. ASSUME NEW k \in Int PROVE (t.read + k) % S = (r.read + (k + 1)) % S
  <2>1. (t.read + k) % S = ((r.read + 1) + k) % S
    BY <1>t, <1>x, <1>1, ModAdd
  <2>2. (r.read + 1) + k = r.read + (k + 1)
    BY <1>t
  <2> QED BY <2>1, <2>2
<1>2. Sound(t)
  <2>1. (t.read + t.num) % S = (r.read + r.num) % S
    <3>1. t.num \in Int /\ t.num + 1 = r.num
      BY <1>t, <1>1
    <3> QED BY <1>a, <3>1
  <2> QED BY <1>t, <1>1, <2>1 DEF Sound, Slots
<1>3. /\ Stats!Queued(t) \in Seq(Samples) /\ Len(Stats!Queued(t)) = r.num - 1
      /\ \A k \in 1 .. r.num - 1 : Stats!Queued(t)[k] = r.slots[(t.read + k-1) % S]
  BY <1>1, <1>2, QueuedType
<1>4. \A k \in 1 .. r.num - 1 : Stats!Queued(t)[k] = q[k + 1]
  <2> SUFFICES ASSUME NEW k \in 1 .. r.num - 1 PROVE Stats!Queued(t)[k] = q[k + 1]
    OBVIOUS
  <2>1. /\ k-1 \in Int /\ t.read + k-1 = t.read + (k-1) /\ k + 1 \in 1 .. r.num
        /\ r.read + (k+1)-1 = r.read + ((k-1) + 1)
    BY <1>t, <1>1 DEF Slots
  <2>2. (t.read + (k-1)) % S = (r.read + ((k-1) + 1)) % S
    BY <1>a, <2>1
  <2> QED BY <1>q, <1>3, <2>1, <2>2
<1>5. q # <<>> /\ Tail(q) \in Seq(Samples) /\ Len(Tail(q)) = r.num - 1
      /\ \A k \in 1 .. r.num - 1 : Tail(q)[k] = q[k + 1]
  BY <1>q, <1>t
<1>6. Stats!Queued(t) = Tail(q)
  BY <1>t, <1>3, <1>4, <1>5
<1>7. Head(q) = r.slots[r.read]
  <2>1. q[1] = r.slots[(r.read + 1-1) % S] /\ r.read + 1-1 = r.read
    BY <1>t, <1>q
  <2>2. r.read % S = r.read
    BY <1>t, ModSmall DEF Slots
  <2>3. Head(q) = q[1]
    BY <1>q, <1>5
  <2> QED BY <2>1, <2>2, <2>3
<1> QED BY <1>2, <1>5, <1>6, <1>7 DEF t, q

-----------------------------------------------------------------------------
(* The statistics ioctl, while the device is opened by one GUI at a time.  *)

\* The GUIs that have the device open, and those in a call of the ioctl.
Inside == {g \in Guis : reader[g] \in {"open", "test", "take", "copy"}}
InCall(g) == reader[g] \in {"test", "take", "copy"}

Calls == [Count : Nat, i : Nat, j : Stats!Engines, len : Nat,
          taken : [Stats!Engines -> Nat], dry : SUBSET Stats!Engines]

\* How often the loop has come to engine e in the round that is under way.
Turn(c, e) == IF e < c.j THEN 1 ELSE 0

\* An engine that was never found empty has given a sample in every round, and
\* none has given more.
InTurn(c) ==
    \A e, f \in Stats!Engines :
        f \notin c.dry => c.taken[e] + Turn(c, f) <= c.taken[f] + Turn(c, e)

\* What the invariant says of one GUI.
GuiInv(g) ==
    /\ call[g].len <= call[g].i
    /\ InCall(g) => call[g].i < call[g].Count
    /\ InTurn(call[g])
    /\ reader[g] = "take" => ring[call[g].j].num > 0
    /\ from[g] = <<>> \/ from[g] \in Stats!Engines \X Samples

StatsIInv ==
    /\ ring \in [Stats!Engines -> Stats!StatsRings]
    /\ \A e \in Stats!Engines : Sound(ring[e])
    /\ pollAt \in Stats!Engines
    /\ reader \in [Guis -> {"closed", "opening", "open", "test", "take", "copy"}]
    /\ call \in [Guis -> Calls]
    /\ UserOpen = Cardinality(Inside)
    /\ \A g \in Guis : GuiInv(g)

\* The constants of the statistics device.
LEMMA StatsConstants ==
    /\ Stats!Engines = 0 .. StatsEngines - 1 /\ StatsEngines \in Nat \ {0}
    /\ 0 \in Stats!Engines
    /\ Stats!StatsRings = [slots : [Slots -> Samples], num : 0 .. MAX_STATS,
                           read : Slots, write : Slots]
BY StatsAssumption DEF Stats!Engines, Stats!StatsRings, Slots

\* A call begins in turn, with nothing copied.
LEMMA NewCallIsFair ==
    ASSUME NEW count \in Nat
    PROVE  LET c == Stats!NewCall(count)
           IN  /\ c \in Calls /\ InTurn(c) /\ c.i = 0 /\ c.len = 0 /\ c.Count = count
               /\ \A e, f \in Stats!Engines : ~(c.taken[e] > c.taken[f] + 1)
BY StatsConstants DEF Stats!NewCall, Calls, InTurn, Turn

\* What makes the report fair.
LEMMA InTurnIsFair ==
    ASSUME NEW c \in Calls, InTurn(c), NEW e \in Stats!Engines, NEW f \in Stats!Engines,
           c.taken[e] > c.taken[f] + 1
    PROVE  f \in c.dry
BY DEF InTurn, Turn, Calls

\* The loops go on to the next engine, round after round.
LEMMA NextInTurn ==
    ASSUME NEW c \in Calls, NEW d \in Calls,
           \A e, f \in Stats!Engines :
              f \notin c.dry =>
                  c.taken[e] + (IF f <= c.j THEN 1 ELSE 0)
                      <= c.taken[f] + (IF e <= c.j THEN 1 ELSE 0),
           d.taken = c.taken, d.dry = c.dry,
           \/ d.j = c.j + 1
           \/ d.j = 0 /\ c.j + 1 = StatsEngines
    PROVE  InTurn(d)
<1> SUFFICES ASSUME NEW e \in Stats!Engines, NEW f \in Stats!Engines, f \notin d.dry
             PROVE  d.taken[e] + Turn(d, f) <= d.taken[f] + Turn(d, e)
  BY DEF InTurn
<1>1. /\ e \in 0 .. StatsEngines - 1 /\ f \in 0 .. StatsEngines - 1
      /\ c.j \in 0 .. StatsEngines - 1 /\ StatsEngines \in Nat
      /\ c.taken[e] \in Nat /\ c.taken[f] \in Nat
  BY StatsConstants DEF Calls
<1>2. c.taken[e] + (IF f <= c.j THEN 1 ELSE 0) <= c.taken[f] + (IF e <= c.j THEN 1 ELSE 0)
  OBVIOUS
<1>3. CASE d.j = c.j + 1
  <2>1. Turn(d, e) = (IF e <= c.j THEN 1 ELSE 0) /\ Turn(d, f) = (IF f <= c.j THEN 1 ELSE 0)
    BY <1>1, <1>3 DEF Turn
  <2> QED BY <1>2, <2>1
<1>4. CASE d.j = 0 /\ c.j + 1 = StatsEngines
  <2>1. Turn(d, e) = 0 /\ Turn(d, f) = 0 /\ e <= c.j /\ f <= c.j
    BY <1>1, <1>4 DEF Turn
  <2> QED BY <1>1, <1>2, <2>1
<1> QED BY <1>3, <1>4

\* With the device open once, one GUI at most is in a call.
LEMMA OneInside ==
    ASSUME UserOpen = Cardinality(Inside), UserOpen <= 1,
           NEW g \in Inside, NEW h \in Inside
    PROVE  g = h
<1>1. IsFiniteSet(Inside)
  BY StatsAssumption, FS_Subset DEF Inside
<1>2. Cardinality(Inside) # 0 /\ Cardinality(Inside) \in Nat
  BY <1>1, FS_EmptySet, FS_CardinalityType
<1>3. Cardinality(Inside) = 1
  BY <1>2
<1> QED BY <1>1, <1>3, FS_Singleton

\* The invariant holds at first.
LEMMA StatsInit ==
    ASSUME Stats!Init
    PROVE  StatsIInv
<1>1. UserOpen = Cardinality(Inside)
  BY FS_EmptySet DEF Inside, Stats!Init
<1>2. Sound(Stats!EmptyRing) /\ Stats!EmptyRing \in Stats!StatsRings
  BY MaxStats, ModSmall, StatsAssumption, StatsConstants DEF Sound, Stats!EmptyRing, Slots
<1>3. call \in [Guis -> Calls] /\ \A g \in Guis : GuiInv(g)
  BY NewCallIsFair DEF Stats!Init, Stats!NoCall, GuiInv, InCall
<1>4. 0 \in Stats!Engines
  BY StatsConstants
<1> QED BY <1>1, <1>2, <1>3, <1>4 DEF StatsIInv, Stats!Init

\* The invariant implies what the run checks.
LEMMA StatsSafe ==
    ASSUME StatsIInv
    PROVE  Stats!Inv
<1>1. IsFiniteSet(Guis) /\ Inside \in SUBSET Guis
  BY StatsAssumption DEF Inside
<1>2. Cardinality(Inside) <= Cardinality(Guis)
  BY <1>1, FS_Subset
<1>3. Cardinality(Inside) \in Nat /\ Cardinality(Guis) \in Nat
  BY <1>1, FS_Subset, FS_CardinalityType
<1>c. Stats!Cardinality(Guis) = Cardinality(Guis)
  BY DEF Stats!Cardinality, Cardinality
<1>4. UserOpen \in 0 .. Stats!Cardinality(Guis)
  BY <1>2, <1>3, <1>c DEF StatsIInv
<1>5. \A g \in Guis : call[g].j \in Stats!Engines
  BY DEF StatsIInv, Calls
<1>6. Stats!TypeOK
  BY <1>4, <1>5 DEF Stats!TypeOK, StatsIInv, GuiInv
<1>7. Stats!NeverOverruns
  BY DEF Stats!NeverOverruns, StatsIInv, GuiInv, InCall, Calls
<1>8. Stats!FairReport
  BY InTurnIsFair, StatsAssumption, StatsConstants DEF Stats!FairReport, StatsIInv, GuiInv
<1> QED BY <1>6, <1>7, <1>8 DEF Stats!Inv

\* The timer routine puts a sample in a ring.
LEMMA StatsPoll ==
    ASSUME StatsIInv, Stats!poll_stats
    PROVE  StatsIInv'
<1>1. PICK s \in Samples :
         ring' = IF pollAt \in StatsMask
                 THEN [ring EXCEPT ![pollAt] = Stats!PutSample(@, s)] ELSE ring
  BY DEF Stats!poll_stats
<1>2. UNCHANGED <<UserOpen, reader, call, from>> /\ pollAt' = (pollAt + 1) % StatsEngines
  BY DEF Stats!poll_stats
<1>3. pollAt' \in Stats!Engines
  <2>1. pollAt \in 0 .. StatsEngines - 1 /\ StatsEngines \in Int /\ StatsEngines > 0
    BY StatsConstants DEF StatsIInv
  <2>2. pollAt + 1 \in Int
    BY <2>1
  <2> QED BY <1>2, <2>1, <2>2, DivMod, StatsConstants
<1>4. /\ ring' \in [Stats!Engines -> Stats!StatsRings]
      /\ \A e \in Stats!Engines : Sound(ring'[e]) /\ ring'[e].num >= ring[e].num
  <2>1. \A e \in Stats!Engines : Sound(ring[e]) /\ ring[e].num \in Int
    BY StatsConstants, StatsAssumption DEF StatsIInv
  <2>2. CASE pollAt \notin StatsMask
    BY <1>1, <2>1, <2>2 DEF StatsIInv
  <2>3. CASE pollAt \in StatsMask
    <3> DEFINE p == Stats!PutSample(ring[pollAt], s)
    <3>1. Sound(p) /\ p.num >= ring[pollAt].num
      BY <2>1, PutIsAppend DEF StatsIInv
    <3>2. p \in Stats!StatsRings
      BY <3>1, StatsConstants DEF Sound, Slots
    <3>3. ring' = [ring EXCEPT ![pollAt] = p]
      BY <1>1, <2>3
    <3> HIDE DEF p
    <3> QED BY <2>1, <3>1, <3>2, <3>3 DEF StatsIInv
  <2> QED BY <2>2, <2>3
<1>5. \A g \in Guis : reader'[g] = "take" => ring'[call'[g].j].num > 0
  <2> SUFFICES ASSUME NEW g \in Guis, reader[g] = "take" PROVE ring'[call[g].j].num > 0
    BY <1>2
  <2>1. call[g].j \in Stats!Engines /\ ring[call[g].j].num > 0
    BY DEF StatsIInv, GuiInv, Calls
  <2>2. ring'[call[g].j].num >= ring[call[g].j].num
    BY <1>4, <2>1
  <2>3. ring[call[g].j].num \in Int /\ ring'[call[g].j].num \in Int
    BY <1>4, <2>1, StatsConstants, StatsAssumption DEF StatsIInv
  <2> QED BY <2>1, <2>2, <2>3
<1> QED BY <1>2, <1>3, <1>4, <1>5 DEF StatsIInv, GuiInv, InCall, Inside

\* Opening and closing the device.
LEMMA StatsOpens ==
    ASSUME StatsIInv, NEW g \in Guis,
           Stats!OpenTest(g) \/ Stats!Open(g) \/ Stats!Release(g)
    PROVE  StatsIInv'
<1>0. /\ UNCHANGED <<ring, pollAt, call, from>>
      /\ \E p \in {"closed", "opening", "open"} : reader' = [reader EXCEPT ![g] = p]
  BY DEF Stats!OpenTest, Stats!Open, Stats!Release
<1>1. \A h \in Guis : GuiInv(h)'
  BY <1>0 DEF StatsIInv, GuiInv, InCall
<1>2. IsFiniteSet(Inside) /\ Cardinality(Inside) \in Nat
  BY StatsAssumption, FS_Subset, FS_CardinalityType DEF Inside
<1>3. UserOpen' = Cardinality(Inside')
  <2>1. CASE Stats!OpenTest(g)
    <3>1. Inside' = Inside
      BY <2>1 DEF Inside, Stats!OpenTest, StatsIInv
    <3> QED BY <2>1, <3>1 DEF StatsIInv, Stats!OpenTest
  <2>2. CASE Stats!Open(g)
    <3>1. Inside' = Inside \cup {g} /\ g \notin Inside
      BY <2>2 DEF Inside, Stats!Open, StatsIInv
    <3>2. UserOpen' = UserOpen + 1
      BY <2>2 DEF Stats!Open
    <3> QED BY <1>2, <3>1, <3>2, FS_AddElement DEF StatsIInv
  <2>3. CASE Stats!Release(g)
    <3>1. Inside' = Inside \ {g} /\ g \in Inside
      BY <2>3 DEF Inside, Stats!Release, StatsIInv
    <3>2. UserOpen' = UserOpen - 1
      BY <2>3 DEF Stats!Release
    <3> QED BY <1>2, <3>1, <3>2, FS_RemoveElement DEF StatsIInv
  <2> QED BY <2>1, <2>2, <2>3
<1> QED BY <1>0, <1>1, <1>3 DEF StatsIInv

\* A step of g's call, with the device open once: whatever the others are
\* doing it is not a call, so a sample g has seen is still there.
LEMMA StatsOwnStep ==
    ASSUME StatsIInv, UserOpen <= 1, NEW g \in Guis,
           reader[g] \in {"open", "test", "take", "copy"},
           NEW to \in {"open", "test", "take", "copy"}, reader' = [reader EXCEPT ![g] = to],
           NEW c \in Calls, call' = [call EXCEPT ![g] = c],
           ring' \in [Stats!Engines -> Stats!StatsRings],
           \A e \in Stats!Engines : Sound(ring'[e]),
           UNCHANGED <<pollAt, UserOpen>>,
           \A h \in Guis : h # g => from'[h] = from[h],
           GuiInv(g)'
    PROVE  StatsIInv'
<1>1. Inside' = Inside /\ g \in Inside
  BY DEF Inside, StatsIInv
<1>2. \A h \in Guis \ {g} : reader[h] # "take"
  BY <1>1, OneInside DEF Inside, StatsIInv
<1>3. \A h \in Guis : GuiInv(h)'
  BY <1>2 DEF StatsIInv, GuiInv, InCall
<1> QED BY <1>1, <1>3 DEF StatsIInv

\* What NextEngine makes of a call whose turn is over.
LEMMA NextEngineStep ==
    ASSUME StatsIInv, NEW g \in Guis, NEW c \in Calls, c.i < c.Count, c.len <= c.i,
           \A e, f \in Stats!Engines :
              f \notin c.dry =>
                  c.taken[e] + (IF f <= c.j THEN 1 ELSE 0)
                      <= c.taken[f] + (IF e <= c.j THEN 1 ELSE 0),
           Stats!NextEngine(g, c)
    PROVE  \E to \in {"open", "test"}, d \in Calls :
              /\ reader' = [reader EXCEPT ![g] = to]
              /\ call' = [call EXCEPT ![g] = d]
              /\ d.len <= d.i /\ InTurn(d)
              /\ to = "test" => d.i < d.Count
<1>1. /\ c.j \in 0 .. StatsEngines - 1 /\ StatsEngines \in Nat \ {0}
      /\ c.i \in Nat /\ c.Count \in Nat /\ c.len \in Nat
  BY StatsConstants DEF Calls
<1>2. CASE c.j + 1 < StatsEngines
  <2> DEFINE d == [c EXCEPT !.j = c.j + 1]
  <2>1. c.j + 1 \in Stats!Engines
    BY <1>1, <1>2, StatsConstants
  <2>2. d \in Calls /\ d.j = c.j + 1 /\ d.taken = c.taken /\ d.dry = c.dry
        /\ d.len <= d.i /\ d.i < d.Count
    BY <2>1 DEF Calls
  <2>3. InTurn(d)
    <3> HIDE DEF d
    <3> QED BY <2>2, NextInTurn
  <2>4. reader' = [reader EXCEPT ![g] = "test"] /\ call' = [call EXCEPT ![g] = d]
    BY <1>2 DEF Stats!NextEngine
  <2> QED BY <2>2, <2>3, <2>4
<1>3. CASE ~(c.j + 1 < StatsEngines) /\ c.i + 1 < c.Count
  <2> DEFINE d == [c EXCEPT !.i = c.i + 1, !.j = 0]
  <2>1. 0 \in Stats!Engines /\ c.i + 1 \in Nat /\ c.len <= c.i + 1 /\ c.j + 1 = StatsEngines
    BY <1>1, <1>3, StatsConstants
  <2>2. d \in Calls /\ d.j = 0 /\ d.taken = c.taken /\ d.dry = c.dry
        /\ d.len <= d.i /\ d.i < d.Count
    BY <1>3, <2>1 DEF Calls
  <2>3. InTurn(d)
    <3> HIDE DEF d
    <3> QED BY <2>1, <2>2, NextInTurn
  <2>4. reader' = [reader EXCEPT ![g] = "test"] /\ call' = [call EXCEPT ![g] = d]
    BY <1>3 DEF Stats!NextEngine
  <2> QED BY <2>2, <2>3, <2>4
<1>4. CASE ~(c.j + 1 < StatsEngines) /\ ~(c.i + 1 < c.Count)
  BY <1>4, NewCallIsFair DEF Stats!NextEngine, Stats!Return, Stats!NoCall
<1> QED BY <1>2, <1>3, <1>4

\* The statistics ioctl.
LEMMA StatsCalls ==
    ASSUME StatsIInv, UserOpen <= 1, NEW g \in Guis, Stats!Call(g) \/ Stats!Ioctl(g)
    PROVE  StatsIInv'
<1> DEFINE c == call[g]
<1>t. /\ c \in Calls /\ GuiInv(g) /\ c.j \in Stats!Engines
      /\ Sound(ring[c.j]) /\ ring[c.j] \in Stats!StatsRings
      /\ c.i \in Nat /\ c.len \in Nat /\ c.Count \in Nat
      /\ c.taken \in [Stats!Engines -> Nat]
  BY DEF StatsIInv, Calls
<1>j. \A e \in Stats!Engines : e \in Int
  BY StatsConstants
<1>1. CASE Stats!Call(g)
  <2>1. PICK count \in Counts : call' = [call EXCEPT ![g] = Stats!NewCall(count)]
    BY <1>1 DEF Stats!Call
  <2>2. count \in Nat \ {0}
    BY StatsAssumption
  <2>3. UNCHANGED <<ring, pollAt, UserOpen, from>> /\ reader[g] = "open"
        /\ reader' = [reader EXCEPT ![g] = "test"]
    BY <1>1 DEF Stats!Call
  <2>4. GuiInv(g)'
    BY <2>1, <2>2, <2>3, <1>t, NewCallIsFair DEF GuiInv, InCall, StatsIInv
  <2>5. Stats!NewCall(count) \in Calls
    BY <2>2, NewCallIsFair
  <2> QED BY <2>1, <2>3, <2>4, <2>5, StatsOwnStep DEF StatsIInv
<1>2. CASE Stats!NumTest(g)
  <2>1. UNCHANGED <<ring, pollAt, UserOpen, from>> /\ reader[g] = "test"
    BY <1>2 DEF Stats!NumTest
  <2>2. CASE ring[c.j].num = 0
    <3> DEFINE b == [c EXCEPT !.dry = @ \cup {c.j}]
    <3>1. Stats!NextEngine(g, b)
      BY <1>2, <2>2 DEF Stats!NumTest
    <3>2. b \in Calls /\ b.i < b.Count /\ b.len <= b.i /\ b.taken = c.taken /\ b.j = c.j
          /\ b.dry = c.dry \cup {c.j}
      BY <1>t, <2>1 DEF Calls, GuiInv, InCall
    <3>3. ASSUME NEW e \in Stats!Engines, NEW f \in Stats!Engines, f \notin b.dry
          PROVE  b.taken[e] + (IF f <= b.j THEN 1 ELSE 0)
                    <= b.taken[f] + (IF e <= b.j THEN 1 ELSE 0)
      <4>1. f # c.j /\ f \notin c.dry
        BY <3>2, <3>3
      <4>2. c.taken[e] + Turn(c, f) <= c.taken[f] + Turn(c, e)
        BY <1>t, <4>1 DEF GuiInv, InTurn
      <4>3. Turn(c, f) = (IF f <= c.j THEN 1 ELSE 0)
        BY <1>t, <1>j, <4>1 DEF Turn
      <4>4. Turn(c, e) <= (IF e <= c.j THEN 1 ELSE 0) /\ Turn(c, e) \in Int
        BY <1>t, <1>j DEF Turn
      <4>5. c.taken[e] \in Int /\ c.taken[f] \in Int
        BY <1>t
      <4> QED BY <3>2, <4>2, <4>3, <4>4, <4>5
    <3> HIDE DEF b
    <3>4. PICK to \in {"open", "test"}, d \in Calls :
              /\ reader' = [reader EXCEPT ![g] = to]
              /\ call' = [call EXCEPT ![g] = d]
              /\ d.len <= d.i /\ InTurn(d)
              /\ to = "test" => d.i < d.Count
      BY <3>1, <3>2, <3>3, NextEngineStep
    <3>5. GuiInv(g)'
      BY <1>t, <2>1, <3>4 DEF GuiInv, InCall, StatsIInv
    <3> QED BY <2>1, <3>4, <3>5, StatsOwnStep DEF StatsIInv
  <2>3. CASE ring[c.j].num # 0
    <3>1. reader' = [reader EXCEPT ![g] = "take"] /\ call' = call
      BY <1>2, <2>3 DEF Stats!NumTest
    <3>2. ring[c.j].num > 0
      BY <1>t, <2>3, MaxStats DEF Sound
    <3>3. GuiInv(g)'
      BY <1>t, <2>1, <3>1, <3>2 DEF GuiInv, InCall, StatsIInv
    <3>4. call' = [call EXCEPT ![g] = c]
      BY <3>1 DEF StatsIInv
    <3> QED BY <1>t, <2>1, <3>1, <3>3, <3>4, StatsOwnStep DEF StatsIInv
  <2> QED BY <2>2, <2>3
<1>3. CASE Stats!Take(g)
  <2> DEFINE t == Stats!TakeSample(ring[c.j])
  <2>1. /\ from' = [from EXCEPT ![g] = <<c.j, ring[c.j].slots[ring[c.j].read]>>]
        /\ ring' = [ring EXCEPT ![c.j] = t]
        /\ reader[g] = "take" /\ reader' = [reader EXCEPT ![g] = "copy"]
        /\ UNCHANGED <<pollAt, UserOpen, call>>
    BY <1>3 DEF Stats!Take
  <2>2. Sound(t) /\ t \in Stats!StatsRings
    BY <1>t, <2>1, TakeIsTail, StatsConstants DEF GuiInv, Sound, Slots
  <2> HIDE DEF t
  <2>3. ring[c.j].slots[ring[c.j].read] \in Samples
    BY <1>t DEF Sound
  <2>4. GuiInv(g)'
    BY <1>t, <2>1, <2>3 DEF GuiInv, InCall, StatsIInv
  <2>5. ring' \in [Stats!Engines -> Stats!StatsRings] /\ \A e \in Stats!Engines : Sound(ring'[e])
    BY <1>t, <2>1, <2>2 DEF StatsIInv
  <2>6. call' = [call EXCEPT ![g] = c] /\ \A h \in Guis : h # g => from'[h] = from[h]
    BY <2>1 DEF StatsIInv
  <2> QED BY <1>t, <2>1, <2>4, <2>5, <2>6, StatsOwnStep
<1>4. CASE Stats!Copy(g)
  <2> DEFINE b == [c EXCEPT !.len = @ + 1, !.i = @ + 1, !.taken[c.j] = @ + 1]
  <2>0. UNCHANGED <<ring, pollAt, UserOpen, from>> /\ reader[g] = "copy"
    BY <1>4 DEF Stats!Copy
  <2>1. Stats!Return(g) \/ (b.i < b.Count /\ Stats!NextEngine(g, b))
    BY <1>4 DEF Stats!Copy
  <2>2. CASE Stats!Return(g)
    <3>1. reader' = [reader EXCEPT ![g] = "open"] /\ call' = [call EXCEPT ![g] = Stats!NewCall(0)]
      BY <2>2 DEF Stats!Return, Stats!NoCall
    <3>2. GuiInv(g)'
      BY <1>t, <2>0, <3>1, NewCallIsFair DEF GuiInv, InCall, StatsIInv
    <3> QED BY <2>0, <3>1, <3>2, NewCallIsFair, StatsOwnStep DEF StatsIInv
  <2>3. CASE b.i < b.Count /\ Stats!NextEngine(g, b)
    <3>1. b.j = c.j /\ b.dry = c.dry /\ b.taken = [c.taken EXCEPT ![c.j] = @ + 1]
          /\ b.len = c.len + 1 /\ b.i = c.i + 1
      BY <1>t DEF Calls
    <3>2. b \in Calls /\ b.len <= b.i
      <4>1. c.len + 1 <= c.i + 1 /\ c.len + 1 \in Nat /\ c.i + 1 \in Nat
        BY <1>t DEF GuiInv
      <4>2. [c.taken EXCEPT ![c.j] = @ + 1] \in [Stats!Engines -> Nat]
        BY <1>t
      <4>3. b = [c EXCEPT !.len = c.len + 1, !.i = c.i + 1,
                          !.taken = [c.taken EXCEPT ![c.j] = @ + 1]]
        OBVIOUS
      <4> QED BY <1>t, <3>1, <4>1, <4>2, <4>3 DEF Calls
    <3>3. ASSUME NEW e \in Stats!Engines, NEW f \in Stats!Engines, f \notin b.dry
          PROVE  b.taken[e] + (IF f <= b.j THEN 1 ELSE 0)
                    <= b.taken[f] + (IF e <= b.j THEN 1 ELSE 0)
      <4>1. c.taken[e] + Turn(c, f) <= c.taken[f] + Turn(c, e)
        BY <1>t, <3>1, <3>3 DEF GuiInv, InTurn
      <4>2. \A x \in Stats!Engines :
                b.taken[x] = (IF x = c.j THEN c.taken[x] + 1 ELSE c.taken[x])
                /\ c.taken[x] \in Nat
        BY <1>t, <3>1
      <4>3. \A x \in Stats!Engines :
                (IF x <= c.j THEN 1 ELSE 0) = (IF x = c.j THEN Turn(c, x) + 1 ELSE Turn(c, x))
                /\ Turn(c, x) \in Int
        BY <1>t, <1>j DEF Turn
      <4>4. \A x \in Stats!Engines :
                b.taken[x] - (IF x <= c.j THEN 1 ELSE 0) = c.taken[x] - Turn(c, x)
        BY <4>2, <4>3
      <4>5. \A x \in Stats!Engines : b.taken[x] \in Int
        BY <4>2
      <4> HIDE DEF b, c
      <4> QED BY <3>1, <4>1, <4>2, <4>3, <4>4, <4>5
    <3> HIDE DEF b
    <3>4. PICK to \in {"open", "test"}, d \in Calls :
              /\ reader' = [reader EXCEPT ![g] = to]
              /\ call' = [call EXCEPT ![g] = d]
              /\ d.len <= d.i /\ InTurn(d)
              /\ to = "test" => d.i < d.Count
      BY <2>3, <3>2, <3>3, NextEngineStep
    <3>5. GuiInv(g)'
      BY <1>t, <2>0, <3>4 DEF GuiInv, InCall, StatsIInv
    <3> QED BY <2>0, <3>4, <3>5, StatsOwnStep DEF StatsIInv
  <2> QED BY <2>1, <2>2, <2>3
<1> QED BY <1>1, <1>2, <1>3, <1>4 DEF Stats!Ioctl

\* Every step of the statistics device keeps its invariant while it is open
\* once at most, and so does no step.
LEMMA StatsStep ==
    ASSUME StatsIInv, UserOpen <= 1, Stats!Next \/ UNCHANGED statsVars
    PROVE  StatsIInv'
<1>1. CASE UNCHANGED statsVars
  BY <1>1 DEF statsVars, StatsIInv, GuiInv, InCall, Inside
<1> QED BY <1>1, StatsPoll, StatsOpens, StatsCalls DEF Stats!Next

-----------------------------------------------------------------------------
(* The rings implement lossy queues.                                       *)

queues == [e \in Stats!Engines |-> Stats!Queued(ring[e])]

\* The rings are empty queues at first.
LEMMA QueuesInit ==
    ASSUME Stats!Init
    PROVE  Stats!Queues!Init
<1>1. StatsIInv
  BY StatsInit
<1>2. \A e \in Stats!Engines : Stats!Queued(ring[e]) = <<>>
  <2> SUFFICES ASSUME NEW e \in Stats!Engines PROVE Stats!Queued(ring[e]) = <<>>
    OBVIOUS
  <2>1. Sound(ring[e]) /\ ring[e].num = 0
    BY <1>1 DEF StatsIInv, Stats!Init, Stats!EmptyRing
  <2>2. Stats!Queued(ring[e]) \in Seq(Samples) /\ Len(Stats!Queued(ring[e])) = 0
    BY <2>1, QueuedType
  <2> QED BY <2>2, EmptySeq
<1> QED BY <1>2 DEF Stats!Queues!Init, Stats!Init

\* A step puts a sample in a queue, takes one out, or leaves them.
LEMMA QueuesStep ==
    ASSUME StatsIInv, Stats!Next \/ UNCHANGED statsVars
    PROVE  Stats!Queues!Next \/ UNCHANGED <<queues, from>>
<1>1. CASE Stats!poll_stats
  <2>1. PICK s \in Samples :
           ring' = IF pollAt \in StatsMask
                   THEN [ring EXCEPT ![pollAt] = Stats!PutSample(@, s)] ELSE ring
    BY <1>1 DEF Stats!poll_stats
  <2>2. from' = from /\ pollAt \in Stats!Engines
    BY <1>1 DEF Stats!poll_stats, StatsIInv
  <2>3. CASE pollAt \notin StatsMask
    BY <2>1, <2>2, <2>3 DEF queues
  <2>4. CASE pollAt \in StatsMask
    <3> DEFINE q == Stats!Queued(ring[pollAt])
    <3>1. Stats!Queued(Stats!PutSample(ring[pollAt], s)) =
            Append(IF Len(q) < MAX_STATS THEN q ELSE Tail(q), s)
      BY <2>2, PutIsAppend DEF StatsIInv
    <3>2. ring' = [ring EXCEPT ![pollAt] = Stats!PutSample(ring[pollAt], s)]
          /\ ring \in [Stats!Engines -> Stats!StatsRings]
      BY <2>1, <2>4 DEF StatsIInv
    <3>3. queues' = [queues EXCEPT ![pollAt] =
                        Append(IF Len(q) < MAX_STATS THEN q ELSE Tail(q), s)]
      BY <2>2, <3>1, <3>2 DEF queues
    <3>4. Stats!Queues!Put(pollAt, s)
      BY <2>2, <3>3 DEF Stats!Queues!Put, queues
    <3> QED BY <2>2, <3>4 DEF Stats!Queues!Next
  <2> QED BY <2>3, <2>4
<1>2. ASSUME NEW g \in Guis, Stats!Take(g)
      PROVE  Stats!Queues!Next
  <2> DEFINE j == call[g].j
             q == Stats!Queued(ring[j])
  <2>1. /\ from' = [from EXCEPT ![g] = <<j, ring[j].slots[ring[j].read]>>]
        /\ ring' = [ring EXCEPT ![j] = Stats!TakeSample(ring[j])]
        /\ reader[g] = "take"
    BY <1>2 DEF Stats!Take
  <2>2. j \in Stats!Engines /\ Sound(ring[j]) /\ ring[j].num > 0
        /\ ring \in [Stats!Engines -> Stats!StatsRings]
    BY <2>1 DEF StatsIInv, GuiInv, Calls
  <2>3. /\ q # <<>> /\ Head(q) = ring[j].slots[ring[j].read]
        /\ Stats!Queued(Stats!TakeSample(ring[j])) = Tail(q)
    BY <2>2, TakeIsTail
  <2> HIDE DEF j
  <2>4. queues' = [queues EXCEPT ![j] = Tail(q)] /\ queues[j] = q
    BY <2>1, <2>2, <2>3 DEF queues
  <2>5. Stats!Queues!Get(g, j)
    BY <2>1, <2>3, <2>4 DEF Stats!Queues!Get, queues
  <2> QED BY <2>2, <2>5 DEF Stats!Queues!Next
<1>3. ASSUME UNCHANGED <<ring, from>>
      PROVE  UNCHANGED <<queues, from>>
  BY <1>3 DEF queues
<1>4. CASE UNCHANGED statsVars
  BY <1>3, <1>4 DEF statsVars
<1>5. ASSUME NEW g \in Guis,
             \/ Stats!OpenTest(g) \/ Stats!Open(g) \/ Stats!Release(g) \/ Stats!Call(g)
             \/ Stats!NumTest(g) \/ Stats!Copy(g)
      PROVE  UNCHANGED <<ring, from>>
  BY <1>5 DEF Stats!OpenTest, Stats!Open, Stats!Release, Stats!Call, Stats!NumTest,
              Stats!Copy
<1> QED BY <1>1, <1>2, <1>3, <1>4, <1>5 DEF Stats!Next, Stats!Ioctl

-----------------------------------------------------------------------------
(* The parts together.                                                     *)

PartsIInv ==
    /\ LifeIInv /\ RawIInv
    /\ IF part = "faulty" THEN PathIInv(ErrorEngines, ErrorEngines)
                          ELSE PathIInv(IntrMask, {})

\* All invariants hold at first.
LEMMA PartsInit ==
    ASSUME MCInit
    PROVE  PartsIInv /\ StatsIInv
<1>1. IntrMask \subseteq All /\ ErrorEngines \subseteq All
  BY IntrAssumption DEF All
<1> QED
  BY <1>1, LifeInit, RawInit, StatsInit, PathInit DEF MCInit, PartsIInv

\* A step of one part leaves the others alone.
LEMMA PartsStep ==
    ASSUME [MCNext]_all
    PROVE  /\ Life!Next \/ UNCHANGED lifeVars
           /\ Raw!Next \/ UNCHANGED rawVars
           /\ Stats!Next \/ UNCHANGED statsVars
           /\ part' = part
           /\ IF part = "faulty" THEN Path(ErrorEngines, ErrorEngines)!Next \/ UNCHANGED intrVars
                                 ELSE Path(IntrMask, {})!Next \/ UNCHANGED intrVars
BY DEF MCNext, all

\* The invariants of the parts are kept.
LEMMA PartsKept ==
    ASSUME PartsIInv, [MCNext]_all
    PROVE  PartsIInv'
<1>1. IntrMask \subseteq All /\ ErrorEngines \subseteq All
  BY IntrAssumption DEF All
<1>2. LifeIInv' /\ RawIInv'
  BY PartsStep, LifeStep, RawStep DEF PartsIInv
<1>3. CASE part = "faulty"
  BY <1>1, <1>2, <1>3, PartsStep, PathStep DEF PartsIInv
<1>4. CASE part # "faulty"
  BY <1>1, <1>2, <1>4, PartsStep, PathStep DEF PartsIInv
<1> QED BY <1>3, <1>4

\* Hence they always hold.
LEMMA PartsInvariance == MCSpec => []PartsIInv
<1>1. MCInit => PartsIInv
  BY PartsInit
<1>2. PartsIInv /\ [MCNext]_all => PartsIInv'
  BY PartsKept
<1> QED BY <1>1, <1>2, PTL DEF MCSpec

\* An interrupt that IntrCheck has turned off will be turned on again: its
\* engine is in PendingMask or in the hands of IntrBH, and IntrBH will come to
\* every engine of PendingMask, for any number of engines, with interrupts at
\* any point of IntrBH and of one another.
THEOREM InterruptsDoNotStall == MCSpec => []IntrInv
<1>1. PartsIInv => IntrInv
  BY DEF PartsIInv, PathIInv, IntrInv
<1> QED BY <1>1, PartsInvariance, PTL

\* The timer routines of the base driver find the memory and BAR 0 as long as
\* they may run, whichever steps of xdma_probe fail and with whatever result:
\* a device that stays bound after a failed probe never gets a timer.  When
\* the module is gone a device that was bound has been given back, each thing
\* once.
THEOREM RoutinesAreSafe == MCSpec => []LifeInv
<1>1. PartsIInv => LifeInv
  BY DEF PartsIInv, LifeIInv, LifeInv
<1> QED BY <1>1, PartsInvariance, PTL

\* The first test numbers its packets from zero without a gap, and the packet
\* generator is on only in a test that asked for it, whatever the modulus, the
\* number of packets and the order of the GUI's commands.
THEOREM TestsAreNumbered == MCSpec => []RawInv
<1>1. PartsIInv => RawInv
  BY DEF PartsIInv, RawIInv, RawInv
<1> QED BY <1>1, PartsInvariance, PTL

\* And that of the statistics device, while it is open once at most.
LEMMA StatsInvariance == MCSpec /\ []Stats!OneGui => []StatsIInv
<1>1. MCInit => StatsIInv
  BY PartsInit
<1>2. StatsIInv /\ Stats!OneGui /\ [MCNext]_all => StatsIInv'
  BY PartsStep, StatsStep DEF Stats!OneGui
<1> QED BY <1>1, <1>2, PTL DEF MCSpec

\* While the statistics device is open once at most, which xdma_dev_open is
\* meant to see to, its ioctl never writes past the GUI's array and reports the
\* engines in turn, for any length of array and of ring.
THEOREM ReportsAreFair == MCSpec /\ []Stats!OneGui => []StatsInv
<1>1. StatsIInv => StatsInv
  BY StatsSafe DEF StatsInv
<1> QED BY <1>1, StatsInvariance, PTL

\* With one GUI the device is open once at most, whatever the GUI does.
THEOREM ReportsAreFairToOne ==
    ASSUME Cardinality(Guis) <= 1
    PROVE  MCSpec => []StatsInv
<1>1. MCInit => StatsIInv
  BY PartsInit
<1>2. StatsIInv => UserOpen <= 1
  <2> SUFFICES ASSUME StatsIInv PROVE UserOpen <= 1
    OBVIOUS
  <2>1. IsFiniteSet(Guis) /\ Inside \in SUBSET Guis
    BY StatsAssumption DEF Inside
  <2>2. Cardinality(Inside) <= Cardinality(Guis) /\ Cardinality(Inside) \in Nat
        /\ Cardinality(Guis) \in Nat
    BY <2>1, FS_Subset, FS_CardinalityType
  <2> QED BY <2>2 DEF StatsIInv
<1>3. StatsIInv /\ [MCNext]_all => StatsIInv'
  BY <1>2, PartsStep, StatsStep
<1>4. StatsIInv => StatsInv
  BY StatsSafe DEF StatsInv
<1> QED BY <1>1, <1>3, <1>4, PTL DEF MCSpec

\* While the device is open once at most the rings of poll_stats and of the
\* ioctl, with their indices that go round, are queues that lose their oldest
\* samples: every sample is reported in order, and none twice.
THEOREM RingsImplementQueues == MCSpec /\ []Stats!OneGui => ImplementsLossyQueue
<1>1. MCInit => Stats!Queues!Init
  BY QueuesInit DEF MCInit
<1>2. StatsIInv /\ [MCNext]_all => [Stats!Queues!Next]_<<queues, from>>
  BY PartsStep, QueuesStep
<1> QED
  BY <1>1, <1>2, StatsInvariance, PTL
  DEF MCSpec, ImplementsLossyQueue, Stats!ImplementsLossyQueue, Stats!Queues!Spec, queues
-----------------------------------------------------------------------------
(* The packet pools. *)
USE PoolsAssumption, BorrowersAssumption


\* Each borrower has a pool of its own.
OneBorrower ==
    \A b, c \in Borrowers : held[b] = held[c] /\ held[b] # NULL => b = c

\* The inductive invariant: the list exists, with the pools nobody has.
IInv ==
    /\ TypeOK
    /\ OneBorrower
    /\ \E s \in Seq(Pools) : FreeList(s)

-----------------------------------------------------------------------------
(* Lists. *)

\* There are MAX_POOL pools.
LEMMA PoolsFinite == IsFiniteSet(Pools) /\ Cardinality(Pools) = MAX_POOL
<1>1. 0 \in Int /\ MAX_POOL - 1 \in Int
  OBVIOUS
<1>2. IsFiniteSet(0 .. MAX_POOL - 1)
  BY <1>1, FS_Interval
<1>3. Cardinality(0 .. MAX_POOL - 1) =
        IF 0 > MAX_POOL - 1 THEN 0 ELSE (MAX_POOL - 1) - 0 + 1
  BY <1>1, FS_Interval
<1>4. Cardinality(0 .. MAX_POOL - 1) = MAX_POOL
  BY <1>3
<1> QED BY <1>2, <1>4 DEF Pools

\* Some pool is free, whoever has the others.
LEMMA SomePoolFree ==
    ASSUME NEW h \in [Borrowers -> Pools \cup {NULL}]
    PROVE  \E p \in Pools : \A b \in Borrowers : h[b] # p
<1> SUFFICES ASSUME \A p \in Pools : \E b \in Borrowers : h[b] = p
             PROVE  FALSE
  OBVIOUS
<1> DEFINE f == [p \in Pools |-> CHOOSE b \in Borrowers : h[b] = p]
<1>1. f \in [Pools -> Borrowers]
  OBVIOUS
<1>2. \A p \in Pools : h[f[p]] = p
  OBVIOUS
<1>3. Cardinality(Borrowers) < Cardinality(Pools)
  BY PoolsFinite
<1> HIDE DEF f
<1>4. \E p, q \in Pools : p # q /\ f[p] = f[q]
  BY <1>1, <1>3, PoolsFinite, FS_PigeonHole
<1> QED BY <1>2, <1>4

\* A list without repetitions is no longer than the number of pools.
LEMMA ListInLists ==
    ASSUME NEW s \in Seq(Pools), s # <<>>, NoRepeats(s)
    PROVE  s \in Lists
<1>1. Len(s) \in Nat \ {0} /\ s \in [1 .. Len(s) -> Pools]
  OBVIOUS
<1>2. s \in Injection(1 .. Len(s), Pools)
  BY <1>1 DEF NoRepeats, Injection, IsInjective
<1>3. Cardinality(1 .. Len(s)) <= Cardinality(Pools)
  BY <1>2, PoolsFinite, FS_Injection
<1>4. Cardinality(1 .. Len(s)) = Len(s)
  BY <1>1, FS_Interval
<1>5. Len(s) \in 1 .. MAX_POOL
  BY <1>1, <1>3, <1>4, PoolsFinite
<1> QED BY <1>1, <1>5 DEF Lists

\* Two lists from the same head agree as far as both go.
LEMMA ListsAgree ==
    ASSUME TypeOK, NEW s \in Seq(Pools), NEW t \in Seq(Pools),
           Linked(s), Linked(t)
    PROVE  \A k \in 1 .. Len(s) : k <= Len(t) => s[k] = t[k]
<1> DEFINE D == {k \in 1 .. Len(s) : k <= Len(t) /\ s[k] # t[k]}
<1>1. SUFFICES ASSUME D # {} PROVE FALSE
  OBVIOUS
<1>2. PICK k \in D : \A j \in D : k <= j
  <2>1. D \subseteq Nat
    OBVIOUS
  <2> QED BY <1>1, <2>1, LeastExists
<1>3. k # 1
  BY <1>2 DEF Linked
<1>4. k - 1 \in 1 .. Len(s) - 1 /\ k - 1 \in 1 .. Len(t) - 1
  BY <1>2, <1>3
<1>5. s[k-1] = t[k-1]
  BY <1>2, <1>4
<1>6. next[s[k-1]] = s[(k-1)+1] /\ next[t[k-1]] = t[(k-1)+1]
  BY <1>4 DEF Linked
<1>7. (k-1)+1 = k
  BY <1>2
<1>8. s[k] = t[k]
  BY <1>5, <1>6, <1>7
<1> QED BY <1>2, <1>8

\* A list is no shorter than another one from the same head.
LEMMA ListNotShorter ==
    ASSUME TypeOK, NEW s \in Seq(Pools), NEW t \in Seq(Pools),
           Linked(s), Linked(t)
    PROVE  Len(t) <= Len(s)
<1> SUFFICES ASSUME Len(s) < Len(t) PROVE FALSE
  OBVIOUS
<1>1. Len(s) \in 1 .. Len(s) /\ Len(s) \in 1 .. Len(t) - 1
  BY DEF Linked
<1>2. s[Len(s)] = t[Len(s)]
  BY <1>1, ListsAgree
<1>3. next[t[Len(s)]] = t[Len(s)+1]
  BY <1>1 DEF Linked
<1>4. next[s[Len(s)]] = NULL
  BY DEF Linked
<1>5. t[Len(s)+1] \in Pools
  BY <1>1
<1> QED BY <1>2, <1>3, <1>4, <1>5

\* There is one list only.
LEMMA OneList ==
    ASSUME TypeOK, NEW s \in Seq(Pools), NEW t \in Seq(Pools),
           Linked(s), Linked(t)
    PROVE  s = t
<1>1. Len(s) = Len(t)
  BY ListNotShorter
<1>2. \A k \in 1 .. Len(s) : s[k] = t[k]
  BY <1>1, ListsAgree
<1> QED BY <1>1, <1>2

-----------------------------------------------------------------------------
(* The steps: DQPool takes the head of the list, EQPool appends to it.     *)

\* The elements of a list, and of what DQPool and EQPool make of it.
LEMMA TailElements ==
    ASSUME NEW s \in Seq(Pools), s # <<>>
    PROVE  /\ Tail(s) \in Seq(Pools)
           /\ Len(Tail(s)) = Len(s) - 1
           /\ \A k \in 1 .. Len(s) - 1 : Tail(s)[k] = s[k+1]
OBVIOUS

LEMMA AppendElements ==
    ASSUME NEW s \in Seq(Pools), NEW p \in Pools
    PROVE  /\ Append(s, p) \in Seq(Pools)
           /\ Len(Append(s, p)) = Len(s) + 1
           /\ \A k \in 1 .. Len(s) : Append(s, p)[k] = s[k]
           /\ Append(s, p)[Len(s)+1] = p
OBVIOUS

\* DQPool takes the first pool of the list.
LEMMA DQTakesHead ==
    ASSUME TypeOK, OneBorrower, NEW b \in Borrowers, DQPool(b),
           NEW s \in Seq(Pools), FreeList(s)
    PROVE  TypeOK' /\ OneBorrower' /\ held' = [held EXCEPT ![b] = s[1]]
              /\ FreeList(Tail(s))'
<1> DEFINE t == Tail(s)
<1>1. /\ s # <<>> /\ Len(s) \in Nat \ {0} /\ s[1] \in Pools
      /\ pktPoolHead = s[1]
  BY DEF FreeList, Linked
<1>2. held' = [held EXCEPT ![b] = s[1]]
  BY <1>1 DEF DQPool
<1>3. TypeOK'
  BY <1>1 DEF TypeOK, DQPool
<1>4. s[1] \notin HeldPools
  BY <1>1 DEF FreeList
<1>5. OneBorrower'
  <2>1. SUFFICES ASSUME NEW c \in Borrowers, NEW d \in Borrowers,
                        held'[c] = held'[d], held'[c] # NULL
                 PROVE  c = d
    BY DEF OneBorrower
  <2>2. \A e \in Borrowers : e # b => held'[e] = held[e]
    BY <1>2 DEF TypeOK
  <2>3. held'[b] = s[1]
    BY <1>2 DEF TypeOK
  <2>4. \A e \in Borrowers : e # b => held'[e] # s[1]
    BY <1>1, <1>4, <2>2 DEF HeldPools
  <2> QED BY <2>1, <2>2, <2>3, <2>4 DEF OneBorrower
<1>6. HeldPools' = HeldPools \cup {s[1]}
  <2>1. \A e \in Borrowers : e # b => held'[e] = held[e]
    BY <1>2 DEF TypeOK
  <2>2. held'[b] = s[1] /\ held[b] = NULL
    BY <1>2 DEF TypeOK, DQPool
  <2>3. s[1] # NULL
    BY <1>1
  <2> QED BY <2>1, <2>2, <2>3 DEF HeldPools
<1>7. Len(s) >= 2
  <2>1. PICK p \in Pools : \A c \in Borrowers : held'[c] # p
    BY <1>3, SomePoolFree DEF TypeOK
  <2>2. p \notin HeldPools'
    BY <2>1 DEF HeldPools
  <2>3. PICK k \in 1 .. Len(s) : p = s[k]
    BY <1>6, <2>2 DEF FreeList
  <2>4. k # 1
    BY <1>6, <2>2, <2>3
  <2> QED BY <1>1, <2>3, <2>4
<1>8. t \in Seq(Pools) /\ Len(t) = Len(s) - 1
  BY <1>1, TailElements
<1>9. \A k \in 1 .. Len(t) : t[k] = s[k+1]
  BY <1>1, <1>8, TailElements
<1> HIDE DEF t
<1>10. NoRepeats(t)
  <2>1. SUFFICES ASSUME NEW j \in 1 .. Len(t), NEW k \in 1 .. Len(t),
                        t[j] = t[k]
                 PROVE  j = k
    BY DEF NoRepeats
  <2>2. j+1 \in 1 .. Len(s) /\ k+1 \in 1 .. Len(s)
    BY <1>1, <1>8
  <2>3. s[j+1] = s[k+1]
    BY <1>9, <2>1
  <2>4. j+1 = k+1
    BY <2>2, <2>3 DEF FreeList, NoRepeats
  <2> QED BY <2>4
<1>11. Linked(t)'
  <2>1. t # <<>>
    BY <1>7, <1>8
  <2>2. pktPoolHead' = t[1]
    <3>1. next[s[1]] = s[1+1]
      BY <1>7 DEF FreeList, Linked
    <3>2. t[1] = s[1+1]
      BY <1>7, <1>8, <1>9
    <3> QED BY <1>1, <3>1, <3>2 DEF DQPool
  <2>3. t[Len(t)] = s[Len(s)]
    BY <1>1, <1>7, <1>8, <1>9
  <2>4. pktPoolTail' = t[Len(t)] /\ next'[t[Len(t)]] = NULL
    BY <2>3 DEF FreeList, Linked, DQPool
  <2>5. \A k \in 1 .. Len(t) - 1 : next'[t[k]] = t[k+1]
    <3>1. SUFFICES ASSUME NEW k \in 1 .. Len(t) - 1
                   PROVE  next'[t[k]] = t[k+1]
      OBVIOUS
    <3>2. k+1 \in 1 .. Len(s) - 1
      BY <1>1, <1>8
    <3>3. next[s[k+1]] = s[(k+1)+1]
      BY <3>2 DEF FreeList, Linked
    <3>4. t[k] = s[k+1] /\ t[k+1] = s[(k+1)+1]
      BY <1>8, <1>9
    <3> QED BY <3>3, <3>4 DEF DQPool
  <2> QED BY <2>1, <2>2, <2>4, <2>5 DEF Linked
<1>12. {t[k] : k \in 1 .. Len(t)} = Pools \ HeldPools'
  <2>1. \A k \in 1 .. Len(t) : t[k] \in Pools \ HeldPools'
    <3>1. SUFFICES ASSUME NEW k \in 1 .. Len(t)
                   PROVE  t[k] \in Pools \ HeldPools'
      OBVIOUS
    <3>2. k+1 \in 1 .. Len(s) /\ 1 \in 1 .. Len(s) /\ k+1 # 1
      BY <1>1, <1>8
    <3>3. s[k+1] # s[1]
      BY <3>2 DEF FreeList, NoRepeats
    <3>4. s[k+1] \in Pools \ HeldPools
      BY <3>2 DEF FreeList
    <3> QED BY <1>6, <1>9, <3>3, <3>4
  <2>2. \A p \in Pools \ HeldPools' : \E k \in 1 .. Len(t) : p = t[k]
    <3>1. SUFFICES ASSUME NEW p \in Pools \ HeldPools'
                   PROVE  \E k \in 1 .. Len(t) : p = t[k]
      OBVIOUS
    <3>2. PICK k \in 1 .. Len(s) : p = s[k]
      BY <1>6 DEF FreeList
    <3>3. k # 1
      BY <1>6, <3>2
    <3>4. k - 1 \in 1 .. Len(t) /\ (k-1)+1 = k
      BY <1>1, <1>8, <3>2, <3>3
    <3>5. p = t[k-1]
      BY <1>9, <3>2, <3>4
    <3> QED BY <3>4, <3>5
  <2> QED BY <2>1, <2>2
<1> QED BY <1>2, <1>3, <1>5, <1>10, <1>11, <1>12 DEF FreeList, t

\* EQPool appends the borrower's pool to the list.
LEMMA EQAppends ==
    ASSUME TypeOK, OneBorrower, NEW b \in Borrowers, EQPool(b),
           NEW s \in Seq(Pools), FreeList(s), NEW p, p = held[b]
    PROVE  TypeOK' /\ OneBorrower' /\ FreeList(Append(s, p))'
<1> DEFINE t == Append(s, p)
<1>1. p \in Pools /\ p # NULL
  BY DEF TypeOK, EQPool
<1>2. TypeOK'
  BY <1>1 DEF TypeOK, EQPool
<1>3. held' = [held EXCEPT ![b] = NULL]
  BY DEF EQPool
<1>4. \A e \in Borrowers : held'[e] = IF e = b THEN NULL ELSE held[e]
  BY <1>3 DEF TypeOK
<1>5. OneBorrower'
  BY <1>4 DEF OneBorrower
<1>6. HeldPools' = HeldPools \ {p}
  <2>1. \A e \in Borrowers : e # b => held[e] # p
    BY <1>1 DEF OneBorrower
  <2> QED BY <1>1, <1>4, <2>1 DEF HeldPools
<1>7. p \in HeldPools
  BY <1>1 DEF HeldPools
<1>8. s # <<>> /\ Len(s) \in Nat \ {0}
  BY DEF FreeList, Linked
<1>9. \A k \in 1 .. Len(s) : s[k] \in Pools /\ s[k] # p
  BY <1>7 DEF FreeList
<1>10. t \in Seq(Pools) /\ Len(t) = Len(s) + 1 /\ t[Len(s)+1] = p
  BY <1>1, AppendElements
<1>11. \A k \in 1 .. Len(s) : t[k] = s[k]
  BY <1>1, AppendElements
<1> HIDE DEF t
<1>12. NoRepeats(t)
  <2>1. SUFFICES ASSUME NEW j \in 1 .. Len(t), NEW k \in 1 .. Len(t),
                        t[j] = t[k]
                 PROVE  j = k
    BY DEF NoRepeats
  <2>2. \A i \in 1 .. Len(t) : i \in 1 .. Len(s) \/ i = Len(s) + 1
    BY <1>8, <1>10
  <2>3. CASE j \in 1 .. Len(s) /\ k \in 1 .. Len(s)
    BY <1>11, <2>1, <2>3 DEF FreeList, NoRepeats
  <2>4. CASE j = Len(s) + 1 \/ k = Len(s) + 1
    BY <1>9, <1>10, <1>11, <2>1, <2>2, <2>4
  <2> QED BY <2>2, <2>3, <2>4
<1>13. next' = [next EXCEPT ![s[Len(s)]] = p, ![p] = NULL]
  BY DEF EQPool, FreeList, Linked
<1>14. s[Len(s)] \in Pools /\ s[Len(s)] # p
  BY <1>8, <1>9
<1>15. Linked(t)'
  <2>1. t # <<>>
    BY <1>8, <1>10
  <2>2. pktPoolHead' = t[1]
    <3>1. t[1] = s[1]
      BY <1>8, <1>11
    <3> QED BY <3>1 DEF FreeList, Linked, EQPool
  <2>3. pktPoolTail' = t[Len(t)]
    BY <1>8, <1>10 DEF EQPool
  <2>4. next'[t[Len(t)]] = NULL
    BY <1>1, <1>8, <1>10, <1>13 DEF TypeOK
  <2>5. \A k \in 1 .. Len(t) - 1 : next'[t[k]] = t[k+1]
    <3>1. SUFFICES ASSUME NEW k \in 1 .. Len(t) - 1
                   PROVE  next'[t[k]] = t[k+1]
      OBVIOUS
    <3>2. k \in 1 .. Len(s) /\ t[k] = s[k]
      BY <1>8, <1>10, <1>11
    <3>3. CASE k = Len(s)
      <4>1. next'[s[Len(s)]] = p
        BY <1>13, <1>14 DEF TypeOK
      <4> QED BY <1>10, <3>2, <3>3, <4>1
    <3>4. CASE k # Len(s)
      <4>1. k \in 1 .. Len(s) - 1 /\ k+1 \in 1 .. Len(s)
        BY <1>8, <3>2, <3>4
      <4>2. next[s[k]] = s[k+1]
        BY <4>1 DEF FreeList, Linked
      <4>3. s[k] # s[Len(s)]
        BY <1>8, <3>2, <3>4 DEF FreeList, NoRepeats
      <4>4. s[k] # p
        BY <1>9, <3>2
      <4>5. next'[s[k]] = next[s[k]]
        BY <1>9, <1>13, <3>2, <4>3, <4>4 DEF TypeOK
      <4> QED BY <1>11, <3>2, <4>1, <4>2, <4>5
    <3> QED BY <3>3, <3>4
  <2> QED BY <2>1, <2>2, <2>3, <2>4, <2>5 DEF Linked
<1>16. {t[k] : k \in 1 .. Len(t)} = Pools \ HeldPools'
  <2>1. \A k \in 1 .. Len(t) : t[k] \in Pools \ HeldPools'
    <3>1. SUFFICES ASSUME NEW k \in 1 .. Len(t)
                   PROVE  t[k] \in Pools \ HeldPools'
      OBVIOUS
    <3>2. CASE k \in 1 .. Len(s)
      BY <1>6, <1>11, <3>2 DEF FreeList
    <3>3. CASE k = Len(s) + 1
      BY <1>1, <1>6, <1>10, <3>3
    <3> QED BY <1>8, <1>10, <3>2, <3>3
  <2>2. \A q \in Pools \ HeldPools' : \E k \in 1 .. Len(t) : q = t[k]
    <3>1. SUFFICES ASSUME NEW q \in Pools \ HeldPools'
                   PROVE  \E k \in 1 .. Len(t) : q = t[k]
      OBVIOUS
    <3>2. CASE q = p
      BY <1>8, <1>10, <3>2
    <3>3. CASE q # p
      <4>1. q \in Pools \ HeldPools
        BY <1>6, <3>3
      <4>2. PICK k \in 1 .. Len(s) : q = s[k]
        BY <4>1 DEF FreeList
      <4>3. k \in 1 .. Len(t)
        BY <1>8, <1>10
      <4> QED BY <1>11, <4>2, <4>3
    <3> QED BY <3>2, <3>3
  <2> QED BY <2>1, <2>2
<1> QED BY <1>2, <1>5, <1>12, <1>15, <1>16 DEF FreeList, t

-----------------------------------------------------------------------------
(* The theorems. *)

\* The list the code starts with.
LEMMA InvInit == Init => IInv /\ FreeList([k \in 1 .. MAX_POOL |-> k-1])
<1> SUFFICES ASSUME Init
             PROVE  IInv /\ FreeList([k \in 1 .. MAX_POOL |-> k-1])
  OBVIOUS
<1> DEFINE s == [k \in 1 .. MAX_POOL |-> k-1]
<1>1. MAX_POOL \in Nat \ {0}
  <2>1. Cardinality(Borrowers) \in Nat
    BY FS_CardinalityType
  <2> QED BY <2>1
<1>2. TypeOK
  BY <1>1 DEF Init, TypeOK, Pools
<1>3. OneBorrower
  BY DEF Init, OneBorrower
<1>4. s \in Seq(Pools) /\ Len(s) = MAX_POOL /\ s # <<>>
  BY <1>1 DEF Pools
<1>5. \A k \in 1 .. MAX_POOL : s[k] = k - 1
  OBVIOUS
<1> HIDE DEF s
<1>6. NoRepeats(s)
  BY <1>4, <1>5 DEF NoRepeats
<1>7. Linked(s)
  <2>1. pktPoolHead = s[1] /\ pktPoolTail = s[Len(s)] /\ next[s[Len(s)]] = NULL
    BY <1>1, <1>4, <1>5 DEF Init, Pools
  <2>2. SUFFICES ASSUME NEW k \in 1 .. MAX_POOL - 1
                 PROVE  next[s[k]] = s[k+1]
    BY <1>4, <2>1 DEF Linked
  <2>3. s[k] = k - 1 /\ s[k+1] = (k+1) - 1
    BY <1>1, <1>5
  <2>4. k - 1 \in Pools /\ k - 1 # MAX_POOL - 1
    BY <1>1 DEF Pools
  <2>5. next[k-1] = (k-1) + 1
    BY <2>4 DEF Init
  <2> QED BY <2>3, <2>5
<1>8. HeldPools = {}
  BY DEF Init, HeldPools
<1>9. {s[k] : k \in 1 .. Len(s)} = Pools
  <2>1. \A p \in Pools : p+1 \in 1 .. MAX_POOL /\ s[p+1] = p
    BY <1>1, <1>5 DEF Pools
  <2>2. \A k \in 1 .. MAX_POOL : s[k] \in Pools
    BY <1>1, <1>5 DEF Pools
  <2> QED BY <1>4, <2>1, <2>2
<1>10. FreeList(s)
  BY <1>6, <1>7, <1>8, <1>9 DEF FreeList
<1> QED BY <1>2, <1>3, <1>4, <1>10 DEF IInv, s

\* A step leaves another list.
LEMMA InvStep == IInv /\ [Next]_vars => IInv'
<1> SUFFICES ASSUME IInv, [Next]_vars PROVE IInv'
  OBVIOUS
<1>1. PICK s \in Seq(Pools) : FreeList(s)
  BY DEF IInv
<1>2. CASE \E b \in Borrowers : DQPool(b)
  <2>1. PICK b \in Borrowers : DQPool(b)
    BY <1>2
  <2>2. TypeOK' /\ OneBorrower' /\ FreeList(Tail(s))'
    BY <1>1, <2>1, DQTakesHead DEF IInv
  <2>3. Tail(s) \in Seq(Pools)
    BY <1>1, TailElements DEF FreeList, Linked
  <2> QED BY <2>2, <2>3 DEF IInv
<1>3. CASE \E b \in Borrowers : EQPool(b)
  <2>1. PICK b \in Borrowers : EQPool(b)
    BY <1>3
  <2>2. PICK p \in Pools : p = held[b]
    BY <2>1 DEF IInv, TypeOK, EQPool
  <2>3. TypeOK' /\ OneBorrower' /\ FreeList(Append(s, p))'
    BY <1>1, <2>1, <2>2, EQAppends DEF IInv
  <2>4. Append(s, p) \in Seq(Pools)
    BY <2>2
  <2> QED BY <2>3, <2>4 DEF IInv
<1>4. CASE UNCHANGED vars
  <2>1. TypeOK' /\ OneBorrower'
    BY <1>4 DEF IInv, vars, TypeOK, OneBorrower
  <2>2. FreeList(s)'
    BY <1>1, <1>4 DEF vars, FreeList, Linked, HeldPools
  <2> QED BY <2>1, <2>2 DEF IInv
<1> QED BY <1>2, <1>3, <1>4 DEF Next

\* The inductive invariant holds of every behaviour.
THEOREM Invariance == Spec => []IInv
<1>1. Init => IInv
  BY InvInit
<1> QED BY <1>1, InvStep, PTL DEF Spec

\* DQPool never finds the list empty, whatever the order in which pools are
\* borrowed and returned: TypeOK and the list of IInv give it.
THEOREM NeverRunsEmpty == Spec => []NeverEmpty
<1>1. IInv => NeverEmpty
  <2>1. SUFFICES ASSUME IInv PROVE NeverEmpty
    OBVIOUS
  <2>2. PICK s \in Seq(Pools) : FreeList(s)
    BY <2>1 DEF IInv
  <2>3. s[1] \in Pools /\ pktPoolHead = s[1]
    BY <2>2 DEF FreeList, Linked
  <2> QED BY <2>3 DEF NeverEmpty
<1> QED BY <1>1, Invariance, PTL

\* Every pool is on the list once or with one borrower.
THEOREM NoPoolLost == Spec => []PoolsAccounted
<1>1. IInv => PoolsAccounted
  <2>1. SUFFICES ASSUME IInv PROVE PoolsAccounted
    OBVIOUS
  <2>2. PICK s \in Seq(Pools) : FreeList(s)
    BY <2>1 DEF IInv
  <2>3. s \in Lists
    BY <2>2, ListInLists DEF FreeList, Linked
  <2> QED BY <2>1, <2>2, <2>3 DEF IInv, OneBorrower, PoolsAccounted
<1> QED BY <1>1, Invariance, PTL

\* The two together, with the ranges of head, tail and links.
THEOREM ListStaysSound == Spec => []ListSound
<1>1. IInv => TypeOK
  BY DEF IInv
<1> QED BY <1>1, Invariance, NeverRunsEmpty, NoPoolLost, PTL DEF ListSound

-----------------------------------------------------------------------------
(* The linked list implements the queue of PoolQueue. *)

TheFreeIsTheList ==
    TypeOK => \A s \in Seq(Pools) : FreeList(s) => theFree = s

\* The list chosen by the refinement mapping is the list there is.
LEMMA TheFreeIs == TheFreeIsTheList
<1> SUFFICES ASSUME TypeOK, NEW s \in Seq(Pools), FreeList(s)
             PROVE  theFree = s
  BY DEF TheFreeIsTheList
<1>1. s \in Lists
  BY ListInLists DEF FreeList, Linked
<1>2. \A t \in Lists : t \in Seq(Pools)
  BY DEF Lists
<1>3. theFree \in Lists /\ FreeList(theFree)
  BY <1>1 DEF theFree
<1>4. theFree \in Seq(Pools)
  BY <1>2, <1>3
<1> HIDE DEF theFree
<1> QED BY <1>3, <1>4, OneList DEF FreeList

\* The list at the start is the queue of all pools.
LEMMA QueueInit == Init => Queue!Init
<1> SUFFICES ASSUME Init PROVE Queue!Init
  OBVIOUS
<1> DEFINE s == [k \in 1 .. MAX_POOL |-> k-1]
<1>1. IInv /\ FreeList(s)
  BY InvInit
<1>2. s \in Seq(Pools)
  BY DEF Pools
<1>3. theFree = s
  BY <1>1, <1>2, TheFreeIs DEF IInv, TheFreeIsTheList
<1>4. HeldPools = {}
  BY DEF Init, HeldPools
<1>5. \A p \in Pools : \E k \in 1 .. Len(s) : s[k] = p
  BY <1>1, <1>4 DEF FreeList
<1>6. \A j, k \in 1 .. Len(s) : s[j] = s[k] => j = k
  BY <1>1 DEF FreeList, NoRepeats
<1> HIDE DEF s
<1>7. held = [b \in Borrowers |-> NULL]
  BY DEF Init
<1> QED BY <1>2, <1>3, <1>5, <1>6, <1>7 DEF Queue!Init

\* DQPool is the queue's Take, EQPool its Give.
LEMMA QueueStep ==
    IInv /\ [Next]_vars => [Queue!Next]_<<theFree, held>>
<1> SUFFICES ASSUME IInv, [Next]_vars
             PROVE  [Queue!Next]_<<theFree, held>>
  OBVIOUS
<1>1. PICK s \in Seq(Pools) : FreeList(s)
  BY DEF IInv
<1>2. theFree = s
  BY <1>1, TheFreeIs DEF IInv, TheFreeIsTheList
<1>3. \A t \in Seq(Pools) : FreeList(t)' => theFree' = t
  <2>1. TheFreeIsTheList'
    BY TheFreeIs, PTL
  <2>2. TypeOK'
    BY InvStep DEF IInv
  <2> QED BY <2>1, <2>2 DEF TheFreeIsTheList
<1>4. CASE \E b \in Borrowers : DQPool(b)
  <2>1. PICK b \in Borrowers : DQPool(b)
    BY <1>4
  <2>2. held' = [held EXCEPT ![b] = s[1]] /\ FreeList(Tail(s))'
    BY <1>1, <2>1, DQTakesHead DEF IInv
  <2>3. Tail(s) \in Seq(Pools) /\ s # <<>>
    BY <1>1, TailElements DEF FreeList, Linked
  <2>4. theFree' = Tail(s)
    BY <1>3, <2>2, <2>3
  <2>5. s[1] = Head(s)
    BY <2>3
  <2>6. Queue!Take(b)
    BY <1>2, <2>1, <2>2, <2>3, <2>4, <2>5 DEF Queue!Take, DQPool
  <2> QED BY <2>6 DEF Queue!Next
<1>5. CASE \E b \in Borrowers : EQPool(b)
  <2>1. PICK b \in Borrowers : EQPool(b)
    BY <1>5
  <2>2. PICK p \in Pools : p = held[b]
    BY <2>1 DEF IInv, TypeOK, EQPool
  <2>3. FreeList(Append(s, p))'
    BY <1>1, <2>1, <2>2, EQAppends DEF IInv
  <2>4. Append(s, p) \in Seq(Pools)
    BY <2>2
  <2>5. theFree' = Append(s, p)
    BY <1>3, <2>3, <2>4
  <2>6. Queue!Give(b)
    BY <1>2, <2>1, <2>2, <2>5 DEF Queue!Give, EQPool
  <2> QED BY <2>6 DEF Queue!Next
<1>6. CASE UNCHANGED vars
  <2>1. FreeList(s)'
    BY <1>1, <1>6 DEF vars, FreeList, Linked, HeldPools
  <2>2. theFree' = s
    BY <1>3, <2>1
  <2> QED BY <1>2, <1>6, <2>2 DEF vars
<1> QED BY <1>4, <1>5, <1>6 DEF Next

\* DQPool and EQPool implement a queue: whoever takes a pool gets the one
\* that has been free the longest, and nobody else's pool is touched.
THEOREM Implements == Spec => ImplementsQueue
<1>1. Init => Queue!Init
  BY QueueInit
<1>2. IInv /\ [Next]_vars => [Queue!Next]_<<theFree, held>>
  BY QueueStep
<1> QED BY <1>1, <1>2, Invariance, PTL DEF Spec, ImplementsQueue, Queue!Spec
=============================================================================
