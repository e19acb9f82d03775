------------------------------ MODULE CfsProofs ------------------------------
(***************************************************************************)
(* The scheduler's invariants, for every number of CPUs, tasks and nodes.  *)
(* Each part has an inductive invariant of its own (NohzInv, LbInv,        *)
(* PeriodInv, ScanInv, GroupInv, MoveInv, LoadAvgInv) with a lemma for the *)
(* initial states, ...Init, and one for a step, ...Step, which goes        *)
(* through the actions of the part.  The last section puts them together,  *)
(* PartsInv, and draws the theorems from it.                               *)
(***************************************************************************)
EXTENDS MCCfs, FiniteSetTheorems, NatLemmas, TLAPS

-----------------------------------------------------------------------------
(* CPUs without a tick.                                                    *)

NohzInv == Nohz!Inv /\ nr \in [NohzCPUs -> Nat]

\* The operators of the library are the same ones in the module.
LEMMA NohzOperators ==
    \A S : /\ Nohz!Cardinality(S) = Cardinality(S)
           /\ Nohz!Max(S) = Max(S) /\ Nohz!Min(S) = Min(S)
           /\ Nohz!SumOver(S) = SumIn(S, NohzCPUs)
BY DEF Nohz!Cardinality, Cardinality, Nohz!Max, Max, Nohz!Min, Min, Nohz!SumOver, SumIn,
   Nohz!MapThenSumSet, MapThenSumSet, Nohz!MapThenFoldSet, MapThenFoldSet

USE NohzOperators

\* The last CPU has a number, which the next one of a balancing pass passes by
\* one.
LEMMA LastCpu ==
    /\ Max(NohzCPUs) \in NohzCPUs /\ \A c \in NohzCPUs : c <= Max(NohzCPUs)
    /\ Max(NohzCPUs) \in Nat
<1>1. NohzCPUs \subseteq Int
  BY NohzAssumption
<1>2. Max(NohzCPUs) \in NohzCPUs /\ \A c \in NohzCPUs : c <= Max(NohzCPUs)
  BY <1>1, NohzAssumption, MaxOf
<1> QED BY <1>2, NohzAssumption

LEMMA NohzInit == Nohz!Init => NohzInv
<1> SUFFICES ASSUME Nohz!Init PROVE NohzInv
  OBVIOUS
<1>1. nr \in [NohzCPUs -> 0 .. MaxTasks] /\ nr \in [NohzCPUs -> Nat]
  BY NohzAssumption DEF Nohz!Init
<1>2. ilb \in [NohzCPUs -> -1 .. Max(NohzCPUs) + 1]
  BY LastCpu DEF Nohz!Init
<1>3. Nohz!TypeOK
  BY <1>1, <1>2 DEF Nohz!Init, Nohz!TypeOK
<1>4. Nohz!CountsMatch
  <2>1. NohzCPUs \ {} = NohzCPUs /\ Cardinality({}) = 0
    BY FS_EmptySet
  <2> QED BY <2>1 DEF Nohz!Init, Nohz!CountsMatch
<1>5. Nohz!KickUnderWay
  BY DEF Nohz!Init, Nohz!KickUnderWay
<1> QED BY <1>1, <1>3, <1>4, <1>5 DEF NohzInv, Nohz!Inv

\* A CPU goes idle or comes back: the mask, the bits and the counters change
\* together.
LEMMA NohzEnterIdle ==
    ASSUME NohzInv, NEW c \in NohzCPUs, Nohz!EnterIdle(c)
    PROVE  NohzInv'
<1>1. /\ idle_cpus_mask = tick_stopped /\ nr_cpus = Cardinality(idle_cpus_mask)
      /\ nr_busy_cpus = Cardinality(NohzCPUs \ nohz_idle)
      /\ IsFiniteSet(idle_cpus_mask) /\ IsFiniteSet(NohzCPUs \ nohz_idle)
  BY NohzAssumption, FS_Subset DEF NohzInv, Nohz!Inv, Nohz!TypeOK, Nohz!CountsMatch
<1>2. c \notin idle_cpus_mask
  BY <1>1 DEF Nohz!EnterIdle
<1>3. Cardinality(idle_cpus_mask \cup {c}) = nr_cpus + 1
  BY <1>1, <1>2, FS_AddElement
<1>4. Cardinality(NohzCPUs \ (nohz_idle \cup {c})) = nr_busy_cpus - (IF c \in nohz_idle THEN 0 ELSE 1)
  <2>1. NohzCPUs \ (nohz_idle \cup {c}) = (NohzCPUs \ nohz_idle) \ {c}
    OBVIOUS
  <2>2. Cardinality((NohzCPUs \ nohz_idle) \ {c}) =
            IF c \in NohzCPUs \ nohz_idle THEN Cardinality(NohzCPUs \ nohz_idle) - 1
            ELSE Cardinality(NohzCPUs \ nohz_idle)
    BY <1>1, FS_RemoveElement
  <2>3. Cardinality(NohzCPUs \ nohz_idle) \in Nat
    BY <1>1, FS_CardinalityType
  <2> QED BY <1>1, <2>1, <2>2, <2>3
<1>5. Nohz!CountsMatch'
  BY <1>1, <1>3, <1>4 DEF Nohz!EnterIdle, Nohz!CountsMatch
<1>6. Nohz!TypeOK' /\ (nr \in [NohzCPUs -> Nat])'
  BY DEF NohzInv, Nohz!Inv, Nohz!TypeOK, Nohz!EnterIdle, Nohz!signals
<1>7. Nohz!KickUnderWay'
  BY DEF NohzInv, Nohz!Inv, Nohz!KickUnderWay, Nohz!EnterIdle, Nohz!signals
<1> QED BY <1>5, <1>6, <1>7 DEF NohzInv, Nohz!Inv

LEMMA NohzExitIdle ==
    ASSUME NohzInv, NEW c \in NohzCPUs, Nohz!ExitIdle(c)
    PROVE  /\ Nohz!CountsMatch'
           /\ idle_cpus_mask' \subseteq NohzCPUs
           /\ nohz_idle' \subseteq NohzCPUs /\ tick_stopped' \subseteq NohzCPUs
<1>1. /\ idle_cpus_mask = tick_stopped /\ nr_cpus = Cardinality(idle_cpus_mask)
      /\ nr_busy_cpus = Cardinality(NohzCPUs \ nohz_idle)
      /\ nohz_idle \subseteq NohzCPUs /\ tick_stopped \subseteq NohzCPUs
      /\ IsFiniteSet(idle_cpus_mask) /\ IsFiniteSet(NohzCPUs \ nohz_idle)
  BY NohzAssumption, FS_Subset DEF NohzInv, Nohz!Inv, Nohz!TypeOK, Nohz!CountsMatch
<1>2. Cardinality(idle_cpus_mask \ {c}) = nr_cpus - (IF c \in idle_cpus_mask THEN 1 ELSE 0)
  <2>1. Cardinality(idle_cpus_mask) \in Nat
    BY <1>1, FS_CardinalityType
  <2>2. Cardinality(idle_cpus_mask \ {c}) =
            IF c \in idle_cpus_mask THEN Cardinality(idle_cpus_mask) - 1
            ELSE Cardinality(idle_cpus_mask)
    BY <1>1, FS_RemoveElement
  <2> QED BY <1>1, <2>1, <2>2
<1>3. Cardinality(NohzCPUs \ (nohz_idle \ {c})) = nr_busy_cpus + (IF c \in nohz_idle THEN 1 ELSE 0)
  <2>1. NohzCPUs \ (nohz_idle \ {c}) = (NohzCPUs \ nohz_idle) \cup {c}
    OBVIOUS
  <2>2. Cardinality((NohzCPUs \ nohz_idle) \cup {c}) =
            IF c \in NohzCPUs \ nohz_idle THEN Cardinality(NohzCPUs \ nohz_idle)
            ELSE Cardinality(NohzCPUs \ nohz_idle) + 1
    BY <1>1, FS_AddElement
  <2>3. Cardinality(NohzCPUs \ nohz_idle) \in Nat
    BY <1>1, FS_CardinalityType
  <2> QED BY <1>1, <2>1, <2>2, <2>3
<1> QED BY <1>1, <1>2, <1>3 DEF Nohz!ExitIdle, Nohz!CountsMatch

\* The tick of a busy CPU: a kick that it sends is on its way.
LEMMA NohzTick ==
    ASSUME NohzInv, NEW c \in NohzCPUs, Nohz!Tick(c)
    PROVE  NohzInv'
<1>1. /\ Nohz!CountsMatch'
      /\ idle_cpus_mask' \subseteq NohzCPUs
      /\ nohz_idle' \subseteq NohzCPUs /\ tick_stopped' \subseteq NohzCPUs
  BY NohzExitIdle DEF Nohz!Tick
<1>2. /\ softirq \subseteq softirq' /\ softirq' \subseteq NohzCPUs
      /\ UNCHANGED <<nr, ilb>>
  BY DEF Nohz!Tick, NohzInv, Nohz!Inv, Nohz!TypeOK
<1>3. \E new \in SUBSET NohzCPUs : kicked' = kicked \cup new /\ ipi' = ipi \cup new
  <2>1. CASE Nohz!KickNeeded(c)
    <3>1. Nohz!nohz_balancer_kick(c)
      BY <2>1 DEF Nohz!Tick
    <3>2. Nohz!find_new_ilb(idle_cpus_mask') \ kicked \in SUBSET NohzCPUs
      BY <1>1 DEF Nohz!find_new_ilb
    <3> QED BY <3>1, <3>2 DEF Nohz!nohz_balancer_kick
  <2>2. CASE ~Nohz!KickNeeded(c)
    <3>1. kicked' = kicked \cup {} /\ ipi' = ipi \cup {}
      BY <2>2 DEF Nohz!Tick
    <3> WITNESS {} \in SUBSET NohzCPUs
    <3> QED BY <3>1
  <2> QED BY <2>1, <2>2
<1>4. Nohz!TypeOK' /\ (nr \in [NohzCPUs -> Nat])'
  BY <1>1, <1>2, <1>3 DEF NohzInv, Nohz!Inv, Nohz!TypeOK
<1>5. Nohz!KickUnderWay'
  BY <1>2, <1>3 DEF NohzInv, Nohz!Inv, Nohz!KickUnderWay
<1> QED BY <1>1, <1>4, <1>5 DEF NohzInv, Nohz!Inv

LEMMA NohzIdleTick ==
    ASSUME NohzInv, NEW c \in NohzCPUs, Nohz!IdleTick(c)
    PROVE  NohzInv'
<1> USE DEF Nohz!IdleTick, Nohz!idleness
<1>1. Nohz!TypeOK' /\ (nr \in [NohzCPUs -> Nat])'
  BY DEF NohzInv, Nohz!Inv, Nohz!TypeOK
<1>2. Nohz!CountsMatch'
  BY DEF NohzInv, Nohz!Inv, Nohz!CountsMatch
<1>3. Nohz!KickUnderWay'
  BY DEF NohzInv, Nohz!Inv, Nohz!KickUnderWay
<1> QED BY <1>1, <1>2, <1>3 DEF NohzInv, Nohz!Inv

\* An IPI raises the softirq or takes the kick back.
LEMMA NohzIpi ==
    ASSUME NohzInv, NEW c \in NohzCPUs, Nohz!Ipi(c)
    PROVE  NohzInv'
<1> USE DEF Nohz!Ipi, Nohz!idleness
<1>1. Nohz!TypeOK' /\ (nr \in [NohzCPUs -> Nat])'
  BY DEF NohzInv, Nohz!Inv, Nohz!TypeOK
<1>2. Nohz!CountsMatch'
  BY DEF NohzInv, Nohz!Inv, Nohz!CountsMatch
<1>3. Nohz!KickUnderWay'
  BY DEF NohzInv, Nohz!Inv, Nohz!KickUnderWay
<1> QED BY <1>1, <1>2, <1>3 DEF NohzInv, Nohz!Inv

\* A softirq begins a pass over the idle CPUs or over none.
LEMMA NohzSoftirq ==
    ASSUME NohzInv, NEW c \in NohzCPUs, Nohz!Softirq(c)
    PROVE  NohzInv'
<1>1. PICK b \in {0, Max(NohzCPUs) + 1} : ilb' = [ilb EXCEPT ![c] = b]
  BY DEF Nohz!Softirq
<1>2. b \in Int /\ 0 <= b /\ b <= Max(NohzCPUs) + 1
  BY <1>1, LastCpu
<1>3. ilb' \in [NohzCPUs -> -1 .. Max(NohzCPUs) + 1]
  BY <1>1, <1>2, LastCpu DEF NohzInv, Nohz!Inv, Nohz!TypeOK
<1>4. Nohz!TypeOK' /\ (nr \in [NohzCPUs -> Nat])'
  BY <1>3 DEF NohzInv, Nohz!Inv, Nohz!TypeOK, Nohz!Softirq, Nohz!idleness
<1>5. Nohz!CountsMatch'
  BY DEF NohzInv, Nohz!Inv, Nohz!CountsMatch, Nohz!Softirq, Nohz!idleness
<1>6. {d \in NohzCPUs : ilb[d] # -1} \cup {c} \subseteq {d \in NohzCPUs : ilb'[d] # -1}
  <2>1. b # -1
    BY <1>2, LastCpu
  <2> QED BY <1>1, <2>1 DEF NohzInv, Nohz!Inv, Nohz!TypeOK
<1>7. Nohz!KickUnderWay'
  BY <1>6 DEF NohzInv, Nohz!Inv, Nohz!KickUnderWay, Nohz!Softirq, Nohz!idleness
<1> QED BY <1>4, <1>5, <1>7 DEF NohzInv, Nohz!Inv

\* A task pulled by CPU b leaves every count in its range.
LEMMA NohzRebalance ==
    ASSUME NohzInv, NEW b \in NohzCPUs, Nohz!Rebalance(b)
    PROVE  nr' \in [NohzCPUs -> 0 .. MaxTasks] /\ nr' \in [NohzCPUs -> Nat]
<1>1. nr \in [NohzCPUs -> 0 .. MaxTasks] /\ MaxTasks \in Nat
  BY NohzAssumption DEF NohzInv, Nohz!Inv, Nohz!TypeOK
<1>2. CASE UNCHANGED nr
  BY <1>1, <1>2
<1>3. ASSUME NEW d \in NohzCPUs, nr[d] > nr[b] + 1, nr' = Nohz!Rebalanced(b, d)
      PROVE  nr' \in [NohzCPUs -> 0 .. MaxTasks]
  <2>1. nr[b] \in 0 .. MaxTasks /\ nr[d] \in 0 .. MaxTasks /\ b # d
    BY <1>1, <1>3
  <2>2. nr[b] + 1 \in 0 .. MaxTasks /\ nr[d] - 1 \in 0 .. MaxTasks
    BY <1>1, <1>3, <2>1
  <2>3. nr' = [nr EXCEPT ![b] = nr[b] + 1, ![d] = nr[d] - 1]
    BY <1>3, <2>1 DEF Nohz!Rebalanced
  <2> QED BY <1>1, <2>2, <2>3
<1>4. nr' \in [NohzCPUs -> 0 .. MaxTasks]
  BY <1>2, <1>3, <1>1 DEF Nohz!Rebalance
<1> QED BY <1>1, <1>4

LEMMA NohzIlbStep ==
    ASSUME NohzInv, NEW c \in NohzCPUs, Nohz!IlbStep(c)
    PROVE  NohzInv'
<1> DEFINE b == Min(Nohz!Ahead(c))
<1>1. idle_cpus_mask \subseteq NohzCPUs
  BY DEF NohzInv, Nohz!Inv, Nohz!TypeOK, Nohz!CountsMatch
<1>2. Nohz!Ahead(c) \subseteq Nat /\ Nohz!Ahead(c) \subseteq NohzCPUs /\ Nohz!Ahead(c) # {}
  BY <1>1, NohzAssumption DEF Nohz!Ahead, Nohz!IlbStep
<1>3. b \in NohzCPUs
  BY <1>2, MinOf
<1>4. nr' \in [NohzCPUs -> 0 .. MaxTasks] /\ nr' \in [NohzCPUs -> Nat]
      /\ ilb' = [ilb EXCEPT ![c] = b + 1]
  BY <1>3, NohzRebalance DEF Nohz!IlbStep
<1> HIDE DEF b
<1>5. b + 1 \in 0 .. Max(NohzCPUs) + 1 /\ b + 1 # -1
  BY <1>3, NohzAssumption, LastCpu
<1>6. ilb' \in [NohzCPUs -> -1 .. Max(NohzCPUs) + 1]
  BY <1>4, <1>5, LastCpu DEF NohzInv, Nohz!Inv, Nohz!TypeOK
<1>7. Nohz!TypeOK'
  BY <1>4, <1>6 DEF NohzInv, Nohz!Inv, Nohz!TypeOK, Nohz!IlbStep, Nohz!idleness
<1>8. Nohz!CountsMatch'
  BY DEF NohzInv, Nohz!Inv, Nohz!CountsMatch, Nohz!IlbStep, Nohz!idleness
<1>9. {d \in NohzCPUs : ilb[d] # -1} \subseteq {d \in NohzCPUs : ilb'[d] # -1}
  BY <1>4, <1>5 DEF NohzInv, Nohz!Inv, Nohz!TypeOK
<1>10. Nohz!KickUnderWay'
  BY <1>9 DEF NohzInv, Nohz!Inv, Nohz!KickUnderWay, Nohz!IlbStep, Nohz!idleness
<1> QED BY <1>4, <1>7, <1>8, <1>10 DEF NohzInv, Nohz!Inv

\* The end of a pass clears the kick of its CPU.
LEMMA NohzIlbEnd ==
    ASSUME NohzInv, NEW c \in NohzCPUs, Nohz!IlbEnd(c)
    PROVE  NohzInv'
<1>1. nr' \in [NohzCPUs -> 0 .. MaxTasks] /\ nr' \in [NohzCPUs -> Nat]
      /\ ilb' = [ilb EXCEPT ![c] = -1]
  BY NohzRebalance DEF Nohz!IlbEnd
<1>2. ilb' \in [NohzCPUs -> -1 .. Max(NohzCPUs) + 1]
  BY <1>1, LastCpu DEF NohzInv, Nohz!Inv, Nohz!TypeOK
<1>3. Nohz!TypeOK'
  BY <1>1, <1>2 DEF NohzInv, Nohz!Inv, Nohz!TypeOK, Nohz!IlbEnd, Nohz!idleness, Nohz!Cleared
<1>4. Nohz!CountsMatch'
  BY DEF NohzInv, Nohz!Inv, Nohz!CountsMatch, Nohz!IlbEnd, Nohz!idleness
<1>5. {d \in NohzCPUs : ilb[d] # -1} \ {c} \subseteq {d \in NohzCPUs : ilb'[d] # -1}
  BY <1>1 DEF NohzInv, Nohz!Inv, Nohz!TypeOK
<1>6. Nohz!KickUnderWay'
  BY <1>5 DEF NohzInv, Nohz!Inv, Nohz!KickUnderWay, Nohz!IlbEnd, Nohz!idleness, Nohz!Cleared
<1> QED BY <1>1, <1>3, <1>4, <1>6 DEF NohzInv, Nohz!Inv

\* A task goes to sleep or wakes up.
LEMMA NohzChurn ==
    ASSUME NohzInv, NEW c \in NohzCPUs, Nohz!Sleep(c) \/ Nohz!Wake(c)
    PROVE  NohzInv'
<1>1. nr \in [NohzCPUs -> 0 .. MaxTasks] /\ MaxTasks \in Nat
  BY NohzAssumption DEF NohzInv, Nohz!Inv, Nohz!TypeOK
<1>2. nr[c] \in 0 .. MaxTasks
  BY <1>1
<1>3. nr' \in [NohzCPUs -> 0 .. MaxTasks]
  <2>1. CASE Nohz!Sleep(c)
    <3>1. nr[c] - 1 \in 0 .. MaxTasks
      BY <1>1, <1>2, <2>1 DEF Nohz!Sleep, Nohz!idle_cpu
    <3> QED BY <1>1, <2>1, <3>1 DEF Nohz!Sleep
  <2>2. CASE Nohz!Wake(c)
    <3>1. \A d \in NohzCPUs : nr[d] \in Nat
      BY <1>1
    <3>2. nr[c] <= SumIn(nr, NohzCPUs)
      BY <3>1, NohzAssumption, SumBound
    <3>3. SumIn(nr, NohzCPUs) < MaxTasks /\ SumIn(nr, NohzCPUs) \in Nat
      BY <2>2, <3>1, NohzAssumption, SumBound DEF Nohz!Wake
    <3>4. nr[c] + 1 \in 0 .. MaxTasks
      BY <1>1, <1>2, <3>2, <3>3
    <3> QED BY <1>1, <2>2, <3>4 DEF Nohz!Wake
  <2> QED BY <2>1, <2>2
<1>4. nr' \in [NohzCPUs -> Nat] /\ UNCHANGED <<late, Nohz!signals, Nohz!idleness>>
  BY <1>1, <1>3 DEF Nohz!Sleep, Nohz!Wake
<1>5. Nohz!TypeOK' /\ Nohz!CountsMatch' /\ Nohz!KickUnderWay'
  BY <1>3, <1>4 DEF NohzInv, Nohz!Inv, Nohz!TypeOK, Nohz!CountsMatch, Nohz!KickUnderWay,
     Nohz!signals, Nohz!idleness
<1> QED BY <1>4, <1>5 DEF NohzInv, Nohz!Inv

LEMMA NohzStutter ==
    ASSUME NohzInv, UNCHANGED <<nr, Nohz!signals, Nohz!idleness>>
    PROVE  NohzInv'
BY DEF NohzInv, Nohz!Inv, Nohz!TypeOK, Nohz!CountsMatch, Nohz!KickUnderWay,
   Nohz!signals, Nohz!idleness

\* Every step keeps the mask, the counters and the kicks in agreement.
LEMMA NohzStep == NohzInv /\ [Nohz!Next]_nohzVars => NohzInv'
<1> SUFFICES ASSUME NohzInv, [Nohz!Next]_nohzVars PROVE NohzInv'
  OBVIOUS
<1>1. CASE UNCHANGED nohzVars
  BY <1>1, NohzStutter DEF nohzVars, Nohz!signals, Nohz!idleness
<1>2. CASE Nohz!Elapse
  BY <1>2, NohzStutter DEF Nohz!Elapse
<1>3. ASSUME NEW c \in NohzCPUs,
             \/ Nohz!Cpu(c) \/ Nohz!Handlers(c) \/ Nohz!EnterIdle(c)
             \/ Nohz!Sleep(c) \/ Nohz!Wake(c)
      PROVE  NohzInv'
  BY <1>3, NohzTick, NohzIdleTick, NohzIpi, NohzSoftirq, NohzIlbStep, NohzIlbEnd,
     NohzEnterIdle, NohzChurn DEF Nohz!Cpu, Nohz!Handlers
<1> QED BY <1>1, <1>2, <1>3 DEF Nohz!Next

-----------------------------------------------------------------------------
(* Load balancing.                                                         *)

LEMMA BalanceOperators ==
    /\ \A S : Balance!Cardinality(S) = Cardinality(S) /\ Balance!Min(S) = Min(S)
    /\ \A S : Balance!Max(S) = Max(S)
    /\ \A f, S : Balance!SumOver(f, S) = SumIn(f, S)
BY DEF Balance!Cardinality, Cardinality, Balance!Min, Min, Balance!Max, Max, Balance!SumOver, SumIn,
   Balance!MapThenSumSet, MapThenSumSet, Balance!MapThenFoldSet, MapThenFoldSet

LEMMA BalanceFinite ==
    /\ IsFiniteSet(CPUs) /\ CPUs \subseteq Nat /\ -1 \notin CPUs
    /\ IsFiniteSet(LbTasks) /\ None \notin LbTasks
    /\ \A c \in CPUs : Capacity[c] \in Nat \ {0}
    /\ \A t \in LbTasks : Load[t] \in Nat
BY BalanceAssumption

\* The groups of a level part the CPUs.
LEMMA BalanceSpans ==
    ASSUME NEW l \in {0} \cup Balance!Levels
    PROVE  /\ Balance!Spans(l) \subseteq SUBSET CPUs /\ {} \notin Balance!Spans(l)
           /\ \A c \in CPUs : \E s \in Balance!Spans(l) :
                 c \in s /\ \A r \in Balance!Spans(l) : c \in r => r = s
<1>1. CASE l = 0
  <2>1. Balance!Spans(l) = {{c} : c \in CPUs}
    BY <1>1 DEF Balance!Spans
  <2>2. ASSUME NEW c \in CPUs
        PROVE  \E s \in Balance!Spans(l) : c \in s /\ \A r \in Balance!Spans(l) : c \in r => r = s
    <3>1. {c} \in Balance!Spans(l) /\ c \in {c}
      BY <2>1
    <3>2. \A r \in Balance!Spans(l) : c \in r => r = {c}
      BY <2>1
    <3> QED BY <3>1, <3>2
  <2>3. Balance!Spans(l) \subseteq SUBSET CPUs /\ {} \notin Balance!Spans(l)
    BY <2>1
  <2> QED BY <2>2, <2>3
<1>2. CASE l # 0
  <2>1. Balance!Spans(l) = SdTopology[l] /\ l \in DOMAIN SdTopology
    BY <1>2 DEF Balance!Spans, Balance!Levels
  <2>2. SdTopology[l] \subseteq (SUBSET CPUs) \ {{}}
    <3>1. \A R : SdTopology \in Seq(R) => SdTopology[l] \in R
      BY <2>1
    <3>2. SdTopology \in Seq(SUBSET ((SUBSET CPUs) \ {{}}))
      BY BalanceAssumption
    <3> QED BY <3>1, <3>2, Zenon
  <2> QED BY <2>1, <2>2, BalanceAssumption
<1> QED BY <1>1, <1>2

LEMMA BalanceSpan ==
    ASSUME NEW l \in {0} \cup Balance!Levels, NEW c \in CPUs
    PROVE  /\ Balance!Span(c, l) \in Balance!Spans(l) /\ c \in Balance!Span(c, l)
           /\ Balance!Span(c, l) \subseteq CPUs
           /\ \A r \in Balance!Spans(l) : c \in r => r = Balance!Span(c, l)
<1>1. PICK s \in Balance!Spans(l) : c \in s /\ \A r \in Balance!Spans(l) : c \in r => r = s
  BY BalanceSpans
<1>2. Balance!Span(c, l) = s
  BY <1>1 DEF Balance!Span
<1> QED BY <1>1, <1>2, BalanceSpans

LEMMA BalanceBelow ==
    ASSUME NEW l \in Balance!Levels
    PROVE  l \in {0} \cup Balance!Levels /\ l - 1 \in {0} \cup Balance!Levels
<1>1. Balance!Levels = 1 .. Len(SdTopology) /\ Len(SdTopology) \in Nat
  BY BalanceAssumption DEF Balance!Levels
<1> QED BY <1>1

\* A CPU is in its group, and groups other than its own are apart from it.
LEMMA BalanceGroups ==
    ASSUME NEW l \in Balance!Levels, NEW c \in CPUs
    PROVE  /\ c \in Balance!GroupOf(c, l) /\ Balance!GroupOf(c, l) \subseteq CPUs
           /\ IsFiniteSet(Balance!GroupOf(c, l))
           /\ \A d \in Balance!GroupOf(c, l) : Balance!GroupOf(d, l) = Balance!GroupOf(c, l)
           /\ \A g \in Balance!Groups(c, l) :
                 /\ g \subseteq CPUs /\ g # {} /\ IsFiniteSet(g)
                 /\ g # Balance!GroupOf(c, l) => g \cap Balance!GroupOf(c, l) = {}
<1> DEFINE S == Balance!Spans(l - 1)
           G == Balance!GroupOf(c, l)
<1>1. /\ l - 1 \in {0} \cup Balance!Levels /\ G = Balance!Span(c, l - 1)
      /\ \A d : Balance!GroupOf(d, l) = Balance!Span(d, l - 1)
  BY BalanceBelow DEF Balance!GroupOf
<1>2. S \subseteq SUBSET CPUs /\ {} \notin S
  BY <1>1, BalanceSpans
<1>3. \A d \in CPUs : /\ Balance!Span(d, l - 1) \in S /\ d \in Balance!Span(d, l - 1)
                      /\ \A r \in S : d \in r => r = Balance!Span(d, l - 1)
  BY <1>1, BalanceSpan
<1>4. \A s \in SUBSET CPUs : IsFiniteSet(s)
  BY BalanceFinite, FS_Subset
<1>5. Balance!Groups(c, l) \subseteq S
  BY DEF Balance!Groups
<1> HIDE DEF S
<1>6. G \in S /\ G \subseteq CPUs /\ c \in G
  BY <1>1, <1>2, <1>3
<1>7. ASSUME NEW d \in G PROVE Balance!GroupOf(d, l) = G
  BY <1>1, <1>3, <1>6, <1>7
<1>8. ASSUME NEW g \in Balance!Groups(c, l), g # G PROVE g \cap G = {}
  <2> SUFFICES ASSUME NEW d \in CPUs, d \in g, d \in G PROVE FALSE
    BY <1>2, <1>6
  <2> QED BY <1>3, <1>5, <1>6, <1>8
<1> QED BY <1>2, <1>4, <1>5, <1>6, <1>7, <1>8

-----------------------------------------------------------------------------
\* What balancing reads of the CPUs, and the statistics of a group.
Views == [nr : [CPUs -> Nat], load : [CPUs -> Nat], imbalance : SUBSET SUBSET CPUs]
GroupStats == [group : SUBSET CPUs, load : Nat, nr : Nat, capacity : Nat \ {0}, util : Nat,
          idle_cpus : Nat, avg : Nat, per_task : Nat, weight : Nat, imbalanced : BOOLEAN,
          no_capacity : BOOLEAN, type : 0 .. 2]

LEMMA OnlyOne == \A a : (CHOOSE r \in {a} : TRUE) = a
OBVIOUS

LEMMA BalanceClassify ==
    ASSUME NEW s \in GroupStats
    PROVE  Balance!group_classify(s) \in GroupStats /\ Balance!group_classify(s).group = s.group
<1> DEFINE n == CASE s.no_capacity -> 2 [] ~s.no_capacity /\ s.imbalanced -> 1 [] OTHER -> 0
<1>1. n \in 0 .. 2
  OBVIOUS
<1>2. Balance!group_classify(s) = [s EXCEPT !.type = n]
  BY DEF Balance!group_classify
<1> HIDE DEF n
<1> QED BY <1>1, <1>2 DEF GroupStats

\* The sums of a group are numbers, and it has some capacity.
LEMMA BalanceSums ==
    ASSUME NEW v \in Views, NEW g, g \subseteq CPUs, g # {}, NEW on, on \subseteq g
    PROVE  /\ SumIn(v.load, on) \in Nat /\ SumIn(v.nr, on) \in Nat
           /\ SumIn(Capacity, g) \in Nat \ {0}
           /\ SumIn([c \in on |-> Balance!Util(v, c)], on) \in Nat
           /\ Cardinality({c \in on : v.nr[c] = 0}) \in Nat /\ Cardinality(g) \in Nat
<1>1. /\ IsFiniteSet(g) /\ IsFiniteSet(on) /\ on \subseteq CPUs
      /\ IsFiniteSet({c \in on : v.nr[c] = 0})
  BY BalanceFinite, FS_Subset
<1>2. \A c \in CPUs : v.nr[c] \in Nat /\ v.load[c] \in Nat /\ Capacity[c] \in Nat \ {0}
  BY BalanceFinite DEF Views
<1>3. SumIn(v.load, on) \in Nat /\ SumIn(v.nr, on) \in Nat
  <2>1. \A c \in on : v.load[c] \in Nat /\ v.nr[c] \in Nat
    BY <1>1, <1>2
  <2> QED BY <1>1, <2>1, SumBound
<1>4. SumIn(Capacity, g) \in Nat \ {0}
  <2>1. PICK c \in g : TRUE
    OBVIOUS
  <2>2. Capacity[c] <= SumIn(Capacity, g) /\ SumIn(Capacity, g) \in Nat
    BY <1>1, <1>2, SumBound, SumMember
  <2> QED BY <1>2, <2>2
<1>5. SumIn([c \in on |-> Balance!Util(v, c)], on) \in Nat
  <2> DEFINE f == [c \in on |-> Balance!Util(v, c)]
  <2>1. \A c \in on : f[c] \in Nat
    BY <1>1, <1>2 DEF Balance!Util
  <2> HIDE DEF f
  <2>2. SumIn(f, on) \in Nat
    BY <1>1, <2>1, SumBound
  <2> QED BY <2>2 DEF f
<1>6. Cardinality({c \in on : v.nr[c] = 0}) \in Nat /\ Cardinality(g) \in Nat
  BY <1>1, FS_CardinalityType
<1> QED BY <1>3, <1>4, <1>5, <1>6

LEMMA BalanceStats ==
    ASSUME NEW v \in Views, NEW env, NEW g, g \subseteq CPUs, g # {}
    PROVE  /\ Balance!update_sg_lb_stats(env, v, g) \in GroupStats
           /\ Balance!update_sg_lb_stats(env, v, g).group = g
<1> DEFINE on == g \cap env.cpus
           load == SumIn(v.load, on)
           count == SumIn(v.nr, on)
           capacity == SumIn(Capacity, g)
           util == SumIn([c \in on |-> Balance!Util(v, c)], on)
           idle == Cardinality({c \in on : v.nr[c] = 0})
           avg == (load * Balance!SCHED_CAPACITY_SCALE) \div capacity
           per_task == IF count = 0 THEN 0 ELSE load \div count
           weight == Cardinality(g)
           imbalanced == g \in v.imbalance
           sgs == [group |-> g, load |-> load, nr |-> count, capacity |-> capacity,
                   util |-> util, idle_cpus |-> idle, avg |-> avg, per_task |-> per_task,
                   weight |-> weight, imbalanced |-> imbalanced, no_capacity |-> FALSE,
                   type |-> 0]
           x == [sgs EXCEPT !.no_capacity = Balance!group_is_overloaded(sgs)]
<1>1. /\ load \in Nat /\ count \in Nat /\ capacity \in Nat \ {0} /\ util \in Nat
      /\ idle \in Nat /\ weight \in Nat
  BY BalanceSums
<1>2. avg \in Nat /\ per_task \in Nat
  <2> DEFINE a == load * Balance!SCHED_CAPACITY_SCALE
  <2>1. a \in Nat
    BY <1>1 DEF Balance!SCHED_CAPACITY_SCALE
  <2> HIDE DEF load, count, capacity, a
  <2>2. a \div capacity \in Nat
    BY <1>1, <2>1
  <2>3. count # 0 => load \div count \in Nat
    BY <1>1
  <2> QED BY <2>2, <2>3 DEF a
<1>3. imbalanced \in BOOLEAN
  OBVIOUS
<1>4. Balance!update_sg_lb_stats(env, v, g) = Balance!group_classify(x)
  <2>1. Balance!update_sg_lb_stats(env, v, g) =
            CHOOSE r \in {Balance!group_classify(
                              [y EXCEPT !.no_capacity = Balance!group_is_overloaded(y)]) :
                              y \in {sgs}} : TRUE
    BY BalanceOperators DEF Balance!update_sg_lb_stats, Balance!With
  <2> HIDE DEF sgs
  <2>2. {Balance!group_classify([y EXCEPT !.no_capacity = Balance!group_is_overloaded(y)]) :
            y \in {sgs}} = {Balance!group_classify(x)}
    OBVIOUS
  <2> HIDE DEF x
  <2> QED BY <2>1, <2>2, OnlyOne
<1>5. x \in GroupStats /\ x.group = g
  <2>1. sgs \in GroupStats /\ sgs.group = g
    <3> HIDE DEF on, load, count, capacity, util, idle, avg, per_task, weight, imbalanced
    <3> QED BY <1>1, <1>2, <1>3 DEF GroupStats
  <2>2. Balance!group_is_overloaded(sgs) \in BOOLEAN
    BY DEF Balance!group_is_overloaded
  <2> HIDE DEF sgs
  <2> QED BY <2>1, <2>2 DEF GroupStats
<1> HIDE DEF x
<1> QED BY <1>4, <1>5, BalanceClassify

-----------------------------------------------------------------------------
(* The busiest group.                                                      *)

\* The groups other than the local one, in turn, and the busier of two.
Others(env, own) == Balance!Groups(env.dst, env.level) \ {own.group}
TurnOf(env, own) ==
    [g \in Balance!Groups(env.dst, env.level) |->
        (Balance!Min(g) - Balance!Min(own.group)) % Balance!Cardinality(CPUs)]
LastOf(env, own, s) == CHOOSE g \in s : \A h \in s : TurnOf(env, own)[h] <= TurnOf(env, own)[g]
Busier(env, v, own, g, b) ==
    Balance!With(Balance!Adjusted(Balance!update_sg_lb_stats(env, v, g), own),
                 LAMBDA s : IF Balance!update_sd_pick_busiest(env, s, b) THEN s ELSE b)
BusierEquation(env, v, own, it) ==
    it = [s \in SUBSET Others(env, own) |->
            IF s = {} THEN Balance!NoGroup
            ELSE Busier(env, v, own, LastOf(env, own, s),
                        it[s \ {LastOf(env, own, s)}])]

LEMMA BalanceBusier ==
    ASSUME NEW env, NEW v, NEW own, NEW g, NEW b
    PROVE  Busier(env, v, own, g, b)
             \in {Balance!Adjusted(Balance!update_sg_lb_stats(env, v, g), own), b}
<1> DEFINE x == Balance!Adjusted(Balance!update_sg_lb_stats(env, v, g), own)
<1>1. {IF Balance!update_sd_pick_busiest(env, s, b) THEN s ELSE b : s \in {x}}
        = {IF Balance!update_sd_pick_busiest(env, x, b) THEN x ELSE b}
  <2> HIDE DEF x
  <2> QED OBVIOUS
<1> QED BY <1>1, OnlyOne, Zenon DEF Balance!With, Busier

LEMMA BalanceUnfold ==
    ASSUME NEW env, NEW v, NEW own
    PROVE  Balance!update_sd_lb_stats(env, v, own)
             = (CHOOSE it : BusierEquation(env, v, own, it))[Others(env, own)]
BY Zenon DEF Balance!update_sd_lb_stats, Balance!MapThenFoldSet, BusierEquation, Others, TurnOf, LastOf,
   Busier

BusiestOf(env, own) == {Balance!NoGroup} \cup {s \in GroupStats : s.group \in Others(env, own)}

LEMMA BalanceBusiest ==
    ASSUME NEW v \in Views, NEW env, env.dst \in CPUs, env.level \in Balance!Levels,
           NEW own \in GroupStats, own.group # {}
    PROVE  Balance!update_sd_lb_stats(env, v, own) \in BusiestOf(env, own)
<1> DEFINE S == Others(env, own)
           V == BusiestOf(env, own)
           base == Balance!NoGroup
           rest == [s \in SUBSET S |-> s \ {LastOf(env, own, s)}]
           step == [s \in SUBSET S |-> [b \in V |-> Busier(env, v, own, LastOf(env, own, s), b)]]
<1>1. IsFiniteSet(S) /\ \A g \in S : g \subseteq CPUs /\ g # {}
  <2>1. \A g \in S : g \subseteq CPUs /\ g # {}
    BY BalanceGroups DEF Others
  <2>2. IsFiniteSet(SUBSET CPUs) /\ S \subseteq SUBSET CPUs
    BY <2>1, BalanceFinite, FS_SUBSET
  <2>3. IsFiniteSet(S)
    BY <2>2, FS_Subset
  <2> QED BY <2>1, <2>3
<1>2. base \in V
  BY DEF BusiestOf
<1>3. ASSUME NEW g \in S PROVE TurnOf(env, own)[g] \in Int
  <2> DEFINE a == Min(g) - Min(own.group)
             n == Cardinality(CPUs)
  <2>1. Min(g) \in Int /\ Min(own.group) \in Int
    <3>1. \A s \in SUBSET CPUs : s # {} => Min(s) \in Nat
      BY BalanceFinite, MinOf
    <3>2. own.group \in SUBSET CPUs /\ g \in SUBSET CPUs /\ g # {}
      BY <1>1 DEF GroupStats
    <3> QED BY <3>1, <3>2
  <2>2. n \in Nat \ {0}
    BY BalanceFinite, FS_CardinalityType, FS_EmptySet
  <2>3. TurnOf(env, own)[g] = a % n
    BY BalanceOperators DEF TurnOf, Others
  <2>4. a \in Int
    BY <2>1
  <2> HIDE DEF a, n
  <2> QED BY <2>2, <2>3, <2>4
<1>4. ASSUME NEW s \in SUBSET S, s # {} PROVE LastOf(env, own, s) \in s
  <2> DEFINE f == TurnOf(env, own)
  <2>1. IsFiniteSet(s) /\ \A x \in s : f[x] \in Int
    BY <1>1, <1>3, FS_Subset
  <2>2. \E a \in s : \A x \in s : f[x] <= f[a]
    <3> HIDE DEF f
    <3> QED BY <1>4, <2>1, GreatestAt
  <2> QED BY <2>2 DEF LastOf
<1>5. \A s \in SUBSET S : s # {} => rest[s] \subseteq s /\ rest[s] # s
  <2> HIDE DEF S
  <2> QED BY <1>4
<1>6. ASSUME NEW g \in S, NEW b \in V PROVE Busier(env, v, own, g, b) \in V
  <2> DEFINE u == Balance!update_sg_lb_stats(env, v, g)
             w == [u EXCEPT !.no_capacity =
                      @ \/ ("PREFER_SIBLING" \in Flags /\ Balance!group_has_capacity(own)
                            /\ u.nr > own.nr + 1)]
  <2>1. u \in GroupStats /\ u.group = g
    BY <1>1, BalanceStats
  <2>2. w \in GroupStats /\ w.group = g
    <3> HIDE DEF u
    <3> QED BY <2>1 DEF GroupStats
  <2>3. Balance!Adjusted(u, own) = Balance!group_classify(w)
    BY DEF Balance!Adjusted
  <2>4. Balance!Adjusted(u, own) \in V
    <3> HIDE DEF u, w, S
    <3>1. Balance!Adjusted(u, own) \in GroupStats /\ Balance!Adjusted(u, own).group = g
      BY <2>2, <2>3, BalanceClassify
    <3> QED BY <3>1 DEF BusiestOf, S
  <2> HIDE DEF V
  <2> QED BY <2>4, BalanceBusier
<1>7. \A s \in SUBSET S : s # {} => \A b \in V :
          /\ Busier(env, v, own, LastOf(env, own, s), b) \in V
          /\ step[s][b] = Busier(env, v, own, LastOf(env, own, s), b)
  <2> TAKE s \in SUBSET S
  <2> HAVE s # {}
  <2> TAKE b \in V
  <2>1. LastOf(env, own, s) \in S
    BY <1>4
  <2>2. step[s][b] = Busier(env, v, own, LastOf(env, own, s), b)
    <3> HIDE DEF S, V
    <3> QED OBVIOUS
  <2> HIDE DEF S, V, step
  <2> QED BY <1>6, <2>1, <2>2
<1> HIDE DEF S, V, base, rest, step
<1>8. \E it : BusierEquation(env, v, own, it)
  <2>1. \A s \in SUBSET S : s # {} => \A b \in V : step[s][b] \in V
    BY <1>7
  <2>2. PICK it \in [SUBSET S -> V] : FoldEquation(it, SUBSET S, base, rest, step)
    BY <1>1, <1>2, <1>5, <2>1, FoldExists
  <2>3. ASSUME NEW s \in SUBSET S
        PROVE  it[s] = IF s = {} THEN base
                       ELSE Busier(env, v, own, LastOf(env, own, s),
                                   it[s \ {LastOf(env, own, s)}])
    <3>1. it[s] = IF s = {} THEN base ELSE step[s][it[rest[s]]]
      BY <2>2 DEF FoldEquation
    <3>2. s # {} => it[rest[s]] \in V
      <4>1. s # {} => rest[s] \in SUBSET S
        BY <1>5
      <4> QED BY <2>2, <4>1
    <3>3. rest[s] = s \ {LastOf(env, own, s)}
      BY DEF rest
    <3> QED BY <1>7, <3>1, <3>2, <3>3
  <2>4. it = [s \in SUBSET S |-> IF s = {} THEN base
                                 ELSE Busier(env, v, own, LastOf(env, own, s),
                                             it[s \ {LastOf(env, own, s)}])]
    BY <2>3
  <2> QED BY <2>4 DEF BusierEquation, S, base
<1> DEFINE it == CHOOSE it : BusierEquation(env, v, own, it)
<1>9. BusierEquation(env, v, own, it)
  BY <1>8
<1> HIDE DEF it
<1>10. it[{}] = base /\ \A s \in SUBSET S : s # {} =>
          it[s] = Busier(env, v, own, LastOf(env, own, s), it[rest[s]])
  <2>1. it = [s \in SUBSET S |-> IF s = {} THEN base
                                 ELSE Busier(env, v, own, LastOf(env, own, s),
                                             it[s \ {LastOf(env, own, s)}])]
    BY <1>9 DEF BusierEquation, S, base
  <2>2. \A s \in SUBSET S : rest[s] = s \ {LastOf(env, own, s)}
    BY DEF rest
  <2> QED BY <2>1, <2>2
<1>11. it[S] \in V
  <2>1. \A s \in SUBSET S : s # {} => /\ rest[s] \subseteq s /\ rest[s] # s
                                      /\ it[rest[s]] \in V => it[s] \in V
    BY <1>5, <1>7, <1>10
  <2> QED BY <1>1, <1>2, <1>10, <2>1, FoldTyped
<1> QED BY <1>11, BalanceUnfold DEF S, V, it

LEMMA BalanceLeast == \A a, b \in Int : Balance!Least(a, b) \in Int
BY DEF Balance!Least

LEMMA BalanceAmount ==
    ASSUME NEW v \in Views, NEW env, NEW b0 \in GroupStats, NEW l \in GroupStats, NEW avg \in Int
    PROVE  Balance!calculate_imbalance(env, v, b0, l, avg) \in Int
<1> DEFINE b == IF b0.type = 1 THEN [b0 EXCEPT !.per_task = Balance!Least(@, avg)] ELSE b0
           excess == b.nr * Balance!SCHED_CAPACITY_SCALE - b.capacity
           gap == b.avg - avg
           part1 == (excess * Balance!NICE_0_LOAD) \div b.capacity
           max_pull == IF b.type = 2 /\ l.type = 2 /\ excess > 0
                       THEN Balance!Least(gap, part1) ELSE gap
           least == Balance!Least(max_pull * b.capacity, (avg - l.avg) * l.capacity)
           imb == least \div Balance!SCHED_CAPACITY_SCALE
<1>1. /\ b.nr \in Int /\ b.capacity \in Int /\ b.capacity > 0 /\ b.avg \in Int
      /\ b.per_task \in Int
      /\ l.avg \in Int /\ l.capacity \in Int
  <2>1. b0.per_task \in Int /\ Balance!Least(b0.per_task, avg) \in Int
    BY BalanceLeast DEF GroupStats
  <2> QED BY <2>1 DEF GroupStats
<1>2. \A o \in Int : Balance!fix_small_imbalance(env, v, b, l, o) \in Int
  <2> HIDE DEF b
  <2> QED BY <1>1 DEF Balance!fix_small_imbalance
<1>3. Balance!calculate_imbalance(env, v, b0, l, avg)
        = IF b.avg <= avg \/ l.avg >= avg THEN Balance!fix_small_imbalance(env, v, b, l, 0)
          ELSE IF imb < b.per_task THEN Balance!fix_small_imbalance(env, v, b, l, imb)
          ELSE imb
  BY DEF Balance!calculate_imbalance
<1> HIDE DEF b
<1>4. excess \in Int /\ gap \in Int /\ part1 \in Int
  <2>1. excess \in Int /\ gap \in Int
    BY <1>1 DEF Balance!SCHED_CAPACITY_SCALE
  <2> DEFINE a == excess * Balance!NICE_0_LOAD
  <2>2. a \in Int
    BY <2>1 DEF Balance!NICE_0_LOAD
  <2> HIDE DEF a, excess
  <2>3. a \div b.capacity \in Int
    BY <1>1, <2>2, DivMod
  <2> QED BY <2>1, <2>3 DEF a
<1> HIDE DEF excess, gap, part1
<1>5. max_pull \in Int
  BY <1>4, BalanceLeast
<1> HIDE DEF max_pull
<1>6. max_pull * b.capacity \in Int /\ (avg - l.avg) * l.capacity \in Int
  BY <1>1, <1>5
<1>7. least \in Int
  BY <1>6, BalanceLeast
<1> HIDE DEF least
<1>8. imb \in Int
  BY <1>7 DEF Balance!SCHED_CAPACITY_SCALE
<1> HIDE DEF imb
<1> QED BY <1>2, <1>3, <1>8

LEMMA BalanceAverage ==
    ASSUME NEW v \in Views, NEW env, env.dst \in CPUs, env.level \in Balance!Levels,
           Balance!Groups(env.dst, env.level) # {}
    PROVE  Balance!AvgLoad(env, v) \in Int
<1> DEFINE G == Balance!Groups(env.dst, env.level)
           stat == [g \in G |-> Balance!update_sg_lb_stats(env, v, g)]
           all1 == {stat[g] : g \in G}
           a == Balance!SCHED_CAPACITY_SCALE * SumIn([s \in all1 |-> s.load], all1)
           b == SumIn([s \in all1 |-> s.capacity], all1)
<1>1. all1 = {Balance!update_sg_lb_stats(env, v, g) : g \in G}
  OBVIOUS
<1>2. Balance!AvgLoad(env, v) = a \div b
  <2> DEFINE A == {Balance!update_sg_lb_stats(env, v, g) : g \in G}
  <2>1. Balance!AvgLoad(env, v) = (Balance!SCHED_CAPACITY_SCALE * SumIn([s \in A |-> s.load], A))
                                    \div SumIn([s \in A |-> s.capacity], A)
    BY BalanceOperators, Zenon DEF Balance!AvgLoad
  <2>2. A = all1
    BY <1>1
  <2> HIDE DEF A, all1
  <2> QED BY <2>1, <2>2
<1>3. IsFiniteSet(G) /\ \A g \in G : stat[g] \in GroupStats
  <2>1. \A g \in G : g \subseteq CPUs /\ g # {}
    BY BalanceGroups
  <2>2. IsFiniteSet(SUBSET CPUs) /\ G \subseteq SUBSET CPUs
    BY <2>1, BalanceFinite, FS_SUBSET
  <2>3. IsFiniteSet(G)
    BY <2>2, FS_Subset
  <2> QED BY <2>1, <2>3, BalanceStats
<1>4. all1 \subseteq GroupStats /\ all1 # {}
  <2> HIDE DEF stat, G
  <2>1. G # {}
    BY DEF G
  <2> QED BY <1>3, <2>1
<1>5. IsFiniteSet(all1)
  <2>1. stat \in Surjection(G, all1)
    BY DEF Surjection
  <2> HIDE DEF stat, G, all1
  <2> QED BY <1>3, <2>1, FS_Surjection
<1> HIDE DEF all1
<1>6. a \in Int
  <2> DEFINE f == [s \in all1 |-> s.load]
  <2>1. \A s \in all1 : f[s] \in Nat
    BY <1>4 DEF GroupStats
  <2> HIDE DEF f
  <2>2. SumIn(f, all1) \in Int
    BY <1>5, <2>1, SumBound
  <2> QED BY <2>2 DEF f, Balance!SCHED_CAPACITY_SCALE
<1>7. b \in Int /\ b > 0
  <2> DEFINE f == [s \in all1 |-> s.capacity]
  <2>1. \A s \in all1 : f[s] \in Nat /\ f[s] > 0
    BY <1>4 DEF GroupStats
  <2> HIDE DEF f
  <2>2. PICK s \in all1 : TRUE
    BY <1>4
  <2>3. SumIn(f, all1) \in Nat /\ f[s] <= SumIn(f, all1)
    BY <1>5, <2>1, SumBound
  <2>4. SumIn(f, all1) > 0
    BY <2>1, <2>3
  <2> QED BY <2>3, <2>4 DEF f
<1> HIDE DEF a, b
<1> QED BY <1>2, <1>6, <1>7, DivMod

\* The end of find_busiest_group, and what it works out before.
Chosen(env, v, b, l, avg) ==
    CASE b.group = {} -> Balance!Balanced
      [] b.group # {} /\ Balance!check_asym_packing(env, b) ->
            [group |-> b.group,
             imbalance |-> (b.avg * b.capacity) \div Balance!SCHED_CAPACITY_SCALE]
      [] OTHER -> IF Balance!OutBalanced(env, b, l, avg) THEN Balance!Balanced
                  ELSE [group |-> b.group,
                        imbalance |-> Balance!calculate_imbalance(env, v, b, l, avg)]
ChosenAvg(env, v, b, l) ==
    Balance!With(Balance!AvgLoad(env, v), LAMBDA avg : Chosen(env, v, b, l, avg))
ChosenGroup(env, v, l) ==
    Balance!With(Balance!update_sd_lb_stats(env, v, l), LAMBDA b : ChosenAvg(env, v, b, l))
ChosenLocal(env, v) ==
    Balance!With(Balance!update_sg_lb_stats(env, v, Balance!GroupOf(env.dst, env.level)),
                 LAMBDA l : ChosenGroup(env, v, l))

LEMMA BalanceChosen ==
    ASSUME NEW env, NEW v
    PROVE  \E l, b, avg : /\ l = Balance!update_sg_lb_stats(env, v, Balance!GroupOf(env.dst, env.level))
                          /\ b = Balance!update_sd_lb_stats(env, v, l)
                          /\ avg = Balance!AvgLoad(env, v)
                          /\ Balance!find_busiest_group(env, v) = Chosen(env, v, b, l, avg)
<1>1. Balance!find_busiest_group(env, v) = ChosenLocal(env, v)
  BY Zenon DEF Balance!find_busiest_group, ChosenLocal, ChosenGroup, ChosenAvg, Chosen
<1> DEFINE l == Balance!update_sg_lb_stats(env, v, Balance!GroupOf(env.dst, env.level))
           b == Balance!update_sd_lb_stats(env, v, l)
           avg == Balance!AvgLoad(env, v)
<1>2. ChosenLocal(env, v) = ChosenGroup(env, v, l)
  <2>1. {ChosenGroup(env, v, x) : x \in {l}} = {ChosenGroup(env, v, l)}
    <3> HIDE DEF l
    <3> QED OBVIOUS
  <2> QED BY <2>1, OnlyOne, Zenon DEF ChosenLocal, Balance!With
<1>3. ChosenGroup(env, v, l) = ChosenAvg(env, v, b, l)
  <2>1. {ChosenAvg(env, v, x, l) : x \in {b}} = {ChosenAvg(env, v, b, l)}
    <3> HIDE DEF l, b
    <3> QED OBVIOUS
  <2> QED BY <2>1, OnlyOne, Zenon DEF ChosenGroup, Balance!With
<1>4. ChosenAvg(env, v, b, l) = Chosen(env, v, b, l, avg)
  <2>1. {Chosen(env, v, b, l, x) : x \in {avg}} = {Chosen(env, v, b, l, avg)}
    <3> HIDE DEF l, b, avg
    <3> QED OBVIOUS
  <2> QED BY <2>1, OnlyOne, Zenon DEF ChosenAvg, Balance!With
<1> QED BY <1>1, <1>2, <1>3, <1>4

\* What is found is a group other than that of the destination, or none.
LEMMA BalanceFound ==
    ASSUME NEW v \in Views, NEW env, env.dst \in CPUs, env.level \in Balance!Levels
    PROVE  LET f == Balance!find_busiest_group(env, v)
           IN  /\ f.imbalance \in Int
               /\ f.group \subseteq CPUs
               /\ f.group # {} => f.group \cap Balance!GroupOf(env.dst, env.level) = {}
<1>1. PICK l, b, avg :
          /\ l = Balance!update_sg_lb_stats(env, v, Balance!GroupOf(env.dst, env.level))
          /\ b = Balance!update_sd_lb_stats(env, v, l)
          /\ avg = Balance!AvgLoad(env, v)
          /\ Balance!find_busiest_group(env, v) = Chosen(env, v, b, l, avg)
  BY BalanceChosen
<1> DEFINE G == Balance!GroupOf(env.dst, env.level)
<1>2. G \subseteq CPUs /\ G # {}
  BY BalanceGroups
<1>3. l \in GroupStats /\ l.group = G
  BY <1>1, <1>2, BalanceStats
<1>4. b \in BusiestOf(env, l)
  BY <1>1, <1>2, <1>3, BalanceBusiest
<1>5. Balance!Balanced.group = {} /\ Balance!Balanced.imbalance = 0
  BY DEF Balance!Balanced
<1>6. CASE b.group = {}
  <2>1. Chosen(env, v, b, l, avg) = Balance!Balanced
    BY <1>6 DEF Chosen
  <2> QED BY <1>1, <1>5, <2>1
<1>7. CASE b.group # {}
  <2>1. b \in GroupStats /\ b.group \in Others(env, l)
    BY <1>4, <1>7 DEF BusiestOf, Balance!NoGroup
  <2>2. /\ b.group \in Balance!Groups(env.dst, env.level) /\ b.group # G
        /\ b.group \subseteq CPUs /\ b.group \cap G = {}
    BY <1>3, <2>1, BalanceGroups DEF Others
  <2>3. avg \in Int
    BY <1>1, <2>2, BalanceAverage
  <2>4. Balance!calculate_imbalance(env, v, b, l, avg) \in Int
    BY <1>3, <2>1, <2>3, BalanceAmount
  <2>5. (b.avg * b.capacity) \div Balance!SCHED_CAPACITY_SCALE \in Int
    <3>1. b.avg \in Int /\ b.capacity \in Int
      BY <2>1 DEF GroupStats
    <3>2. b.avg * b.capacity \in Int
      BY <3>1
    <3> QED BY <3>2 DEF Balance!SCHED_CAPACITY_SCALE
  <2>6. \/ Chosen(env, v, b, l, avg) = Balance!Balanced
        \/ Chosen(env, v, b, l, avg) =
              [group |-> b.group, imbalance |-> (b.avg * b.capacity) \div Balance!SCHED_CAPACITY_SCALE]
        \/ Chosen(env, v, b, l, avg) =
              [group |-> b.group, imbalance |-> Balance!calculate_imbalance(env, v, b, l, avg)]
    BY <1>7 DEF Chosen
  <2> HIDE DEF G
  <2>7. LET f == Chosen(env, v, b, l, avg)
        IN  f.imbalance \in Int /\ f.group \subseteq CPUs /\ (f.group # {} => f.group \cap G = {})
    BY <1>5, <2>2, <2>4, <2>5, <2>6
  <2> QED BY <1>1, <2>7 DEF G
<1> QED BY <1>6, <1>7

LEMMA TimesMonotone ==
    ASSUME NEW a \in Nat, NEW b \in Nat, NEW c \in Nat, a >= b
    PROVE  a * c >= b * c
<1>1. (a - b) * c >= 0 /\ (a - b) * c = a * c - b * c
  OBVIOUS
<1> QED BY <1>1

\* Of two ratios of load and capacity, the one that is not less than a third
\* one's is not less than what that one is not less than.
LEMMA RatioTransitive ==
    ASSUME NEW a \in Nat, NEW b \in Nat, NEW c \in Nat,
           NEW k \in Nat \ {0}, NEW m \in Nat \ {0}, NEW n \in Nat \ {0},
           a * m >= b * k, b * n >= c * m
    PROVE  a * n >= c * k
<1>1. a * m * n >= b * k * n
  <2> DEFINE p == a * m
             q == b * k
  <2>1. p \in Nat /\ q \in Nat /\ p >= q
    OBVIOUS
  <2> HIDE DEF p, q
  <2>2. p * n >= q * n
    BY <2>1, TimesMonotone
  <2> QED BY <2>2 DEF p, q
<1>2. b * n * k >= c * m * k
  <2> DEFINE p == b * n
             q == c * m
  <2>1. p \in Nat /\ q \in Nat /\ p >= q
    OBVIOUS
  <2> HIDE DEF p, q
  <2>2. p * k >= q * k
    BY <2>1, TimesMonotone
  <2> QED BY <2>2 DEF p, q
<1> DEFINE x == a * n
           y == c * k
<1>3. x \in Nat /\ y \in Nat
  OBVIOUS
<1>4. x * m >= y * m
  <2>1. a * m * n = x * m
    OBVIOUS
  <2>2. c * m * k = y * m
    OBVIOUS
  <2>3. b * k * n = b * n * k
    OBVIOUS
  <2>4. a * m * n \in Int /\ b * k * n \in Int /\ c * m * k \in Int
    OBVIOUS
  <2> HIDE DEF x, y
  <2> QED BY <1>1, <1>2, <2>1, <2>2, <2>3, <2>4
<1> HIDE DEF x, y
<1>5. ASSUME x < y PROVE FALSE
  <2>1. (x + 1) * m <= y * m
    <3>1. x + 1 <= y /\ x + 1 \in Nat
      BY <1>3, <1>5
    <3> QED BY <1>3, <3>1, TimesMonotone
  <2>2. (x + 1) * m = x * m + m /\ x * m \in Nat /\ y * m \in Nat
    BY <1>3
  <2> QED BY <1>4, <2>1, <2>2
<1> QED BY <1>3, <1>5 DEF x, y

\* c has the most load for its capacity in s.
Heaviest(v, s, c) == \A d \in s : v.load[c] * Capacity[d] >= v.load[d] * Capacity[c]

LEMMA HeaviestExists ==
    ASSUME NEW v \in Views, NEW S, S \subseteq CPUs, S # {}
    PROVE  \E c \in S : Heaviest(v, S, c)
<1> DEFINE B == {s \in SUBSET S : s # {} /\ ~\E c \in s : Heaviest(v, s, c)}
<1>1. IsFiniteSet(S) /\ \A c \in S : v.load[c] \in Nat /\ Capacity[c] \in Nat \ {0}
  BY BalanceFinite, FS_Subset DEF Views
<1> SUFFICES ASSUME B # {} PROVE FALSE
  OBVIOUS
<1>2. PICK s \in B : \A r \in B : r \subseteq s => r = s
  <2>1. B \subseteq SUBSET S
    OBVIOUS
  <2> HIDE DEF B
  <2> QED BY <1>1, <2>1, SmallestSubset
<1>3. PICK x \in s : TRUE
  OBVIOUS
<1> DEFINE r == s \ {x}
<1>4. r \notin B
  BY <1>2
<1>5. CASE r = {}
  <2>1. s = {x} /\ v.load[x] \in Nat /\ Capacity[x] \in Nat
    BY <1>1, <1>2, <1>3, <1>5
  <2>2. v.load[x] * Capacity[x] >= v.load[x] * Capacity[x]
    BY <2>1
  <2>3. Heaviest(v, s, x)
    BY <2>1, <2>2 DEF Heaviest
  <2> QED BY <1>2, <1>3, <2>3
<1>6. CASE r # {}
  <2>1. PICK c \in r : Heaviest(v, r, c)
    BY <1>4, <1>6
  <2>2. x \in S /\ c \in S /\ c \in s /\ \A d \in s : d \in S
    BY <1>2, <1>3
  <2> HIDE DEF B
  <2>3. /\ v.load[x] \in Nat /\ Capacity[x] \in Nat \ {0}
        /\ v.load[c] \in Nat /\ Capacity[c] \in Nat \ {0}
    BY <1>1, <2>2
  <2>4. CASE v.load[c] * Capacity[x] >= v.load[x] * Capacity[c]
    <3>1. Heaviest(v, s, c)
      BY <2>1, <2>4 DEF Heaviest
    <3> QED BY <1>2, <2>2, <3>1 DEF B
  <2>5. CASE ~(v.load[c] * Capacity[x] >= v.load[x] * Capacity[c])
    <3>1. v.load[x] * Capacity[c] >= v.load[c] * Capacity[x]
      BY <2>3, <2>5
    <3>2. ASSUME NEW d \in s PROVE v.load[x] * Capacity[d] >= v.load[d] * Capacity[x]
      <4>1. v.load[d] \in Nat /\ Capacity[d] \in Nat \ {0}
        BY <1>1, <2>2
      <4>2. CASE d = x
        BY <4>1, <4>2
      <4>3. CASE d # x
        <5>1. v.load[c] * Capacity[d] >= v.load[d] * Capacity[c]
          BY <2>1, <4>3 DEF Heaviest
        <5> QED BY <2>3, <3>1, <4>1, <5>1, RatioTransitive
      <4> QED BY <4>2, <4>3
    <3>3. Heaviest(v, s, x)
      BY <3>2 DEF Heaviest
    <3> QED BY <1>2, <1>3, <3>3 DEF B
  <2> QED BY <2>4, <2>5
<1> QED BY <1>5, <1>6

LEMMA BalanceQueue ==
    ASSUME NEW v \in Views, NEW env, NEW g, g \subseteq CPUs, NEW imb
    PROVE  LET src == Balance!find_busiest_queue(env, v, g, imb)
           IN  src = -1 \/ src \in g
<1> DEFINE fit == {c \in g \cap env.cpus :
                    /\ v.load[c] > 0
                    /\ v.nr[c] = 1 /\ v.load[c] > imb => Balance!check_cpu_capacity(c)}
           most == {c \in fit : \A d \in fit :
                    v.load[c] * Capacity[d] >= v.load[d] * Capacity[c]}
<1>1. Balance!find_busiest_queue(env, v, g, imb) = IF fit = {} THEN -1 ELSE Min(most)
  BY BalanceOperators DEF Balance!find_busiest_queue
<1>2. fit \subseteq g
  OBVIOUS
<1> HIDE DEF fit
<1>3. fit # {} => most # {} /\ most \subseteq Nat
  <2>1. fit # {} => \E c \in fit : Heaviest(v, fit, c)
    BY <1>2, HeaviestExists
  <2> QED BY <1>2, <2>1, BalanceFinite DEF Heaviest
<1>4. most \subseteq fit
  OBVIOUS
<1> HIDE DEF most
<1> QED BY <1>1, <1>2, <1>3, <1>4, MinOf

-----------------------------------------------------------------------------
(* Detaching tasks.                                                        *)

LbPcs == {"redo", "detach", "attach", "nothing", "moved", "all_pinned"}
Envs == [pc : LbPcs, cpu : CPUs, dst : CPUs, level : Balance!Levels, idle : Balance!IdleTypes,
         cpus : SUBSET CPUs, src : CPUs \cup {-1}, imbalance : Int, all_pinned : BOOLEAN,
         some_pinned : BOOLEAN, new_dst : CPUs \cup {-1}, tasks : SUBSET LbTasks, moved : BOOLEAN]

\* A pass that detach_tasks may make of e: only the tasks of the source that may
\* run on the destination and do not run now are in its list.
Detached(e) ==
    {x \in Envs : /\ x.pc = e.pc /\ x.cpu = e.cpu /\ x.dst = e.dst /\ x.level = e.level
                  /\ x.src = e.src
                  /\ x.new_dst \in Balance!GroupOf(e.cpu, e.level) \cup {-1}
                  /\ \A t \in x.tasks : /\ t \in Balance!On(e.src) /\ e.dst \in LbAllowed[t]
                                        /\ curr[e.src] # t}

DetachTurn(y, t, hot) ==
    IF Balance!Enough(y) THEN y
    ELSE IF y.dst \notin LbAllowed[t] THEN Balance!Pinned(y, t) ELSE Balance!Taken(y, t, hot)
DetachStep(x, t, hot) == Balance!With(x, LAMBDA y : DetachTurn(y, t, hot))
DetachEquation(e, order, hot, it) ==
    it = [s \in SUBSET DOMAIN order |->
            IF s = {} THEN e
            ELSE DetachStep(it[s \ {Balance!Max(s)}], order[Balance!Max(s)], hot)]

LEMMA DetachUnfold ==
    ASSUME NEW e, NEW order, NEW hot
    PROVE  Balance!detach_tasks(e, order, hot)
             = (CHOOSE it : DetachEquation(e, order, hot, it))[DOMAIN order]
BY Zenon DEF Balance!detach_tasks, Balance!FoldLeft, Balance!MapThenFoldSet, DetachEquation,
   DetachStep, DetachTurn

LEMMA DetachStepIs ==
    ASSUME NEW x, NEW t, NEW hot
    PROVE  DetachStep(x, t, hot) = DetachTurn(x, t, hot)
<1>1. {DetachTurn(y, t, hot) : y \in {x}} = {DetachTurn(x, t, hot)}
  OBVIOUS
<1> QED BY <1>1, OnlyOne, Zenon DEF DetachStep, Balance!With

LEMMA DetachTyped ==
    ASSUME NEW e \in Envs, NEW x \in Detached(e), NEW t \in Balance!On(e.src), NEW hot
    PROVE  DetachTurn(x, t, hot) \in Detached(e)
<1>1. x \in Envs /\ t \in LbTasks /\ Load[t] \in Int
  BY BalanceFinite DEF Detached, Balance!On
<1>2. CASE Balance!Enough(x)
  BY <1>2 DEF DetachTurn
<1>3. CASE ~Balance!Enough(x) /\ x.dst \notin LbAllowed[t]
  <2> DEFINE cpus == Balance!GroupOf(x.cpu, x.level) \cap x.cpus \cap LbAllowed[t]
             new == IF x.idle = "NEWLY_IDLE" \/ x.new_dst # -1 \/ cpus = {} THEN x.new_dst
                    ELSE Min(cpus)
             y == [x EXCEPT !.some_pinned = TRUE, !.new_dst = new]
  <2>1. Balance!Pinned(x, t) = y
    BY <1>1, BalanceOperators DEF Balance!Pinned, Envs
  <2>2. x.cpu = e.cpu /\ x.level = e.level /\ e.cpu \in CPUs /\ e.level \in Balance!Levels
    BY DEF Detached, Envs
  <2>3. Balance!GroupOf(e.cpu, e.level) \subseteq CPUs
    BY <2>2, BalanceGroups
  <2>4. cpus # {} => Min(cpus) \in Balance!GroupOf(e.cpu, e.level)
    <3>1. cpus \subseteq Balance!GroupOf(e.cpu, e.level) /\ cpus \subseteq Nat
      BY <2>2, <2>3, BalanceFinite
    <3> HIDE DEF cpus
    <3> QED BY <3>1, MinOf
  <2> HIDE DEF cpus
  <2>5. new \in Balance!GroupOf(e.cpu, e.level) \cup {-1} /\ new \in CPUs \cup {-1}
    BY <2>3, <2>4 DEF Detached
  <2> HIDE DEF new
  <2>6. y \in Envs
    BY <1>1, <2>5 DEF Envs
  <2>7. y \in Detached(e)
    BY <1>1, <2>5, <2>6 DEF Detached, Envs
  <2> QED BY <1>3, <2>1, <2>7 DEF DetachTurn
<1>4. CASE ~Balance!Enough(x) /\ x.dst \in LbAllowed[t]
  <2> DEFINE y == [x EXCEPT !.all_pinned = FALSE]
             z == [y EXCEPT !.tasks = x.tasks \cup {t}, !.imbalance = x.imbalance - Load[t]]
             takes == Balance!MayTake(x, t, hot) /\ Load[t] \div 2 <= x.imbalance
  <2>1. y \in Envs /\ z \in Envs
    <3>1. y \in Envs
      BY <1>1 DEF Envs
    <3>2. x.tasks \cup {t} \in SUBSET LbTasks /\ x.imbalance - Load[t] \in Int
      BY <1>1 DEF Envs
    <3> HIDE DEF y
    <3> QED BY <3>1, <3>2 DEF Envs
  <2>2. Balance!Taken(x, t, hot) = IF takes THEN z ELSE y
    BY <1>1 DEF Balance!Taken, Envs
  <2>3. y \in Detached(e)
    BY <1>1, <2>1 DEF Detached, Envs
  <2>4. takes => curr[e.src] # t /\ e.dst \in LbAllowed[t]
    BY <1>4 DEF Balance!MayTake, Detached
  <2> HIDE DEF takes
  <2>5. takes => z \in Detached(e)
    <3>1. /\ z.pc = x.pc /\ z.cpu = x.cpu /\ z.dst = x.dst /\ z.level = x.level /\ z.src = x.src
          /\ z.new_dst = x.new_dst /\ z.tasks = x.tasks \cup {t}
      BY <1>1 DEF Envs
    <3> HIDE DEF z
    <3> QED BY <2>1, <2>4, <3>1 DEF Detached
  <2> HIDE DEF y, z
  <2> QED BY <1>4, <2>2, <2>3, <2>5 DEF DetachTurn
<1> QED BY <1>2, <1>3, <1>4

\* detach_tasks takes only tasks that it may take, whatever their order is.
LEMMA DetachSound ==
    ASSUME NEW e \in Envs, e \in Detached(e), NEW order \in Balance!SetToSeqs(Balance!On(e.src)),
           NEW hot
    PROVE  Balance!detach_tasks(e, order, hot) \in Detached(e)
<1> DEFINE S == DOMAIN order
           V == Detached(e)
           rest == [s \in SUBSET S |-> s \ {Max(s)}]
           step == [s \in SUBSET S |-> [x \in V |-> DetachStep(x, order[Max(s)], hot)]]
<1>1. IsFiniteSet(S) /\ S \subseteq Int /\ \A i \in S : order[i] \in Balance!On(e.src)
  <2>1. order \in [1 .. Balance!Cardinality(Balance!On(e.src)) -> Balance!On(e.src)]
    BY DEF Balance!SetToSeqs
  <2>2. IsFiniteSet(Balance!On(e.src))
    BY BalanceFinite, FS_Subset DEF Balance!On
  <2>3. Balance!Cardinality(Balance!On(e.src)) \in Nat
    BY <2>2, BalanceOperators, FS_CardinalityType
  <2>4. S = 1 .. Balance!Cardinality(Balance!On(e.src))
    BY <2>1
  <2>5. IsFiniteSet(1 .. Balance!Cardinality(Balance!On(e.src)))
    BY <2>3, FS_Interval
  <2> HIDE DEF S
  <2> QED BY <2>1, <2>3, <2>4, <2>5
<1> HIDE DEF S
<1>2. ASSUME NEW s \in SUBSET S, s # {} PROVE Max(s) \in s
  <2>1. IsFiniteSet(s) /\ s \subseteq Int
    BY <1>1, FS_Subset
  <2> QED BY <1>2, <2>1, MaxOf
<1>3. \A s \in SUBSET S : s # {} => rest[s] \subseteq s /\ rest[s] # s
  BY <1>2
<1> HIDE DEF V
<1>4. \A s \in SUBSET S : s # {} => \A x \in V :
          /\ DetachStep(x, order[Max(s)], hot) \in V
          /\ step[s][x] = DetachStep(x, order[Max(s)], hot)
  <2> TAKE s \in SUBSET S
  <2> HAVE s # {}
  <2> TAKE x \in V
  <2>1. order[Max(s)] \in Balance!On(e.src)
    BY <1>1, <1>2
  <2>2. DetachStep(x, order[Max(s)], hot) \in V
    BY <2>1, DetachStepIs, DetachTyped DEF V
  <2> QED BY <2>2
<1> HIDE DEF rest, step
<1>5. e \in V
  BY DEF V
<1>6. \E it : DetachEquation(e, order, hot, it)
  <2>1. \A s \in SUBSET S : s # {} => \A x \in V : step[s][x] \in V
    BY <1>4
  <2>2. PICK it \in [SUBSET S -> V] : FoldEquation(it, SUBSET S, e, rest, step)
    BY <1>1, <1>3, <1>5, <2>1, FoldExists
  <2>3. ASSUME NEW s \in SUBSET S
        PROVE  it[s] = IF s = {} THEN e ELSE DetachStep(it[s \ {Max(s)}], order[Max(s)], hot)
    <3>1. it[s] = IF s = {} THEN e ELSE step[s][it[rest[s]]]
      BY <2>2 DEF FoldEquation
    <3>2. s # {} => it[rest[s]] \in V
      <4>1. s # {} => rest[s] \in SUBSET S
        BY <1>3
      <4> QED BY <2>2, <4>1
    <3>3. rest[s] = s \ {Max(s)}
      BY DEF rest
    <3> QED BY <1>4, <3>1, <3>2, <3>3
  <2>4. it = [s \in SUBSET S |-> IF s = {} THEN e
                                 ELSE DetachStep(it[s \ {Balance!Max(s)}],
                                                 order[Balance!Max(s)], hot)]
    BY <2>3, BalanceOperators
  <2> QED BY <2>4 DEF DetachEquation, S
<1> DEFINE it == CHOOSE it : DetachEquation(e, order, hot, it)
<1>7. DetachEquation(e, order, hot, it)
  BY <1>6
<1> HIDE DEF it
<1>8. it[{}] = e /\ \A s \in SUBSET S : s # {} =>
          it[s] = DetachStep(it[rest[s]], order[Max(s)], hot)
  <2>1. it = [s \in SUBSET S |-> IF s = {} THEN e
                                 ELSE DetachStep(it[s \ {Balance!Max(s)}],
                                                 order[Balance!Max(s)], hot)]
    BY <1>7 DEF DetachEquation, S
  <2>2. \A s \in SUBSET S : rest[s] = s \ {Max(s)}
    BY DEF rest
  <2> QED BY <2>1, <2>2, BalanceOperators
<1>9. it[S] \in V
  <2>1. \A s \in SUBSET S : s # {} => /\ rest[s] \subseteq s /\ rest[s] # s
                                      /\ it[rest[s]] \in V => it[s] \in V
    BY <1>3, <1>4, <1>8
  <2> QED BY <1>1, <1>5, <1>8, <2>1, FoldTyped
<1> QED BY <1>9, DetachUnfold DEF S, V, it

-----------------------------------------------------------------------------
(* The invariant.                                                          *)

LbTypes ==
    /\ at \in [LbTasks -> CPUs]
    /\ state \in [LbTasks -> {"queued", "asleep", "migrating", "pushed"}]
    /\ curr \in [CPUs -> LbTasks \cup {None}]
    /\ failed \in [Balance!Domains -> 0 .. cache_nice_tries + 3]
    /\ imbalance \in SUBSET SUBSET CPUs
    /\ push \in [CPUs -> CPUs \cup {-1}]
    /\ lb \in [CPUs -> {Balance!NoLb} \cup Envs]

\* A pass of a CPU moves tasks from another group to its own.
PassOf(c, e) ==
    /\ e.cpu = c /\ Balance!HasDomain(c, e.level)
    /\ e.dst \in Balance!GroupOf(c, e.level)
    /\ e.new_dst \in Balance!GroupOf(c, e.level) \cup {-1}
    /\ e.pc \in {"detach", "attach", "nothing"} => e.src \in CPUs \ Balance!GroupOf(c, e.level)
    /\ e.pc # "attach" => e.tasks = {}
LbPasses == \A c \in CPUs : lb[c].pc # "none" => PassOf(c, lb[c])

\* The tasks on their way are those of the lists, each in one.
LbLists ==
    /\ \A c \in CPUs : lb[c].pc = "attach" =>
          \A t \in lb[c].tasks : state[t] = "migrating" /\ at[t] = lb[c].dst
    /\ \A t \in LbTasks : state[t] = "migrating" =>
          \E c \in CPUs : lb[c].pc = "attach" /\ t \in lb[c].tasks
    /\ \A c, d \in CPUs : lb[c].pc = "attach" /\ lb[d].pc = "attach" /\ c # d
                            => lb[c].tasks \cap lb[d].tasks = {}
LbRuns == \A c \in CPUs : curr[c] # None => curr[c] \in Balance!On(c)
LbPushes == \A c \in CPUs : push[c] # c

LbInv == LbTypes /\ LbPasses /\ LbLists /\ LbRuns /\ Balance!AffinityKept /\ LbPushes

LEMMA LbEnv ==
    ASSUME LbTypes, NEW c \in CPUs
    PROVE  /\ Balance!NoLb.pc = "none"
           /\ lb[c].pc # "none" => lb[c] \in Envs
           /\ lb[c] \in Envs => lb[c].pc \in LbPcs /\ lb[c].pc # "none"
<1>1. Balance!NoLb.pc = "none"
  BY DEF Balance!NoLb
<1>2. \A e \in Envs : e.pc \in LbPcs /\ e.pc # "none"
  BY DEF Envs, LbPcs
<1>3. lb[c] \in {Balance!NoLb} \cup Envs
  BY DEF LbTypes
<1> QED BY <1>1, <1>2, <1>3

LEMMA LbSafe == LbInv => Balance!Inv
<1> SUFFICES ASSUME LbInv PROVE Balance!Inv
  OBVIOUS
<1>1. Balance!TypeOK
  BY DEF LbInv, LbTypes, Balance!TypeOK
<1>2. Balance!OnePlace
  <2>1. ASSUME NEW t \in LbTasks
        PROVE  state[t] = "migrating" <=>
                  \E c \in CPUs : lb[c].pc = "attach" /\ t \in lb[c].tasks /\ at[t] = lb[c].dst
    BY DEF LbInv, LbLists
  <2> QED BY <2>1 DEF LbInv, LbLists, LbRuns, Balance!OnePlace
<1>3. Balance!NeverItself
  <2>1. ASSUME NEW c \in CPUs, lb[c].pc \in {"detach", "attach"} PROVE lb[c].src # lb[c].dst
    <3>1. PassOf(c, lb[c])
      BY <2>1 DEF LbInv, LbPasses
    <3> QED BY <2>1, <3>1 DEF PassOf
  <2> QED BY <2>1 DEF LbInv, LbPushes, Balance!NeverItself
<1> QED BY <1>1, <1>2, <1>3 DEF LbInv, Balance!Inv

LEMMA LbInit == Balance!Init => LbInv
<1> SUFFICES ASSUME Balance!Init PROVE LbInv
  OBVIOUS
<1> USE DEF Balance!Init
<1>1. \A c \in CPUs : Balance!On(c) # {} => (CHOOSE t \in Balance!On(c) : TRUE) \in Balance!On(c)
  OBVIOUS
<1>2. \A c \in CPUs : Balance!On(c) \subseteq LbTasks
  BY DEF Balance!On
<1>3. \A c \in CPUs : lb[c] = Balance!NoLb /\ lb[c].pc = "none"
  BY DEF Balance!NoLb
<1>4. LbTypes
  <2>1. curr \in [CPUs -> LbTasks \cup {None}]
    <3>1. \A c \in CPUs : curr[c] \in LbTasks \cup {None}
      BY <1>1, <1>2
    <3> QED BY <3>1
  <2>2. failed \in [Balance!Domains -> 0 .. cache_nice_tries + 3]
    BY BalanceAssumption
  <2>3. lb \in [CPUs -> {Balance!NoLb} \cup Envs]
    BY <1>3
  <2> QED BY <2>1, <2>2, <2>3 DEF LbTypes
<1>5. LbPasses
  BY <1>3 DEF LbPasses
<1>6. LbLists
  BY <1>3 DEF LbLists
<1>7. LbRuns
  BY <1>1 DEF LbRuns
<1>8. Balance!AffinityKept /\ LbPushes
  BY BalanceFinite DEF Balance!AffinityKept, LbPushes
<1> QED BY <1>4, <1>5, <1>6, <1>7, <1>8 DEF LbInv

\* Lists stay as they are where no task moves and no list changes.
LEMMA LbKept ==
    ASSUME LbInv, NEW c \in CPUs, lb[c].pc # "attach", UNCHANGED <<at, state, curr>>,
           NEW e \in {Balance!NoLb} \cup Envs, e.pc # "attach",
           e.pc # "none" => PassOf(c, e), lb' = [lb EXCEPT ![c] = e],
           failed' \in [Balance!Domains -> 0 .. cache_nice_tries + 3],
           imbalance' \in SUBSET SUBSET CPUs, push' \in [CPUs -> CPUs \cup {-1}], LbPushes'
    PROVE  LbInv'
<1>1. lb' \in [CPUs -> {Balance!NoLb} \cup Envs] /\ \A d \in CPUs : lb'[d] = IF d = c THEN e ELSE lb[d]
  BY DEF LbInv, LbTypes
<1>2. LbPasses'
  <2>1. LbPasses' <=> \A d \in CPUs : lb'[d].pc # "none" => PassOf(d, lb'[d])
    BY Zenon DEF LbPasses, PassOf, Balance!HasDomain, Balance!GroupOf, Balance!Groups,
       Balance!Span, Balance!Spans, Balance!Levels
  <2>2. \A d \in CPUs : lb'[d].pc # "none" => PassOf(d, lb'[d])
    BY <1>1 DEF LbInv, LbPasses
  <2> QED BY <2>1, <2>2
<1>3. LbLists'
  BY <1>1 DEF LbInv, LbLists
<1>4. LbRuns' /\ Balance!AffinityKept'
  BY DEF LbInv, LbRuns, Balance!On, Balance!AffinityKept
<1> QED BY <1>1, <1>2, <1>3, <1>4 DEF LbInv, LbTypes

LEMMA LbView == ASSUME LbInv PROVE Balance!View \in Views
<1>1. \A c \in CPUs : IsFiniteSet(Balance!On(c)) /\ Balance!On(c) \subseteq LbTasks
  BY BalanceFinite, FS_Subset DEF Balance!On
<1>2. \A c \in CPUs : Cardinality(Balance!On(c)) \in Nat /\ SumIn(Load, Balance!On(c)) \in Nat
  <2> TAKE c \in CPUs
  <2>1. IsFiniteSet(Balance!On(c)) /\ \A t \in Balance!On(c) : Load[t] \in Nat
    BY <1>1, BalanceFinite
  <2> QED BY <2>1, FS_CardinalityType, SumBound
<1>3. Balance!View = [nr |-> [c \in CPUs |-> Cardinality(Balance!On(c))],
                      load |-> [c \in CPUs |-> SumIn(Load, Balance!On(c))],
                      imbalance |-> imbalance]
  BY BalanceOperators DEF Balance!View
<1>4. imbalance \in SUBSET SUBSET CPUs
  BY DEF LbInv, LbTypes
<1> QED BY <1>2, <1>3, <1>4 DEF Views

LEMMA LbTries == cache_nice_tries \in Nat /\ 0 \in 0 .. cache_nice_tries + 3
<1>1. cache_nice_tries \in Nat
  BY BalanceAssumption
<1> QED BY <1>1

LEMMA LbCleared ==
    ASSUME LbInv, NEW d
    PROVE  [failed EXCEPT ![d] = 0] \in [Balance!Domains -> 0 .. cache_nice_tries + 3]
<1>1. \A D, R : \A g \in [D -> R] : 0 \in R => [g EXCEPT ![d] = 0] \in [D -> R]
  OBVIOUS
<1>2. failed \in [Balance!Domains -> 0 .. cache_nice_tries + 3]
  BY DEF LbInv, LbTypes
<1> QED BY <1>1, <1>2, LbTries

LEMMA LbDomain ==
    ASSUME NEW c \in CPUs, NEW l, Balance!HasDomain(c, l)
    PROVE  <<c, l>> \in Balance!Domains /\ l \in Balance!Levels
BY DEF Balance!HasDomain, Balance!Domains

LEMMA LbStart ==
    ASSUME LbInv, NEW c \in CPUs, NEW l, NEW idle \in Balance!IdleTypes, Balance!Start(c, l, idle)
    PROVE  LbInv'
<1> DEFINE e == Balance!NewEnv(c, l, idle)
<1>1. /\ lb[c].pc = "none" /\ Balance!HasDomain(c, l) /\ lb' = [lb EXCEPT ![c] = e]
      /\ UNCHANGED <<at, state, curr, failed, imbalance, push>>
  BY DEF Balance!Start
<1>2. l \in Balance!Levels /\ l \in {0} \cup Balance!Levels
  BY <1>1, LbDomain
<1>3. Balance!Span(c, l) \subseteq CPUs
  BY <1>2, BalanceSpan
<1>4. e \in Envs /\ e.pc = "redo"
  BY <1>2, <1>3 DEF Balance!NewEnv, Envs, LbPcs
<1>5. PassOf(c, e)
  <2>1. c \in Balance!GroupOf(c, l)
    BY <1>2, BalanceGroups
  <2>2. /\ e.cpu = c /\ e.level = l /\ e.dst = c /\ e.new_dst = -1 /\ e.pc = "redo" /\ e.tasks = {}
    BY DEF Balance!NewEnv
  <2> HIDE DEF e
  <2> QED BY <1>1, <2>1, <2>2 DEF PassOf
<1> HIDE DEF e
<1>6. /\ failed' \in [Balance!Domains -> 0 .. cache_nice_tries + 3]
      /\ imbalance' \in SUBSET SUBSET CPUs /\ push' \in [CPUs -> CPUs \cup {-1}] /\ LbPushes'
  BY <1>1 DEF LbInv, LbTypes, LbPushes
<1> QED BY <1>1, <1>4, <1>5, <1>6, LbKept

LEMMA LbParent ==
    ASSUME NEW e \in Envs
    PROVE  Balance!HasParent(e) => Balance!Parent(e) \in SUBSET CPUs
<1> SUFFICES ASSUME Balance!HasParent(e) PROVE Balance!Parent(e) \in SUBSET CPUs
  OBVIOUS
<1>1. e.level + 1 \in Balance!Levels /\ e.cpu \in CPUs
  BY DEF Balance!HasParent, Balance!HasDomain, Envs
<1> QED BY <1>1, BalanceGroups DEF Balance!Parent

LEMMA LbRedo == ASSUME LbInv, NEW c \in CPUs, Balance!Redo(c) PROVE LbInv'
<1> DEFINE e == lb[c]
           v == Balance!View
           f == Balance!find_busiest_group(e, v)
           src == Balance!find_busiest_queue(e, v, f.group, f.imbalance)
           x == [e EXCEPT !.pc = IF v.nr[src] > 1 THEN "detach" ELSE "nothing",
                          !.src = src, !.imbalance = f.imbalance,
                          !.all_pinned = e.all_pinned \/ v.nr[src] > 1]
<1>1. e.pc = "redo" /\ UNCHANGED <<at, state, curr, push>>
  BY DEF Balance!Redo
<1>2. e \in Envs /\ PassOf(c, e)
  BY <1>1, LbEnv DEF LbInv, LbPasses
<1>3. push' \in [CPUs -> CPUs \cup {-1}] /\ LbPushes'
  BY <1>1 DEF LbInv, LbTypes, LbPushes
<1>4. CASE ~Balance!should_we_balance(e, v) \/ f.group = {} \/ src = -1
  <2>1. /\ lb' = [lb EXCEPT ![c] = Balance!NoLb]
        /\ failed' = [failed EXCEPT ![Balance!Sd(e)] = 0]
        /\ imbalance' = IF Balance!HasParent(e) THEN imbalance \ {Balance!Parent(e)} ELSE imbalance
    BY <1>4 DEF Balance!Redo
  <2>2. failed' \in [Balance!Domains -> 0 .. cache_nice_tries + 3]
    BY <2>1, LbCleared
  <2>3. imbalance' \in SUBSET SUBSET CPUs
    BY <2>1 DEF LbInv, LbTypes
  <2> HIDE DEF e, v, f, src
  <2>4. Balance!NoLb.pc = "none"
    BY DEF Balance!NoLb
  <2>5. lb[c].pc # "attach"
    BY <1>1 DEF e
  <2> QED BY <1>1, <1>3, <2>1, <2>2, <2>3, <2>4, <2>5, LbKept
<1>5. CASE ~(~Balance!should_we_balance(e, v) \/ f.group = {} \/ src = -1)
  <2>1. lb' = [lb EXCEPT ![c] = x] /\ UNCHANGED <<failed, imbalance>>
    BY <1>5 DEF Balance!Redo
  <2>2. /\ failed' \in [Balance!Domains -> 0 .. cache_nice_tries + 3]
        /\ imbalance' \in SUBSET SUBSET CPUs
    BY <2>1 DEF LbInv, LbTypes
  <2>3. v \in Views
    BY LbView
  <2>4. e.dst \in CPUs /\ e.level \in Balance!Levels /\ e.cpu = c
    BY <1>2 DEF Envs, PassOf
  <2>5. f.imbalance \in Int /\ f.group \subseteq CPUs
        /\ f.group \cap Balance!GroupOf(e.dst, e.level) = {}
    <3> HIDE DEF e, v
    <3> QED BY <1>5, <2>3, <2>4, BalanceFound
  <2>6. src \in f.group
    <3> HIDE DEF e, v, f
    <3> QED BY <1>5, <2>3, <2>5, BalanceQueue
  <2>7. Balance!GroupOf(e.dst, e.level) = Balance!GroupOf(c, e.level)
    <3> HIDE DEF e
    <3> QED BY <1>2, <2>4, BalanceGroups DEF PassOf
  <2> HIDE DEF e, v, f, src
  <2>8. src \in CPUs \ Balance!GroupOf(c, e.level)
    BY <2>5, <2>6, <2>7
  <2>9. x \in Envs /\ x.pc \in {"detach", "nothing"}
    BY <1>2, <2>5, <2>8 DEF Envs, LbPcs
  <2>10. PassOf(c, x)
    <3>1. /\ x.cpu = e.cpu /\ x.level = e.level /\ x.dst = e.dst /\ x.new_dst = e.new_dst
          /\ x.src = src /\ x.tasks = e.tasks
      BY <1>2 DEF Envs
    <3> HIDE DEF x
    <3> QED BY <1>1, <1>2, <2>8, <2>9, <3>1 DEF PassOf
  <2> HIDE DEF x
  <2>11. lb[c].pc # "attach"
    BY <1>1 DEF e
  <2> QED BY <1>1, <1>3, <2>1, <2>2, <2>9, <2>10, <2>11, LbKept
<1> QED BY <1>4, <1>5

LEMMA LbDone == ASSUME LbInv, NEW c \in CPUs, Balance!Done(c) PROVE LbInv'
<1>1. /\ lb[c].pc \in {"moved", "all_pinned"}
      /\ failed' = [failed EXCEPT ![Balance!Sd(lb[c])] = 0]
      /\ lb' = [lb EXCEPT ![c] = Balance!NoLb]
      /\ UNCHANGED <<at, state, curr, imbalance, push>>
  BY DEF Balance!Done
<1>2. failed' \in [Balance!Domains -> 0 .. cache_nice_tries + 3]
  BY <1>1, LbCleared
<1>3. imbalance' \in SUBSET SUBSET CPUs /\ push' \in [CPUs -> CPUs \cup {-1}] /\ LbPushes'
  BY <1>1 DEF LbInv, LbTypes, LbPushes
<1>4. Balance!NoLb.pc = "none"
  BY DEF Balance!NoLb
<1> QED BY <1>1, <1>2, <1>3, <1>4, LbKept

LEMMA LbNothing == ASSUME LbInv, NEW c \in CPUs, Balance!Nothing(c) PROVE LbInv'
<1> DEFINE e == lb[c]
           fails == failed[Balance!Sd(e)] + (IF e.idle = "NEWLY_IDLE" THEN 0 ELSE 1)
<1>1. /\ e.pc = "nothing" /\ lb' = [lb EXCEPT ![c] = Balance!NoLb]
      /\ UNCHANGED <<at, state, curr, imbalance>>
      /\ \/ /\ push' = Balance!Pushed(e.src, e.cpu)
            /\ failed' = [failed EXCEPT ![Balance!Sd(e)] = cache_nice_tries + 1]
         \/ /\ UNCHANGED push
            /\ failed' = [failed EXCEPT ![Balance!Sd(e)] = Balance!Least(fails, cache_nice_tries + 3)]
  BY DEF Balance!Nothing
<1>2. e \in Envs /\ PassOf(c, e)
  BY <1>1, LbEnv DEF LbInv, LbPasses
<1>3. Balance!Sd(e) \in Balance!Domains /\ e.cpu = c
  BY <1>2, LbDomain DEF PassOf, Balance!Sd
<1>4. fails \in Nat
  <2>1. failed[Balance!Sd(e)] \in 0 .. cache_nice_tries + 3
    BY <1>3 DEF LbInv, LbTypes
  <2> HIDE DEF e
  <2> QED BY <2>1
<1>5. Balance!Least(fails, cache_nice_tries + 3) \in 0 .. cache_nice_tries + 3
  <2> HIDE DEF fails
  <2> QED BY <1>4, LbTries DEF Balance!Least
<1>6. failed' \in [Balance!Domains -> 0 .. cache_nice_tries + 3]
  <2> HIDE DEF fails, e
  <2> QED BY <1>1, <1>5, LbTries DEF LbInv, LbTypes
<1>7. e.src \in CPUs /\ e.src # c
  <2>1. e.src \in CPUs \ Balance!GroupOf(c, e.level) /\ e.level \in Balance!Levels
    BY <1>1, <1>2 DEF PassOf, Envs
  <2>2. c \in Balance!GroupOf(c, e.level)
    BY <2>1, BalanceGroups
  <2> QED BY <2>1, <2>2
<1> HIDE DEF e
<1>8. push' \in [CPUs -> CPUs \cup {-1}] /\ LbPushes'
  BY <1>1, <1>3, <1>7 DEF LbInv, LbTypes, LbPushes, Balance!Pushed
<1>9. imbalance' \in SUBSET SUBSET CPUs /\ Balance!NoLb.pc = "none" /\ lb[c].pc # "attach"
  BY <1>1 DEF LbInv, LbTypes, Balance!NoLb, e
<1> QED BY <1>1, <1>6, <1>8, <1>9, LbKept

LEMMA LbPassesNext == LbPasses' <=> \A d \in CPUs : lb'[d].pc # "none" => PassOf(d, lb'[d])
BY Zenon DEF LbPasses, PassOf, Balance!HasDomain, Balance!GroupOf, Balance!Groups,
   Balance!Span, Balance!Spans, Balance!Levels

LEMMA LbDetach == ASSUME LbInv, NEW c \in CPUs, Balance!Detach(c) PROVE LbInv'
<1> DEFINE e == lb[c]
<1>1. e.pc = "detach" /\ UNCHANGED <<curr, failed, imbalance, push>>
  BY DEF Balance!Detach
<1>2. e \in Envs /\ PassOf(c, e)
  BY <1>1, LbEnv DEF LbInv, LbPasses
<1>3. PICK order \in Balance!SetToSeqs(Balance!On(e.src)), hot \in SUBSET CacheHot :
          \E z \in {Balance!detach_tasks(e, order, hot)} :
              /\ lb' = [lb EXCEPT ![c] = [z EXCEPT !.pc = "attach",
                                                   !.moved = z.moved \/ z.tasks # {}]]
              /\ state' = [t \in LbTasks |-> IF t \in z.tasks THEN "migrating" ELSE state[t]]
              /\ at' = [t \in LbTasks |-> IF t \in z.tasks THEN e.dst ELSE at[t]]
  BY Zenon DEF Balance!Detach
<1> DEFINE x == Balance!detach_tasks(e, order, hot)
           y == [x EXCEPT !.pc = "attach", !.moved = x.moved \/ x.tasks # {}]
<1>4. e \in Detached(e)
  <2> HIDE DEF e
  <2> QED BY <1>1, <1>2 DEF Detached, PassOf
<1>5. x \in Detached(e)
  <2> HIDE DEF e
  <2> QED BY <1>2, <1>4, DetachSound
<1>6. /\ lb' = [lb EXCEPT ![c] = y]
      /\ state' = [t \in LbTasks |-> IF t \in x.tasks THEN "migrating" ELSE state[t]]
      /\ at' = [t \in LbTasks |-> IF t \in x.tasks THEN e.dst ELSE at[t]]
  BY <1>3
<1> HIDE DEF x
<1>7. /\ x \in Envs /\ x.cpu = e.cpu /\ x.dst = e.dst /\ x.level = e.level /\ x.src = e.src
      /\ x.new_dst \in Balance!GroupOf(e.cpu, e.level) \cup {-1}
      /\ \A t \in x.tasks : /\ t \in Balance!On(e.src) /\ e.dst \in LbAllowed[t]
                            /\ curr[e.src] # t
  BY <1>5 DEF Detached
<1>8. /\ y \in Envs /\ y.pc = "attach" /\ y.cpu = x.cpu /\ y.dst = x.dst /\ y.level = x.level
      /\ y.src = x.src /\ y.new_dst = x.new_dst /\ y.tasks = x.tasks
  BY <1>7 DEF Envs, LbPcs
<1> HIDE DEF y, e
<1>9. e.dst \in CPUs /\ e.src \in CPUs /\ x.tasks \subseteq LbTasks
  BY <1>1, <1>2, <1>7 DEF Envs, PassOf
<1>10. \A d \in CPUs : lb'[d] = IF d = c THEN y ELSE lb[d]
  BY <1>6 DEF LbInv, LbTypes
<1>11. \A t \in x.tasks : t \in LbTasks /\ state[t] = "queued" /\ at[t] = e.src
  BY <1>7 DEF Balance!On
<1>12. \A t \in LbTasks : /\ state'[t] = IF t \in x.tasks THEN "migrating" ELSE state[t]
                          /\ at'[t] = IF t \in x.tasks THEN e.dst ELSE at[t]
  BY <1>6
<1>13. LbTypes'
  <2>1. lb' \in [CPUs -> {Balance!NoLb} \cup Envs]
    BY <1>6, <1>8 DEF LbInv, LbTypes
  <2>2. at' \in [LbTasks -> CPUs]
    BY <1>6, <1>9 DEF LbInv, LbTypes
  <2>3. state' \in [LbTasks -> {"queued", "asleep", "migrating", "pushed"}]
    BY <1>6 DEF LbInv, LbTypes
  <2>4. failed' \in [Balance!Domains -> 0 .. cache_nice_tries + 3]
    BY <1>1 DEF LbInv, LbTypes
  <2> QED BY <1>1, <2>1, <2>2, <2>3, <2>4 DEF LbInv, LbTypes
<1>14. LbPasses'
  <2>1. PassOf(c, y)
    BY <1>1, <1>2, <1>7, <1>8 DEF PassOf
  <2>2. \A d \in CPUs : lb'[d].pc # "none" => PassOf(d, lb'[d])
    BY <1>10, <2>1 DEF LbInv, LbPasses
  <2> QED BY <2>2, LbPassesNext
<1>15. LbLists'
  <2>0. lb[c].pc # "attach"
    BY <1>1 DEF e
  <2>1. ASSUME NEW d \in CPUs, lb'[d].pc = "attach", NEW t \in lb'[d].tasks
        PROVE  state'[t] = "migrating" /\ at'[t] = lb'[d].dst
    <3>1. CASE d = c
      BY <1>7, <1>8, <1>9, <1>10, <1>12, <2>1, <3>1
    <3>2. CASE d # c
      <4>1. lb[d].pc = "attach" /\ t \in lb[d].tasks /\ lb'[d] = lb[d]
        BY <1>10, <2>1, <3>2
      <4>2. state[t] = "migrating" /\ at[t] = lb[d].dst /\ t \in LbTasks
        <5>1. lb[d].tasks \subseteq LbTasks
          BY <4>1, LbEnv DEF LbInv, Envs
        <5> QED BY <4>1, <5>1 DEF LbInv, LbLists
      <4>3. t \notin x.tasks
        BY <1>11, <4>2
      <4> QED BY <1>12, <4>1, <4>2, <4>3
    <3> QED BY <3>1, <3>2
  <2>2. ASSUME NEW t \in LbTasks, state'[t] = "migrating"
        PROVE  \E d \in CPUs : lb'[d].pc = "attach" /\ t \in lb'[d].tasks
    <3>1. CASE t \in x.tasks
      BY <1>8, <1>10, <3>1
    <3>2. CASE t \notin x.tasks
      <4>1. PICK d \in CPUs : lb[d].pc = "attach" /\ t \in lb[d].tasks
        BY <1>12, <2>2, <3>2 DEF LbInv, LbLists
      <4> QED BY <1>10, <2>0, <4>1
    <3> QED BY <3>1, <3>2
  <2>3. ASSUME NEW d \in CPUs, lb[d].pc = "attach" PROVE x.tasks \cap lb[d].tasks = {}
    BY <1>11, <2>3 DEF LbInv, LbLists
  <2>4. ASSUME NEW d \in CPUs, NEW g \in CPUs, lb'[d].pc = "attach", lb'[g].pc = "attach", d # g
        PROVE  lb'[d].tasks \cap lb'[g].tasks = {}
    <3>1. CASE d # c /\ g # c
      BY <1>10, <2>4, <3>1 DEF LbInv, LbLists
    <3>2. CASE d = c
      BY <1>8, <1>10, <2>3, <2>4, <3>2
    <3>3. CASE g = c
      BY <1>8, <1>10, <2>3, <2>4, <3>3
    <3> QED BY <3>1, <3>2, <3>3
  <2> QED BY <2>1, <2>2, <2>4 DEF LbLists
<1>16. LbRuns'
  <2> SUFFICES ASSUME NEW d \in CPUs, curr[d] # None
               PROVE  curr[d] \in LbTasks /\ state'[curr[d]] = "queued" /\ at'[curr[d]] = d
    BY <1>1 DEF LbRuns, Balance!On
  <2>1. curr[d] \in LbTasks /\ state[curr[d]] = "queued" /\ at[curr[d]] = d
    BY DEF LbInv, LbRuns, Balance!On
  <2>2. curr[d] \notin x.tasks
    BY <1>7, <1>11, <2>1
  <2> QED BY <1>12, <2>1, <2>2
<1>17. Balance!AffinityKept'
  BY <1>7, <1>12 DEF LbInv, Balance!AffinityKept
<1>18. LbPushes'
  BY <1>1 DEF LbInv, LbPushes
<1> QED BY <1>13, <1>14, <1>15, <1>16, <1>17, <1>18 DEF LbInv

LEMMA LbAttached ==
    ASSUME NEW c \in CPUs, NEW e0 \in Envs, PassOf(c, [e0 EXCEPT !.pc = "nothing"]),
           e0.tasks = {}
    PROVE  /\ Balance!Attached(e0) \in Envs /\ Balance!Attached(e0).pc # "attach"
           /\ PassOf(c, Balance!Attached(e0))
<1> DEFINE x == Balance!Attached(e0)
           G == Balance!GroupOf(c, e0.level)
           n == [e0 EXCEPT !.pc = "nothing"]
           cpus == e0.cpus \ {e0.src}
<1>1. /\ e0.cpu = c /\ Balance!HasDomain(c, e0.level) /\ e0.dst \in G
      /\ e0.new_dst \in G \cup {-1} /\ e0.src \in CPUs \ G
  <2>1. /\ n.cpu = e0.cpu /\ n.level = e0.level /\ n.dst = e0.dst /\ n.new_dst = e0.new_dst
        /\ n.src = e0.src /\ n.pc = "nothing"
    BY DEF Envs
  <2> HIDE DEF n
  <2>2. PassOf(c, n)
    BY DEF n
  <2> QED BY <2>1, <2>2 DEF PassOf
<1>2. G \subseteq CPUs
  BY <1>1, BalanceGroups DEF Envs
<1>3. \/ e0.new_dst # -1 /\ x = [e0 EXCEPT !.pc = "detach", !.dst = e0.new_dst, !.new_dst = -1,
                                          !.cpus = e0.cpus \ {e0.dst}]
      \/ x = [e0 EXCEPT !.pc = "all_pinned"]
      \/ x = [e0 EXCEPT !.pc = "redo", !.cpus = cpus]
      \/ x = [e0 EXCEPT !.pc = "moved"]
      \/ x = [e0 EXCEPT !.pc = "nothing"]
  <2>1. CASE e0.new_dst # -1 /\ e0.imbalance > 0
    <3>1. x = Balance!Revisit(e0)
      BY <2>1 DEF Balance!Attached
    <3> QED BY <2>1, <3>1 DEF Balance!Revisit
  <2>2. CASE ~(e0.new_dst # -1 /\ e0.imbalance > 0) /\ e0.all_pinned
    BY <2>2 DEF Balance!Attached
  <2>3. CASE ~(e0.new_dst # -1 /\ e0.imbalance > 0) /\ ~e0.all_pinned
    <3>1. x = [e0 EXCEPT !.pc = IF e0.moved THEN "moved" ELSE "nothing"]
      BY <2>3 DEF Balance!Attached
    <3> QED BY <3>1
  <2> QED BY <2>1, <2>2, <2>3
<1> HIDE DEF x
<1>4. x \in Envs /\ x.pc # "attach"
  <2>1. ASSUME e0.new_dst # -1
        PROVE  [e0 EXCEPT !.pc = "detach", !.dst = e0.new_dst, !.new_dst = -1,
                          !.cpus = e0.cpus \ {e0.dst}] \in Envs
    <3>1. e0.new_dst \in CPUs /\ e0.cpus \ {e0.dst} \in SUBSET CPUs
      BY <1>1, <1>2, <2>1 DEF Envs
    <3> QED BY <3>1 DEF Envs, LbPcs
  <2>2. [e0 EXCEPT !.pc = "redo", !.cpus = cpus] \in Envs
    <3>1. cpus \in SUBSET CPUs
      BY DEF Envs
    <3> HIDE DEF cpus
    <3> QED BY <3>1 DEF Envs, LbPcs
  <2>3. \A p \in LbPcs : [e0 EXCEPT !.pc = p] \in Envs
    BY DEF Envs
  <2>4. {"all_pinned", "moved", "nothing"} \subseteq LbPcs
    BY DEF LbPcs
  <2>5. x \in Envs
    BY <1>3, <2>1, <2>2, <2>3, <2>4
  <2>6. x.pc # "attach"
    BY <1>3 DEF Envs
  <2> QED BY <2>5, <2>6
<1>5. /\ x.cpu = c /\ x.level = e0.level /\ x.src = e0.src /\ x.tasks = {}
      /\ x.dst \in G /\ x.new_dst \in G \cup {-1}
  BY <1>1, <1>3 DEF Envs
<1> HIDE DEF G, n, cpus
<1>6. PassOf(c, x)
  BY <1>1, <1>5 DEF PassOf, G
<1> QED BY <1>4, <1>6 DEF x

LEMMA LbAttach == ASSUME LbInv, NEW c \in CPUs, Balance!Attach(c) PROVE LbInv'
<1> DEFINE e == lb[c]
           e0 == [e EXCEPT !.tasks = {}]
           x == Balance!Attached(e0)
<1>1. /\ e.pc = "attach" /\ UNCHANGED <<at, curr, failed, push>>
      /\ lb' = [lb EXCEPT ![c] = x]
      /\ state' = [t \in LbTasks |-> IF t \in e.tasks THEN "queued" ELSE state[t]]
  BY DEF Balance!Attach
<1>2. e \in Envs /\ PassOf(c, e)
  BY <1>1, LbEnv DEF LbInv, LbPasses
<1>3. x \in Envs /\ x.pc # "attach" /\ PassOf(c, x)
  <2>1. e0 \in Envs /\ e0.tasks = {}
    BY <1>2 DEF Envs
  <2>2. PassOf(c, [e0 EXCEPT !.pc = "nothing"])
    <3> DEFINE n == [e0 EXCEPT !.pc = "nothing"]
    <3>1. /\ n.cpu = e.cpu /\ n.level = e.level /\ n.dst = e.dst /\ n.new_dst = e.new_dst
          /\ n.src = e.src /\ n.pc = "nothing" /\ n.tasks = {}
      BY <1>2 DEF Envs
    <3> HIDE DEF n, e
    <3>2. PassOf(c, n)
      BY <1>1, <1>2, <3>1 DEF PassOf
    <3> QED BY <3>2 DEF n
  <2> HIDE DEF e0
  <2> QED BY <2>1, <2>2, LbAttached
<1>4. imbalance' \in SUBSET SUBSET CPUs
  <2>1. \/ imbalance' = imbalance
        \/ Balance!HasParent(e) /\ imbalance' = imbalance \cup {Balance!Parent(e)}
    BY Zenon DEF Balance!Attach
  <2> QED BY <1>2, <2>1, LbParent DEF LbInv, LbTypes
<1> HIDE DEF e, x
<1>5. \A d \in CPUs : lb'[d] = IF d = c THEN x ELSE lb[d]
  BY <1>1 DEF LbInv, LbTypes
<1>6. \A t \in LbTasks : state'[t] = IF t \in e.tasks THEN "queued" ELSE state[t]
  BY <1>1
<1>7. LbTypes'
  <2>1. lb' \in [CPUs -> {Balance!NoLb} \cup Envs]
    BY <1>1, <1>3 DEF LbInv, LbTypes
  <2>2. state' \in [LbTasks -> {"queued", "asleep", "migrating", "pushed"}]
    BY <1>1 DEF LbInv, LbTypes
  <2>3. failed' \in [Balance!Domains -> 0 .. cache_nice_tries + 3]
    BY <1>1 DEF LbInv, LbTypes
  <2> QED BY <1>1, <1>4, <2>1, <2>2, <2>3 DEF LbInv, LbTypes
<1>8. LbPasses'
  <2>1. \A d \in CPUs : lb'[d].pc # "none" => PassOf(d, lb'[d])
    BY <1>3, <1>5 DEF LbInv, LbPasses
  <2> QED BY <2>1, LbPassesNext
<1>9. LbLists'
  <2>1. ASSUME NEW d \in CPUs, lb'[d].pc = "attach", NEW t \in lb'[d].tasks
        PROVE  state'[t] = "migrating" /\ at'[t] = lb'[d].dst
    <3>1. d # c /\ lb'[d] = lb[d]
      BY <1>3, <1>5, <2>1
    <3>2. t \in LbTasks
      <4>1. lb[d].tasks \subseteq LbTasks
        BY <2>1, <3>1, LbEnv DEF LbInv, Envs
      <4> QED BY <3>1, <4>1
    <3>3. state[t] = "migrating" /\ at[t] = lb[d].dst
      BY <2>1, <3>1 DEF LbInv, LbLists
    <3>4. t \notin e.tasks
      BY <1>1, <2>1, <3>1 DEF LbInv, LbLists, e
    <3> QED BY <1>1, <1>6, <3>1, <3>2, <3>3, <3>4
  <2>2. ASSUME NEW t \in LbTasks, state'[t] = "migrating"
        PROVE  \E d \in CPUs : lb'[d].pc = "attach" /\ t \in lb'[d].tasks
    <3>1. t \notin e.tasks /\ state[t] = "migrating"
      BY <1>6, <2>2
    <3>2. PICK d \in CPUs : lb[d].pc = "attach" /\ t \in lb[d].tasks
      BY <3>1 DEF LbInv, LbLists
    <3>3. d # c
      BY <3>1, <3>2 DEF e
    <3> QED BY <1>5, <3>2, <3>3
  <2>3. ASSUME NEW d \in CPUs, NEW g \in CPUs, lb'[d].pc = "attach", lb'[g].pc = "attach", d # g
        PROVE  lb'[d].tasks \cap lb'[g].tasks = {}
    BY <1>3, <1>5, <2>3 DEF LbInv, LbLists
  <2> QED BY <2>1, <2>2, <2>3 DEF LbLists
<1>10. LbRuns'
  <2> SUFFICES ASSUME NEW d \in CPUs, curr[d] # None
               PROVE  curr[d] \in LbTasks /\ state'[curr[d]] = "queued" /\ at[curr[d]] = d
    BY <1>1 DEF LbRuns, Balance!On
  <2>1. curr[d] \in LbTasks /\ state[curr[d]] = "queued" /\ at[curr[d]] = d
    BY DEF LbInv, LbRuns, Balance!On
  <2> QED BY <1>6, <2>1
<1>11. Balance!AffinityKept' /\ LbPushes'
  BY <1>1 DEF LbInv, LbPushes, Balance!AffinityKept
<1> QED BY <1>7, <1>8, <1>9, <1>10, <1>11 DEF LbInv

\* Steps that leave the passes alone.
LEMMA LbTasksOnly ==
    ASSUME LbInv, UNCHANGED <<imbalance, lb>>,
           at' \in [LbTasks -> CPUs],
           state' \in [LbTasks -> {"queued", "asleep", "migrating", "pushed"}],
           curr' \in [CPUs -> LbTasks \cup {None}],
           failed' \in [Balance!Domains -> 0 .. cache_nice_tries + 3],
           push' \in [CPUs -> CPUs \cup {-1}], LbPushes',
           \A t \in LbTasks : state[t] = "migrating" <=> state'[t] = "migrating",
           \A t \in LbTasks : state[t] = "migrating" => at'[t] = at[t],
           LbRuns', Balance!AffinityKept'
    PROVE  LbInv'
<1>1. LbTypes'
  BY DEF LbInv, LbTypes
<1>2. LbPasses'
  <2>1. \A d \in CPUs : lb'[d].pc # "none" => PassOf(d, lb'[d])
    BY DEF LbInv, LbPasses
  <2> QED BY <2>1, LbPassesNext
<1>3. LbLists'
  <2>1. \A d \in CPUs : lb[d].pc = "attach" => lb[d].tasks \subseteq LbTasks
    <3> TAKE d \in CPUs
    <3> HAVE lb[d].pc = "attach"
    <3>1. lb[d] \in Envs
      BY LbEnv DEF LbInv
    <3> QED BY <3>1 DEF Envs
  <2> QED BY <2>1 DEF LbInv, LbLists
<1> QED BY <1>1, <1>2, <1>3 DEF LbInv

LEMMA LbActiveStop == ASSUME LbInv, NEW c \in CPUs, Balance!ActiveStop(c) PROVE LbInv'
<1> DEFINE target == push[c]
<1>1. target # -1 /\ push' = [push EXCEPT ![c] = -1] /\ UNCHANGED <<imbalance, lb>>
  BY DEF Balance!ActiveStop
<1>2. \/ UNCHANGED <<at, state, curr, failed>>
      \/ \E t \in Balance!On(c) : \E d :
                                   /\ target \in LbAllowed[t]
                                   /\ state' = [state EXCEPT ![t] = "pushed"]
                                   /\ at' = [at EXCEPT ![t] = target]
                                   /\ failed' = [failed EXCEPT ![d] = 0]
                                   /\ curr' = [curr EXCEPT ![c] = IF curr[c] = t THEN None ELSE curr[c]]
  BY DEF Balance!ActiveStop
<1>3. push' \in [CPUs -> CPUs \cup {-1}] /\ LbPushes'
  BY <1>1, BalanceFinite DEF LbInv, LbTypes, LbPushes
<1>4. target \in CPUs
  BY <1>1 DEF LbInv, LbTypes
<1>5. CASE UNCHANGED <<at, state, curr, failed>>
  <2>1. LbRuns' /\ Balance!AffinityKept'
    BY <1>5 DEF LbInv, LbRuns, Balance!On, Balance!AffinityKept
  <2>2. /\ at' \in [LbTasks -> CPUs]
        /\ state' \in [LbTasks -> {"queued", "asleep", "migrating", "pushed"}]
        /\ curr' \in [CPUs -> LbTasks \cup {None}]
        /\ failed' \in [Balance!Domains -> 0 .. cache_nice_tries + 3]
    BY <1>5 DEF LbInv, LbTypes
  <2> QED BY <1>1, <1>3, <1>5, <2>1, <2>2, LbTasksOnly
<1>6. CASE \E t \in Balance!On(c) : \E d :
                                   /\ target \in LbAllowed[t]
                                   /\ state' = [state EXCEPT ![t] = "pushed"]
                                   /\ at' = [at EXCEPT ![t] = target]
                                   /\ failed' = [failed EXCEPT ![d] = 0]
                                   /\ curr' = [curr EXCEPT ![c] = IF curr[c] = t THEN None ELSE curr[c]]
  <2>1. PICK t \in Balance!On(c) : \E d :
                                   /\ target \in LbAllowed[t]
                                   /\ state' = [state EXCEPT ![t] = "pushed"]
                                   /\ at' = [at EXCEPT ![t] = target]
                                   /\ failed' = [failed EXCEPT ![d] = 0]
                                   /\ curr' = [curr EXCEPT ![c] = IF curr[c] = t THEN None ELSE curr[c]]
    BY <1>6
  <2>0. PICK d : failed' = [failed EXCEPT ![d] = 0]
    BY <2>1
  <2>2. t \in LbTasks /\ state[t] = "queued" /\ at[t] = c
    BY DEF Balance!On
  <2> HIDE DEF target
  <2>3. \A u \in LbTasks : /\ state'[u] = IF u = t THEN "pushed" ELSE state[u]
                           /\ at'[u] = IF u = t THEN target ELSE at[u]
    BY <2>1, <2>2 DEF LbInv, LbTypes
  <2>4. \A k \in CPUs : curr'[k] = IF k = c /\ curr[c] = t THEN None ELSE curr[k]
    BY <2>1 DEF LbInv, LbTypes
  <2>5. LbRuns'
    <3> SUFFICES ASSUME NEW k \in CPUs, curr'[k] # None
                 PROVE  curr'[k] \in LbTasks /\ state'[curr'[k]] = "queued" /\ at'[curr'[k]] = k
      BY DEF LbRuns, Balance!On
    <3>1. curr'[k] = curr[k] /\ ~(k = c /\ curr[c] = t)
      BY <2>4
    <3>2. curr[k] \in LbTasks /\ state[curr[k]] = "queued" /\ at[curr[k]] = k
      BY <3>1 DEF LbInv, LbRuns, Balance!On
    <3> QED BY <2>2, <2>3, <3>1, <3>2
  <2>6. Balance!AffinityKept'
    BY <2>1, <2>3 DEF LbInv, Balance!AffinityKept
  <2>7. /\ at \in [LbTasks -> CPUs]
        /\ state \in [LbTasks -> {"queued", "asleep", "migrating", "pushed"}]
        /\ curr \in [CPUs -> LbTasks \cup {None}]
    BY DEF LbInv, LbTypes
  <2>8. at' = [at EXCEPT ![t] = target] /\ state' = [state EXCEPT ![t] = "pushed"]
        /\ curr' = [curr EXCEPT ![c] = IF curr[c] = t THEN None ELSE curr[c]]
    BY <2>1
  <2>9. at' \in [LbTasks -> CPUs]
    BY <1>4, <2>7, <2>8
  <2>10. state' \in [LbTasks -> {"queued", "asleep", "migrating", "pushed"}]
    BY <2>7, <2>8
  <2>11. curr' \in [CPUs -> LbTasks \cup {None}]
    <3>1. (IF curr[c] = t THEN None ELSE curr[c]) \in LbTasks \cup {None}
      BY <2>7
    <3> QED BY <2>7, <2>8, <3>1
  <2>12. failed' \in [Balance!Domains -> 0 .. cache_nice_tries + 3]
    BY <2>0, LbCleared
  <2> QED BY <1>1, <1>3, <2>2, <2>3, <2>5, <2>6, <2>9, <2>10, <2>11, <2>12, LbTasksOnly
<1> QED BY <1>2, <1>5, <1>6

LEMMA LbOthers ==
    ASSUME LbInv,
           \/ \E c \in CPUs : Balance!Pick(c) \/ Balance!Sleep(c)
           \/ \E t \in LbTasks : Balance!AttachOne(t) \/ Balance!Wake(t)
    PROVE  LbInv'
<1>1. /\ at \in [LbTasks -> CPUs]
      /\ state \in [LbTasks -> {"queued", "asleep", "migrating", "pushed"}]
      /\ curr \in [CPUs -> LbTasks \cup {None}]
      /\ failed \in [Balance!Domains -> 0 .. cache_nice_tries + 3]
      /\ push \in [CPUs -> CPUs \cup {-1}] /\ LbPushes /\ Balance!AffinityKept
  BY DEF LbInv, LbTypes
<1>2. \A c \in CPUs : curr[c] # None =>
          curr[c] \in LbTasks /\ state[curr[c]] = "queued" /\ at[curr[c]] = c
  BY DEF LbInv, LbRuns, Balance!On
<1>3. UNCHANGED <<at, failed, push, imbalance, lb>>
  BY DEF Balance!Pick, Balance!Sleep, Balance!AttachOne, Balance!Wake
<1>4. LbPushes' /\ Balance!AffinityKept'
  BY <1>1, <1>3 DEF LbPushes, Balance!AffinityKept
<1>5. ASSUME NEW c \in CPUs, Balance!Pick(c) PROVE LbInv'
  <2>1. PICK t \in Balance!On(c) : curr' = [curr EXCEPT ![c] = t] /\ UNCHANGED state
    BY <1>5 DEF Balance!Pick
  <2>2. t \in LbTasks /\ state[t] = "queued" /\ at[t] = c
    BY DEF Balance!On
  <2>3. LbRuns'
    BY <1>1, <1>2, <1>3, <2>1, <2>2 DEF LbRuns, Balance!On
  <2>4. curr' \in [CPUs -> LbTasks \cup {None}]
    BY <1>1, <2>1, <2>2
  <2> QED BY <1>1, <1>3, <1>4, <2>1, <2>3, <2>4, LbTasksOnly
<1>6. ASSUME NEW c \in CPUs, Balance!Sleep(c) PROVE LbInv'
  <2>1. /\ curr[c] # None /\ state' = [state EXCEPT ![curr[c]] = "asleep"]
        /\ curr' = [curr EXCEPT ![c] = None]
    BY <1>6 DEF Balance!Sleep
  <2>2. LbRuns'
    BY <1>1, <1>2, <1>3, <2>1 DEF LbRuns, Balance!On
  <2>3. /\ curr' \in [CPUs -> LbTasks \cup {None}]
        /\ state' \in [LbTasks -> {"queued", "asleep", "migrating", "pushed"}]
        /\ \A t \in LbTasks : state[t] = "migrating" <=> state'[t] = "migrating"
    BY <1>1, <1>2, <2>1
  <2> QED BY <1>1, <1>3, <1>4, <2>2, <2>3, LbTasksOnly
<1>7. ASSUME NEW t \in LbTasks, Balance!AttachOne(t) \/ Balance!Wake(t) PROVE LbInv'
  <2>1. /\ state[t] \in {"pushed", "asleep"} /\ state' = [state EXCEPT ![t] = "queued"]
        /\ UNCHANGED curr
    BY <1>7 DEF Balance!AttachOne, Balance!Wake
  <2>2. LbRuns'
    BY <1>1, <1>2, <1>3, <2>1 DEF LbRuns, Balance!On
  <2>3. /\ state' \in [LbTasks -> {"queued", "asleep", "migrating", "pushed"}]
        /\ \A u \in LbTasks : state[u] = "migrating" <=> state'[u] = "migrating"
    BY <1>1, <2>1
  <2> QED BY <1>1, <1>3, <1>4, <2>1, <2>2, <2>3, LbTasksOnly
<1> QED BY <1>5, <1>6, <1>7

LEMMA LbStep == LbInv /\ [Balance!Next]_balanceVars => LbInv'
<1> SUFFICES ASSUME LbInv, [Balance!Next]_balanceVars PROVE LbInv'
  OBVIOUS
<1>1. CASE UNCHANGED balanceVars
  <2>1. LbRuns' /\ Balance!AffinityKept' /\ LbPushes'
    BY <1>1 DEF balanceVars, LbInv, LbRuns, LbPushes, Balance!On, Balance!AffinityKept
  <2>2. LbTypes
    BY DEF LbInv
  <2> QED BY <1>1, <2>1, <2>2, LbTasksOnly DEF balanceVars, LbTypes
<1>2. CASE Balance!Next
  BY <1>2, LbStart, LbRedo, LbDetach, LbAttach, LbDone, LbNothing, LbActiveStop, LbOthers
  DEF Balance!Next, Balance!Balance
<1> QED BY <1>1, <1>2

-----------------------------------------------------------------------------
(* The scan period.                                                        *)

\* The window count of the smallest process.
FewestWindows == CHOOSE w \in Windows : \A x \in Windows : w <= x

\* The period, its bound and the counters of faults are numbers.  The period is
\* not below the floor.
PeriodInv ==
    /\ Period!Inv
    /\ windows \in Windows
    /\ numa_scan_period \in Int /\ numa_scan_period >= Floor
    /\ numa_scan_period <= Period!task_scan_max(FewestWindows)
    /\ remote \in Nat /\ local \in Nat /\ notMoved \in Nat
    /\ buf \in [{1, 2} -> Nat]

\* A larger divisor leaves less.
LEMMA DivMonotone ==
    ASSUME NEW a \in Nat, NEW v \in Nat \ {0}, NEW w \in Nat \ {0}, v <= w
    PROVE  a \div w \in Nat /\ a \div v \in Nat /\ a \div w <= a \div v
<1> DEFINE q == a \div v
           r == a \div w
<1>1. q \in Int /\ a = v * q + (a % v) /\ a % v \in 0 .. v - 1
  BY DivMod
<1>2. r \in Int /\ a = w * r + (a % w) /\ a % w \in 0 .. w - 1
  BY DivMod
<1> HIDE DEF q, r
<1>3. q >= 0 /\ r >= 0
  <2>1. q >= 0
    <3> SUFFICES ASSUME q <= -1 PROVE FALSE
      BY <1>1
    <3>1. v * q <= v * (-1)
      BY <1>1
    <3> QED BY <1>1, <3>1
  <2>2. r >= 0
    <3> SUFFICES ASSUME r <= -1 PROVE FALSE
      BY <1>2
    <3>1. w * r <= w * (-1)
      BY <1>2
    <3> QED BY <1>2, <3>1
  <2> QED BY <2>1, <2>2
<1>4. r <= q
  <2> SUFFICES ASSUME q + 1 <= r PROVE FALSE
    BY <1>1, <1>2
  <2>1. v * (q + 1) <= v * r
    BY <1>1, <1>2
  <2>2. v * r <= w * r
    BY <1>2, <1>3
  <2>3. v * (q + 1) = v * q + v
    BY <1>1
  <2> QED BY <1>1, <1>2, <2>1, <2>2, <2>3
<1> QED BY <1>3, <1>4, <1>1, <1>2 DEF q, r

LEMMA Fewest ==
    FewestWindows \in Windows /\ \A x \in Windows : FewestWindows <= x
<1>1. \E w \in Windows : \A x \in Windows : w <= x
  <2>1. Windows \subseteq Nat /\ Windows # {}
    BY PeriodAssumption
  <2> QED BY <2>1, LeastExists
<1> QED BY <1>1 DEF FewestWindows

\* The bounds of a process with w windows lie between the floor and the upper
\* bound of the smallest process.
LEMMA PeriodBounds ==
    ASSUME NEW w \in Windows
    PROVE  /\ Period!task_scan_min(w) \in Int /\ Period!task_scan_max(w) \in Int
           /\ Floor <= Period!task_scan_min(w)
           /\ Period!task_scan_min(w) <= Period!task_scan_max(w)
           /\ Period!task_scan_max(w) <= Period!task_scan_max(FewestWindows)
<1>1. w \in Nat \ {0} /\ FewestWindows \in Nat \ {0} /\ FewestWindows <= w
  BY PeriodAssumption, Fewest
<1>2. /\ scan_period_min \div w \in Nat /\ scan_period_min \div FewestWindows \in Nat
      /\ scan_period_min \div w <= scan_period_min \div FewestWindows
  BY <1>1, PeriodAssumption, DivMonotone
<1>3. /\ scan_period_max \div w \in Nat /\ scan_period_max \div FewestWindows \in Nat
      /\ scan_period_max \div w <= scan_period_max \div FewestWindows
  BY <1>1, PeriodAssumption, DivMonotone
<1> QED BY <1>2, <1>3, PeriodAssumption
        DEF Period!task_scan_min, Period!task_scan_max, Period!Larger

LEMMA NoBuffers ==
    <<0, 0>> \in [{1, 2} -> Nat] /\ <<0, 0>>[1] = 0 /\ <<0, 0>>[2] = 0
<1>1. 1 .. 2 = {1, 2}
  OBVIOUS
<1>2. <<0, 0>> \in [1 .. 2 -> Nat]
  OBVIOUS
<1> QED BY <1>1, <1>2

\* The range of a period, without the interval.
LEMMA PeriodRange ==
    ASSUME NEW n \in Int, n >= Floor, n <= Period!task_scan_max(FewestWindows)
    PROVE  n \in 1 .. Period!task_scan_max(FewestWindows)
<1>1. Period!task_scan_max(FewestWindows) \in Int
  BY Fewest, PeriodBounds
<1> QED BY <1>1, PeriodAssumption

LEMMA PeriodInit == Period!Init => PeriodInv
<1> SUFFICES ASSUME Period!Init PROVE PeriodInv
  OBVIOUS
<1>1. windows \in Windows
  BY DEF Period!Init
<1>2. buf[1] = 0 /\ buf[2] = 0 /\ buf \in [{1, 2} -> Nat]
  BY NoBuffers DEF Period!Init
<1>3. /\ numa_scan_period \in Int /\ numa_scan_period >= Floor
      /\ numa_scan_period <= Period!task_scan_max(FewestWindows)
  <2>1. numa_scan_period = Period!task_scan_min(windows)
    BY DEF Period!Init
  <2>2. Period!task_scan_max(FewestWindows) \in Int /\ Floor \in Int
    BY Fewest, PeriodBounds, PeriodAssumption
  <2> QED BY <1>1, <2>1, <2>2, PeriodBounds
<1>4. Period!PeriodInRange
  BY <1>3, PeriodRange DEF Period!PeriodInRange, FewestWindows
<1>5. Period!NoDivisionByZero
  BY <1>2 DEF Period!Init, Period!NoDivisionByZero
<1> QED BY <1>1, <1>2, <1>3, <1>4, <1>5 DEF Period!Init, PeriodInv, Period!Inv

\* Product and quotient of bounded numbers.
LEMMA ProductBound ==
    ASSUME NEW a \in 0 .. 7, NEW s \in Nat, NEW h \in 0 .. 10
    PROVE  (a * s * h) \div 10 \in Nat /\ (a * s * h) \div 10 <= 7 * s
<1>1. a * s \in Nat /\ a * s <= 7 * s
  OBVIOUS
<1>2. (a * s) * h \in Nat /\ (a * s) * h <= (a * s) * 10
  BY <1>1
<1>3. (a * s) * h <= 10 * (7 * s)
  BY <1>1, <1>2
<1> DEFINE n == (a * s) * h
<1> HIDE DEF n
<1>4. n \in Nat /\ n <= 10 * (7 * s)
  BY <1>2, <1>3 DEF n
<1>5. n \div 10 \in Int /\ n = 10 * (n \div 10) + (n % 10) /\ n % 10 \in 0 .. 9
  BY <1>4, DivMod
<1>6. n \div 10 \in Nat /\ n \div 10 <= 7 * s
  BY <1>4, <1>5
<1> QED BY <1>6 DEF n

\* A tenth of the period, rounded up.
LEMMA Slot ==
    ASSUME NEW p \in Int, p >= 14
    PROVE  /\ Period!DIV_ROUND_UP(p, 10) \in Nat
           /\ 7 * Period!DIV_ROUND_UP(p, 10) <= p
<1>1. Period!DIV_ROUND_UP(p, 10) = (p + 9) \div 10
  BY DEF Period!DIV_ROUND_UP
<1>2. (p + 9) \div 10 \in Int /\ p + 9 = 10 * ((p + 9) \div 10) + ((p + 9) % 10)
      /\ (p + 9) % 10 \in 0 .. 9
  BY DivMod
<1> QED BY <1>1, <1>2

\* A share of ten, rounded down or up.
LEMMA FaultShare ==
    ASSUME NEW a \in Nat, NEW b \in Nat
    PROVE  /\ a + b > 0 => (a * 10) \div (a + b) \in 0 .. 10
           /\ Period!DIV_ROUND_UP(b * 10, a + b + 1) \in 0 .. 10
<1>1. ASSUME a + b > 0 PROVE (a * 10) \div (a + b) \in 0 .. 10
  <2> DEFINE q == (a * 10) \div (a + b)
  <2>1. q \in Int /\ a * 10 = (a + b) * q + ((a * 10) % (a + b)) /\ (a * 10) % (a + b) \in 0 .. (a + b) - 1
    BY <1>1, DivMod
  <2> HIDE DEF q
  <2>2. q >= 0
    <3> SUFFICES ASSUME q <= -1 PROVE FALSE
      BY <2>1
    <3>1. (a + b) * q <= (a + b) * (-1)
      BY <1>1, <2>1
    <3> QED BY <2>1, <3>1
  <2>3. q <= 10
    <3> SUFFICES ASSUME q >= 11 PROVE FALSE
      BY <2>1
    <3>1. (a + b) * q >= (a + b) * 11
      BY <1>1, <2>1
    <3> QED BY <1>1, <2>1, <3>1
  <2> QED BY <2>1, <2>2, <2>3 DEF q
<1>2. Period!DIV_ROUND_UP(b * 10, a + b + 1) \in 0 .. 10
  <2> DEFINE d == a + b + 1
             n == b * 10 + d - 1
             q == n \div d
  <2>0. d \in Nat /\ d > 0 /\ d > b /\ n = b * 10 + d - 1 /\ n \in Nat
    OBVIOUS
  <2> HIDE DEF d, n
  <2>1. q \in Int /\ n = d * q + (n % d) /\ n % d \in 0 .. d - 1
    BY <2>0, DivMod
  <2> HIDE DEF q
  <2>2. q >= 0
    <3> SUFFICES ASSUME q <= -1 PROVE FALSE
      BY <2>1
    <3>1. d * q <= d * (-1)
      BY <2>0, <2>1
    <3> QED BY <2>0, <2>1, <3>1
  <2>3. q <= 10
    <3> SUFFICES ASSUME q >= 11 PROVE FALSE
      BY <2>1
    <3>1. d * q >= d * 11
      BY <2>0, <2>1
    <3> QED BY <2>0, <2>1, <3>1
  <2> QED BY <2>1, <2>2, <2>3 DEF q, n, d, Period!DIV_ROUND_UP
<1> QED BY <1>1, <1>2

\* A task that is not quiet has had faults that are counted.
LEMMA Counted ==
    ASSUME PeriodInv, ~Period!Quiet
    PROVE  local + remote > 0
BY DEF PeriodInv, Period!Inv, Period!NoDivisionByZero, Period!Quiet

\* What the faults change the period by is a number; with mostly remote ones
\* the period becomes no longer, and is not reduced below zero.
LEMMA DiffBounds ==
    ASSUME PeriodInv, ~Period!Quiet
    PROVE  /\ Period!Diff \in Int
           /\ 10 * local < 7 * (local + remote) =>
                  Period!Diff <= 0 /\ numa_scan_period + Period!Diff >= 0
<1> DEFINE slot == Period!DIV_ROUND_UP(numa_scan_period, 10)
           ratio == (local * 10) \div (local + remote)
           sharing == Period!DIV_ROUND_UP(buf[2] * 10, buf[1] + buf[2] + 1)
           less == ((7 - ratio) * slot * sharing) \div 10
<1>1. numa_scan_period \in Int /\ numa_scan_period >= 14 /\ local \in Nat /\ remote \in Nat
      /\ buf[1] \in Nat /\ buf[2] \in Nat /\ local + remote > 0
  BY Counted, PeriodAssumption DEF PeriodInv
<1>2. slot \in Nat /\ 7 * slot <= numa_scan_period
  BY <1>1, Slot
<1>3. ratio \in 0 .. 10
  BY <1>1, FaultShare
<1>4. sharing \in 0 .. 10
  BY <1>1, FaultShare
<1>5. Period!Diff = IF ratio >= 7 THEN Period!Larger(ratio - 7, 1) * slot ELSE -less
  BY DEF Period!Diff, Period!NUMA_PERIOD_SLOTS, Period!NUMA_PERIOD_THRESHOLD
<1>6. 10 * local < 7 * (local + remote) => ratio < 7
  <2> SUFFICES ASSUME 10 * local < 7 * (local + remote), ratio >= 7 PROVE FALSE
    BY <1>3
  <2>1. local * 10 = (local + remote) * ratio + ((local * 10) % (local + remote))
        /\ (local * 10) % (local + remote) >= 0 /\ (local * 10) % (local + remote) \in Int
    BY <1>1, DivMod
  <2>2. (local + remote) * ratio >= (local + remote) * 7
    BY <1>1, <1>3
  <2> QED BY <1>1, <1>3, <2>1, <2>2
<1>7. ratio < 7 => less \in Nat /\ less <= 7 * slot
  <2> SUFFICES ASSUME ratio < 7 PROVE less \in Nat /\ less <= 7 * slot
    OBVIOUS
  <2>1. 7 - ratio \in 0 .. 7
    BY <1>3
  <2> HIDE DEF ratio, slot, sharing
  <2> QED BY <1>2, <1>4, <2>1, ProductBound
<1>8. ratio >= 7 => Period!Larger(ratio - 7, 1) * slot \in Int
  BY <1>2, <1>3 DEF Period!Larger
<1> HIDE DEF ratio, slot, sharing, less
<1> QED BY <1>1, <1>2, <1>3, <1>5, <1>6, <1>7, <1>8

\* The new period of a placement.
LEMMA Updated ==
    ASSUME PeriodInv, Period!Placement
    PROVE  /\ numa_scan_period' \in Int /\ numa_scan_period' >= Floor
           /\ numa_scan_period' <= Period!task_scan_max(FewestWindows)
           /\ ~Period!Quiet /\ 10 * local < 7 * (local + remote) =>
                 numa_scan_period' <= Period!Larger(numa_scan_period, Period!task_scan_min(windows))
<1>1. /\ windows \in Windows /\ numa_scan_period \in Int /\ numa_scan_period >= Floor
      /\ Floor \in Nat
  BY PeriodAssumption DEF PeriodInv
<1>2. CASE Period!Quiet
  <2>1. numa_scan_period' = Period!Smaller(Period!task_scan_max(windows), 2 * numa_scan_period)
    BY <1>2 DEF Period!Placement, Period!update_task_scan_period
  <2>2. /\ Period!task_scan_max(windows) \in Int /\ Floor <= Period!task_scan_max(windows)
        /\ Period!task_scan_max(FewestWindows) \in Int
        /\ Period!task_scan_max(windows) <= Period!task_scan_max(FewestWindows)
    BY <1>1, PeriodBounds, Fewest, PeriodAssumption
  <2> QED BY <1>1, <1>2, <2>1, <2>2 DEF Period!Smaller
<1>3. CASE ~Period!Quiet
  <2>1. numa_scan_period' = Period!Clamp(numa_scan_period + Period!Diff)
    BY <1>3 DEF Period!Placement, Period!update_task_scan_period
  <2>2. numa_scan_period + Period!Diff \in Int
    BY <1>1, <1>3, DiffBounds
  <2>3. 10 * local < 7 * (local + remote) =>
            numa_scan_period + Period!Diff <= numa_scan_period /\ numa_scan_period + Period!Diff >= 0
    BY <1>1, <1>3, DiffBounds
  <2> DEFINE n == numa_scan_period + Period!Diff
  <2> HIDE DEF n
  <2>4. /\ Period!Clamp(n) \in Int /\ Period!Clamp(n) >= Floor
        /\ Period!Clamp(n) <= Period!task_scan_max(FewestWindows)
        /\ 0 <= n /\ n <= numa_scan_period =>
              Period!Clamp(n) <= Period!Larger(numa_scan_period, Period!task_scan_min(windows))
    <3>1. /\ Period!task_scan_max(windows) \in Int /\ Period!task_scan_min(windows) \in Int
          /\ Period!task_scan_max(FewestWindows) \in Int
          /\ Floor <= Period!task_scan_min(windows)
          /\ Period!task_scan_min(windows) <= Period!task_scan_max(windows)
          /\ Period!task_scan_max(windows) <= Period!task_scan_max(FewestWindows)
      BY <1>1, PeriodBounds, Fewest
    <3>2. n \in Int
      BY <2>2 DEF n
    <3> QED BY <1>1, <3>1, <3>2 DEF Period!Clamp, Period!Smaller, Period!Larger
  <2> QED BY <2>1, <2>3, <2>4 DEF n
<1> QED BY <1>2, <1>3

LEMMA PeriodPlacement ==
    ASSUME PeriodInv, Period!Placement
    PROVE  PeriodInv'
<1>1. buf'[1] = 0 /\ buf'[2] = 0 /\ buf' \in [{1, 2} -> Nat]
  BY NoBuffers DEF Period!Placement
<1>2. remote' \in Nat /\ local' \in Nat /\ notMoved' \in Nat /\ windows' = windows
  BY DEF PeriodInv, Period!Placement, Period!update_task_scan_period, Period!Kept
<1>3. Period!PeriodInRange'
  BY Updated, PeriodRange DEF Period!PeriodInRange, FewestWindows
<1>4. Period!NoDivisionByZero'
  <2>1. buf'[1] + buf'[2] = 0
    BY <1>1
  <2>2. local' + remote' >= buf'[1] + buf'[2]
    BY <1>2, <2>1
  <2> QED BY <2>2 DEF Period!NoDivisionByZero
<1> QED BY <1>1, <1>2, <1>3, <1>4, Updated DEF PeriodInv, Period!Inv

LEMMA PeriodFault ==
    ASSUME PeriodInv, NEW isLocal \in BOOLEAN, NEW fail \in BOOLEAN, NEW priv \in {1, 2},
           Period!Fault(isLocal, priv, fail)
    PROVE  PeriodInv'
<1>1. /\ remote' \in Nat /\ local' \in Nat /\ notMoved' \in Nat
      /\ local' + remote' = local + remote + 1
      /\ UNCHANGED <<windows, numa_scan_period>>
  BY DEF PeriodInv, Period!Fault
<1>2. buf' = [buf EXCEPT ![priv] = buf[priv] + 1]
  BY DEF Period!Fault
<1>3. buf' \in [{1, 2} -> Nat] /\ buf'[1] + buf'[2] = buf[1] + buf[2] + 1
  BY <1>2 DEF PeriodInv
<1>4. Period!Inv'
  <2>1. local + remote >= buf[1] + buf[2] /\ buf[1] + buf[2] \in Int /\ local + remote \in Int
    BY DEF PeriodInv, Period!Inv, Period!NoDivisionByZero
  <2>2. local' + remote' >= buf'[1] + buf'[2]
    BY <1>1, <1>3, <2>1
  <2>3. Period!PeriodInRange'
    BY <1>1 DEF PeriodInv, Period!Inv, Period!PeriodInRange
  <2> QED BY <2>2, <2>3 DEF Period!Inv, Period!NoDivisionByZero
<1> QED BY <1>1, <1>3, <1>4 DEF PeriodInv

LEMMA PeriodStep == PeriodInv /\ [Period!Next]_periodVars => PeriodInv'
<1> SUFFICES ASSUME PeriodInv, [Period!Next]_periodVars PROVE PeriodInv'
  OBVIOUS
<1>1. CASE Period!Placement
  BY <1>1, PeriodPlacement
<1>2. CASE Period!Migrated
  <2>1. windows \in Windows /\ numa_scan_period' = Period!task_scan_min(windows)
        /\ UNCHANGED <<windows, numa_scan_period_max, remote, local, notMoved, buf, stale>>
    BY <1>2 DEF PeriodInv, Period!Migrated
  <2>2. Period!task_scan_max(FewestWindows) \in Int /\ Floor \in Int
    BY Fewest, PeriodBounds, PeriodAssumption
  <2>3. /\ numa_scan_period' \in Int /\ numa_scan_period' >= Floor
        /\ numa_scan_period' <= Period!task_scan_max(FewestWindows)
    BY <2>1, <2>2, PeriodBounds
  <2>4. Period!PeriodInRange'
    BY <2>3, PeriodRange DEF Period!PeriodInRange, FewestWindows
  <2>5. Period!NoDivisionByZero'
    BY <2>1 DEF PeriodInv, Period!Inv, Period!NoDivisionByZero
  <2> QED BY <2>1, <2>3, <2>4, <2>5 DEF PeriodInv, Period!Inv
<1>3. CASE Period!NewSeq \/ Period!Resize \/ UNCHANGED periodVars
  BY <1>3 DEF PeriodInv, Period!Inv, Period!NoDivisionByZero, Period!PeriodInRange,
     Period!NewSeq, Period!Resize, periodVars
<1>4. ASSUME NEW isLocal \in BOOLEAN, NEW fail \in BOOLEAN, NEW priv \in {1, 2},
             Period!Fault(isLocal, priv, fail)
      PROVE  PeriodInv'
  BY <1>4, PeriodFault
<1> QED BY <1>1, <1>2, <1>3, <1>4 DEF Period!Next

-----------------------------------------------------------------------------
(* The scanner.                                                            *)

VmaCount == Len(Vmas)
LastPage == Scan!Last

\* The work of a task: none, a try for the turn, a start, or a walk over VMAs.
Works ==
    [pc : {"none"}] \cup [pc : {"try"}, won : BOOLEAN] \cup [pc : {"lock"}, start : 0 .. LastPage]
    \cup [pc : {"scan", "out"}, start : 0 .. LastPage, vma : 1 .. VmaCount + 1,
          pages : Int, virtpages : Int]

ScanInv == Scan!Inv /\ work \in [ScanTasks -> Works]

\* A walk goes on where there is a budget left, before the end of its VMA.
WindowOf(w) ==
    w.pc = "scan" =>
        /\ w.pages \in 1 .. scan_size /\ w.virtpages > 0
        /\ w.vma <= VmaCount => w.start < Vmas[w.vma].end

LEMMA Windowed ==
    Scan!WindowSound <=> \A t \in ScanTasks : WindowOf(work[t])
BY DEF Scan!WindowSound, WindowOf, VmaCount

\* VMAs end where the last one ends, or before.
LEMMA VmaBounds ==
    /\ VmaCount \in Nat /\ VmaCount >= 1 /\ LastPage \in Nat
    /\ \A i \in 1 .. VmaCount :
          /\ Vmas[i] \in [start : Nat, end : Nat, migratable : BOOLEAN]
          /\ Vmas[i].start \in Nat /\ Vmas[i].end \in Nat
          /\ Vmas[i].start < Vmas[i].end /\ Vmas[i].end <= LastPage
          /\ i + 1 <= VmaCount => Vmas[i].end < Vmas[i + 1].end
<1>0. Vmas \in Seq([start : Nat, end : Nat, migratable : BOOLEAN])
  BY ScanAssumption
<1>1. VmaCount \in Nat /\ VmaCount >= 1
  BY ScanAssumption DEF VmaCount
<1>2. \A i \in 1 .. VmaCount :
          /\ Vmas[i] \in [start : Nat, end : Nat, migratable : BOOLEAN]
          /\ Vmas[i].start \in Nat /\ Vmas[i].end \in Nat /\ Vmas[i].start < Vmas[i].end
  <2> TAKE i \in 1 .. VmaCount
  <2>1. Vmas[i] \in [start : Nat, end : Nat, migratable : BOOLEAN]
    <3>1. i \in 1 .. Len(Vmas)
      BY DEF VmaCount
    <3> HIDE DEF VmaCount
    <3>2. \A R : Vmas \in Seq(R) => Vmas[i] \in R
      BY <3>1
    <3> QED BY <1>0, <3>2
  <2>2. Vmas[i].start < Vmas[i].end
    BY ScanAssumption DEF VmaCount
  <2> QED BY <2>1, <2>2
<1>3. LastPage = Vmas[VmaCount].end
  BY DEF LastPage, VmaCount, Scan!Last
<1>4. \A i, j \in 1 .. VmaCount : i < j => Vmas[i].end < Vmas[j].end
  <2> TAKE i, j \in 1 .. VmaCount
  <2>1. i < j => Vmas[i].end <= Vmas[j].start
    BY ScanAssumption DEF VmaCount
  <2> QED BY <1>2, <2>1
<1>5. VmaCount \in 1 .. VmaCount
  BY <1>1
<1>6. \A i \in 1 .. VmaCount : Vmas[i].end <= LastPage
  <2> TAKE i \in 1 .. VmaCount
  <2>1. CASE i = VmaCount
    BY <1>2, <1>3, <1>5, <2>1
  <2>2. CASE i < VmaCount
    BY <1>2, <1>3, <1>4, <1>5, <2>2
  <2> QED BY <1>1, <2>1, <2>2
<1>7. \A i \in 1 .. VmaCount : i + 1 <= VmaCount => Vmas[i].end < Vmas[i + 1].end
  <2> TAKE i \in 1 .. VmaCount
  <2> QED BY <1>1, <1>4
<1> QED BY <1>1, <1>2, <1>3, <1>5, <1>6, <1>7

\* The VMA that is found ends after the address.
LEMMA FindVma ==
    ASSUME NEW a \in Nat
    PROVE  /\ Scan!find_vma(a) \in 1 .. VmaCount + 1
           /\ Scan!find_vma(a) <= VmaCount => a < Vmas[Scan!find_vma(a)].end
<1> DEFINE S == {i \in 1 .. VmaCount : Vmas[i].end > a} \cup {VmaCount + 1}
<1>1. S \subseteq Nat /\ S # {} /\ VmaCount \in Nat
  BY VmaBounds
<1>2. Scan!find_vma(a) = Min(S)
  <2>1. DOMAIN Vmas = 1 .. VmaCount
    BY ScanAssumption DEF VmaCount
  <2> QED BY <2>1 DEF Scan!find_vma, Scan!Min, Min, VmaCount
<1>3. Min(S) \in S
  BY <1>1, MinOf
<1>4. \A i \in S : i \in 1 .. VmaCount + 1 /\ (i <= VmaCount => a < Vmas[i].end)
  BY <1>1, VmaBounds
<1> QED BY <1>2, <1>3, <1>4

\* A page number is rounded up.
LEMMA Aligned ==
    ASSUME NEW a \in Nat
    PROVE  Scan!Align(a) \in Nat /\ Scan!Align(a) >= a
<1> DEFINE n == a + HPAGE - 1
           q == n \div HPAGE
<1>1. HPAGE \in Nat /\ HPAGE > 0 /\ n \in Int /\ n = a + HPAGE - 1
  BY ScanAssumption
<1> HIDE DEF n
<1>2. q \in Int /\ n = HPAGE * q + (n % HPAGE) /\ n % HPAGE \in 0 .. HPAGE - 1
  BY <1>1, DivMod
<1> HIDE DEF q
<1>3. HPAGE * q \in Int /\ HPAGE * q >= a
  BY <1>1, <1>2
<1> QED BY <1>3 DEF n, q, Scan!Align

LEMMA ScanInit == Scan!Init => ScanInv
<1> SUFFICES ASSUME Scan!Init PROVE ScanInv
  OBVIOUS
<1>1. work \in [ScanTasks -> Works] /\ \A t \in ScanTasks : work[t].pc = "none"
  BY DEF Scan!Init, Scan!NoWork, Works
<1>2. Scan!WindowSound
  BY <1>1, Windowed DEF WindowOf
<1>3. Scan!TypeOK
  <2>1. 0 \in 0 .. LastPage
    BY VmaBounds
  <2> QED BY <2>1 DEF Scan!Init, Scan!TypeOK, LastPage
<1> QED BY <1>1, <1>2, <1>3 DEF ScanInv, Scan!Inv

\* What a step does to one task's work.
LEMMA ScanWork ==
    ASSUME ScanInv, NEW t \in ScanTasks, NEW w, w \in Works, WindowOf(w),
           work' = [work EXCEPT ![t] = w]
    PROVE  (work \in [ScanTasks -> Works])' /\ Scan!WindowSound'
<1>1. work' \in [ScanTasks -> Works]
  BY DEF ScanInv
<1>2. \A u \in ScanTasks : WindowOf(work[u])
  BY Windowed DEF ScanInv, Scan!Inv
<1>3. \A u \in ScanTasks : work'[u] = IF u = t THEN w ELSE work[u]
  BY DEF ScanInv
<1>4. \A u \in ScanTasks : WindowOf(work'[u])
  <2> TAKE u \in ScanTasks
  <2> QED BY <1>2, <1>3
<1> QED BY <1>1, <1>4 DEF Scan!WindowSound, WindowOf, VmaCount

LEMMA NoWindow ==
    Scan!NoWork \in Works /\ WindowOf(Scan!NoWork)
BY DEF Scan!NoWork, Works, WindowOf

\* Another task wins the turn.
LEMMA LostWork ==
    ASSUME ScanInv, NEW u \in ScanTasks
    PROVE  Scan!Lost(u) \in Works /\ WindowOf(Scan!Lost(u))
<1>1. work[u] \in Works /\ WindowOf(work[u])
  BY Windowed DEF ScanInv, Scan!Inv
<1>2. CASE work[u].pc = "try"
  <2>1. work[u] \in [pc : {"try"}, won : BOOLEAN]
    BY <1>1, <1>2 DEF Works
  <2>2. [work[u] EXCEPT !.won = FALSE] \in [pc : {"try"}, won : BOOLEAN]
    BY <2>1
  <2>3. [work[u] EXCEPT !.won = FALSE] \in Works /\ [work[u] EXCEPT !.won = FALSE].pc = "try"
    BY <2>2 DEF Works
  <2> QED BY <1>2, <2>3 DEF Scan!Lost, WindowOf
<1>3. CASE work[u].pc # "try"
  BY <1>1, <1>3 DEF Scan!Lost
<1> QED BY <1>2, <1>3

\* What the steps that only change the work of a task do to the rest.
LEMMA ScanRest ==
    ASSUME ScanInv, (work \in [ScanTasks -> Works])', Scan!WindowSound',
           due' \in BOOLEAN, numa_scan_seq' \in {0, 1}, numa_scan_offset' \in 0 .. LastPage,
           marked' \subseteq Scan!Pages, placed' \subseteq ScanTasks, queued' \subseteq ScanTasks
    PROVE  ScanInv'
BY DEF ScanInv, Scan!Inv, Scan!TypeOK, LastPage

LEMMA ScanTypes ==
    ASSUME ScanInv
    PROVE  /\ due \in BOOLEAN /\ numa_scan_seq \in {0, 1} /\ numa_scan_offset \in 0 .. LastPage
           /\ marked \subseteq Scan!Pages /\ placed \subseteq ScanTasks
           /\ queued \subseteq ScanTasks
BY DEF ScanInv, Scan!Inv, Scan!TypeOK, LastPage

\* Steps that leave the work of every task alone.
LEMMA ScanSame ==
    ASSUME ScanInv, work' = work
    PROVE  (work \in [ScanTasks -> Works])' /\ Scan!WindowSound'
BY DEF ScanInv, Scan!Inv, Scan!WindowSound

LEMMA ScanTick ==
    ASSUME ScanInv, NEW t \in ScanTasks, Scan!task_tick_numa(t)
    PROVE  ScanInv'
<1>1. /\ work' = work /\ due' \in BOOLEAN /\ queued' \subseteq ScanTasks
      /\ UNCHANGED <<numa_scan_offset, numa_scan_seq, placed, marked>>
  BY ScanTypes DEF Scan!task_tick_numa
<1> QED BY <1>1, ScanSame, ScanTypes, ScanRest

LEMMA ScanBegin ==
    ASSUME ScanInv, NEW t \in ScanTasks, Scan!Work(t)
    PROVE  ScanInv'
<1>1. /\ queued' \subseteq ScanTasks
      /\ UNCHANGED <<due, numa_scan_offset, numa_scan_seq, placed, marked>>
  BY ScanTypes DEF Scan!Work
<1>2. (work \in [ScanTasks -> Works])' /\ Scan!WindowSound'
  <2>1. CASE due
    <3>1. [pc |-> "try", won |-> TRUE] \in Works /\ WindowOf([pc |-> "try", won |-> TRUE])
      BY DEF Works, WindowOf
    <3>2. work' = [work EXCEPT ![t] = [pc |-> "try", won |-> TRUE]]
      BY <2>1 DEF Scan!Work
    <3> QED BY <3>1, <3>2, ScanWork
  <2>2. CASE ~due
    BY <2>2, ScanSame DEF Scan!Work
  <2> QED BY <2>1, <2>2
<1> QED BY <1>1, <1>2, ScanTypes, ScanRest

\* All the work changes at once.
LEMMA ScanAll ==
    ASSUME NEW w, \A u \in ScanTasks : w[u] \in Works /\ WindowOf(w[u]),
           work' = [u \in ScanTasks |-> w[u]]
    PROVE  (work \in [ScanTasks -> Works])' /\ Scan!WindowSound'
<1>1. work' \in [ScanTasks -> Works]
  OBVIOUS
<1>2. \A u \in ScanTasks : WindowOf(work'[u])
  OBVIOUS
<1> QED BY <1>1, <1>2 DEF Scan!WindowSound, WindowOf, VmaCount

LEMMA ScanTry ==
    ASSUME ScanInv, NEW t \in ScanTasks, Scan!Try(t)
    PROVE  ScanInv'
<1>1. /\ due' \in BOOLEAN
      /\ UNCHANGED <<queued, numa_scan_offset, numa_scan_seq, placed, marked>>
  BY ScanTypes DEF Scan!Try
<1>2. (work \in [ScanTasks -> Works])' /\ Scan!WindowSound'
  <2>1. CASE work[t].won
    <3> DEFINE l == [pc |-> "lock", start |-> numa_scan_offset]
               w == [u \in ScanTasks |-> IF u = t THEN l ELSE Scan!Lost(u)]
    <3>1. l \in Works /\ WindowOf(l)
      BY ScanTypes DEF Works, WindowOf
    <3>2. work' = w
      BY <2>1 DEF Scan!Try
    <3>3. \A u \in ScanTasks : w[u] = IF u = t THEN l ELSE Scan!Lost(u)
      OBVIOUS
    <3>4. w = [u \in ScanTasks |-> w[u]]
      OBVIOUS
    <3> HIDE DEF l, w
    <3>5. \A u \in ScanTasks : w[u] \in Works /\ WindowOf(w[u])
      BY <3>1, <3>3, LostWork
    <3> QED BY <3>2, <3>4, <3>5, ScanAll
  <2>2. CASE ~work[t].won
    BY <2>2, NoWindow, ScanWork DEF Scan!Try
  <2> QED BY <2>1, <2>2
<1> QED BY <1>1, <1>2, ScanTypes, ScanRest

\* A pass ends: the sequence number changes, the scan begins again.
LEMMA ScanReset ==
    ASSUME ScanInv, Scan!reset_ptenuma_scan
    PROVE  /\ numa_scan_seq' \in {0, 1} /\ numa_scan_offset' \in 0 .. LastPage
           /\ placed' \subseteq ScanTasks
<1>1. 0 \in 0 .. LastPage
  BY VmaBounds
<1> QED BY <1>1, ScanTypes DEF Scan!reset_ptenuma_scan

\* The work as a walk begins.
LEMMA ScanFrom ==
    ASSUME NEW s \in 0 .. LastPage, NEW v \in 1 .. VmaCount + 1,
           v <= VmaCount => s < Vmas[v].end
    PROVE  LET w == [pc |-> "scan", start |-> s, vma |-> v,
                     pages |-> scan_size, virtpages |-> 8 * scan_size]
           IN  w \in Works /\ WindowOf(w)
<1>1. scan_size \in 1 .. scan_size /\ 8 * scan_size \in Int /\ 8 * scan_size > 0
      /\ scan_size \in Int
  BY ScanAssumption
<1> QED BY <1>1 DEF Works, WindowOf

LEMMA ScanLock ==
    ASSUME ScanInv, NEW t \in ScanTasks, Scan!Lock(t)
    PROVE  ScanInv'
<1> DEFINE s == work[t].start
           i == Scan!find_vma(s)
           scan(a, v) == [pc |-> "scan", start |-> a, vma |-> v,
                          pages |-> scan_size, virtpages |-> 8 * scan_size]
<1>1. s \in 0 .. LastPage /\ s \in Nat
  <2>1. work[t] \in Works /\ work[t].pc = "lock"
    BY DEF ScanInv, Scan!Lock
  <2>2. s \in 0 .. LastPage
    BY <2>1 DEF Works
  <2> QED BY <2>2, VmaBounds
<1>2. i \in 1 .. VmaCount + 1 /\ (i <= VmaCount => s < Vmas[i].end)
  BY <1>1, FindVma
<1>3. UNCHANGED <<due, marked, queued>>
  BY DEF Scan!Lock
<1>4. CASE i <= VmaCount
  <2>1. work' = [work EXCEPT ![t] = scan(s, i)]
        /\ UNCHANGED <<numa_scan_offset, numa_scan_seq, placed>>
    BY <1>4 DEF Scan!Lock, VmaCount
  <2>2. scan(s, i) \in Works /\ WindowOf(scan(s, i))
    BY <1>1, <1>2, ScanFrom
  <2> HIDE DEF scan
  <2>3. (work \in [ScanTasks -> Works])' /\ Scan!WindowSound'
    BY <2>1, <2>2, ScanWork
  <2> QED BY <1>3, <2>1, <2>3, ScanTypes, ScanRest
<1>5. CASE ~(i <= VmaCount)
  <2>1. work' = [work EXCEPT ![t] = scan(0, 1)] /\ Scan!reset_ptenuma_scan
    BY <1>5 DEF Scan!Lock, VmaCount
  <2>2. 0 \in 0 .. LastPage /\ 1 \in 1 .. VmaCount + 1 /\ 0 < Vmas[1].end
    <3>1. 1 \in 1 .. VmaCount
      BY VmaBounds
    <3> QED BY <3>1, VmaBounds
  <2>3. scan(0, 1) \in Works /\ WindowOf(scan(0, 1))
    BY <2>2, ScanFrom
  <2> HIDE DEF scan
  <2>4. (work \in [ScanTasks -> Works])' /\ Scan!WindowSound'
    BY <2>1, <2>3, ScanWork
  <2> QED BY <1>3, <2>1, <2>4, ScanReset, ScanTypes, ScanRest
<1> QED BY <1>4, <1>5

LEMMA ScanLocked ==
    ASSUME ScanInv, NEW t \in ScanTasks, Scan!Locked(t)
    PROVE  ScanInv'
<1>1. (work \in [ScanTasks -> Works])' /\ Scan!WindowSound'
  BY NoWindow, ScanWork DEF Scan!Locked
<1> QED BY <1>1, ScanTypes, ScanRest DEF Scan!Locked

\* The walk of a task, as a record.
LEMMA Walk ==
    ASSUME ScanInv, NEW t \in ScanTasks, work[t].pc \in {"scan", "out"}
    PROVE  /\ work[t] \in [pc : {"scan", "out"}, start : 0 .. LastPage, vma : 1 .. VmaCount + 1,
                           pages : Int, virtpages : Int]
           /\ WindowOf(work[t])
<1>1. work[t] \in Works /\ WindowOf(work[t])
  BY Windowed DEF ScanInv, Scan!Inv
<1> QED BY <1>1 DEF Works

LEMMA ScanSkip ==
    ASSUME ScanInv, NEW t \in ScanTasks, Scan!Skip(t)
    PROVE  ScanInv'
<1> DEFINE w == work[t]
<1>1. /\ w \in [pc : {"scan", "out"}, start : 0 .. LastPage, vma : 1 .. VmaCount + 1,
                pages : Int, virtpages : Int]
      /\ WindowOf(w) /\ w.pc = "scan"
  BY Walk DEF Scan!Skip
<1> DEFINE x == IF w.vma > VmaCount THEN [w EXCEPT !.pc = "out"]
                ELSE [w EXCEPT !.vma = w.vma + 1]
<1>2. work' = [work EXCEPT ![t] = x]
  BY DEF Scan!Skip, VmaCount
<1>3. x \in Works /\ WindowOf(x)
  <2>1. CASE w.vma > VmaCount
    BY <1>1, <2>1 DEF Works, WindowOf
  <2>2. CASE ~(w.vma > VmaCount)
    <3>1. w.vma \in 1 .. VmaCount /\ w.vma + 1 \in 1 .. VmaCount + 1
      BY <1>1, <2>2, VmaBounds
    <3>2. x = [w EXCEPT !.vma = w.vma + 1]
      BY <2>2
    <3>3. /\ x.pc = "scan" /\ x.pages = w.pages /\ x.virtpages = w.virtpages
          /\ x.start = w.start /\ x.vma = w.vma + 1
          /\ x \in [pc : {"scan", "out"}, start : 0 .. LastPage, vma : 1 .. VmaCount + 1,
                    pages : Int, virtpages : Int]
      BY <1>1, <3>1, <3>2
    <3>4. w.vma + 1 <= VmaCount => w.start < Vmas[w.vma + 1].end
      <4>1. w.vma + 1 <= VmaCount => w.vma + 1 \in 1 .. VmaCount
        BY <3>1
      <4>2. w.start < Vmas[w.vma].end
        BY <1>1, <2>2, <3>1, VmaBounds DEF WindowOf
      <4>3. w.start \in Int
        BY <1>1
      <4> QED BY <3>1, <4>1, <4>2, <4>3, VmaBounds
    <3> QED BY <1>1, <3>3, <3>4 DEF Works, WindowOf
  <2> QED BY <2>1, <2>2
<1> HIDE DEF x
<1>4. (work \in [ScanTasks -> Works])' /\ Scan!WindowSound'
  BY <1>2, <1>3, ScanWork
<1> QED BY <1>4, ScanTypes, ScanRest DEF Scan!Skip

LEMMA ScanOut ==
    ASSUME ScanInv, NEW t \in ScanTasks, Scan!Out(t)
    PROVE  ScanInv'
<1>1. work[t].start \in 0 .. LastPage
  BY Walk DEF Scan!Out
<1>2. (work \in [ScanTasks -> Works])' /\ Scan!WindowSound'
  BY NoWindow, ScanWork DEF Scan!Out
<1>3. /\ numa_scan_seq' \in {0, 1} /\ numa_scan_offset' \in 0 .. LastPage
      /\ placed' \subseteq ScanTasks
  <2>1. CASE work[t].vma <= VmaCount
    BY <1>1, <2>1, ScanTypes DEF Scan!Out, VmaCount
  <2>2. CASE ~(work[t].vma <= VmaCount)
    BY <2>2, ScanReset DEF Scan!Out, VmaCount
  <2> QED BY <2>1, <2>2
<1> QED BY <1>2, <1>3, ScanTypes, ScanRest DEF Scan!Out

\* A window: it lies in its VMA, and the walk goes on behind it.
LEMMA ScanChunk ==
    ASSUME ScanInv, NEW t \in ScanTasks, Scan!Chunk(t)
    PROVE  ScanInv'
<1> DEFINE w == work[t]
           v == Vmas[w.vma]
           s == Scan!Larger(w.start, v.start)
           e == Scan!Smaller(Scan!Align(s + w.pages), v.end)
           left == IF (s .. e - 1) \subseteq marked THEN w.pages ELSE w.pages - (e - s)
           virt == w.virtpages - (e - s)
           stop == left <= 0 \/ virt <= 0
           x == [w EXCEPT !.pc = IF stop THEN "out" ELSE "scan", !.start = e,
                          !.pages = left, !.virtpages = virt,
                          !.vma = IF e = v.end /\ ~stop THEN w.vma + 1 ELSE w.vma]
<1>1. /\ w \in [pc : {"scan", "out"}, start : 0 .. LastPage, vma : 1 .. VmaCount + 1,
                pages : Int, virtpages : Int]
      /\ WindowOf(w) /\ w.pc = "scan" /\ w.vma <= VmaCount /\ v.migratable
  BY Walk DEF Scan!Chunk, VmaCount
<1>2. w.vma \in 1 .. VmaCount /\ w.start \in Nat
  BY <1>1, VmaBounds
<1>3. /\ v.start \in Nat /\ v.end \in Nat /\ v.start < v.end /\ v.end <= LastPage
      /\ w.vma + 1 <= VmaCount => v.end < Vmas[w.vma + 1].end
  BY <1>2, VmaBounds
<1>4. w.pages \in 1 .. scan_size /\ w.start < v.end /\ scan_size \in Nat
  BY <1>1, ScanAssumption DEF WindowOf
<1>5. s \in Nat /\ s < v.end /\ v.start <= s
  BY <1>2, <1>3, <1>4 DEF Scan!Larger
<1>6. Scan!Align(s + w.pages) \in Nat /\ Scan!Align(s + w.pages) >= s + w.pages
  BY <1>4, <1>5, Aligned
<1>7. e \in Nat /\ s < e /\ e <= v.end
  BY <1>3, <1>4, <1>5, <1>6 DEF Scan!Smaller
<1>8. work' = [work EXCEPT ![t] = x] /\ marked' = marked \cup (s .. e - 1)
      /\ UNCHANGED <<due, numa_scan_offset, numa_scan_seq, placed, queued>>
  BY DEF Scan!Chunk
<1>9. s .. e - 1 \subseteq Scan!Pages
  <2>1. s .. e - 1 \subseteq v.start .. v.end - 1
    BY <1>3, <1>5, <1>7
  <2>2. w.vma \in {j \in DOMAIN Vmas : Vmas[j].migratable}
    BY <1>1, <1>2, ScanAssumption DEF VmaCount
  <2> QED BY <2>1, <2>2 DEF Scan!Pages
<1>10. left \in Int /\ virt \in Int /\ left <= scan_size
  BY <1>1, <1>4, <1>5, <1>7
<1> DEFINE stp == stop
<1>11. stp \in BOOLEAN /\ (~stp => left >= 1 /\ virt > 0)
  BY <1>10
<1> HIDE DEF s, e, left, virt, stop
<1>12. x \in Works /\ WindowOf(x)
  <2> DEFINE pc1 == IF stop THEN "out" ELSE "scan"
             vma1 == IF e = v.end /\ ~stop THEN w.vma + 1 ELSE w.vma
  <2>1. pc1 \in {"scan", "out"} /\ vma1 \in 1 .. VmaCount + 1 /\ e \in 0 .. LastPage
    BY <1>2, <1>3, <1>7, VmaBounds
  <2>2. /\ x.pc = pc1 /\ x.start = e /\ x.pages = left /\ x.virtpages = virt /\ x.vma = vma1
        /\ x \in [pc : {"scan", "out"}, start : 0 .. LastPage, vma : 1 .. VmaCount + 1,
                  pages : Int, virtpages : Int]
    BY <1>1, <1>10, <2>1
  <2>3. ~stop /\ vma1 <= VmaCount => e < Vmas[vma1].end
    BY <1>2, <1>3, <1>7
  <2>4. pc1 = "scan" => ~stop
    OBVIOUS
  <2>5. ~stop => left \in 1 .. scan_size /\ virt > 0
    BY <1>4, <1>10, <1>11
  <2> HIDE DEF x, pc1, vma1
  <2> QED BY <2>2, <2>3, <2>4, <2>5 DEF Works, WindowOf
<1> HIDE DEF x
<1>13. (work \in [ScanTasks -> Works])' /\ Scan!WindowSound'
  BY <1>8, <1>12, ScanWork
<1>14. marked' \subseteq Scan!Pages
  BY <1>8, <1>9, ScanTypes
<1> QED BY <1>8, <1>13, <1>14, ScanTypes, ScanRest

LEMMA ScanTouch ==
    ASSUME ScanInv, NEW t \in ScanTasks, NEW p \in Scan!Pages, Scan!Touch(t, p)
    PROVE  ScanInv'
<1>1. /\ due' \in BOOLEAN /\ marked' \subseteq Scan!Pages /\ placed' \subseteq ScanTasks
      /\ UNCHANGED <<queued, numa_scan_offset, numa_scan_seq>>
  BY ScanTypes DEF Scan!Touch
<1>2. (work \in [ScanTasks -> Works])' /\ Scan!WindowSound'
  <2>1. CASE work' = work
    BY <2>1, ScanSame
  <2>2. CASE work' = [u \in ScanTasks |-> Scan!Lost(u)]
    <3> DEFINE w == [u \in ScanTasks |-> Scan!Lost(u)]
    <3>1. w = [u \in ScanTasks |-> w[u]] /\ \A u \in ScanTasks : w[u] = Scan!Lost(u)
      OBVIOUS
    <3>2. work' = w
      BY <2>2
    <3> HIDE DEF w
    <3>3. \A u \in ScanTasks : w[u] \in Works /\ WindowOf(w[u])
      BY <3>1, LostWork
    <3> QED BY <3>1, <3>2, <3>3, ScanAll
  <2> QED BY <2>1, <2>2 DEF Scan!Touch
<1> QED BY <1>1, <1>2, ScanTypes, ScanRest

LEMMA ScanStutter ==
    ASSUME ScanInv, UNCHANGED scanVars
    PROVE  ScanInv'
BY ScanSame, ScanTypes, ScanRest DEF scanVars

\* Every step keeps the windows inside their VMAs.
LEMMA ScanStep == ScanInv /\ [Scan!Next]_scanVars => ScanInv'
<1> SUFFICES ASSUME ScanInv, [Scan!Next]_scanVars PROVE ScanInv'
  OBVIOUS
<1>1. CASE UNCHANGED scanVars
  BY <1>1, ScanStutter
<1>2. CASE Scan!Elapse
  <2>1. /\ work' = work /\ due' \in BOOLEAN
        /\ UNCHANGED <<numa_scan_offset, numa_scan_seq, placed, marked, queued>>
    BY <1>2 DEF Scan!Elapse
  <2> QED BY <2>1, ScanSame, ScanTypes, ScanRest
<1>3. ASSUME NEW t \in ScanTasks, Scan!task_tick_numa(t) \/ Scan!Step(t) \/ Scan!Locked(t)
      PROVE  ScanInv'
  BY <1>3, ScanTick, ScanBegin, ScanTry, ScanLock, ScanChunk, ScanSkip, ScanOut, ScanLocked
     DEF Scan!Step
<1>4. ASSUME NEW t \in ScanTasks, NEW p \in Scan!Pages, Scan!Touch(t, p)
      PROVE  ScanInv'
  BY <1>4, ScanTouch
<1> QED BY <1>1, <1>2, <1>3, <1>4 DEF Scan!Next

-----------------------------------------------------------------------------
(* NUMA groups.                                                            *)

LEMMA NumaOperators ==
    /\ \A S : Numa!Cardinality(S) = Cardinality(S) /\ Numa!Min(S) = Min(S)
    /\ \A f, S : Numa!SumOver(f, S) = SumIn(f, S)
BY DEF Numa!Cardinality, Cardinality, Numa!Min, Min, Numa!SumOver, SumIn,
   Numa!MapThenSumSet, MapThenSumSet, Numa!MapThenFoldSet, MapThenFoldSet

NULLGroup == Numa!NULL
Cells == Numa!Cells

LEMMA CellsFinite == IsFiniteSet(Cells) /\ \A n \in Nodes, p \in {0, 1} : <<n, p>> \in Cells
<1>1. IsFiniteSet({0, 1})
  <2>1. IsFiniteSet({0}) /\ {0, 1} = {0} \cup {1}
    BY FS_Singleton
  <2> QED BY <2>1, FS_AddElement
<1> QED BY <1>1, NumaAssumption, FS_Product DEF Cells, Numa!Cells

\* The fault that a task handles.
FaultSteps == {"place", "look", "get", "move", "assign"}
FaultStates ==
    [pc : {"none", "free", "dead"}]
    \cup [pc : {"place"}, node : Nodes, priv : {0, 1}]
    \cup [pc : FaultSteps, node : Nodes, priv : {0, 1}, tsk : Tasks, join : BOOLEAN,
          grp : Addresses \cup {NULLGroup}]

\* A task that looks at another group has one of its own; one that joins it has
\* found another one.
Joins(f, g) ==
    /\ f.pc = "look" => g \in Addresses
    /\ f.pc \in {"get", "move", "assign"} => g \in Addresses /\ f.grp \in Addresses /\ f.grp # g

NumaTyped ==
    /\ numa_faults \in [Tasks -> [Cells -> Nat]]
    /\ membuf \in [Tasks -> [Cells -> Nat]]
    /\ numa_group \in [Tasks -> Addresses \cup {NULLGroup}]
    /\ preferred_nid \in [Tasks -> Nodes \cup {-1}]
    /\ group \in [Addresses -> [refcount : Int, nr_tasks : Int, faults : [Cells -> Int],
                                rcu : BOOLEAN]]
    /\ fault \in [Tasks -> FaultStates]

Joining == \A u \in Tasks : Joins(fault[u], numa_group[u])

\* A group that waits for the end of the grace period has no reference.
Unused == \A g \in Addresses : group[g].rcu => group[g].refcount = 0

GroupInv == NumaTyped /\ Joining /\ Unused /\ Numa!Inv

-----------------------------------------------------------------------------
\* What task u counts for in group g: as a member, with its faults, and with
\* its references.
In(u, g) == Numa!CountedIn(u) = g
Moves(u, g) == fault[u].pc \in {"move", "assign"} /\ fault[u].grp = g
Member(u, g) == IF In(u, g) THEN 1 ELSE 0
Share(u, g, c) == IF In(u, g) THEN numa_faults[u][c] ELSE 0
Refs(u, g) == (IF numa_group[u] = g THEN 1 ELSE 0) + (IF Moves(u, g) THEN 1 ELSE 0)
Members(g) == {u \in Tasks : In(u, g)}
Holders(g) == {u \in Tasks : numa_group[u] = g}
Movers(g) == {u \in Tasks : Moves(u, g)}
FaultsIn(c, S) == [u \in S |-> numa_faults[u][c]]

LEMMA NumaCounts ==
    /\ Numa!SumsMatch <=>
          \A g \in Addresses :
              /\ group[g].nr_tasks = Cardinality(Members(g))
              /\ \A c \in Cells : group[g].faults[c] = SumIn(FaultsIn(c, Members(g)), Members(g))
    /\ Numa!RefsMatch <=>
          \A g \in Addresses :
              group[g].refcount = Cardinality(Holders(g)) + Cardinality(Movers(g))
BY NumaOperators DEF Numa!SumsMatch, Numa!RefsMatch, Members, In, Holders, Movers, Moves, FaultsIn,
   Cells

LEMMA NumaCountsNext ==
    /\ Numa!SumsMatch' <=>
          \A g \in Addresses :
              /\ group'[g].nr_tasks = Cardinality(Members(g)')
              /\ \A c \in Cells :
                    group'[g].faults[c] = SumIn(FaultsIn(c, Members(g))', Members(g)')
    /\ Numa!RefsMatch' <=>
          \A g \in Addresses :
              group'[g].refcount = Cardinality(Holders(g)') + Cardinality(Movers(g)')
BY NumaOperators DEF Numa!SumsMatch, Numa!RefsMatch, Members, In, Holders, Movers, Moves, FaultsIn,
   Cells

\* Task t alone changes.
OnlyTask(t) ==
    \A u \in Tasks \ {t} :
        fault'[u] = fault[u] /\ numa_group'[u] = numa_group[u] /\ numa_faults'[u] = numa_faults[u]

\* A group's counts change by what the task counts for.
Follows(t, g) ==
    /\ group'[g].nr_tasks = group[g].nr_tasks - Member(t, g) + Member(t, g)'
    /\ group'[g].refcount = group[g].refcount - Refs(t, g) + Refs(t, g)'
    /\ \A c \in Cells : group'[g].faults[c] = group[g].faults[c] - Share(t, g, c) + Share(t, g, c)'

\* If every group follows the task that changes, the counts still match.
LEMMA NumaFollow ==
    ASSUME GroupInv, NEW t \in Tasks, OnlyTask(t), NumaTyped', \A g \in Addresses : Follows(t, g)
    PROVE  Numa!SumsMatch' /\ Numa!RefsMatch'
<1>1. \A u \in Tasks \ {t} : Numa!CountedIn(u)' = Numa!CountedIn(u)
  BY DEF OnlyTask, Numa!CountedIn
<1>2. ASSUME NEW g \in Addresses
      PROVE  /\ group'[g].nr_tasks = Cardinality(Members(g)')
             /\ \A c \in Cells :
                   group'[g].faults[c] = SumIn(FaultsIn(c, Members(g))', Members(g)')
             /\ group'[g].refcount = Cardinality(Holders(g)') + Cardinality(Movers(g)')
  <2>1. /\ IsFiniteSet(Members(g)) /\ IsFiniteSet(Holders(g)) /\ IsFiniteSet(Movers(g))
    BY NumaAssumption, FS_Subset DEF Members, Holders, Movers
  <2>2. /\ Members(g)' \ {t} = Members(g) \ {t}
        /\ Holders(g)' \ {t} = Holders(g) \ {t}
        /\ Movers(g)' \ {t} = Movers(g) \ {t}
    BY <1>1 DEF OnlyTask, Members, Holders, Movers, In, Moves
  <2>3. /\ (t \in Members(g) <=> In(t, g)) /\ (t \in Members(g)' <=> In(t, g)')
        /\ (t \in Holders(g) <=> numa_group[t] = g) /\ (t \in Holders(g)' <=> numa_group'[t] = g)
        /\ (t \in Movers(g) <=> Moves(t, g)) /\ (t \in Movers(g)' <=> Moves(t, g)')
    BY DEF Members, Holders, Movers
  <2>4. /\ group[g].nr_tasks = Cardinality(Members(g))
        /\ \A c \in Cells : group[g].faults[c] = SumIn(FaultsIn(c, Members(g)), Members(g))
        /\ group[g].refcount = Cardinality(Holders(g)) + Cardinality(Movers(g))
    BY NumaCounts DEF GroupInv, Numa!Inv
  <2>5. Cardinality(Members(g)') = Cardinality(Members(g)) - Member(t, g) + Member(t, g)'
    <3>1. Cardinality(Members(g)') = Cardinality(Members(g))
             - (IF t \in Members(g) THEN 1 ELSE 0) + (IF t \in Members(g)' THEN 1 ELSE 0)
      BY <2>1, <2>2, CardMember
    <3> QED BY <2>3, <3>1 DEF Member
  <2>6. /\ Cardinality(Holders(g)') = Cardinality(Holders(g))
              - (IF t \in Holders(g) THEN 1 ELSE 0) + (IF t \in Holders(g)' THEN 1 ELSE 0)
        /\ Cardinality(Movers(g)') = Cardinality(Movers(g))
              - (IF t \in Movers(g) THEN 1 ELSE 0) + (IF t \in Movers(g)' THEN 1 ELSE 0)
        /\ Cardinality(Holders(g)) \in Nat /\ Cardinality(Movers(g)) \in Nat
    <3>1. /\ Cardinality(Holders(g)') = Cardinality(Holders(g))
                - (IF t \in Holders(g) THEN 1 ELSE 0) + (IF t \in Holders(g)' THEN 1 ELSE 0)
          /\ Cardinality(Holders(g)) \in Nat
      BY <2>1, <2>2, CardMember
    <3>2. /\ Cardinality(Movers(g)') = Cardinality(Movers(g))
                - (IF t \in Movers(g) THEN 1 ELSE 0) + (IF t \in Movers(g)' THEN 1 ELSE 0)
          /\ Cardinality(Movers(g)) \in Nat
      BY <2>1, <2>2, CardMember
    <3> QED BY <3>1, <3>2
  <2>7. Cardinality(Holders(g)') + Cardinality(Movers(g)') =
            Cardinality(Holders(g)) + Cardinality(Movers(g)) - Refs(t, g) + Refs(t, g)'
    BY <2>3, <2>6 DEF Refs
  <2>8. ASSUME NEW c \in Cells
        PROVE  group'[g].faults[c] = SumIn(FaultsIn(c, Members(g))', Members(g)')
    <3> DEFINE S == Members(g)
               T == Members(g)'
               f == FaultsIn(c, S)
               h == FaultsIn(c, S)'
    <3>1. \A u \in Tasks : numa_faults[u][c] \in Int /\ numa_faults'[u][c] \in Int
      BY DEF GroupInv, NumaTyped
    <3>2. \A u \in S : u \in Tasks /\ f[u] = numa_faults[u][c]
      BY DEF FaultsIn, Members
    <3>3. \A u \in T : u \in Tasks /\ h[u] = numa_faults'[u][c]
      BY DEF FaultsIn, Members
    <3>4. \A u \in S \ {t} : f[u] = h[u]
      BY <2>2, <3>2, <3>3 DEF OnlyTask
    <3>5. (\A u \in S : f[u] \in Int) /\ (\A u \in T : h[u] \in Int)
      BY <3>1, <3>2, <3>3
    <3>6. IsFiniteSet(S) /\ T \ {t} = S \ {t}
      BY <2>1, <2>2
    <3>7. t \in S => f[t] = numa_faults[t][c]
      BY <3>2
    <3>8. t \in T => h[t] = numa_faults'[t][c]
      BY <3>3
    <3> HIDE DEF S, T, f, h
    <3>9. SumIn(h, T) = SumIn(f, S) - (IF t \in S THEN f[t] ELSE 0) + (IF t \in T THEN h[t] ELSE 0)
      BY <3>4, <3>5, <3>6, SumMember
    <3>10. SumIn(h, T) = SumIn(f, S) - Share(t, g, c) + Share(t, g, c)'
      BY <2>3, <3>7, <3>8, <3>9 DEF Share, S, T
    <3>11. group[g].faults[c] = SumIn(f, S)
      BY <2>4 DEF f, S
    <3>12. group'[g].faults[c] = SumIn(h, T)
      BY <3>10, <3>11 DEF Follows
    <3> QED BY <3>12 DEF h, T, S
  <2>9. group'[g].nr_tasks = Cardinality(Members(g)')
    BY <2>4, <2>5 DEF Follows
  <2>10. group'[g].refcount = Cardinality(Holders(g)') + Cardinality(Movers(g)')
    <3>1. group'[g].refcount = group[g].refcount - Refs(t, g) + Refs(t, g)'
      BY DEF Follows
    <3>2. group[g].refcount = Cardinality(Holders(g)) + Cardinality(Movers(g))
      BY <2>4
    <3>3. Refs(t, g) \in Int /\ Refs(t, g)' \in Int
      BY DEF Refs
    <3> QED BY <2>6, <2>7, <3>1, <3>2, <3>3
  <2> QED BY <2>8, <2>9, <2>10
<1> QED BY <1>2, NumaCountsNext

LEMMA NumaInit == Numa!Init => GroupInv
<1> SUFFICES ASSUME Numa!Init PROVE GroupInv
  OBVIOUS
<1>1. Numa!NoFaults \in [Cells -> Nat] /\ Numa!NoFaults \in [Cells -> Int]
      /\ \A c \in Cells : Numa!NoFaults[c] = 0
  BY DEF Numa!NoFaults, Cells
<1>2. Numa!NoFault \in FaultStates /\ Numa!NoFault.pc = "none"
  BY DEF Numa!NoFault, FaultStates
<1>3. Numa!NoGroup \in [refcount : Int, nr_tasks : Int, faults : [Cells -> Int], rcu : BOOLEAN]
      /\ Numa!NoGroup.refcount = 0 /\ Numa!NoGroup.nr_tasks = 0
      /\ Numa!NoGroup.faults = Numa!NoFaults
  BY <1>1 DEF Numa!NoGroup
<1>4. NumaTyped
  BY <1>1, <1>2, <1>3 DEF Numa!Init, NumaTyped, NULLGroup
<1>5. Joining /\ Unused
  BY <1>2, <1>3 DEF Numa!Init, Joining, Joins, Unused
<1>6. \A g \in Addresses : Members(g) = {} /\ Holders(g) = {} /\ Movers(g) = {}
  <2> TAKE g \in Addresses
  <2>1. g # Numa!NULL
    BY NumaAssumption DEF Numa!NULL
  <2> QED BY <1>2, <2>1 DEF Numa!Init, Members, Holders, Movers, In, Moves, Numa!CountedIn
<1>7. Numa!SumsMatch /\ Numa!RefsMatch
  <2>1. Cardinality({}) = 0 /\ \A f : SumIn(f, {}) = 0
    BY FS_EmptySet, SumOfNone
  <2>2. ASSUME NEW g \in Addresses
        PROVE  /\ group[g].nr_tasks = Cardinality(Members(g))
               /\ \A c \in Cells : group[g].faults[c] = SumIn(FaultsIn(c, Members(g)), Members(g))
               /\ group[g].refcount = Cardinality(Holders(g)) + Cardinality(Movers(g))
    <3>1. group[g] = Numa!NoGroup
      BY DEF Numa!Init
    <3>2. Members(g) = {} /\ Holders(g) = {} /\ Movers(g) = {}
      BY <1>6
    <3>3. \A c \in Cells : group[g].faults[c] = 0
      BY <1>1, <1>3, <3>1
    <3> QED BY <1>3, <2>1, <3>1, <3>2, <3>3
  <2> QED BY <2>2, NumaCounts
<1>8. Numa!Placeable
  <2>1. SumIn(Numa!NoFaults, Cells) = 0
    BY <1>1, CellsFinite, SumZero
  <2> QED BY <2>1, NumaOperators DEF Numa!Init, Numa!Placeable, Numa!Total, Cells
<1> QED BY <1>4, <1>5, <1>7, <1>8 DEF GroupInv, Numa!Inv, NumaTyped, Numa!TypeOK, Cells, NULLGroup

\* What remains to be shown of a step of task t.
LEMMA NumaByTask ==
    ASSUME GroupInv, NEW t \in Tasks, OnlyTask(t), NumaTyped', \A g \in Addresses : Follows(t, g),
           Joins(fault'[t], numa_group'[t]), Unused', Numa!Placeable'
    PROVE  GroupInv'
<1>1. Numa!SumsMatch' /\ Numa!RefsMatch'
  BY NumaFollow
<1>2. Joining'
  BY DEF GroupInv, Joining, OnlyTask
<1>3. Numa!TypeOK'
  BY DEF NumaTyped, Numa!TypeOK, Cells, NULLGroup
<1> QED BY <1>1, <1>2, <1>3 DEF GroupInv, Numa!Inv

\* A step of a task that changes neither groups nor faults.
LEMMA NumaStutter ==
    ASSUME GroupInv, UNCHANGED <<numa_faults, membuf, numa_group, preferred_nid, fault, group>>
    PROVE  GroupInv'
<1>1. NumaTyped' /\ Joining' /\ Unused'
  BY DEF GroupInv, NumaTyped, Joining, Unused
<1>2. Numa!TypeOK' /\ Numa!Placeable'
  BY DEF GroupInv, Numa!Inv, Numa!TypeOK, Numa!Placeable
<1>3. Numa!SumsMatch' /\ Numa!RefsMatch'
  BY DEF GroupInv, Numa!Inv, Numa!SumsMatch, Numa!RefsMatch, Numa!CountedIn
<1> QED BY <1>1, <1>2, <1>3 DEF GroupInv, Numa!Inv

LEMMA NumaQuiet ==
    ASSUME GroupInv, NEW t \in Tasks, NEW f \in FaultStates, fault' = [fault EXCEPT ![t] = f],
           UNCHANGED <<numa_faults, numa_group, preferred_nid, group>>,
           membuf' \in [Tasks -> [Cells -> Nat]],
           Joins(f, numa_group[t]), f.pc # "free" /\ fault[t].pc # "free",
           f.pc \notin {"move", "assign"} /\ fault[t].pc \notin {"move", "assign"}
    PROVE  GroupInv'
<1>1. fault \in [Tasks -> FaultStates] /\ fault'[t] = f
      /\ \A u \in Tasks \ {t} : fault'[u] = fault[u]
  BY DEF GroupInv, NumaTyped
<1>2. OnlyTask(t)
  BY <1>1 DEF OnlyTask
<1>3. NumaTyped'
  BY DEF GroupInv, NumaTyped
<1>4. Numa!CountedIn(t)' = Numa!CountedIn(t)
  BY <1>1 DEF Numa!CountedIn
<1>5. \A g \in Addresses : Follows(t, g)
  <2> TAKE g \in Addresses
  <2>1. Member(t, g)' = Member(t, g) /\ Member(t, g) \in Int
    BY <1>4 DEF Member, In
  <2>2. Refs(t, g)' = Refs(t, g) /\ Refs(t, g) \in Int
    BY <1>1 DEF Refs, Moves
  <2>3. \A c \in Cells : Share(t, g, c)' = Share(t, g, c) /\ Share(t, g, c) \in Int
    BY <1>4 DEF Share, In, GroupInv, NumaTyped
  <2>4. group[g].nr_tasks \in Int /\ group[g].refcount \in Int
        /\ \A c \in Cells : group[g].faults[c] \in Int
    BY DEF GroupInv, NumaTyped
  <2> QED BY <2>1, <2>2, <2>3, <2>4 DEF Follows
<1>6. Unused'
  BY DEF GroupInv, Unused
<1>7. Numa!Placeable'
  BY DEF GroupInv, Numa!Inv, Numa!Placeable
<1> QED BY <1>1, <1>2, <1>3, <1>5, <1>6, <1>7, NumaByTask

LEMMA NumaFault ==
    ASSUME GroupInv, NEW t \in Tasks, Numa!task_numa_fault(t)
    PROVE  GroupInv'
<1>1. PICK n \in Touches[t], priv \in {0, 1} :
          fault' = [fault EXCEPT ![t] = [pc |-> "place", node |-> n, priv |-> priv]]
  BY DEF Numa!task_numa_fault
<1>2. n \in Nodes
  BY NumaAssumption
<1>3. [pc |-> "place", node |-> n, priv |-> priv] \in FaultStates
  BY <1>2 DEF FaultStates
<1>4. Joins([pc |-> "place", node |-> n, priv |-> priv], numa_group[t])
  BY DEF Joins
<1> QED BY <1>1, <1>3, <1>4, NumaQuiet DEF Numa!task_numa_fault, GroupInv, NumaTyped

\* A group without a reference has no member and no faults.
LEMMA NumaUnused ==
    ASSUME GroupInv, NEW g \in Addresses, group[g].refcount = 0
    PROVE  group[g].nr_tasks = 0 /\ \A c \in Cells : group[g].faults[c] = 0
<1>1. IsFiniteSet(Holders(g)) /\ IsFiniteSet(Movers(g))
  BY NumaAssumption, FS_Subset DEF Holders, Movers
<1>2. Cardinality(Holders(g)) \in Nat /\ Cardinality(Movers(g)) \in Nat
  BY <1>1, FS_CardinalityType
<1>3. Cardinality(Holders(g)) + Cardinality(Movers(g)) = 0
  BY NumaCounts DEF GroupInv, Numa!Inv
<1>4. Holders(g) = {} /\ Movers(g) = {}
  BY <1>1, <1>2, <1>3, FS_EmptySet
<1>5. Members(g) = {}
  <2>1. g # Numa!NULL
    BY NumaAssumption DEF Numa!NULL
  <2> QED BY <1>4, <2>1 DEF Members, Holders, Movers, In, Moves, Numa!CountedIn
<1>6. Cardinality({}) = 0 /\ \A f : SumIn(f, {}) = 0
  BY FS_EmptySet, SumOfNone
<1>7. /\ group[g].nr_tasks = Cardinality(Members(g))
      /\ \A c \in Cells : group[g].faults[c] = SumIn(FaultsIn(c, Members(g)), Members(g))
  BY NumaCounts DEF GroupInv, Numa!Inv
<1> QED BY <1>5, <1>6, <1>7

\* A task of no group makes one, where there is free memory.
LEMMA NumaCreate ==
    ASSUME GroupInv, NEW t \in Tasks, NEW g \in Addresses, NEW f \in FaultStates,
           Numa!Free(g), numa_group[t] = NULLGroup, fault[t].pc = "none",
           f.pc = "look", fault' = [fault EXCEPT ![t] = f],
           group' = [group EXCEPT ![g] = [refcount |-> 1, nr_tasks |-> 1,
                                          faults |-> numa_faults[t], rcu |-> FALSE]],
           numa_group' = [numa_group EXCEPT ![t] = g],
           UNCHANGED <<numa_faults, membuf, preferred_nid>>
    PROVE  GroupInv'
<1>1. fault'[t] = f /\ \A u \in Tasks \ {t} : fault'[u] = fault[u]
  BY DEF GroupInv, NumaTyped
<1>2. numa_group'[t] = g /\ \A u \in Tasks \ {t} : numa_group'[u] = numa_group[u]
  BY DEF GroupInv, NumaTyped
<1>3. OnlyTask(t)
  BY <1>1, <1>2 DEF OnlyTask
<1>4. numa_faults[t] \in [Cells -> Int] /\ \A c \in Cells : numa_faults[t][c] \in Int
  BY DEF GroupInv, NumaTyped
<1>5. NumaTyped'
  BY <1>4 DEF GroupInv, NumaTyped
<1>6. group'[g] = [refcount |-> 1, nr_tasks |-> 1, faults |-> numa_faults[t], rcu |-> FALSE]
      /\ \A h \in Addresses \ {g} : group'[h] = group[h]
  BY DEF GroupInv, NumaTyped
<1>7. Numa!CountedIn(t) = NULLGroup /\ Numa!CountedIn(t)' = g
  BY <1>1, <1>2 DEF Numa!CountedIn
<1>8. \A h \in Addresses : Follows(t, h)
  <2> TAKE h \in Addresses
  <2>1. h # NULLGroup
    BY NumaAssumption DEF NULLGroup, Numa!NULL
  <2>2. Member(t, h) = 0 /\ Member(t, h)' = IF h = g THEN 1 ELSE 0
    BY <1>7, <2>1 DEF Member, In
  <2>3. Refs(t, h) = 0 /\ Refs(t, h)' = IF h = g THEN 1 ELSE 0
    BY <1>1, <1>2, <2>1 DEF Refs, Moves
  <2>4. \A c \in Cells : Share(t, h, c) = 0 /\ Share(t, h, c)' = IF h = g THEN numa_faults[t][c] ELSE 0
    BY <1>7, <2>1 DEF Share, In
  <2>5. group[h].nr_tasks \in Int /\ group[h].refcount \in Int
        /\ \A c \in Cells : group[h].faults[c] \in Int
    BY DEF GroupInv, NumaTyped
  <2>6. CASE h = g
    <3>1. group[g].refcount = 0 /\ group[g].nr_tasks = 0 /\ \A c \in Cells : group[g].faults[c] = 0
      BY NumaUnused DEF Numa!Free
    <3> QED BY <1>4, <1>6, <2>2, <2>3, <2>4, <2>6, <3>1 DEF Follows
  <2>7. CASE h # g
    BY <1>6, <2>2, <2>3, <2>4, <2>5, <2>7 DEF Follows
  <2> QED BY <2>6, <2>7
<1>9. Unused'
  BY <1>6 DEF GroupInv, Unused
<1>10. Numa!Placeable'
  BY DEF GroupInv, Numa!Inv, Numa!Placeable
<1>11. Joins(fault'[t], numa_group'[t])
  BY <1>1, <1>2 DEF Joins
<1> QED BY <1>3, <1>5, <1>8, <1>9, <1>10, <1>11, NumaByTask

LEMMA NumaGroup ==
    ASSUME GroupInv, NEW t \in Tasks, Numa!task_numa_group(t)
    PROVE  GroupInv'
<1>1. PICK n \in Touches[t], u \in Tasks \ {t}, join \in BOOLEAN :
          fault' = [fault EXCEPT ![t] =
                [pc |-> IF numa_group'[t] = Numa!NULL THEN "place" ELSE "look",
                 node |-> n, priv |-> 0, tsk |-> u, join |-> join, grp |-> Numa!NULL]]
  BY DEF Numa!task_numa_group
<1> DEFINE f == [pc |-> IF numa_group'[t] = Numa!NULL THEN "place" ELSE "look",
                 node |-> n, priv |-> 0, tsk |-> u, join |-> join, grp |-> Numa!NULL]
<1>2. n \in Nodes
  BY NumaAssumption
<1>3. f \in FaultStates /\ f.pc = IF numa_group'[t] = Numa!NULL THEN "place" ELSE "look"
  BY <1>2 DEF FaultStates, FaultSteps, NULLGroup
<1>4. fault' = [fault EXCEPT ![t] = f] /\ fault[t].pc = "none"
      /\ UNCHANGED <<numa_faults, membuf, preferred_nid>>
  BY <1>1 DEF Numa!task_numa_group
<1> HIDE DEF f
<1>5. CASE UNCHANGED <<numa_group, group>>
  <2>1. numa_group[t] \in Addresses \cup {NULLGroup} /\ membuf \in [Tasks -> [Cells -> Nat]]
    BY DEF GroupInv, NumaTyped
  <2>2. Joins(f, numa_group[t])
    BY <1>3, <1>5, <2>1 DEF Joins, NULLGroup
  <2>3. f.pc \in {"place", "look"}
    BY <1>3
  <2> QED BY <1>3, <1>4, <1>5, <2>1, <2>2, <2>3, NumaQuiet
<1>6. ASSUME numa_group[t] = Numa!NULL, NEW g \in Addresses, Numa!Free(g),
             group' = [group EXCEPT ![g] = [refcount |-> 1, nr_tasks |-> 1,
                                            faults |-> numa_faults[t], rcu |-> FALSE]],
             numa_group' = [numa_group EXCEPT ![t] = g]
      PROVE  GroupInv'
  <2>1. numa_group'[t] = g /\ g # Numa!NULL
    BY <1>6, NumaAssumption DEF GroupInv, NumaTyped, Numa!NULL
  <2>2. f.pc = "look"
    BY <1>3, <2>1
  <2> QED BY <1>3, <1>4, <1>6, <2>2, NumaCreate DEF NULLGroup
<1> QED BY <1>5, <1>6 DEF Numa!task_numa_group, Numa!Create

\* The fault of a task that looks at or joins a group.
LEMMA NumaJoiner ==
    ASSUME GroupInv, NEW t \in Tasks, fault[t].pc \in {"look", "get", "move", "assign"}
    PROVE  /\ fault[t] \in [pc : FaultSteps, node : Nodes, priv : {0, 1}, tsk : Tasks,
                            join : BOOLEAN, grp : Addresses \cup {NULLGroup}]
           /\ Joins(fault[t], numa_group[t])
<1>1. fault[t] \in FaultStates /\ Joins(fault[t], numa_group[t])
  BY DEF GroupInv, NumaTyped, Joining
<1> QED BY <1>1 DEF FaultStates

LEMMA NumaLook ==
    ASSUME GroupInv, NEW t \in Tasks, Numa!Look(t)
    PROVE  GroupInv'
<1> DEFINE f == fault[t]
<1>1. /\ f \in [pc : FaultSteps, node : Nodes, priv : {0, 1}, tsk : Tasks,
                join : BOOLEAN, grp : Addresses \cup {NULLGroup}]
      /\ f.pc = "look" /\ numa_group[t] \in Addresses
  BY NumaJoiner DEF Numa!Look, Joins
<1>2. PICK g \in {Numa!NULL, numa_group[f.tsk]} :
          fault' = [fault EXCEPT ![t] =
                CASE ~Numa!Better(g, numa_group[t]) -> [f EXCEPT !.pc = "place"]
                  [] Numa!Better(g, numa_group[t]) /\ ~f.join ->
                        [f EXCEPT !.pc = "place", !.priv = 1]
                  [] OTHER -> [f EXCEPT !.pc = "get", !.grp = g]]
  BY DEF Numa!Look
<1>3. numa_group[f.tsk] \in Addresses \cup {NULLGroup}
  BY <1>1 DEF GroupInv, NumaTyped
<1>4. g \in Addresses \cup {NULLGroup}
  BY <1>2, <1>3 DEF NULLGroup
<1>5. Numa!Better(g, numa_group[t]) => g \in Addresses /\ g # numa_group[t]
  BY <1>4 DEF Numa!Better, NULLGroup
<1>6. /\ UNCHANGED <<numa_faults, numa_group, preferred_nid, group, membuf>>
      /\ membuf \in [Tasks -> [Cells -> Nat]]
  BY DEF Numa!Look, GroupInv, NumaTyped
<1>7. ASSUME NEW x, x \in {[f EXCEPT !.pc = "place"], [f EXCEPT !.pc = "place", !.priv = 1]},
             fault' = [fault EXCEPT ![t] = x]
      PROVE  GroupInv'
  <2>1. x \in FaultStates /\ x.pc = "place"
    BY <1>1, <1>7 DEF FaultStates, FaultSteps
  <2>2. Joins(x, numa_group[t])
    BY <2>1 DEF Joins
  <2> QED BY <1>1, <1>6, <1>7, <2>1, <2>2, NumaQuiet
<1>8. ASSUME NEW x, x = [f EXCEPT !.pc = "get", !.grp = g], Numa!Better(g, numa_group[t]),
             fault' = [fault EXCEPT ![t] = x]
      PROVE  GroupInv'
  <2>1. x \in FaultStates /\ x.pc = "get" /\ x.grp = g
    BY <1>1, <1>4, <1>8 DEF FaultStates, FaultSteps
  <2>2. Joins(x, numa_group[t])
    BY <1>1, <1>5, <1>8, <2>1 DEF Joins
  <2> QED BY <1>1, <1>6, <1>8, <2>1, <2>2, NumaQuiet
<1>9. f.join \in BOOLEAN
  BY <1>1
<1> HIDE DEF f
<1>10. CASE ~Numa!Better(g, numa_group[t])
  BY <1>2, <1>7, <1>10
<1>11. CASE Numa!Better(g, numa_group[t]) /\ ~f.join
  BY <1>2, <1>7, <1>11
<1>12. CASE Numa!Better(g, numa_group[t]) /\ f.join
  BY <1>2, <1>8, <1>12
<1> QED BY <1>9, <1>10, <1>11, <1>12

\* The program counter of a task's fault changes.
LEMMA NumaGoto ==
    ASSUME GroupInv, NEW t \in Tasks, NEW pc, Numa!Goto(t, pc),
           \/ pc \in FaultSteps /\ fault[t].pc \in {"look", "get", "move", "assign"}
           \/ pc = "free" /\ fault[t].pc = "none"
           \/ pc = "dead" /\ fault[t].pc = "free"
    PROVE  /\ fault' \in [Tasks -> FaultStates] /\ fault'[t].pc = pc
           /\ fault[t].pc \in {"look", "get", "move", "assign"} => fault'[t].grp = fault[t].grp
           /\ \A u \in Tasks \ {t} : fault'[u] = fault[u]
<1>1. fault' = [fault EXCEPT ![t] = [fault[t] EXCEPT !.pc = pc]] /\ fault \in [Tasks -> FaultStates]
  BY DEF Numa!Goto, GroupInv, NumaTyped
<1> DEFINE x == [fault[t] EXCEPT !.pc = pc]
<1>2. /\ x \in FaultStates /\ x.pc = pc
      /\ fault[t].pc \in {"look", "get", "move", "assign"} => x.grp = fault[t].grp
  <2>1. CASE pc \in FaultSteps /\ fault[t].pc \in {"look", "get", "move", "assign"}
    BY <2>1, NumaJoiner DEF FaultStates
  <2>2. CASE (pc = "free" /\ fault[t].pc = "none") \/ (pc = "dead" /\ fault[t].pc = "free")
    <3>1. fault[t] \in [pc : {"none", "free", "dead"}]
      BY <1>1, <2>2 DEF FaultStates, FaultSteps
    <3> QED BY <2>2, <3>1 DEF FaultStates
  <2> HIDE DEF x
  <2> QED BY <2>1, <2>2
<1> HIDE DEF x
<1>3. fault' = [fault EXCEPT ![t] = x]
  BY <1>1 DEF x
<1> QED BY <1>1, <1>2, <1>3

LEMMA NumaPlaceableSame ==
    ASSUME GroupInv, UNCHANGED <<numa_faults, preferred_nid>>
    PROVE  Numa!Placeable'
BY DEF GroupInv, Numa!Inv, Numa!Placeable

\* A reference is taken of a group that has one.
LEMMA NumaGet ==
    ASSUME GroupInv, NEW t \in Tasks, Numa!Get(t)
    PROVE  GroupInv'
<1> DEFINE g == fault[t].grp
<1>1. /\ fault[t].pc = "get" /\ g \in Addresses /\ numa_group[t] \in Addresses /\ g # numa_group[t]
      /\ UNCHANGED <<numa_faults, membuf, numa_group, preferred_nid>>
  BY NumaJoiner DEF Numa!Get, Joins
<1>2. group \in [Addresses -> [refcount : Int, nr_tasks : Int, faults : [Cells -> Int],
                               rcu : BOOLEAN]]
      /\ fault \in [Tasks -> FaultStates] /\ membuf \in [Tasks -> [Cells -> Nat]]
  BY DEF GroupInv, NumaTyped
<1>3. CASE Numa!get_numa_group(g)
  <2>1. group' = [group EXCEPT ![g].refcount = group[g].refcount + 1] /\ Numa!Goto(t, "move")
        /\ group[g].refcount # 0
    BY <1>3 DEF Numa!Get, Numa!get_numa_group
  <2>2. fault' \in [Tasks -> FaultStates] /\ fault'[t].pc = "move" /\ fault'[t].grp = g
        /\ \A u \in Tasks \ {t} : fault'[u] = fault[u]
    BY <1>1, <2>1, NumaGoto DEF FaultSteps
  <2>3. OnlyTask(t)
    BY <1>1, <2>2 DEF OnlyTask
  <2>4. /\ group' \in [Addresses -> [refcount : Int, nr_tasks : Int, faults : [Cells -> Int],
                                     rcu : BOOLEAN]]
        /\ group'[g].refcount = group[g].refcount + 1
        /\ \A h \in Addresses : group'[h].nr_tasks = group[h].nr_tasks
              /\ group'[h].faults = group[h].faults /\ group'[h].rcu = group[h].rcu
        /\ \A h \in Addresses \ {g} : group'[h].refcount = group[h].refcount
    BY <1>1, <1>2, <2>1
  <2>5. NumaTyped'
    BY <1>1, <2>2, <2>4 DEF GroupInv, NumaTyped
  <2>6. Numa!CountedIn(t)' = Numa!CountedIn(t)
    BY <1>1, <2>2 DEF Numa!CountedIn
  <2>7. \A h \in Addresses : Follows(t, h)
    <3> TAKE h \in Addresses
    <3>1. Member(t, h)' = Member(t, h) /\ Member(t, h) \in Int
      BY <2>6 DEF Member, In
    <3>2. \A c \in Cells : Share(t, h, c)' = Share(t, h, c) /\ Share(t, h, c) \in Int
      BY <1>1, <2>6 DEF Share, In, GroupInv, NumaTyped
    <3>3. Refs(t, h)' = Refs(t, h) + (IF h = g THEN 1 ELSE 0) /\ Refs(t, h) \in Int
      BY <1>1, <2>2 DEF Refs, Moves
    <3>4. group[h].nr_tasks \in Int /\ group[h].refcount \in Int
          /\ \A c \in Cells : group[h].faults[c] \in Int
      BY <1>2
    <3> QED BY <2>4, <3>1, <3>2, <3>3, <3>4 DEF Follows
  <2>8. Unused'
    <3> SUFFICES ASSUME NEW h \in Addresses, group'[h].rcu PROVE group'[h].refcount = 0
      BY DEF Unused
    <3>1. group[h].rcu /\ group[h].refcount = 0
      BY <2>4 DEF GroupInv, Unused
    <3>2. h # g
      BY <2>1, <3>1
    <3> QED BY <2>4, <3>1, <3>2
  <2>9. Joins(fault'[t], numa_group'[t])
    BY <1>1, <2>2 DEF Joins
  <2> QED BY <1>1, <2>3, <2>5, <2>7, <2>8, <2>9, NumaByTask, NumaPlaceableSame
<1>4. CASE ~Numa!get_numa_group(g)
  <2>1. group' = group /\ Numa!Goto(t, "place")
    BY <1>4 DEF Numa!Get
  <2>2. fault' \in [Tasks -> FaultStates] /\ fault'[t].pc = "place"
    BY <1>1, <2>1, NumaGoto DEF FaultSteps
  <2> DEFINE f == fault'[t]
  <2>3. f \in FaultStates /\ fault' = [fault EXCEPT ![t] = f]
    BY <1>2, <2>1, <2>2 DEF Numa!Goto
  <2>4. f.pc = "place" /\ Joins(f, numa_group[t])
    BY <2>2 DEF Joins
  <2> HIDE DEF f
  <2> QED BY <1>1, <1>2, <2>1, <2>3, <2>4, NumaQuiet
<1> QED BY <1>3, <1>4

LEMMA NumaFields ==
    ASSUME NEW r \in [refcount : Int, nr_tasks : Int, faults : [Cells -> Int], rcu : BOOLEAN],
           NEW n \in Int
    PROVE  /\ \A f \in [Cells -> Int] :
                 LET x == [r EXCEPT !.faults = f, !.nr_tasks = n]
                 IN  /\ x \in [refcount : Int, nr_tasks : Int, faults : [Cells -> Int],
                               rcu : BOOLEAN]
                     /\ x.faults = f /\ x.nr_tasks = n
                     /\ x.refcount = r.refcount /\ x.rcu = r.rcu
           /\ \A b \in BOOLEAN :
                 LET x == [r EXCEPT !.refcount = n, !.rcu = b]
                 IN  /\ x \in [refcount : Int, nr_tasks : Int, faults : [Cells -> Int],
                               rcu : BOOLEAN]
                     /\ x.faults = r.faults /\ x.nr_tasks = r.nr_tasks
                     /\ x.refcount = n /\ x.rcu = b
OBVIOUS

LEMMA NumaMove ==
    ASSUME GroupInv, NEW t \in Tasks, Numa!Move(t)
    PROVE  GroupInv'
<1> DEFINE g == fault[t].grp
           my == numa_group[t]
           d == numa_faults[t]
<1>1. /\ fault[t].pc = "move" /\ g \in Addresses /\ my \in Addresses /\ g # my
      /\ UNCHANGED <<numa_faults, membuf, numa_group, preferred_nid>>
      /\ Numa!Goto(t, "assign")
  BY NumaJoiner DEF Numa!Move, Joins
<1>2. group \in [Addresses -> [refcount : Int, nr_tasks : Int, faults : [Cells -> Int],
                               rcu : BOOLEAN]]
      /\ d \in [Cells -> Nat]
  BY DEF GroupInv, NumaTyped
<1>3. group' = [group EXCEPT
            ![my].faults = Numa!Minus(group[my].faults, d),
            ![my].nr_tasks = group[my].nr_tasks - 1,
            ![g].faults = Numa!Plus(group[g].faults, d),
            ![g].nr_tasks = group[g].nr_tasks + 1]
  BY DEF Numa!Move
<1>4. /\ Numa!Minus(group[my].faults, d) = [c \in Cells |-> group[my].faults[c] - d[c]]
      /\ Numa!Minus(group[my].faults, d) \in [Cells -> Int]
      /\ Numa!Plus(group[g].faults, d) = [c \in Cells |-> group[g].faults[c] + d[c]]
      /\ Numa!Plus(group[g].faults, d) \in [Cells -> Int]
  BY <1>1, <1>2 DEF Numa!Minus, Numa!Plus, Cells
<1>5. /\ group' \in [Addresses -> [refcount : Int, nr_tasks : Int, faults : [Cells -> Int],
                                   rcu : BOOLEAN]]
      /\ group'[my].nr_tasks = group[my].nr_tasks - 1 /\ group'[g].nr_tasks = group[g].nr_tasks + 1
      /\ \A c \in Cells : group'[my].faults[c] = group[my].faults[c] - d[c]
                          /\ group'[g].faults[c] = group[g].faults[c] + d[c]
      /\ \A h \in Addresses : group'[h].refcount = group[h].refcount /\ group'[h].rcu = group[h].rcu
      /\ \A h \in Addresses \ {g, my} :
            group'[h].nr_tasks = group[h].nr_tasks /\ group'[h].faults = group[h].faults
  <2>1. group[g] \in [refcount : Int, nr_tasks : Int, faults : [Cells -> Int], rcu : BOOLEAN]
        /\ group[my] \in [refcount : Int, nr_tasks : Int, faults : [Cells -> Int], rcu : BOOLEAN]
    BY <1>1, <1>2
  <2>2. \A c \in Cells : Numa!Minus(group[my].faults, d)[c] = group[my].faults[c] - d[c]
                         /\ Numa!Plus(group[g].faults, d)[c] = group[g].faults[c] + d[c]
    BY <1>4
  <2> HIDE DEF g, my, d
  <2>3. /\ group' \in [Addresses -> [refcount : Int, nr_tasks : Int, faults : [Cells -> Int],
                                     rcu : BOOLEAN]]
        /\ group'[my].nr_tasks = group[my].nr_tasks - 1
        /\ group'[g].nr_tasks = group[g].nr_tasks + 1
        /\ group'[my].faults = Numa!Minus(group[my].faults, d)
        /\ group'[g].faults = Numa!Plus(group[g].faults, d)
    <3> DEFINE x == [group[my] EXCEPT !.faults = Numa!Minus(group[my].faults, d),
                                      !.nr_tasks = group[my].nr_tasks - 1]
               y == [group[g] EXCEPT !.faults = Numa!Plus(group[g].faults, d),
                                     !.nr_tasks = group[g].nr_tasks + 1]
    <3>1. group' = [group EXCEPT ![my] = x, ![g] = y]
      BY <1>1, <1>3
    <3>0. group[my].nr_tasks - 1 \in Int /\ group[g].nr_tasks + 1 \in Int
      BY <2>1
    <3>2. /\ x \in [refcount : Int, nr_tasks : Int, faults : [Cells -> Int], rcu : BOOLEAN]
          /\ x.nr_tasks = group[my].nr_tasks - 1 /\ x.faults = Numa!Minus(group[my].faults, d)
      BY <1>4, <2>1, <3>0, NumaFields
    <3>3. /\ y \in [refcount : Int, nr_tasks : Int, faults : [Cells -> Int], rcu : BOOLEAN]
          /\ y.nr_tasks = group[g].nr_tasks + 1 /\ y.faults = Numa!Plus(group[g].faults, d)
      BY <1>4, <2>1, <3>0, NumaFields
    <3> HIDE DEF x, y
    <3> QED BY <1>1, <1>2, <3>1, <3>2, <3>3
  <2>4. \A h \in Addresses :
            group'[h].refcount = group[h].refcount /\ group'[h].rcu = group[h].rcu
    BY <1>1, <1>2, <1>3, <2>1
  <2>5. \A h \in Addresses \ {g, my} : group'[h] = group[h]
    BY <1>1, <1>2, <1>3
  <2> QED BY <2>2, <2>3, <2>4, <2>5
<1>6. fault' \in [Tasks -> FaultStates] /\ fault'[t].pc = "assign" /\ fault'[t].grp = g
      /\ \A u \in Tasks \ {t} : fault'[u] = fault[u]
  BY <1>1, NumaGoto DEF FaultSteps
<1>7. OnlyTask(t)
  BY <1>1, <1>6 DEF OnlyTask
<1>8. NumaTyped'
  BY <1>1, <1>5, <1>6 DEF GroupInv, NumaTyped
<1>9. Numa!CountedIn(t) = my /\ Numa!CountedIn(t)' = g
  BY <1>1, <1>6 DEF Numa!CountedIn
<1>10. \A h \in Addresses : Follows(t, h)
  <2> TAKE h \in Addresses
  <2>1. Member(t, h) = (IF h = my THEN 1 ELSE 0) /\ Member(t, h)' = (IF h = g THEN 1 ELSE 0)
    BY <1>9 DEF Member, In
  <2>2. \A c \in Cells : /\ Share(t, h, c) = (IF h = my THEN d[c] ELSE 0)
                         /\ Share(t, h, c)' = (IF h = g THEN d[c] ELSE 0)
                         /\ d[c] \in Int
    BY <1>1, <1>2, <1>9 DEF Share, In
  <2>3. Refs(t, h)' = Refs(t, h) /\ Refs(t, h) \in Int
    BY <1>1, <1>6 DEF Refs, Moves
  <2>4. group[h].nr_tasks \in Int /\ group[h].refcount \in Int
        /\ \A c \in Cells : group[h].faults[c] \in Int
    BY <1>2
  <2> HIDE DEF g, my, d
  <2> QED BY <1>1, <1>5, <2>1, <2>2, <2>3, <2>4 DEF Follows
<1>11. Unused'
  BY <1>5 DEF GroupInv, Unused
<1>12. Joins(fault'[t], numa_group'[t])
  BY <1>1, <1>6 DEF Joins
<1> QED BY <1>1, <1>7, <1>8, <1>10, <1>11, <1>12, NumaByTask, NumaPlaceableSame

\* The last reference gives the group to the grace period.
LEMMA NumaPut ==
    ASSUME GroupInv, NEW g \in Addresses, Numa!put_numa_group(g)
    PROVE  /\ group' \in [Addresses -> [refcount : Int, nr_tasks : Int, faults : [Cells -> Int],
                                        rcu : BOOLEAN]]
           /\ group'[g].refcount = group[g].refcount - 1
           /\ \A h \in Addresses : group'[h].nr_tasks = group[h].nr_tasks
                                   /\ group'[h].faults = group[h].faults
           /\ \A h \in Addresses \ {g} : group'[h].refcount = group[h].refcount
           /\ Unused'
<1>1. group \in [Addresses -> [refcount : Int, nr_tasks : Int, faults : [Cells -> Int],
                               rcu : BOOLEAN]]
  BY DEF GroupInv, NumaTyped
<1>2. group[g] \in [refcount : Int, nr_tasks : Int, faults : [Cells -> Int], rcu : BOOLEAN]
  BY <1>1
<1>3. group' = [group EXCEPT ![g].refcount = group[g].refcount - 1,
                             ![g].rcu = (group[g].refcount = 1)]
  BY DEF Numa!put_numa_group
<1>4. /\ group' \in [Addresses -> [refcount : Int, nr_tasks : Int, faults : [Cells -> Int],
                                   rcu : BOOLEAN]]
      /\ group'[g].refcount = group[g].refcount - 1
      /\ group'[g].rcu = (group[g].refcount = 1)
      /\ group'[g].nr_tasks = group[g].nr_tasks /\ group'[g].faults = group[g].faults
      /\ \A h \in Addresses \ {g} : group'[h] = group[h]
  <2> DEFINE x == [group[g] EXCEPT !.refcount = group[g].refcount - 1,
                                   !.rcu = (group[g].refcount = 1)]
  <2>1. group' = [group EXCEPT ![g] = x]
    BY <1>3
  <2>2. /\ x \in [refcount : Int, nr_tasks : Int, faults : [Cells -> Int], rcu : BOOLEAN]
        /\ x.refcount = group[g].refcount - 1 /\ x.rcu = (group[g].refcount = 1)
        /\ x.nr_tasks = group[g].nr_tasks /\ x.faults = group[g].faults
    <3>1. group[g].refcount - 1 \in Int /\ (group[g].refcount = 1) \in BOOLEAN
      BY <1>2
    <3> QED BY <1>2, <3>1, NumaFields
  <2> HIDE DEF x
  <2> QED BY <1>1, <2>1, <2>2
<1>5. Unused'
  <2> SUFFICES ASSUME NEW h \in Addresses, group'[h].rcu PROVE group'[h].refcount = 0
    BY DEF Unused
  <2>1. CASE h = g
    BY <1>2, <1>4, <2>1
  <2>2. CASE h # g
    BY <1>4, <2>2 DEF GroupInv, Unused
  <2> QED BY <2>1, <2>2
<1> QED BY <1>4, <1>5

LEMMA NumaAssign ==
    ASSUME GroupInv, NEW t \in Tasks, Numa!Assign(t)
    PROVE  GroupInv'
<1> DEFINE g == fault[t].grp
           my == numa_group[t]
<1>1. /\ fault[t].pc = "assign" /\ g \in Addresses /\ my \in Addresses /\ g # my
      /\ numa_group' = [numa_group EXCEPT ![t] = g]
      /\ Numa!put_numa_group(my) /\ Numa!Goto(t, "place")
      /\ UNCHANGED <<numa_faults, membuf, preferred_nid>>
  BY NumaJoiner DEF Numa!Assign, Joins
<1>2. group \in [Addresses -> [refcount : Int, nr_tasks : Int, faults : [Cells -> Int],
                               rcu : BOOLEAN]]
      /\ numa_group \in [Tasks -> Addresses \cup {NULLGroup}]
      /\ numa_faults \in [Tasks -> [Cells -> Nat]]
  BY DEF GroupInv, NumaTyped
<1>3. /\ group' \in [Addresses -> [refcount : Int, nr_tasks : Int, faults : [Cells -> Int],
                                   rcu : BOOLEAN]]
      /\ group'[my].refcount = group[my].refcount - 1
      /\ \A h \in Addresses : group'[h].nr_tasks = group[h].nr_tasks
                              /\ group'[h].faults = group[h].faults
      /\ \A h \in Addresses \ {my} : group'[h].refcount = group[h].refcount
      /\ Unused'
  BY <1>1, NumaPut
<1>4. fault' \in [Tasks -> FaultStates] /\ fault'[t].pc = "place"
      /\ \A u \in Tasks \ {t} : fault'[u] = fault[u]
  BY <1>1, NumaGoto DEF FaultSteps
<1>5. numa_group'[t] = g /\ numa_group' \in [Tasks -> Addresses \cup {NULLGroup}]
      /\ \A u \in Tasks \ {t} : numa_group'[u] = numa_group[u]
  BY <1>1, <1>2
<1>6. OnlyTask(t)
  BY <1>1, <1>4, <1>5 DEF OnlyTask
<1>7. NumaTyped'
  BY <1>1, <1>3, <1>4, <1>5 DEF GroupInv, NumaTyped
<1>8. Numa!CountedIn(t) = g /\ Numa!CountedIn(t)' = g
  BY <1>1, <1>4, <1>5 DEF Numa!CountedIn
<1>9. \A h \in Addresses : Follows(t, h)
  <2> TAKE h \in Addresses
  <2>1. Member(t, h) = Member(t, h)' /\ Member(t, h) \in Int
    BY <1>8 DEF Member, In
  <2>2. \A c \in Cells : Share(t, h, c) = Share(t, h, c)' /\ Share(t, h, c) \in Int
    BY <1>1, <1>2, <1>8 DEF Share, In
  <2>3. Refs(t, h)' = Refs(t, h) - (IF h = my THEN 1 ELSE 0) /\ Refs(t, h) \in Int
    BY <1>1, <1>4, <1>5 DEF Refs, Moves
  <2>4. group[h].nr_tasks \in Int /\ group[h].refcount \in Int
        /\ \A c \in Cells : group[h].faults[c] \in Int
    BY <1>2
  <2> HIDE DEF g, my
  <2> QED BY <1>3, <2>1, <2>2, <2>3, <2>4 DEF Follows
<1>10. Joins(fault'[t], numa_group'[t])
  BY <1>4 DEF Joins
<1> QED BY <1>1, <1>3, <1>6, <1>7, <1>9, <1>10, NumaByTask, NumaPlaceableSame

\* A task that ends takes its faults out of its group, then lets go of it.
LEMMA NumaFreeFaults ==
    ASSUME GroupInv, NEW t \in Tasks, Numa!FreeFaults(t)
    PROVE  GroupInv'
<1> DEFINE g == numa_group[t]
           d == numa_faults[t]
<1>1. /\ fault[t].pc = "none" /\ Numa!Goto(t, "free")
      /\ UNCHANGED <<numa_faults, membuf, numa_group, preferred_nid>>
  BY DEF Numa!FreeFaults
<1>2. group \in [Addresses -> [refcount : Int, nr_tasks : Int, faults : [Cells -> Int],
                               rcu : BOOLEAN]]
      /\ d \in [Cells -> Nat] /\ g \in Addresses \cup {NULLGroup} /\ NULLGroup \notin Addresses
  BY NumaAssumption DEF GroupInv, NumaTyped, NULLGroup, Numa!NULL
<1>3. /\ group' \in [Addresses -> [refcount : Int, nr_tasks : Int, faults : [Cells -> Int],
                                   rcu : BOOLEAN]]
      /\ g \in Addresses => /\ group'[g].nr_tasks = group[g].nr_tasks - 1
                            /\ \A c \in Cells : group'[g].faults[c] = group[g].faults[c] - d[c]
      /\ \A h \in Addresses : group'[h].refcount = group[h].refcount /\ group'[h].rcu = group[h].rcu
      /\ \A h \in Addresses \ {g} :
            group'[h].nr_tasks = group[h].nr_tasks /\ group'[h].faults = group[h].faults
  <2>1. CASE g = NULLGroup
    <3>1. group' = group
      BY <2>1 DEF Numa!FreeFaults, NULLGroup
    <3> QED BY <1>2, <2>1, <3>1
  <2>2. CASE g \in Addresses
    <3>1. /\ Numa!Minus(group[g].faults, d) = [c \in Cells |-> group[g].faults[c] - d[c]]
          /\ Numa!Minus(group[g].faults, d) \in [Cells -> Int]
      BY <1>2, <2>2 DEF Numa!Minus, Cells
    <3>2. group' = [group EXCEPT ![g].faults = Numa!Minus(group[g].faults, d),
                                 ![g].nr_tasks = group[g].nr_tasks - 1]
      BY <1>2, <2>2 DEF Numa!FreeFaults, NULLGroup
    <3>3. group[g] \in [refcount : Int, nr_tasks : Int, faults : [Cells -> Int], rcu : BOOLEAN]
      BY <1>2, <2>2
    <3>4. \A c \in Cells : Numa!Minus(group[g].faults, d)[c] = group[g].faults[c] - d[c]
      BY <3>1
    <3> HIDE DEF g, d
    <3>5. /\ group' \in [Addresses -> [refcount : Int, nr_tasks : Int, faults : [Cells -> Int],
                                       rcu : BOOLEAN]]
          /\ group'[g].nr_tasks = group[g].nr_tasks - 1
          /\ group'[g].faults = Numa!Minus(group[g].faults, d)
      <4> DEFINE x == [group[g] EXCEPT !.faults = Numa!Minus(group[g].faults, d),
                                       !.nr_tasks = group[g].nr_tasks - 1]
      <4>1. group' = [group EXCEPT ![g] = x]
        BY <3>2
      <4>2. /\ x \in [refcount : Int, nr_tasks : Int, faults : [Cells -> Int], rcu : BOOLEAN]
            /\ x.nr_tasks = group[g].nr_tasks - 1
            /\ x.faults = Numa!Minus(group[g].faults, d)
        <5>1. group[g].nr_tasks - 1 \in Int
          BY <3>3
        <5> QED BY <3>1, <3>3, <5>1, NumaFields
      <4> HIDE DEF x
      <4> QED BY <1>2, <2>2, <4>1, <4>2
    <3>6. \A h \in Addresses :
              group'[h].refcount = group[h].refcount /\ group'[h].rcu = group[h].rcu
      BY <1>2, <2>2, <3>2, <3>3
    <3>7. \A h \in Addresses \ {g} : group'[h] = group[h]
      BY <1>2, <2>2, <3>2
    <3> QED BY <2>2, <3>4, <3>5, <3>6, <3>7
  <2> QED BY <1>2, <2>1, <2>2
<1>4. fault' \in [Tasks -> FaultStates] /\ fault'[t].pc = "free"
      /\ \A u \in Tasks \ {t} : fault'[u] = fault[u]
  BY <1>1, NumaGoto
<1>5. OnlyTask(t)
  BY <1>1, <1>4 DEF OnlyTask
<1>6. NumaTyped'
  BY <1>1, <1>3, <1>4 DEF GroupInv, NumaTyped
<1>7. Numa!CountedIn(t) = g /\ Numa!CountedIn(t)' = NULLGroup
  BY <1>1, <1>4 DEF Numa!CountedIn, NULLGroup
<1>8. \A h \in Addresses : Follows(t, h)
  <2> TAKE h \in Addresses
  <2>1. Member(t, h) = (IF h = g THEN 1 ELSE 0) /\ Member(t, h)' = 0
    BY <1>2, <1>7 DEF Member, In
  <2>2. \A c \in Cells : /\ Share(t, h, c) = (IF h = g THEN d[c] ELSE 0) /\ Share(t, h, c)' = 0
                         /\ d[c] \in Int
    BY <1>2, <1>7 DEF Share, In
  <2>3. Refs(t, h)' = Refs(t, h) /\ Refs(t, h) \in Int
    BY <1>1, <1>4 DEF Refs, Moves
  <2>4. group[h].nr_tasks \in Int /\ group[h].refcount \in Int
        /\ \A c \in Cells : group[h].faults[c] \in Int
    BY <1>2
  <2> HIDE DEF g, d
  <2> QED BY <1>3, <2>1, <2>2, <2>3, <2>4 DEF Follows
<1>9. Unused'
  BY <1>3 DEF GroupInv, Unused
<1>10. Joins(fault'[t], numa_group'[t])
  BY <1>4 DEF Joins
<1> QED BY <1>1, <1>5, <1>6, <1>8, <1>9, <1>10, NumaByTask, NumaPlaceableSame

LEMMA NumaFreeGroup ==
    ASSUME GroupInv, NEW t \in Tasks, Numa!FreeGroup(t)
    PROVE  GroupInv'
<1> DEFINE g == numa_group[t]
<1>1. /\ fault[t].pc = "free" /\ Numa!Goto(t, "dead")
      /\ numa_group' = [numa_group EXCEPT ![t] = NULLGroup]
      /\ numa_faults' = [numa_faults EXCEPT ![t] = Numa!NoFaults]
      /\ membuf' = [membuf EXCEPT ![t] = Numa!NoFaults]
      /\ UNCHANGED preferred_nid
  BY DEF Numa!FreeGroup, NULLGroup
<1>2. group \in [Addresses -> [refcount : Int, nr_tasks : Int, faults : [Cells -> Int],
                               rcu : BOOLEAN]]
      /\ g \in Addresses \cup {NULLGroup} /\ NULLGroup \notin Addresses
      /\ numa_group \in [Tasks -> Addresses \cup {NULLGroup}]
      /\ numa_faults \in [Tasks -> [Cells -> Nat]] /\ membuf \in [Tasks -> [Cells -> Nat]]
      /\ Numa!NoFaults \in [Cells -> Nat] /\ \A c \in Cells : Numa!NoFaults[c] = 0
  BY NumaAssumption DEF GroupInv, NumaTyped, NULLGroup, Numa!NULL, Numa!NoFaults, Cells
<1>3. /\ group' \in [Addresses -> [refcount : Int, nr_tasks : Int, faults : [Cells -> Int],
                                   rcu : BOOLEAN]]
      /\ g \in Addresses => group'[g].refcount = group[g].refcount - 1
      /\ \A h \in Addresses : group'[h].nr_tasks = group[h].nr_tasks
                              /\ group'[h].faults = group[h].faults
      /\ \A h \in Addresses \ {g} : group'[h].refcount = group[h].refcount
      /\ Unused'
  <2>1. CASE g = NULLGroup
    <3>1. group' = group
      BY <2>1 DEF Numa!FreeGroup, NULLGroup
    <3>2. Unused'
      BY <3>1 DEF GroupInv, Unused
    <3> QED BY <1>2, <2>1, <3>1, <3>2
  <2>2. CASE g \in Addresses
    <3>1. Numa!put_numa_group(g)
      BY <1>2, <2>2 DEF Numa!FreeGroup, NULLGroup
    <3> QED BY <2>2, <3>1, NumaPut
  <2> QED BY <1>2, <2>1, <2>2
<1>4. fault' \in [Tasks -> FaultStates] /\ fault'[t].pc = "dead"
      /\ \A u \in Tasks \ {t} : fault'[u] = fault[u]
  BY <1>1, NumaGoto
<1>5. /\ numa_group'[t] = NULLGroup /\ numa_group' \in [Tasks -> Addresses \cup {NULLGroup}]
      /\ \A u \in Tasks \ {t} : numa_group'[u] = numa_group[u]
  BY <1>1, <1>2
<1>6. /\ numa_faults'[t] = Numa!NoFaults /\ numa_faults' \in [Tasks -> [Cells -> Nat]]
      /\ membuf' \in [Tasks -> [Cells -> Nat]]
      /\ \A u \in Tasks \ {t} : numa_faults'[u] = numa_faults[u]
  BY <1>1, <1>2
<1>7. OnlyTask(t)
  BY <1>4, <1>5, <1>6 DEF OnlyTask
<1>8. NumaTyped'
  BY <1>1, <1>3, <1>4, <1>5, <1>6 DEF GroupInv, NumaTyped
<1>9. Numa!CountedIn(t) = NULLGroup /\ Numa!CountedIn(t)' = NULLGroup
  BY <1>1, <1>4, <1>5 DEF Numa!CountedIn, NULLGroup
<1>10. \A h \in Addresses : Follows(t, h)
  <2> TAKE h \in Addresses
  <2>1. Member(t, h) = 0 /\ Member(t, h)' = 0
    BY <1>2, <1>9 DEF Member, In
  <2>2. \A c \in Cells : Share(t, h, c) = 0 /\ Share(t, h, c)' = 0
    BY <1>2, <1>9 DEF Share, In
  <2>3. Refs(t, h) = (IF h = g THEN 1 ELSE 0) /\ Refs(t, h)' = 0
    BY <1>1, <1>2, <1>4, <1>5 DEF Refs, Moves
  <2>4. group[h].nr_tasks \in Int /\ group[h].refcount \in Int
        /\ \A c \in Cells : group[h].faults[c] \in Int
    BY <1>2
  <2> HIDE DEF g
  <2> QED BY <1>3, <2>1, <2>2, <2>3, <2>4 DEF Follows
<1>11. Joins(fault'[t], numa_group'[t])
  BY <1>4 DEF Joins
<1>12. Numa!Placeable'
  <2>1. SumIn(Numa!NoFaults, Cells) = 0
    BY <1>2, CellsFinite, SumZero
  <2>2. \A u \in Tasks : Numa!Total(numa_faults[u]) > 0 => preferred_nid[u] # -1
    BY DEF GroupInv, Numa!Inv, Numa!Placeable
  <2>3. Numa!Total(Numa!NoFaults) = 0
    BY <2>1, NumaOperators DEF Numa!Total, Cells
  <2>4. \A u \in Tasks : Numa!Total(numa_faults'[u]) > 0 => preferred_nid'[u] # -1
    <3> TAKE u \in Tasks
    <3>1. CASE u = t
      BY <1>6, <2>3, <3>1
    <3>2. CASE u # t
      BY <1>1, <1>6, <2>2, <3>2
    <3> QED BY <3>1, <3>2
  <2> QED BY <2>4 DEF Numa!Placeable, Numa!Total
<1> QED BY <1>3, <1>7, <1>8, <1>10, <1>11, <1>12, NumaByTask

\* A pass begins: every task that lives sees it.
LEMMA NumaScan == GroupInv /\ Numa!Scan => GroupInv'
<1> SUFFICES ASSUME GroupInv, Numa!Scan PROVE GroupInv'
  OBVIOUS
<1>1. UNCHANGED <<numa_faults, membuf, numa_group, preferred_nid, fault, group>>
  BY DEF Numa!Scan
<1> QED BY <1>1, NumaStutter

-----------------------------------------------------------------------------
(* The placement of a task.                                                *)

LEMMA NumaAnyNid ==
    ASSUME NEW f
    PROVE  Numa!MaxNid(f) \in Nodes \cup {-1}
<1> DEFINE best == {n \in Nodes : /\ Numa!OnNode(f, n) > 0
                                /\ \A o \in Nodes : Numa!OnNode(f, o) <= Numa!OnNode(f, n)}
<1>1. best \subseteq Nat /\ best \subseteq Nodes
  BY NumaAssumption
<1>2. best # {} => Min(best) \in best
  <2> HIDE DEF best
  <2> QED BY <1>1, MinOf
<1> QED BY <1>1, <1>2, NumaOperators DEF Numa!MaxNid

LEMMA NumaMaxNid ==
    ASSUME NEW f \in [Cells -> Int], \E n \in Nodes : Numa!OnNode(f, n) > 0
    PROVE  Numa!MaxNid(f) \in Nodes
<1> DEFINE best == {n \in Nodes : /\ Numa!OnNode(f, n) > 0
                                /\ \A o \in Nodes : Numa!OnNode(f, o) <= Numa!OnNode(f, n)}
<1>1. \A n \in Nodes : Numa!OnNode(f, n) \in Int
  <2> TAKE n \in Nodes
  <2>1. <<n, 0>> \in Cells /\ <<n, 1>> \in Cells
    BY CellsFinite
  <2>2. f[<<n, 0>>] \in Int /\ f[<<n, 1>>] \in Int
    BY <2>1
  <2> QED BY <2>2 DEF Numa!OnNode
<1>2. PICK n \in Nodes : \A o \in Nodes : Numa!OnNode(f, o) <= Numa!OnNode(f, n)
  <2> DEFINE h == [n \in Nodes |-> Numa!OnNode(f, n)]
  <2>1. \A n \in Nodes : h[n] \in Int /\ h[n] = Numa!OnNode(f, n)
    BY <1>1
  <2> HIDE DEF h
  <2>2. PICK n \in Nodes : \A o \in Nodes : h[o] <= h[n]
    BY <2>1, NumaAssumption, GreatestAt
  <2> QED BY <2>1, <2>2
<1>5. n \in best
  BY <1>1, <1>2
<1>6. best \subseteq Nat /\ best # {} /\ best \subseteq Nodes
  BY <1>5, NumaAssumption
<1>7. Min(best) \in best
  BY <1>6, MinOf
<1> QED BY <1>6, <1>7, NumaOperators DEF Numa!MaxNid

\* Faults that are not all zero are somewhere.
LEMMA NumaSomewhere ==
    ASSUME NEW f \in [Cells -> Nat], Numa!Total(f) > 0
    PROVE  \E c \in Cells : f[c] > 0
<1>1. SUFFICES ASSUME \A c \in Cells : f[c] = 0 PROVE FALSE
  OBVIOUS
<1>2. SumIn(f, Cells) = 0
  BY <1>1, CellsFinite, SumZero
<1> QED BY <1>2, NumaOperators DEF Numa!Total, Cells

\* The faults that remain are not negative.
LEMMA NumaMine ==
    ASSUME GroupInv, NEW t \in Tasks
    PROVE  /\ Numa!Diff(t) \in [Cells -> Int]
           /\ Numa!Plus(numa_faults[t], Numa!Diff(t)) \in [Cells -> Nat]
           /\ \A c \in Cells : Numa!Plus(numa_faults[t], Numa!Diff(t))[c] =
                                   numa_faults[t][c] + Numa!Diff(t)[c]
<1>1. \A c \in Cells : numa_faults[t][c] \in Nat /\ membuf[t][c] \in Nat
  BY DEF GroupInv, NumaTyped
<1>2. \A x, y \in Nat : /\ y - x \div 2 \in Int
                        /\ x + (y - x \div 2) \in Nat
  BY DivMod
<1>3. Numa!Diff(t) = [c \in Cells |-> membuf[t][c] - numa_faults[t][c] \div 2]
  BY DEF Numa!Diff, Cells
<1>4. Numa!Plus(numa_faults[t], Numa!Diff(t)) =
          [c \in Cells |-> numa_faults[t][c] + Numa!Diff(t)[c]]
  BY DEF Numa!Plus, Cells
<1>5. \A c \in Cells : /\ Numa!Diff(t)[c] \in Int
                       /\ numa_faults[t][c] + Numa!Diff(t)[c] \in Nat
  BY <1>1, <1>2, <1>3
<1> QED BY <1>3, <1>4, <1>5

\* The placement that a new pass brings.
LEMMA NumaPlaced ==
    ASSUME GroupInv, NEW t \in Tasks, Numa!task_numa_placement(t), t \in fresh
    PROVE  GroupInv'
<1> DEFINE g == numa_group[t]
           d == Numa!Diff(t)
           mine == Numa!Plus(numa_faults[t], Numa!Diff(t))
           nid == IF g = NULLGroup THEN Numa!MaxNid(mine)
                  ELSE Numa!MaxNid(Numa!Placed(t)[g].faults)
           cell == <<fault[t].node, fault[t].priv>>
<1>1. /\ fault[t].pc = "place"
      /\ numa_faults' = [numa_faults EXCEPT ![t] = mine]
      /\ membuf' = [membuf EXCEPT ![t] = [Numa!NoFaults EXCEPT ![cell] = 1]]
      /\ group' = Numa!Placed(t)
      /\ preferred_nid' = IF Numa!Total(mine) > 0
                          THEN [preferred_nid EXCEPT ![t] = nid] ELSE preferred_nid
      /\ fault' = [fault EXCEPT ![t] = Numa!NoFault]
      /\ numa_group' = numa_group
  BY DEF Numa!task_numa_placement, NULLGroup
<1>2. /\ group \in [Addresses -> [refcount : Int, nr_tasks : Int, faults : [Cells -> Int],
                                  rcu : BOOLEAN]]
      /\ g \in Addresses \cup {NULLGroup} /\ NULLGroup \notin Addresses
      /\ numa_faults \in [Tasks -> [Cells -> Nat]] /\ membuf \in [Tasks -> [Cells -> Nat]]
      /\ preferred_nid \in [Tasks -> Nodes \cup {-1}]
      /\ fault \in [Tasks -> FaultStates]
      /\ Numa!NoFaults \in [Cells -> Nat]
  BY NumaAssumption DEF GroupInv, NumaTyped, NULLGroup, Numa!NULL, Numa!NoFaults, Cells
<1>3. /\ mine \in [Cells -> Nat] /\ d \in [Cells -> Int]
      /\ \A c \in Cells : mine[c] = numa_faults[t][c] + d[c]
  BY NumaMine
<1>4. Numa!NoFault \in FaultStates /\ Numa!NoFault.pc = "none"
  BY DEF Numa!NoFault, FaultStates
<1>5. /\ group' \in [Addresses -> [refcount : Int, nr_tasks : Int, faults : [Cells -> Int],
                                   rcu : BOOLEAN]]
      /\ g \in Addresses => \A c \in Cells : group'[g].faults[c] = group[g].faults[c] + d[c]
      /\ \A h \in Addresses : /\ group'[h].refcount = group[h].refcount
                              /\ group'[h].rcu = group[h].rcu
                              /\ group'[h].nr_tasks = group[h].nr_tasks
      /\ \A h \in Addresses \ {g} : group'[h].faults = group[h].faults
  <2>1. CASE g = NULLGroup
    <3>1. group' = group
      BY <1>1, <2>1 DEF Numa!Placed, NULLGroup
    <3> QED BY <1>2, <2>1, <3>1
  <2>2. CASE g \in Addresses
    <3>1. /\ Numa!Plus(group[g].faults, d) = [c \in Cells |-> group[g].faults[c] + d[c]]
          /\ Numa!Plus(group[g].faults, d) \in [Cells -> Int]
      BY <1>2, <1>3, <2>2 DEF Numa!Plus, Cells
    <3>2. group' = [group EXCEPT ![g].faults = Numa!Plus(group[g].faults, d)]
      BY <1>1, <1>2, <2>2 DEF Numa!Placed, NULLGroup
    <3>3. group[g] \in [refcount : Int, nr_tasks : Int, faults : [Cells -> Int], rcu : BOOLEAN]
      BY <1>2, <2>2
    <3>4. \A c \in Cells : Numa!Plus(group[g].faults, d)[c] = group[g].faults[c] + d[c]
      BY <3>1
    <3> HIDE DEF g, d
    <3> QED BY <1>2, <2>2, <3>1, <3>2, <3>3, <3>4
  <2> QED BY <1>2, <2>1, <2>2
<1>6. nid \in Nodes \cup {-1}
  BY NumaAnyNid
<1>7. fault[t].node \in Nodes /\ fault[t].priv \in {0, 1}
  BY <1>1, <1>2 DEF FaultStates
<1>8. [Numa!NoFaults EXCEPT ![cell] = 1] \in [Cells -> Nat]
  <2>1. cell \in Cells
    BY <1>7, CellsFinite
  <2> HIDE DEF cell
  <2> QED BY <1>2, <2>1
<1>9. /\ fault' \in [Tasks -> FaultStates] /\ fault'[t] = Numa!NoFault
      /\ \A u \in Tasks \ {t} : fault'[u] = fault[u]
  BY <1>1, <1>2, <1>4
<1>10. /\ numa_faults' \in [Tasks -> [Cells -> Nat]] /\ numa_faults'[t] = mine
       /\ \A u \in Tasks \ {t} : numa_faults'[u] = numa_faults[u]
  <2> HIDE DEF mine
  <2> QED BY <1>1, <1>2, <1>3
<1>11. /\ preferred_nid' \in [Tasks -> Nodes \cup {-1}]
       /\ \A u \in Tasks \ {t} : preferred_nid'[u] = preferred_nid[u]
       /\ Numa!Total(mine) > 0 => preferred_nid'[t] = nid
  <2> HIDE DEF mine, nid
  <2> QED BY <1>1, <1>2, <1>6
<1>12. membuf' \in [Tasks -> [Cells -> Nat]]
  <2> DEFINE m == [Numa!NoFaults EXCEPT ![cell] = 1]
  <2>1. m \in [Cells -> Nat] /\ membuf' = [membuf EXCEPT ![t] = m]
    BY <1>1, <1>8
  <2> HIDE DEF m
  <2> QED BY <1>2, <2>1
<1>13. NumaTyped'
  BY <1>1, <1>5, <1>9, <1>10, <1>11, <1>12 DEF GroupInv, NumaTyped
<1>14. OnlyTask(t)
  BY <1>1, <1>9, <1>10 DEF OnlyTask
<1>15. Numa!CountedIn(t) = g /\ Numa!CountedIn(t)' = g
  BY <1>1, <1>4, <1>9 DEF Numa!CountedIn
<1>16. \A h \in Addresses : Follows(t, h)
  <2> TAKE h \in Addresses
  <2>1. Member(t, h)' = Member(t, h) /\ Member(t, h) \in Int
    BY <1>15 DEF Member, In
  <2>2. \A c \in Cells : /\ Share(t, h, c) = (IF h = g THEN numa_faults[t][c] ELSE 0)
                         /\ Share(t, h, c)' = (IF h = g THEN mine[c] ELSE 0)
                         /\ numa_faults[t][c] \in Int /\ d[c] \in Int
    BY <1>2, <1>3, <1>10, <1>15 DEF Share, In
  <2>3. Refs(t, h)' = Refs(t, h) /\ Refs(t, h) \in Int
    BY <1>1, <1>4, <1>9 DEF Refs, Moves
  <2>4. group[h].nr_tasks \in Int /\ group[h].refcount \in Int
        /\ \A c \in Cells : group[h].faults[c] \in Int
    BY <1>2
  <2> HIDE DEF g, d, mine
  <2>5. \A c \in Cells : group'[h].faults[c] = IF h = g THEN group[h].faults[c] + d[c]
                                              ELSE group[h].faults[c]
    BY <1>5
  <2>6. \A c \in Cells :
            group'[h].faults[c] = group[h].faults[c] - Share(t, h, c) + Share(t, h, c)'
    <3> TAKE c \in Cells
    <3>1. mine[c] = numa_faults[t][c] + d[c]
      BY <1>3
    <3>2. CASE h = g
      BY <2>2, <2>4, <2>5, <3>1, <3>2
    <3>3. CASE h # g
      BY <2>2, <2>4, <2>5, <3>3
    <3> QED BY <3>2, <3>3
  <2> QED BY <1>5, <2>1, <2>3, <2>4, <2>6 DEF Follows
<1>17. Unused'
  BY <1>5 DEF GroupInv, Unused
<1>18. Joins(fault'[t], numa_group'[t])
  BY <1>4, <1>9 DEF Joins
<1>19. Numa!Total(mine) > 0 => nid \in Nodes
  <2> SUFFICES ASSUME Numa!Total(mine) > 0 PROVE nid \in Nodes
    OBVIOUS
  <2>1. PICK c \in Cells : mine[c] > 0
    BY <1>3, NumaSomewhere
  <2>2. PICK n \in Nodes, p \in {0, 1} : c = <<n, p>>
    BY DEF Cells, Numa!Cells
  <2>3. \A f \in [Cells -> Int] : (\A x \in Cells : mine[x] <= f[x]) => Numa!MaxNid(f) \in Nodes
    <3> TAKE f \in [Cells -> Int]
    <3> SUFFICES ASSUME \A x \in Cells : mine[x] <= f[x] PROVE Numa!MaxNid(f) \in Nodes
      OBVIOUS
    <3>1. <<n, 0>> \in Cells /\ <<n, 1>> \in Cells
      BY CellsFinite
    <3>2. /\ mine[<<n, 0>>] \in Nat /\ mine[<<n, 1>>] \in Nat
          /\ f[<<n, 0>>] \in Int /\ f[<<n, 1>>] \in Int
          /\ mine[<<n, 0>>] <= f[<<n, 0>>] /\ mine[<<n, 1>>] <= f[<<n, 1>>]
      <4> HIDE DEF mine
      <4> QED BY <1>3, <3>1
    <3>3. mine[<<n, 0>>] > 0 \/ mine[<<n, 1>>] > 0
      BY <2>1, <2>2
    <3> HIDE DEF mine
    <3>4. f[<<n, 0>>] + f[<<n, 1>>] > 0
      BY <3>2, <3>3
    <3>5. Numa!OnNode(f, n) > 0
      BY <3>4 DEF Numa!OnNode
    <3> QED BY <3>5, NumaMaxNid
  <2>4. CASE g = NULLGroup
    <3>1. mine \in [Cells -> Int] /\ \A x \in Cells : mine[x] <= mine[x]
      <4> HIDE DEF mine
      <4> QED BY <1>3
    <3> QED BY <2>3, <2>4, <3>1
  <2>5. ASSUME NEW h \in Addresses, h = g PROVE nid \in Nodes
    <3>1. Numa!SumsMatch'
      BY <1>13, <1>14, <1>16, NumaFollow
    <3>2. \A x \in Cells : group'[h].faults[x] = SumIn(FaultsIn(x, Members(h))', Members(h)')
      BY <2>5, <3>1, NumaCountsNext
    <3>3. t \in Members(h)' /\ IsFiniteSet(Members(h)')
      <4>1. \A u \in Members(h)' : u \in Tasks
        BY DEF Members
      <4> QED BY <1>15, <2>5, <4>1, NumaAssumption, FS_Subset DEF Members, In
    <3>4. ASSUME NEW x \in Cells PROVE mine[x] <= group'[h].faults[x]
      <4> DEFINE f == FaultsIn(x, Members(h))'
                 S == Members(h)'
      <4>1. \A u \in S : u \in Tasks /\ f[u] = numa_faults'[u][x]
        BY DEF FaultsIn, Members
      <4>2. \A u \in S : f[u] \in Nat
        BY <1>10, <4>1
      <4>3. f[t] = mine[x]
        BY <1>10, <3>3, <4>1
      <4>4. group'[h].faults[x] = SumIn(f, S)
        BY <3>2
      <4>5. t \in S /\ IsFiniteSet(S)
        BY <3>3
      <4> HIDE DEF f, S, mine
      <4> QED BY <4>2, <4>3, <4>4, <4>5, SumBound
    <3>5. group'[h].faults \in [Cells -> Int]
      BY <1>5
    <3>6. nid = Numa!MaxNid(group'[h].faults)
      BY <1>1, <1>2, <2>5
    <3> QED BY <2>3, <3>4, <3>5, <3>6
  <2> QED BY <1>2, <2>4, <2>5
<1>20. Numa!Placeable'
  <2>1. \A u \in Tasks : Numa!Total(numa_faults[u]) > 0 => preferred_nid[u] # -1
    BY DEF GroupInv, Numa!Inv, Numa!Placeable
  <2>2. \A u \in Tasks : Numa!Total(numa_faults'[u]) > 0 => preferred_nid'[u] # -1
    <3> TAKE u \in Tasks
    <3>1. CASE u = t
      <4>1. numa_faults'[u] = mine /\ (Numa!Total(mine) > 0 => preferred_nid'[u] \in Nodes)
        BY <1>10, <1>11, <1>19, <3>1, Zenon
      <4>2. -1 \notin Nodes
        BY NumaAssumption
      <4> HIDE DEF mine
      <4> QED BY <4>1, <4>2, Zenon
    <3>2. CASE u # t
      <4>1. numa_faults'[u] = numa_faults[u] /\ preferred_nid'[u] = preferred_nid[u]
        BY <1>10, <1>11, <3>2, Zenon
      <4> QED BY <2>1, <4>1, Zenon
    <3> QED BY <3>1, <3>2
  <2> QED BY <2>2 DEF Numa!Placeable, Numa!Total
<1> QED BY <1>13, <1>14, <1>16, <1>17, <1>18, <1>20, NumaByTask

LEMMA NumaPlacement ==
    ASSUME GroupInv, NEW t \in Tasks, Numa!task_numa_placement(t)
    PROVE  GroupInv'
<1>1. CASE t \in fresh
  BY <1>1, NumaPlaced
<1>2. CASE t \notin fresh
  <2> DEFINE cell == <<fault[t].node, fault[t].priv>>
  <2>1. /\ fault[t].pc = "place"
        /\ membuf' = [membuf EXCEPT ![t][cell] = membuf[t][cell] + 1]
        /\ fault' = [fault EXCEPT ![t] = Numa!NoFault]
        /\ UNCHANGED <<numa_faults, numa_group, preferred_nid, group>>
    BY <1>2 DEF Numa!task_numa_placement
  <2>2. membuf \in [Tasks -> [Cells -> Nat]] /\ fault \in [Tasks -> FaultStates]
    BY DEF GroupInv, NumaTyped
  <2>3. fault[t].node \in Nodes /\ fault[t].priv \in {0, 1}
    BY <2>1, <2>2 DEF FaultStates
  <2>4. cell \in Cells
    BY <2>3, CellsFinite
  <2>5. membuf' \in [Tasks -> [Cells -> Nat]]
    <3> HIDE DEF cell
    <3> QED BY <2>1, <2>2, <2>4
  <2>6. Numa!NoFault \in FaultStates /\ Numa!NoFault.pc = "none"
    BY DEF Numa!NoFault, FaultStates
  <2>7. Joins(Numa!NoFault, numa_group[t])
    BY <2>6 DEF Joins
  <2> QED BY <2>1, <2>5, <2>6, <2>7, NumaQuiet
<1> QED BY <1>1, <1>2

-----------------------------------------------------------------------------
\* The grace period ends: what was unused is as good as new.
LEMMA NumaReclaim ==
    ASSUME GroupInv, NEW g \in Addresses, Numa!Reclaim(g)
    PROVE  GroupInv'
<1>1. /\ group[g].rcu /\ group' = [group EXCEPT ![g] = Numa!NoGroup]
      /\ UNCHANGED <<numa_faults, membuf, numa_group, preferred_nid, fault>>
  BY DEF Numa!Reclaim
<1>2. group[g].refcount = 0
  BY <1>1 DEF GroupInv, Unused
<1>3. group[g].nr_tasks = 0 /\ \A c \in Cells : group[g].faults[c] = 0
  BY <1>2, NumaUnused
<1>4. group \in [Addresses -> [refcount : Int, nr_tasks : Int, faults : [Cells -> Int],
                               rcu : BOOLEAN]]
  BY DEF GroupInv, NumaTyped
<1>5. Numa!NoGroup \in [refcount : Int, nr_tasks : Int, faults : [Cells -> Int], rcu : BOOLEAN]
      /\ Numa!NoGroup.refcount = 0 /\ Numa!NoGroup.nr_tasks = 0
      /\ \A c \in Cells : Numa!NoGroup.faults[c] = 0
  BY DEF Numa!NoGroup, Numa!NoFaults, Cells
<1>6. /\ group' \in [Addresses -> [refcount : Int, nr_tasks : Int, faults : [Cells -> Int],
                                   rcu : BOOLEAN]]
      /\ \A h \in Addresses :
            /\ group'[h].refcount = group[h].refcount /\ group'[h].nr_tasks = group[h].nr_tasks
            /\ \A c \in Cells : group'[h].faults[c] = group[h].faults[c]
      /\ \A h \in Addresses \ {g} : group'[h] = group[h]
      /\ group'[g].refcount = 0
  BY <1>1, <1>2, <1>3, <1>4, <1>5
<1>7. NumaTyped' /\ Joining'
  BY <1>1, <1>6 DEF GroupInv, NumaTyped, Joining
<1>8. Unused'
  BY <1>6 DEF GroupInv, Unused
<1>9. \A h : Members(h)' = Members(h) /\ Holders(h)' = Holders(h) /\ Movers(h)' = Movers(h)
  BY <1>1 DEF Members, Holders, Movers, In, Moves, Numa!CountedIn
<1>10. \A c, S : FaultsIn(c, S)' = FaultsIn(c, S)
  BY <1>1 DEF FaultsIn
<1>11. Numa!SumsMatch' /\ Numa!RefsMatch'
  <2> SUFFICES ASSUME NEW h \in Addresses
               PROVE  /\ group'[h].nr_tasks = Cardinality(Members(h)')
                      /\ \A c \in Cells :
                            group'[h].faults[c] = SumIn(FaultsIn(c, Members(h))', Members(h)')
                      /\ group'[h].refcount = Cardinality(Holders(h)') + Cardinality(Movers(h)')
    BY NumaCountsNext
  <2>1. /\ group[h].nr_tasks = Cardinality(Members(h))
        /\ \A c \in Cells : group[h].faults[c] = SumIn(FaultsIn(c, Members(h)), Members(h))
        /\ group[h].refcount = Cardinality(Holders(h)) + Cardinality(Movers(h))
    BY NumaCounts DEF GroupInv, Numa!Inv
  <2>2. \A c : FaultsIn(c, Members(h))' = FaultsIn(c, Members(h))
    BY <1>1, <1>9 DEF FaultsIn
  <2> QED BY <1>6, <1>9, <2>1, <2>2
<1>12. Numa!TypeOK' /\ Numa!Placeable'
  BY <1>1 DEF GroupInv, Numa!Inv, Numa!TypeOK, Numa!Placeable
<1> QED BY <1>7, <1>8, <1>11, <1>12 DEF GroupInv, Numa!Inv

\* Every step of the groups keeps their sums and references.
LEMMA NumaStep == GroupInv /\ [Numa!Next]_numaVars => GroupInv'
<1> SUFFICES ASSUME GroupInv, [Numa!Next]_numaVars PROVE GroupInv'
  OBVIOUS
<1>1. CASE UNCHANGED numaVars
  BY <1>1, NumaStutter DEF numaVars
<1>2. CASE Numa!Scan
  BY <1>2, NumaScan
<1>3. ASSUME NEW g \in Addresses, Numa!Reclaim(g) PROVE GroupInv'
  BY <1>3, NumaReclaim
<1>4. ASSUME NEW t \in Tasks,
             \/ Numa!task_numa_fault(t) \/ Numa!task_numa_group(t) \/ Numa!Look(t)
             \/ Numa!Get(t) \/ Numa!Move(t) \/ Numa!Assign(t) \/ Numa!task_numa_placement(t)
             \/ Numa!FreeFaults(t) \/ Numa!FreeGroup(t)
      PROVE  GroupInv'
  BY <1>4, NumaFault, NumaGroup, NumaLook, NumaGet, NumaMove, NumaAssign, NumaPlacement,
     NumaFreeFaults, NumaFreeGroup
<1> QED BY <1>1, <1>2, <1>3, <1>4 DEF Numa!Next, numaVars

-----------------------------------------------------------------------------
(* NUMA migration.                                                         *)

LEMMA MoveOperators ==
    /\ \A S : Move!Cardinality(S) = Cardinality(S) /\ Move!Min(S) = Min(S) /\ Move!Max(S) = Max(S)
    /\ \A f, S : Move!SumOver(f, S) = SumIn(f, S)
BY DEF Move!Cardinality, Cardinality, Move!Min, Min, Move!Max, Max, Move!SumOver, SumIn,
   Move!MapThenSumSet, MapThenSumSet, Move!MapThenFoldSet, MapThenFoldSet

LEMMA MoveFinite ==
    /\ IsFiniteSet(Tasks) /\ IsFiniteSet(Nodes) /\ Nodes # {} /\ Nodes \subseteq Nat
    /\ -1 \notin Nodes /\ -1 \notin CPUs /\ None \notin Tasks
BY NumaAssumption, MoveAssumption

\* Faults are counted, and weights are numbers.
LEMMA MoveFaults ==
    ASSUME NEW t \in Tasks, NEW n \in Nodes
    PROVE  Move!task_faults(t, n) \in Nat /\ Move!group_faults(t, n) \in Nat
<1>1. \A u \in Tasks : Faults[u][n] \in Nat
  BY MoveAssumption
<1>2. Move!group_faults(t, n) \in Nat
  <2> DEFINE S == {u \in Tasks : Group[u] = Group[t]}
             f == [u \in S |-> Faults[u][n]]
  <2>1. IsFiniteSet(S) /\ \A u \in S : f[u] \in Nat
    BY <1>1, MoveFinite, FS_Subset
  <2> HIDE DEF f
  <2>2. SumIn(f, S) \in Nat
    <3> HIDE DEF S
    <3> QED BY <2>1, SumBound
  <2> QED BY <2>2, MoveOperators DEF Move!group_faults, f
<1> QED BY <1>1, <1>2 DEF Move!task_faults

LEMMA MoveDistances ==
    /\ IsFiniteSet({Distance[n][m] : n, m \in Nodes})
    /\ Move!MaxDistance \in Nat
    /\ NumaTopology # "DIRECT" => Move!MaxDistance > 10
<1> DEFINE P == Nodes \X Nodes
           f == [p \in P |-> Distance[p[1]][p[2]]]
           D == {Distance[n][m] : n, m \in Nodes}
           T == {f[p] : p \in P}
<1>1. ASSUME NEW p \in P
      PROVE  p[1] \in Nodes /\ p[2] \in Nodes /\ f[p] = Distance[p[1]][p[2]] /\ f[p] \in Nat
  BY MoveAssumption
<1>2. ASSUME NEW n \in Nodes, NEW m \in Nodes
      PROVE  Distance[n][m] \in T /\ Distance[n][m] \in D
  <2>1. <<n, m>> \in P /\ f[<<n, m>>] = Distance[n][m]
    OBVIOUS
  <2> QED BY <2>1
<1>3. ASSUME NEW d \in D PROVE \E n, m \in Nodes : d = Distance[n][m]
  OBVIOUS
<1>4. D = T
  <2>1. ASSUME NEW d \in D PROVE d \in T
    <3> HIDE DEF f, P, D, T
    <3>1. PICK n \in Nodes, m \in Nodes : d = Distance[n][m]
      BY <1>3
    <3> QED BY <1>2, <3>1
  <2>2. ASSUME NEW d \in T PROVE d \in D
    <3>1. PICK p \in P : d = f[p]
      OBVIOUS
    <3> HIDE DEF f, P, D, T
    <3>2. p[1] \in Nodes /\ p[2] \in Nodes /\ d = Distance[p[1]][p[2]]
      BY <1>1, <3>1
    <3> QED BY <1>2, <3>2
  <2> HIDE DEF D, T
  <2> QED BY <2>1, <2>2
<1>5. IsFiniteSet(P) /\ P # {} /\ \A p \in P : f[p] \in Int
  <2>1. IsFiniteSet(P)
    BY MoveFinite, FS_Product
  <2>2. P # {}
    <3>1. PICK n \in Nodes : TRUE
      BY MoveFinite
    <3>2. <<n, n>> \in P
      OBVIOUS
    <3> QED BY <3>2
  <2>3. \A p \in P : f[p] \in Int
    BY <1>1
  <2> QED BY <2>1, <2>2, <2>3
<1>6. T # {} /\ T \subseteq Int /\ \A d \in T : d \in Nat
  <2>1. \A p \in P : f[p] \in Nat
    BY <1>1
  <2> HIDE DEF f, P
  <2> QED BY <1>5, <2>1
<1>7. IsFiniteSet(T)
  <2> HIDE DEF f, P
  <2> QED BY <1>5, MaxValue
<1>8. Move!MaxDistance = Max(T)
  <2>1. Move!MaxDistance = Max(D)
    BY MoveOperators DEF Move!MaxDistance
  <2> HIDE DEF D, T
  <2> QED BY <1>4, <2>1, Zenon
<1>9. Max(T) \in Nat /\ \A d \in T : d <= Max(T)
  <2> HIDE DEF T
  <2> QED BY <1>6, <1>7, MaxOf
<1>10. ASSUME NumaTopology # "DIRECT" PROVE Max(T) > 10
  <2>1. PICK n \in Nodes, m \in Nodes : Distance[n][m] > 10
    BY <1>10, MoveAssumption
  <2>2. Distance[n][m] \in T /\ Distance[n][m] \in Nat
    BY <1>2, MoveAssumption
  <2> HIDE DEF T
  <2> QED BY <1>9, <2>1, <2>2
<1>11. IsFiniteSet(D)
  <2> HIDE DEF D, T
  <2> QED BY <1>4, <1>7, Zenon
<1> HIDE DEF T
<1> QED BY <1>8, <1>9, <1>10, <1>11 DEF D

LEMMA MoveScore ==
    ASSUME NEW f \in [Nodes -> Nat], NEW n \in Nodes, NEW dist
    PROVE  Move!score_nearby_nodes(f, n, dist) \in Int
<1> DEFINE near == {m \in Nodes : /\ m # n /\ Distance[n][m] # Move!MaxDistance
                                  /\ NumaTopology = "BACKPLANE" => Distance[n][m] <= dist}
           scaled(m) == IF NumaTopology = "GLUELESS_MESH"
                        THEN (f[m] * (Move!MaxDistance - Distance[n][m]))
                                \div (Move!MaxDistance - Move!LOCAL_DISTANCE)
                        ELSE f[m]
           g == [m \in near |-> scaled(m)]
<1>1. IsFiniteSet(near) /\ \A m \in near : m \in Nodes
  BY MoveFinite, FS_Subset
<1>2. \A m \in Nodes : scaled(m) \in Int
  <2> TAKE m \in Nodes
  <2>1. f[m] \in Int /\ Move!MaxDistance - Distance[n][m] \in Int
    BY MoveAssumption, MoveDistances
  <2>2. CASE NumaTopology = "GLUELESS_MESH"
    <3> DEFINE a == f[m] * (Move!MaxDistance - Distance[n][m])
               b == Move!MaxDistance - Move!LOCAL_DISTANCE
    <3>1. a \in Int
      BY <2>1
    <3>2. b \in Int /\ b > 0
      BY <2>2, MoveDistances DEF Move!LOCAL_DISTANCE
    <3> HIDE DEF a, b
    <3>3. a \div b \in Int
      BY <3>1, <3>2, DivMod
    <3> QED BY <2>2, <3>3 DEF a, b
  <2>3. CASE NumaTopology # "GLUELESS_MESH"
    BY <2>1, <2>3
  <2> QED BY <2>2, <2>3
<1>3. \A m \in near : g[m] \in Int
  <2> HIDE DEF scaled
  <2> QED BY <1>1, <1>2
<1>4. SumIn(g, near) \in Int
  <2> HIDE DEF near, g
  <2> QED BY <1>1, <1>3, SumType
<1> QED BY <1>4, MoveOperators DEF Move!score_nearby_nodes

LEMMA MoveWeight ==
    ASSUME NEW f \in [Nodes -> Nat], NEW n \in Nodes, NEW dist
    PROVE  Move!Weight(f, n, dist) \in Int
<1> DEFINE total == SumIn(f, Nodes)
           a == 1000 * (f[n] + Move!score_nearby_nodes(f, n, dist))
<1>1. total \in Nat
  BY MoveFinite, SumBound
<1>2. a \in Int
  BY MoveScore
<1>3. Move!Weight(f, n, dist) = IF total = 0 THEN 0 ELSE a \div total
  BY MoveOperators DEF Move!Weight
<1> HIDE DEF total, a
<1>4. total # 0 => a \div total \in Int
  BY <1>1, <1>2, DivMod
<1> QED BY <1>3, <1>4

LEMMA MoveWeights ==
    ASSUME NEW t \in Tasks, NEW n \in Nodes, NEW dist
    PROVE  Move!task_weight(t, n, dist) \in Int /\ Move!group_weight(t, n, dist) \in Int
<1> DEFINE f == [m \in Nodes |-> Move!task_faults(t, m)]
           g == [m \in Nodes |-> Move!group_faults(t, m)]
<1>1. f \in [Nodes -> Nat] /\ g \in [Nodes -> Nat]
  BY MoveFaults
<1>2. Move!Weight(f, n, dist) \in Int /\ Move!Weight(g, n, dist) \in Int
  <2> HIDE DEF f, g
  <2> QED BY <1>1, MoveWeight
<1> QED BY <1>2 DEF Move!task_weight, Move!group_weight

-----------------------------------------------------------------------------
\* The preferred node is a node or none.
MaybeNode == Nodes \cup {-1}

LEMMA MoveBest ==
    ASSUME NEW f, \A n \in Nodes : f[n] \in Int, NEW nid \in MaybeNode
    PROVE  Move!Best(f, Nodes, nid) \in MaybeNode
<1> DEFINE T == {f[n] : n \in Nodes}
           S == {n \in Nodes : f[n] = Max(T)}
<1>1. S # {} /\ S \subseteq Nat /\ S \subseteq Nodes
  <2>1. \E a \in Nodes : Max(T) = f[a]
    BY MoveFinite, MaxValue
  <2> HIDE DEF T
  <2> QED BY <2>1, MoveFinite
<1>2. Min(S) \in S
  <2> HIDE DEF S
  <2> QED BY <1>1, MinOf
<1>3. Move!Best(f, Nodes, nid) = IF Max(T) = 0 THEN nid ELSE Min(S)
  BY MoveOperators DEF Move!Best
<1> HIDE DEF S, T
<1> QED BY <1>1, <1>2, <1>3 DEF MaybeNode

Splits == [nodes : SUBSET Nodes, max_faults : Int, max_group : SUBSET Nodes, nid : MaybeNode]
Rounds == [nid : MaybeNode, nodes : SUBSET Nodes, done : BOOLEAN]

LEMMA MoveSplit ==
    ASSUME NEW t \in Tasks, NEW dist, NEW a \in Nodes, NEW s \in Splits
    PROVE  Move!Split(t, dist, a, s) \in Splits
<1> DEFINE this_group == {b \in s.nodes : Distance[a][b] < dist}
           f == [b \in this_group |-> Move!group_faults(t, b)]
           faults == SumIn(f, this_group)
           left == s.nodes \ this_group
<1>1. s.nodes \subseteq Nodes
  BY DEF Splits
<1>2. this_group \subseteq Nodes /\ left \subseteq Nodes /\ IsFiniteSet(this_group)
  BY <1>1, MoveFinite, FS_Subset
<1>3. \A b \in this_group : f[b] \in Int
  BY <1>2, MoveFaults
<1>4. faults \in Int
  <2> HIDE DEF f, this_group
  <2> QED BY <1>2, <1>3, SumType
<1>5. Move!Split(t, dist, a, s) =
          CASE a \notin s.nodes -> s
            [] a \in s.nodes /\ faults <= s.max_faults -> [s EXCEPT !.nodes = left]
            [] OTHER -> [nodes |-> left, max_faults |-> faults, max_group |-> this_group,
                         nid |-> a]
  BY MoveOperators DEF Move!Split
<1> HIDE DEF this_group, faults, left
<1>6. [s EXCEPT !.nodes = left] \in Splits
  BY <1>2 DEF Splits
<1>7. [nodes |-> left, max_faults |-> faults, max_group |-> this_group, nid |-> a] \in Splits
  BY <1>2, <1>4 DEF Splits, MaybeNode
<1> QED BY <1>5, <1>6, <1>7

\* The split of one round, node by node.
SplitEquation(t, dist, r, it) ==
    it = [s \in SUBSET r.nodes |->
            IF s = {} THEN [nodes |-> r.nodes, max_faults |-> 0, max_group |-> {}, nid |-> r.nid]
            ELSE Move!Split(t, dist, Move!Max(s), it[s \ {Move!Max(s)}])]
SplitEnd(t, dist, r) == (CHOOSE it : SplitEquation(t, dist, r, it))[r.nodes]

LEMMA MoveRoundUnfold ==
    ASSUME NEW t, NEW dist, NEW r
    PROVE  Move!Round(t, dist, r) =
               IF r.done \/ SplitEnd(t, dist, r).max_faults = 0 THEN [r EXCEPT !.done = TRUE]
               ELSE [r EXCEPT !.nid = SplitEnd(t, dist, r).nid,
                              !.nodes = SplitEnd(t, dist, r).max_group]
BY Zenon DEF Move!Round, Move!MapThenFoldSet, SplitEnd, SplitEquation

LEMMA MoveRound ==
    ASSUME NEW t \in Tasks, NEW dist, NEW r \in Rounds
    PROVE  Move!Round(t, dist, r) \in Rounds
<1> DEFINE S == r.nodes
           base == [nodes |-> S, max_faults |-> 0, max_group |-> {}, nid |-> r.nid]
           rest == [s \in SUBSET S |-> s \ {Max(s)}]
           step == [s \in SUBSET S |-> [v \in Splits |-> Move!Split(t, dist, Max(s), v)]]
<1>1. S \subseteq Nodes /\ IsFiniteSet(S)
  BY MoveFinite, FS_Subset DEF Rounds
<1>2. base \in Splits
  BY <1>1 DEF Splits, Rounds
<1>3. \A s \in SUBSET S : s # {} => Max(s) \in s /\ Max(s) \in Nodes
  <2> TAKE s \in SUBSET S
  <2> HAVE s # {}
  <2>1. s \subseteq Nodes /\ s \subseteq Int
    <3> HIDE DEF S
    <3>1. s \subseteq Nodes
      BY <1>1
    <3> QED BY <3>1, MoveFinite
  <2>2. IsFiniteSet(s)
    BY <2>1, MoveFinite, FS_Subset
  <2> QED BY <2>1, <2>2, MaxOf
<1>4. \A s \in SUBSET S : s # {} => rest[s] \subseteq s /\ rest[s] # s
  BY <1>3
<1>5. \A s \in SUBSET S : s # {} => \A v \in Splits : /\ Move!Split(t, dist, Max(s), v) \in Splits
                                                      /\ step[s][v] = Move!Split(t, dist, Max(s), v)
  BY <1>3, MoveSplit
<1>6. \E it : SplitEquation(t, dist, r, it)
  <2>1. \A s \in SUBSET S : s # {} => \A v \in Splits : step[s][v] \in Splits
    BY <1>5
  <2>2. PICK it \in [SUBSET S -> Splits] : FoldEquation(it, SUBSET S, base, rest, step)
    <3> HIDE DEF S, base, rest, step
    <3> QED BY <1>1, <1>2, <1>4, <2>1, FoldExists
  <2>3. ASSUME NEW s \in SUBSET S
        PROVE  it[s] = IF s = {} THEN base ELSE Move!Split(t, dist, Max(s), it[s \ {Max(s)}])
    <3>1. it[s] = IF s = {} THEN base ELSE step[s][it[rest[s]]]
      BY <2>2 DEF FoldEquation
    <3>2. s # {} => it[rest[s]] \in Splits
      <4>1. s # {} => rest[s] \in SUBSET S
        BY <1>4
      <4> HIDE DEF rest
      <4> QED BY <4>1
    <3>3. rest[s] = s \ {Max(s)}
      OBVIOUS
    <3> HIDE DEF rest, step, base
    <3> QED BY <1>5, <3>1, <3>2, <3>3
  <2>4. it = [s \in SUBSET S |-> IF s = {} THEN base
                                 ELSE Move!Split(t, dist, Move!Max(s), it[s \ {Move!Max(s)}])]
    <3>1. \A s : Move!Max(s) = Max(s)
      BY MoveOperators
    <3> HIDE DEF base, S
    <3> QED BY <2>3, <3>1
  <2> QED BY <2>4 DEF SplitEquation
<1> DEFINE it == CHOOSE it : SplitEquation(t, dist, r, it)
<1>7. SplitEquation(t, dist, r, it)
  BY <1>6
<1>8. /\ it[{}] = base
      /\ \A s \in SUBSET S : s # {} => it[s] = Move!Split(t, dist, Max(s), it[s \ {Max(s)}])
  <2> HIDE DEF it
  <2>1. it = [s \in SUBSET S |-> IF s = {} THEN base
                                 ELSE Move!Split(t, dist, Move!Max(s), it[s \ {Move!Max(s)}])]
    BY <1>7 DEF SplitEquation
  <2>2. \A s : Move!Max(s) = Max(s)
    BY MoveOperators
  <2> HIDE DEF base, S
  <2> QED BY <2>1, <2>2
<1>9. it[S] \in Splits
  <2>1. \A s \in SUBSET S : s # {} => /\ rest[s] \subseteq s /\ rest[s] # s
                                      /\ it[rest[s]] \in Splits => it[s] \in Splits
    <3> TAKE s \in SUBSET S
    <3> HAVE s # {}
    <3>1. rest[s] = s \ {Max(s)}
      OBVIOUS
    <3>2. it[s] = Move!Split(t, dist, Max(s), it[s \ {Max(s)}])
      <4> HIDE DEF it
      <4> QED BY <1>8
    <3>3. it[s \ {Max(s)}] \in Splits => it[s] \in Splits
      <4> HIDE DEF it
      <4> QED BY <1>5, <3>2
    <3> HIDE DEF it, rest
    <3> QED BY <1>4, <3>1, <3>3
  <2> HIDE DEF it, rest, base, S
  <2> QED BY <1>1, <1>2, <1>8, <2>1, FoldTyped
<1>10. SplitEnd(t, dist, r) \in Splits
  BY <1>9 DEF SplitEnd
<1> HIDE DEF it
<1>11. [r EXCEPT !.done = TRUE] \in Rounds
  BY DEF Rounds
<1>12. [r EXCEPT !.nid = SplitEnd(t, dist, r).nid, !.nodes = SplitEnd(t, dist, r).max_group]
          \in Rounds
  <2> DEFINE e == SplitEnd(t, dist, r)
  <2>1. e.nid \in MaybeNode /\ e.max_group \in SUBSET Nodes
    BY <1>10 DEF Splits
  <2> HIDE DEF e
  <2>2. [r EXCEPT !.nid = e.nid, !.nodes = e.max_group] \in Rounds
    BY <2>1 DEF Rounds
  <2> QED BY <2>2 DEF e
<1> QED BY <1>11, <1>12, MoveRoundUnfold

\* The rounds, for one distance after the other.
RoundEquation(t, nid, it) ==
    it = [s \in SUBSET Move!Farther |->
            IF s = {} THEN [nid |-> nid, nodes |-> Nodes, done |-> FALSE]
            ELSE Move!Round(t, Move!Min(s), it[s \ {Move!Min(s)}])]

LEMMA MoveNidUnfold ==
    ASSUME NEW t, NEW nid, NumaTopology \notin {"DIRECT", "GLUELESS_MESH"}
    PROVE  Move!preferred_group_nid(t, nid) =
               (CHOOSE it : RoundEquation(t, nid, it))[Move!Farther].nid
BY Zenon DEF Move!preferred_group_nid, Move!MapThenFoldSet, RoundEquation

LEMMA MoveNid ==
    ASSUME NEW t \in Tasks, NEW nid \in MaybeNode
    PROVE  Move!preferred_group_nid(t, nid) \in MaybeNode
<1>1. CASE NumaTopology = "DIRECT"
  BY <1>1 DEF Move!preferred_group_nid
<1>2. CASE NumaTopology = "GLUELESS_MESH"
  <2> DEFINE f == [n \in Nodes |-> Move!group_weight(t, n, Move!MaxDistance)]
  <2>1. \A n \in Nodes : f[n] \in Int
    BY MoveWeights
  <2>2. Move!Best(f, Nodes, nid) \in MaybeNode
    <3> HIDE DEF f
    <3> QED BY <2>1, MoveBest
  <2> QED BY <1>2, <2>2 DEF Move!preferred_group_nid
<1>3. CASE NumaTopology \notin {"DIRECT", "GLUELESS_MESH"}
  <2> DEFINE S == Move!Farther
             base == [nid |-> nid, nodes |-> Nodes, done |-> FALSE]
             rest == [s \in SUBSET S |-> s \ {Min(s)}]
             step == [s \in SUBSET S |-> [v \in Rounds |-> Move!Round(t, Min(s), v)]]
  <2>1. S \subseteq Nat /\ IsFiniteSet(S)
    <3>1. \A d \in {Distance[n][m] : n, m \in Nodes} : d \in Nat
      BY MoveAssumption
    <3> QED BY <3>1, MoveDistances, FS_Subset DEF Move!Farther
  <2>2. base \in Rounds
    BY DEF Rounds
  <2>3. \A s \in SUBSET S : s # {} => Min(s) \in s
    <3> TAKE s \in SUBSET S
    <3> HAVE s # {}
    <3>1. s \subseteq Nat
      BY <2>1
    <3> QED BY <3>1, MinOf
  <2>4. \A s \in SUBSET S : s # {} => rest[s] \subseteq s /\ rest[s] # s
    BY <2>3
  <2>5. \A s \in SUBSET S : s # {} => \A v \in Rounds : /\ Move!Round(t, Min(s), v) \in Rounds
                                                        /\ step[s][v] = Move!Round(t, Min(s), v)
    BY MoveRound
  <2>6. \E it : RoundEquation(t, nid, it)
    <3>1. \A s \in SUBSET S : s # {} => \A v \in Rounds : step[s][v] \in Rounds
      BY <2>5
    <3>2. PICK it \in [SUBSET S -> Rounds] : FoldEquation(it, SUBSET S, base, rest, step)
      <4> HIDE DEF S, base, rest, step
      <4> QED BY <2>1, <2>2, <2>4, <3>1, FoldExists
    <3>3. ASSUME NEW s \in SUBSET S
          PROVE  it[s] = IF s = {} THEN base ELSE Move!Round(t, Min(s), it[s \ {Min(s)}])
      <4>1. it[s] = IF s = {} THEN base ELSE step[s][it[rest[s]]]
        BY <3>2 DEF FoldEquation
      <4>2. s # {} => it[rest[s]] \in Rounds
        <5>1. s # {} => rest[s] \in SUBSET S
          BY <2>4
        <5> HIDE DEF rest
        <5> QED BY <5>1
      <4>3. rest[s] = s \ {Min(s)}
        OBVIOUS
      <4> HIDE DEF rest, step, base
      <4> QED BY <2>5, <4>1, <4>2, <4>3
    <3>4. it = [s \in SUBSET S |-> IF s = {} THEN base
                                   ELSE Move!Round(t, Move!Min(s), it[s \ {Move!Min(s)}])]
      <4>1. \A s : Move!Min(s) = Min(s)
        BY MoveOperators
      <4> HIDE DEF base, S
      <4> QED BY <3>3, <4>1
    <3> QED BY <3>4 DEF RoundEquation
  <2> DEFINE it == CHOOSE it : RoundEquation(t, nid, it)
  <2>7. RoundEquation(t, nid, it)
    BY <2>6
  <2>8. /\ it[{}] = base
        /\ \A s \in SUBSET S : s # {} => it[s] = Move!Round(t, Min(s), it[s \ {Min(s)}])
    <3> HIDE DEF it
    <3>1. it = [s \in SUBSET S |-> IF s = {} THEN base
                                   ELSE Move!Round(t, Move!Min(s), it[s \ {Move!Min(s)}])]
      BY <2>7 DEF RoundEquation
    <3>2. \A s : Move!Min(s) = Min(s)
      BY MoveOperators
    <3> HIDE DEF base, S
    <3> QED BY <3>1, <3>2
  <2>9. it[S] \in Rounds
    <3>1. \A s \in SUBSET S : s # {} => /\ rest[s] \subseteq s /\ rest[s] # s
                                        /\ it[rest[s]] \in Rounds => it[s] \in Rounds
      <4> TAKE s \in SUBSET S
      <4> HAVE s # {}
      <4>1. rest[s] = s \ {Min(s)}
        OBVIOUS
      <4>2. it[s] = Move!Round(t, Min(s), it[s \ {Min(s)}])
        <5> HIDE DEF it
        <5> QED BY <2>8
      <4>3. it[s \ {Min(s)}] \in Rounds => it[s] \in Rounds
        <5> HIDE DEF it
        <5> QED BY <2>5, <4>2
      <4> HIDE DEF it, rest
      <4> QED BY <2>4, <4>1, <4>3
    <3> HIDE DEF it, rest, base, S
    <3> QED BY <2>1, <2>2, <2>8, <3>1, FoldTyped
  <2>10. it[S].nid \in MaybeNode
    <3> HIDE DEF it, S
    <3> QED BY <2>9 DEF Rounds
  <2> QED BY <1>3, <2>10, MoveNidUnfold
<1> QED BY <1>1, <1>2, <1>3

-----------------------------------------------------------------------------
\* What a search knows of a node, and of the best place so far.
Stats == [nr_running : Int, load : Int, capacity : Int, free : BOOLEAN]
Looks == [pc : {"look"}, p : Tasks, src_cpu : CPUs, src_nid : Nodes, dst_nid : Nodes, dist : Nat,
          src : Stats, dst : Stats, taskimp : Int, groupimp : Int, cpus : SUBSET CPUs,
          nodes : SUBSET Nodes, wide : BOOLEAN, best_task : Tasks \cup {None}, best_imp : Nat,
          best_cpu : CPUs \cup {-1}]

SearchSound(t, e) ==
    /\ e.p = t /\ e.cpus \subseteq Allowed[t]
    /\ e.best_task # None => e.best_cpu # -1 /\ e.best_task # t
    /\ e.best_cpu # -1 => e.best_cpu \in Allowed[t]

Searches(t) == {Move!NoSearch} \cup {e \in Looks : SearchSound(t, e)}

MoveTyped ==
    /\ place \in [Tasks -> CPUs]
    /\ life \in [Tasks -> {"run", "exiting", "gone"}]
    /\ usage \in [Tasks -> Int]
    /\ numa_preferred_nid \in [Tasks -> MaybeNode]
    /\ search \in [Tasks -> {Move!NoSearch} \cup Looks]
    /\ \A t \in Tasks : search[t] \in Searches(t)

MoveInv == MoveTyped /\ Move!RefsBalanced

\* The task that a search holds a reference to.
BestOf(e) == IF e = Move!NoSearch THEN None ELSE e.best_task
HoldersOf(x) == {u \in Tasks : BestOf(search[u]) = x}
Alive(x) == IF life[x] = "gone" THEN 0 ELSE 1

LEMMA MovePc ==
    Move!NoSearch.pc = "none" /\ Move!NoSearch \notin Looks /\ \A e \in Looks : e.pc = "look"
BY DEF Move!NoSearch, Looks

LEMMA MoveRefs ==
    ASSUME MoveTyped
    PROVE  Move!RefsBalanced <=>
               \A x \in Tasks : usage[x] = Alive(x) + Cardinality(HoldersOf(x))
<1>1. \A x \in Tasks : HoldersOf(x) =
          {u \in Tasks : search[u].pc = "look" /\ search[u].best_task = x}
  <2> TAKE x \in Tasks
  <2>1. \A u \in Tasks : BestOf(search[u]) = x
                             <=> search[u].pc = "look" /\ search[u].best_task = x
    BY MovePc, MoveFinite DEF MoveTyped, BestOf
  <2> QED BY <2>1 DEF HoldersOf
<1> QED BY <1>1, MoveOperators DEF Move!RefsBalanced, Alive

LEMMA MoveRefsNext ==
    ASSUME MoveTyped'
    PROVE  Move!RefsBalanced' <=>
               \A x \in Tasks : usage'[x] = Alive(x)' + Cardinality(HoldersOf(x)')
<1>1. \A x \in Tasks : HoldersOf(x)' =
          {u \in Tasks : search'[u].pc = "look" /\ search'[u].best_task = x}
  <2> TAKE x \in Tasks
  <2>1. \A u \in Tasks : BestOf(search'[u]) = x
                             <=> search'[u].pc = "look" /\ search'[u].best_task = x
    BY MovePc, MoveFinite DEF MoveTyped, BestOf
  <2> QED BY <2>1 DEF HoldersOf
<1> QED BY <1>1, MoveOperators DEF Move!RefsBalanced, Alive

LEMMA MoveSafe == MoveInv => Move!Inv
<1> SUFFICES ASSUME MoveInv PROVE Move!TypeOK /\ Move!ChoiceSound
  BY DEF MoveInv, Move!Inv
<1>1. Move!TypeOK
  BY DEF MoveInv, MoveTyped, Move!TypeOK, MaybeNode
<1>2. Move!ChoiceSound
  <2> SUFFICES ASSUME NEW t \in Tasks, search[t].pc = "look"
               PROVE  /\ search[t].best_imp >= 0
                      /\ search[t].best_task # None =>
                            search[t].best_cpu # -1 /\ search[t].best_task # t
                      /\ search[t].best_cpu # -1 => search[t].best_cpu \in Allowed[t]
    BY DEF Move!ChoiceSound
  <2>1. search[t] \in Looks /\ SearchSound(t, search[t])
    BY MovePc DEF MoveInv, MoveTyped, Searches
  <2>2. search[t].best_imp \in Nat
    BY <2>1 DEF Looks
  <2> QED BY <2>1, <2>2 DEF SearchSound
<1> QED BY <1>1, <1>2

LEMMA MoveInit == Move!Init => MoveInv
<1> SUFFICES ASSUME Move!Init PROVE MoveInv
  OBVIOUS
<1>1. MoveTyped
  BY DEF Move!Init, MoveTyped, Searches, MaybeNode
<1>2. \A x \in Tasks : HoldersOf(x) = {}
  BY MoveFinite DEF Move!Init, HoldersOf, BestOf
<1>3. \A x \in Tasks : usage[x] = Alive(x) + Cardinality(HoldersOf(x))
  <2> TAKE x \in Tasks
  <2>1. Cardinality({}) = 0
    BY FS_EmptySet
  <2>2. HoldersOf(x) = {}
    BY <1>2
  <2>3. Cardinality(HoldersOf(x)) = 0
    BY <2>1, <2>2
  <2>4. usage[x] = 1 /\ life[x] = "run"
    BY DEF Move!Init
  <2>5. Alive(x) = 1
    BY <2>4 DEF Alive
  <2> QED BY <2>3, <2>4, <2>5
<1> QED BY <1>1, <1>3, MoveRefs DEF MoveInv

\* A step of task t that changes its search: the references follow.
LEMMA MoveBySearch ==
    ASSUME MoveInv, NEW t \in Tasks, NEW e \in Searches(t), search' = [search EXCEPT ![t] = e],
           place' \in [Tasks -> CPUs], numa_preferred_nid' \in [Tasks -> MaybeNode],
           UNCHANGED life, usage' \in [Tasks -> Int],
           \A x \in Tasks : usage'[x] = usage[x] + (IF x = BestOf(e) THEN 1 ELSE 0)
                                               - (IF x = BestOf(search[t]) THEN 1 ELSE 0)
    PROVE  MoveInv'
<1>1. /\ search \in [Tasks -> {Move!NoSearch} \cup Looks] /\ usage \in [Tasks -> Int]
      /\ \A u \in Tasks : search[u] \in Searches(u)
  BY DEF MoveInv, MoveTyped
<1>2. /\ search'[t] = e /\ \A u \in Tasks \ {t} : search'[u] = search[u]
  BY <1>1
<1>3. MoveTyped'
  <2>1. e \in {Move!NoSearch} \cup Looks
    BY DEF Searches
  <2>2. search' \in [Tasks -> {Move!NoSearch} \cup Looks]
    BY <1>1, <2>1
  <2>3. \A u \in Tasks : search'[u] \in Searches(u)
    BY <1>1, <1>2
  <2>4. life' \in [Tasks -> {"run", "exiting", "gone"}]
    BY DEF MoveInv, MoveTyped
  <2>5. \A u \in Tasks : Searches(u)' = Searches(u)
    BY DEF Searches, SearchSound
  <2> QED BY <2>2, <2>3, <2>4, <2>5 DEF MoveTyped
<1>4. ASSUME NEW x \in Tasks
      PROVE  usage'[x] = Alive(x)' + Cardinality(HoldersOf(x)')
  <2>1. IsFiniteSet(HoldersOf(x)) /\ HoldersOf(x)' \ {t} = HoldersOf(x) \ {t}
    BY <1>2, MoveFinite, FS_Subset DEF HoldersOf
  <2>2. /\ Cardinality(HoldersOf(x)) \in Nat
        /\ Cardinality(HoldersOf(x)') = Cardinality(HoldersOf(x))
              - (IF t \in HoldersOf(x) THEN 1 ELSE 0) + (IF t \in HoldersOf(x)' THEN 1 ELSE 0)
    BY <2>1, CardMember
  <2>3. (t \in HoldersOf(x) <=> BestOf(search[t]) = x) /\ (t \in HoldersOf(x)' <=> BestOf(e) = x)
    BY <1>2 DEF HoldersOf
  <2>4. usage[x] = Alive(x) + Cardinality(HoldersOf(x))
    BY MoveRefs DEF MoveInv
  <2>5. Alive(x)' = Alive(x) /\ Alive(x) \in Int
    BY DEF Alive
  <2> QED BY <2>2, <2>3, <2>4, <2>5
<1> QED BY <1>3, <1>4, MoveRefsNext DEF MoveInv

LEMMA MoveStats == \A n : Move!update_numa_stats(n) \in Stats
<1> TAKE n
<1> DEFINE S == {c \in CPUs : NodeOf[c] = n}
           f == [c \in S |-> Cardinality(Move!On(c))]
           g == [c \in S |-> SumIn(Load, Move!On(c))]
<1>1. IsFiniteSet(S)
  BY MoveAssumption, FS_Subset
<1>2. \A c : IsFiniteSet(Move!On(c)) /\ \A t \in Move!On(c) : t \in Tasks
  BY MoveFinite, FS_Subset DEF Move!On
<1>3. \A c : Cardinality(Move!On(c)) \in Int
  BY <1>2, FS_CardinalityType
<1>4. \A c : SumIn(Load, Move!On(c)) \in Int
  <2> TAKE c
  <2>1. \A t \in Move!On(c) : Load[t] \in Int
    BY <1>2, MoveAssumption
  <2> QED BY <1>2, <2>1, SumType
<1>5. (\A c \in S : f[c] \in Int) /\ (\A c \in S : g[c] \in Int)
  BY <1>3, <1>4
<1>6. SumIn(f, S) \in Int /\ SumIn(g, S) \in Int /\ Cardinality(S) \in Int
  <2> HIDE DEF f, g, S
  <2> QED BY <1>1, <1>5, SumType, FS_CardinalityType
<1>7. Move!update_numa_stats(n) = [nr_running |-> SumIn(f, S), load |-> SumIn(g, S),
          capacity |-> Cardinality(S), free |-> SumIn(f, S) < Cardinality(S)]
  BY MoveOperators DEF Move!update_numa_stats
<1> HIDE DEF f, g, S
<1> QED BY <1>6, <1>7 DEF Stats

LEMMA MoveTowards ==
    ASSUME NEW t \in Tasks, NEW e \in Looks, SearchSound(t, e), NEW n \in Nodes, NEW dist \in Nat,
           NEW stats \in Stats
    PROVE  LET x == Move!Towards(e, n, dist, stats)
           IN  x \in Looks /\ SearchSound(t, x) /\ x.best_task = e.best_task /\ x.nodes = e.nodes
<1> DEFINE ti == Move!task_weight(e.p, n, dist) - Move!task_weight(e.p, e.src_nid, dist)
           gi == Move!group_weight(e.p, n, dist) - Move!group_weight(e.p, e.src_nid, dist)
           cs == IF Move!numa_has_capacity(e.src, stats) THEN Move!CpusOf(e.p, n) ELSE {}
           x == [e EXCEPT !.dst_nid = n, !.dist = dist, !.dst = stats, !.taskimp = ti,
                          !.groupimp = gi, !.cpus = cs]
<1>1. e.p = t /\ e.src_nid \in Nodes
  BY DEF Looks, SearchSound
<1>2. ti \in Int /\ gi \in Int
  <2>1. /\ Move!task_weight(e.p, n, dist) \in Int /\ Move!task_weight(e.p, e.src_nid, dist) \in Int
        /\ Move!group_weight(e.p, n, dist) \in Int
        /\ Move!group_weight(e.p, e.src_nid, dist) \in Int
    BY <1>1, MoveWeights
  <2> QED BY <2>1
<1>3. cs \subseteq Allowed[t] /\ cs \subseteq CPUs
  BY <1>1, MoveAssumption DEF Move!CpusOf
<1>4. Move!Towards(e, n, dist, stats) = x
  BY DEF Move!Towards
<1> HIDE DEF ti, gi, cs
<1>5. x \in Looks
  BY <1>2, <1>3 DEF Looks
<1>6. /\ x.p = e.p /\ x.best_task = e.best_task /\ x.nodes = e.nodes /\ x.cpus = cs
      /\ x.best_cpu = e.best_cpu
  BY DEF Looks
<1>7. SearchSound(t, x)
  BY <1>3, <1>6 DEF SearchSound
<1> HIDE DEF x
<1> QED BY <1>4, <1>5, <1>6, <1>7

-----------------------------------------------------------------------------
\* A step that leaves searches, tasks and references alone.
LEMMA MoveQuiet ==
    ASSUME MoveInv, UNCHANGED <<life, usage, search>>, place' \in [Tasks -> CPUs],
           numa_preferred_nid' \in [Tasks -> MaybeNode]
    PROVE  MoveInv'
<1>1. MoveTyped'
  BY DEF MoveInv, MoveTyped, Searches, SearchSound
<1>2. \A x \in Tasks : Alive(x)' = Alive(x) /\ HoldersOf(x)' = HoldersOf(x)
  BY DEF Alive, HoldersOf
<1>3. \A x \in Tasks : usage'[x] = Alive(x)' + Cardinality(HoldersOf(x)')
  BY <1>2, MoveRefs DEF MoveInv
<1> QED BY <1>1, <1>3, MoveRefsNext DEF MoveInv

LEMMA MovePrefer ==
    ASSUME MoveInv, NEW t \in Tasks, Move!Prefer(t)
    PROVE  MoveInv'
<1> DEFINE f == [n \in Nodes |-> Move!task_faults(t, n)]
           g == [n \in Nodes |-> Move!group_faults(t, n)]
           nid == IF Group[t] = None THEN Move!Best(f, Nodes, -1)
                  ELSE Move!preferred_group_nid(t, Move!Best(g, Nodes, -1))
<1>1. /\ numa_preferred_nid' = [numa_preferred_nid EXCEPT ![t] = nid]
      /\ UNCHANGED <<place, life, usage, search>>
  BY DEF Move!Prefer
<1>2. (\A n \in Nodes : f[n] \in Int) /\ (\A n \in Nodes : g[n] \in Int)
  BY MoveFaults
<1>3. -1 \in MaybeNode
  BY DEF MaybeNode
<1> HIDE DEF f, g
<1>4. Move!Best(f, Nodes, -1) \in MaybeNode /\ Move!Best(g, Nodes, -1) \in MaybeNode
  BY <1>2, <1>3, MoveBest
<1>5. nid \in MaybeNode
  BY <1>4, MoveNid
<1> HIDE DEF nid
<1>6. numa_preferred_nid' \in [Tasks -> MaybeNode] /\ place' \in [Tasks -> CPUs]
  BY <1>1, <1>5 DEF MoveInv, MoveTyped
<1> QED BY <1>1, <1>6, MoveQuiet

LEMMA MoveStay ==
    ASSUME MoveInv, NEW t \in Tasks, Move!Stay(t)
    PROVE  MoveInv'
<1>1. /\ numa_preferred_nid' = [numa_preferred_nid EXCEPT ![t] = Move!task_node(t)]
      /\ UNCHANGED <<place, life, usage, search>>
  BY DEF Move!Stay
<1>2. Move!task_node(t) \in MaybeNode
  BY MoveAssumption DEF MoveInv, MoveTyped, Move!task_node, MaybeNode
<1>3. numa_preferred_nid' \in [Tasks -> MaybeNode] /\ place' \in [Tasks -> CPUs]
  BY <1>1, <1>2 DEF MoveInv, MoveTyped
<1> QED BY <1>1, <1>3, MoveQuiet

LEMMA MoveStart ==
    ASSUME MoveInv, NEW t \in Tasks, Move!Start(t)
    PROVE  MoveInv'
<1> DEFINE pref == numa_preferred_nid[t]
           src == Move!task_node(t)
           e == [pc |-> "look", p |-> t, src_cpu |-> place[t], src_nid |-> src, dst_nid |-> pref,
                 dist |-> Distance[src][pref], src |-> Move!update_numa_stats(src),
                 dst |-> Move!update_numa_stats(src), taskimp |-> 0, groupimp |-> 0, cpus |-> {},
                 nodes |-> Nodes \ {src, pref}, wide |-> FALSE, best_task |-> None,
                 best_imp |-> 0, best_cpu |-> -1]
           x == Move!Towards(e, pref, Distance[src][pref], Move!update_numa_stats(pref))
<1>1. /\ search[t].pc = "none" /\ pref # -1 /\ search' = [search EXCEPT ![t] = x]
      /\ UNCHANGED <<place, life, usage, numa_preferred_nid>>
  BY DEF Move!Start
<1>2. /\ place \in [Tasks -> CPUs] /\ numa_preferred_nid \in [Tasks -> MaybeNode]
      /\ usage \in [Tasks -> Int] /\ search[t] \in Searches(t)
  BY DEF MoveInv, MoveTyped
<1>3. pref \in Nodes /\ src \in Nodes /\ place[t] \in CPUs
  BY <1>1, <1>2, MoveAssumption DEF MaybeNode, Move!task_node
<1>4. Distance[src][pref] \in Nat
  BY <1>3, MoveAssumption
<1>5. e \in Looks /\ SearchSound(t, e) /\ e.best_task = None
  <2> HIDE DEF pref, src
  <2>1. Move!update_numa_stats(src) \in Stats
    BY MoveStats
  <2> QED BY <1>3, <1>4, <2>1 DEF Looks, SearchSound
<1>6. Move!update_numa_stats(pref) \in Stats
  BY MoveStats
<1>7. x \in Looks /\ SearchSound(t, x) /\ x.best_task = None
  <2> HIDE DEF e, pref, src
  <2> QED BY <1>3, <1>4, <1>5, <1>6, MoveTowards
<1> HIDE DEF x
<1>8. x \in Searches(t) /\ BestOf(x) = None
  BY <1>7, MovePc DEF Searches, BestOf
<1>9. BestOf(search[t]) = None
  BY <1>1, <1>2, MovePc DEF Searches, BestOf
<1>10. \A y \in Tasks : usage'[y] = usage[y] + (IF y = BestOf(x) THEN 1 ELSE 0)
                                            - (IF y = BestOf(search[t]) THEN 1 ELSE 0)
  BY <1>1, <1>2, <1>8, <1>9, MoveFinite
<1> QED BY <1>1, <1>2, <1>8, <1>10, MoveBySearch

\* A search that goes on as it is, with fewer CPUs or nodes left.
LEMMA MoveFewer ==
    ASSUME NEW t \in Tasks, NEW e \in Looks, SearchSound(t, e)
    PROVE  /\ \A S : LET x == [e EXCEPT !.cpus = e.cpus \ S]
                     IN  x \in Looks /\ SearchSound(t, x) /\ x.best_task = e.best_task
           /\ \A S : LET x == [e EXCEPT !.nodes = e.nodes \ S, !.wide = TRUE]
                     IN  x \in Looks /\ SearchSound(t, x) /\ x.best_task = e.best_task
<1>1. ASSUME NEW S
      PROVE  LET x == [e EXCEPT !.cpus = e.cpus \ S]
             IN  x \in Looks /\ SearchSound(t, x) /\ x.best_task = e.best_task
  <2> DEFINE x == [e EXCEPT !.cpus = e.cpus \ S]
  <2>1. e.cpus \ S \in SUBSET CPUs
    BY DEF Looks
  <2>2. x \in Looks
    BY <2>1 DEF Looks
  <2>3. /\ x.p = e.p /\ x.best_task = e.best_task /\ x.cpus = e.cpus \ S
        /\ x.best_cpu = e.best_cpu
    BY DEF Looks
  <2> HIDE DEF x
  <2>4. SearchSound(t, x)
    BY <2>3 DEF SearchSound
  <2> QED BY <2>2, <2>3, <2>4 DEF x
<1>2. ASSUME NEW S
      PROVE  LET x == [e EXCEPT !.nodes = e.nodes \ S, !.wide = TRUE]
             IN  x \in Looks /\ SearchSound(t, x) /\ x.best_task = e.best_task
  <2> DEFINE x == [e EXCEPT !.nodes = e.nodes \ S, !.wide = TRUE]
  <2>1. e.nodes \ S \in SUBSET Nodes
    BY DEF Looks
  <2>2. x \in Looks
    BY <2>1 DEF Looks
  <2>3. /\ x.p = e.p /\ x.best_task = e.best_task /\ x.cpus = e.cpus
        /\ x.best_cpu = e.best_cpu
    BY DEF Looks
  <2> HIDE DEF x
  <2>4. SearchSound(t, x)
    BY <2>3 DEF SearchSound
  <2> QED BY <2>2, <2>3, <2>4 DEF x
<1> QED BY <1>1, <1>2

LEMMA MoveNextNode ==
    ASSUME MoveInv, NEW t \in Tasks, Move!NextNode(t)
    PROVE  MoveInv'
<1> DEFINE e == search[t]
           n == Min(e.nodes)
           dist == Distance[e.src_nid][e.dst_nid]
           x == Move!Towards(e, n, dist, Move!update_numa_stats(n))
           y == IF x.taskimp < 0 /\ x.groupimp < 0
                THEN [e EXCEPT !.nodes = e.nodes \ {n}, !.wide = TRUE]
                ELSE [x EXCEPT !.nodes = x.nodes \ {n}, !.wide = TRUE]
<1>1. /\ e.pc = "look" /\ e.nodes # {} /\ search' = [search EXCEPT ![t] = y]
      /\ UNCHANGED <<place, life, usage, numa_preferred_nid>>
  BY MoveOperators DEF Move!NextNode
<1>2. /\ place \in [Tasks -> CPUs] /\ numa_preferred_nid \in [Tasks -> MaybeNode]
      /\ usage \in [Tasks -> Int] /\ e \in Looks /\ SearchSound(t, e)
  BY <1>1, MovePc DEF MoveInv, MoveTyped, Searches
<1>3. n \in Nodes
  <2>1. e.nodes \subseteq Nodes
    BY <1>2 DEF Looks
  <2>2. n \in e.nodes
    <3>1. e.nodes \subseteq Nat
      BY <2>1, MoveFinite
    <3> HIDE DEF e
    <3> QED BY <1>1, <3>1, MinOf
  <2> QED BY <2>1, <2>2
<1>4. dist \in Nat
  <2>1. e.src_nid \in Nodes /\ e.dst_nid \in Nodes
    BY <1>2 DEF Looks
  <2> QED BY <2>1, MoveAssumption
<1>5. x \in Looks /\ SearchSound(t, x) /\ x.best_task = e.best_task
  <2>1. Move!update_numa_stats(n) \in Stats
    BY MoveStats
  <2> HIDE DEF e, n, dist
  <2> QED BY <1>2, <1>3, <1>4, <2>1, MoveTowards
<1>6. y \in Looks /\ SearchSound(t, y) /\ y.best_task = e.best_task
  <2> HIDE DEF e, n, dist, x
  <2> QED BY <1>2, <1>5, MoveFewer
<1> HIDE DEF y
<1>7. y \in Searches(t) /\ BestOf(y) = BestOf(search[t])
  BY <1>2, <1>6, MovePc DEF Searches, BestOf
<1>8. \A z \in Tasks : usage'[z] = usage[z] + (IF z = BestOf(y) THEN 1 ELSE 0)
                                            - (IF z = BestOf(search[t]) THEN 1 ELSE 0)
  BY <1>1, <1>2, <1>7
<1> QED BY <1>1, <1>2, <1>7, <1>8, MoveBySearch

-----------------------------------------------------------------------------
(* A look at a CPU.                                                        *)

LEMMA MoveImps ==
    ASSUME NEW e \in Looks, NEW cur \in Tasks
    PROVE  Move!MoveImp(e) \in Int /\ Move!SwapImp(e, cur) \in Int
<1> DEFINE task == Move!task_weight(cur, e.src_nid, e.dist)
                       - Move!task_weight(cur, e.dst_nid, e.dist)
           grp == Move!group_weight(cur, e.src_nid, e.dist)
                      - Move!group_weight(cur, e.dst_nid, e.dist)
           same == e.taskimp + task
<1>1. e.taskimp \in Int /\ e.groupimp \in Int /\ e.src_nid \in Nodes /\ e.dst_nid \in Nodes
  BY DEF Looks
<1>2. task \in Int /\ grp \in Int
  <2>1. /\ Move!task_weight(cur, e.src_nid, e.dist) \in Int
        /\ Move!task_weight(cur, e.dst_nid, e.dist) \in Int
        /\ Move!group_weight(cur, e.src_nid, e.dist) \in Int
        /\ Move!group_weight(cur, e.dst_nid, e.dist) \in Int
    BY <1>1, MoveWeights
  <2> QED BY <2>1
<1>3. Move!MoveImp(e) \in Int
  BY <1>1 DEF Move!MoveImp
<1>4. Move!SwapImp(e, cur) =
          CASE Group[cur] = Group[e.p] ->
                  same - (IF Group[cur] = None THEN 0 ELSE Move!Toward0(same))
            [] Group[cur] # Group[e.p] ->
                  Move!MoveImp(e) + (IF Group[cur] = None THEN task ELSE grp)
  BY DEF Move!SwapImp
<1> HIDE DEF task, grp
<1>5. same \in Int
  BY <1>1, <1>2
<1> HIDE DEF same
<1>6. Move!Toward0(same) \in Int
  <2>1. same \div 16 \in Int /\ (-same) \div 16 \in Int
    BY <1>5, DivMod
  <2> QED BY <2>1 DEF Move!Toward0
<1> QED BY <1>2, <1>3, <1>4, <1>5, <1>6

\* What is chosen is a gain, and never to change places with itself.
LEMMA MoveChoice ==
    ASSUME NEW e \in Looks, NEW c, NEW cur \in Tasks \cup {None}, NEW x,
           x = Move!Choice(e, c, cur)
    PROVE  /\ x.kind \in {"none", "swap", "move", "idle"}
           /\ x.kind # "none" => x.imp \in Nat
           /\ x.kind = "swap" => cur \in Tasks /\ cur # e.p
<1> DEFINE move == Move!MoveImp(e)
           imp == IF cur = None THEN move ELSE Move!SwapImp(e, cur)
           src == e.src.load - Load[e.p]
           dst == e.dst.load + Load[e.p]
           back == IF cur = None THEN 0 ELSE Load[cur]
           stay == \/ cur = e.p
                   \/ ~Move!Gains(e, imp) /\ ~Move!Gains(e, move)
                   \/ cur = None /\ e.src.nr_running <= e.src.capacity /\ ~e.dst.free
                   \/ cur # None /\ e.src_cpu \notin Allowed[cur]
           swap == /\ cur # None /\ Move!Gains(e, imp)
                   /\ Move!Cardinality(Move!On(e.src_cpu)) = 1
                   /\ Move!Cardinality(Move!On(c)) = 1
           far == move > imp /\ Move!Gains(e, move) /\ ~Move!load_too_imbalanced(e, src, dst)
           none == ~Move!Gains(e, imp) \/ Move!load_too_imbalanced(e, src + back, dst - back)
<1>1. x = CASE stay -> [kind |-> "none"]
            [] OTHER ->
               IF swap THEN [kind |-> "swap", imp |-> imp]
               ELSE IF far THEN [kind |-> "move", imp |-> move - 1]
               ELSE IF none THEN [kind |-> "none"]
               ELSE [kind |-> IF cur = None THEN "idle" ELSE "swap", imp |-> imp]
  BY DEF Move!Choice
<1>2. move \in Int /\ imp \in Int
  <2>1. PICK u \in Tasks : TRUE
    BY DEF Looks
  <2>2. move \in Int
    BY <2>1, MoveImps
  <2>3. cur # None => Move!SwapImp(e, cur) \in Int
    BY MoveImps
  <2> QED BY <2>2, <2>3
<1>3. e.best_imp \in Nat
  BY DEF Looks
<1>4. (swap => imp \in Nat /\ cur \in Tasks) /\ (far => move - 1 \in Nat) /\ (~none => imp \in Nat)
  <2> HIDE DEF move, imp
  <2> QED BY <1>2, <1>3 DEF Move!Gains
<1>5. ~stay => cur # e.p
  OBVIOUS
<1> HIDE DEF stay, swap, far, none, move, imp
<1>6. CASE stay
  <2>1. x = [kind |-> "none"]
    BY <1>1, <1>6
  <2> QED BY <2>1
<1>7. CASE ~stay /\ swap
  <2>1. x = [kind |-> "swap", imp |-> imp]
    BY <1>1, <1>7
  <2> QED BY <1>4, <1>5, <1>7, <2>1
<1>8. CASE ~stay /\ ~swap /\ far
  <2>1. x = [kind |-> "move", imp |-> move - 1]
    BY <1>1, <1>8
  <2> QED BY <1>4, <1>8, <2>1
<1>9. CASE ~stay /\ ~swap /\ ~far /\ none
  <2>1. x = [kind |-> "none"]
    BY <1>1, <1>9
  <2> QED BY <2>1
<1>10. CASE ~stay /\ ~swap /\ ~far /\ ~none
  <2>1. x = [kind |-> IF cur = None THEN "idle" ELSE "swap", imp |-> imp]
    BY <1>1, <1>10
  <2> QED BY <1>4, <1>5, <1>10, <2>1
<1> QED BY <1>6, <1>7, <1>8, <1>9, <1>10

\* Another best place is remembered, and the reference goes to its task.
LEMMA MoveAssign ==
    ASSUME MoveInv, NEW t \in Tasks, NEW r \in Looks, SearchSound(t, r),
           search[t] \in Looks, r.best_task = search[t].best_task,
           NEW c \in Allowed[t], NEW cur \in Tasks \cup {None}, cur # t, NEW imp \in Nat,
           Move!task_numa_assign(t, r, c, cur, imp),
           UNCHANGED <<place, life, numa_preferred_nid>>
    PROVE  MoveInv'
<1> DEFINE x == [r EXCEPT !.best_task = cur, !.best_imp = imp, !.best_cpu = c]
<1>1. /\ search' = [search EXCEPT ![t] = x]
      /\ usage' = Move!Refs(search[t].best_task, cur)
  BY DEF Move!task_numa_assign
<1>2. c \in CPUs /\ c # -1
  BY MoveAssumption, MoveFinite
<1>3. x \in Looks
  BY <1>2 DEF Looks
<1>4. x.p = r.p /\ x.cpus = r.cpus /\ x.best_task = cur /\ x.best_cpu = c
  BY DEF Looks
<1> HIDE DEF x
<1>5. SearchSound(t, x)
  BY <1>2, <1>4 DEF SearchSound
<1>6. x \in Searches(t) /\ BestOf(x) = cur /\ BestOf(search[t]) = search[t].best_task
  BY <1>3, <1>4, <1>5, MovePc DEF Searches, BestOf
<1>7. usage \in [Tasks -> Int] /\ place \in [Tasks -> CPUs]
      /\ numa_preferred_nid \in [Tasks -> MaybeNode]
  BY DEF MoveInv, MoveTyped
<1>8. /\ usage' \in [Tasks -> Int]
      /\ \A y \in Tasks : usage'[y] = usage[y] + (IF y = BestOf(x) THEN 1 ELSE 0)
                                               - (IF y = BestOf(search[t]) THEN 1 ELSE 0)
  BY <1>1, <1>6, <1>7 DEF Move!Refs
<1> QED BY <1>1, <1>6, <1>7, <1>8, MoveBySearch

LEMMA MoveCompare ==
    ASSUME MoveInv, NEW t \in Tasks, Move!Compare(t)
    PROVE  MoveInv'
<1> DEFINE e == search[t]
           c == Min(e.cpus)
           r == [e EXCEPT !.cpus = e.cpus \ {c}]
<1>1. /\ e.pc = "look" /\ e.cpus # {} /\ UNCHANGED <<place, life, numa_preferred_nid>>
      /\ \E cur \in Move!Runs(c) : \E x \in {Move!Choice(e, c, cur)} :
            CASE x.kind = "none" -> search' = [search EXCEPT ![t] = r] /\ UNCHANGED usage
              [] x.kind = "swap" -> Move!task_numa_assign(t, r, c, cur, x.imp)
              [] x.kind = "move" -> Move!task_numa_assign(t, r, c, None, x.imp)
              [] x.kind = "idle" ->
                   \E d \in Move!Sibling(t, c) : Move!task_numa_assign(t, r, d, None, x.imp)
  BY MoveOperators DEF Move!Compare
<1>2. e \in Looks /\ SearchSound(t, e)
  BY <1>1, MovePc DEF MoveInv, MoveTyped, Searches
<1>3. c \in Allowed[t]
  <2>1. e.cpus \subseteq Allowed[t] /\ e.cpus \subseteq Nat
    BY <1>2, MoveAssumption DEF Looks, SearchSound
  <2>2. c \in e.cpus
    <3> HIDE DEF e
    <3> QED BY <1>1, <2>1, MinOf
  <2> QED BY <2>1, <2>2
<1>4. r \in Looks /\ SearchSound(t, r) /\ r.best_task = e.best_task
  <2> HIDE DEF e, c
  <2> QED BY <1>2, MoveFewer
<1> DEFINE Turn(cur, x) ==
            CASE x.kind = "none" -> search' = [search EXCEPT ![t] = r] /\ UNCHANGED usage
              [] x.kind = "swap" -> Move!task_numa_assign(t, r, c, cur, x.imp)
              [] x.kind = "move" -> Move!task_numa_assign(t, r, c, None, x.imp)
              [] x.kind = "idle" ->
                   \E d \in Move!Sibling(t, c) : Move!task_numa_assign(t, r, d, None, x.imp)
<1>5. PICK cur \in Move!Runs(c) : \E x \in {Move!Choice(e, c, cur)} : Turn(cur, x)
  BY <1>1
<1>5a. PICK x \in {Move!Choice(e, c, cur)} : Turn(cur, x)
  BY <1>5
<1>6. cur \in Tasks \cup {None}
  BY DEF Move!Runs, Move!On
<1>7. /\ x.kind \in {"none", "swap", "move", "idle"}
      /\ x.kind # "none" => x.imp \in Nat
      /\ x.kind = "swap" => cur \in Tasks /\ cur # e.p
  <2>1. x = Move!Choice(e, c, cur)
    OBVIOUS
  <2> HIDE DEF e, c
  <2> QED BY <1>2, <1>6, <2>1, MoveChoice
<1>8. e.p = t /\ None # t
  BY <1>2, MoveFinite DEF SearchSound
<1> HIDE DEF r, c
<1>9. CASE x.kind = "none"
  <2>1. search' = [search EXCEPT ![t] = r] /\ UNCHANGED usage
    BY <1>5a, <1>9
  <2>2. r \in Searches(t) /\ BestOf(r) = BestOf(e)
    BY <1>2, <1>4, MovePc DEF Searches, BestOf
  <2>3. usage \in [Tasks -> Int] /\ place \in [Tasks -> CPUs]
        /\ numa_preferred_nid \in [Tasks -> MaybeNode]
    BY DEF MoveInv, MoveTyped
  <2>4. \A y \in Tasks : usage'[y] = usage[y] + (IF y = BestOf(r) THEN 1 ELSE 0)
                                              - (IF y = BestOf(search[t]) THEN 1 ELSE 0)
    BY <2>1, <2>2, <2>3
  <2> QED BY <1>1, <2>1, <2>2, <2>3, <2>4, MoveBySearch
<1>10. CASE x.kind = "swap"
  <2>1. Move!task_numa_assign(t, r, c, cur, x.imp)
    BY <1>5a, <1>10
  <2> QED BY <1>1, <1>2, <1>3, <1>4, <1>7, <1>8, <1>10, <2>1, MoveAssign
<1>11. CASE x.kind = "move"
  <2>1. Move!task_numa_assign(t, r, c, None, x.imp)
    BY <1>5a, <1>11
  <2> QED BY <1>1, <1>2, <1>3, <1>4, <1>7, <1>8, <1>11, <2>1, MoveAssign
<1>12. CASE x.kind = "idle"
  <2>1. PICK d \in Move!Sibling(t, c) : Move!task_numa_assign(t, r, d, None, x.imp)
    BY <1>5a, <1>12
  <2>2. d \in Allowed[t]
    BY <1>3 DEF Move!Sibling
  <2> QED BY <1>1, <1>2, <1>4, <1>7, <1>8, <1>12, <2>1, <2>2, MoveAssign
<1> QED BY <1>7, <1>9, <1>10, <1>11, <1>12

-----------------------------------------------------------------------------
LEMMA MoveFinish ==
    ASSUME MoveInv, NEW t \in Tasks, Move!Finish(t)
    PROVE  MoveInv'
<1> DEFINE e == search[t]
<1>1. /\ e.pc = "look" /\ numa_preferred_nid' = Move!Remember(t)
      /\ usage' = Move!Refs(e.best_task, None)
      /\ search' = [search EXCEPT ![t] = Move!NoSearch] /\ UNCHANGED life
      /\ place' \in CASE e.best_cpu = -1 -> {place}
                      [] e.best_cpu # -1 /\ e.best_task = None -> Move!Moved(t, e.best_cpu)
                      [] OTHER -> Move!Swapped(t, e.best_task)
  BY DEF Move!Finish
<1>2. /\ place \in [Tasks -> CPUs] /\ numa_preferred_nid \in [Tasks -> MaybeNode]
      /\ usage \in [Tasks -> Int] /\ e \in Looks /\ SearchSound(t, e)
  BY <1>1, MovePc DEF MoveInv, MoveTyped, Searches
<1>3. numa_preferred_nid' \in [Tasks -> MaybeNode]
  <2>1. e.dst_nid \in MaybeNode
    BY <1>2 DEF Looks, MaybeNode
  <2> QED BY <1>1, <1>2, <2>1 DEF Move!Remember
<1>4. place' \in [Tasks -> CPUs]
  <2>1. CASE e.best_cpu = -1
    BY <1>1, <1>2, <2>1
  <2>2. CASE e.best_cpu # -1 /\ e.best_task = None
    <3>1. e.best_cpu \in CPUs
      BY <1>2, <2>2 DEF Looks
    <3>2. place' \in Move!Moved(t, e.best_cpu)
      BY <1>1, <2>2
    <3> QED BY <1>2, <3>1, <3>2 DEF Move!Moved
  <2>3. CASE e.best_cpu # -1 /\ e.best_task # None
    <3>1. e.best_task \in Tasks
      BY <1>2, <2>3 DEF Looks
    <3>2. place' \in Move!Swapped(t, e.best_task)
      BY <1>1, <2>3
    <3>3. place[t] \in CPUs /\ place[e.best_task] \in CPUs
      BY <1>2, <3>1
    <3> HIDE DEF e
    <3>4. place' = place \/ place' = [place EXCEPT ![t] = place[e.best_task],
                                                   ![e.best_task] = place[t]]
      BY <3>2 DEF Move!Swapped
    <3> QED BY <1>2, <3>1, <3>3, <3>4
  <2> QED BY <2>1, <2>2, <2>3
<1>5. Move!NoSearch \in Searches(t) /\ BestOf(Move!NoSearch) = None /\ BestOf(e) = e.best_task
  BY <1>2, MovePc DEF Searches, BestOf
<1>6. /\ usage' \in [Tasks -> Int]
      /\ \A y \in Tasks : usage'[y] = usage[y] + (IF y = BestOf(Move!NoSearch) THEN 1 ELSE 0)
                                               - (IF y = BestOf(search[t]) THEN 1 ELSE 0)
  BY <1>1, <1>2, <1>5 DEF Move!Refs
<1> QED BY <1>1, <1>3, <1>4, <1>5, <1>6, MoveBySearch

LEMMA MoveExit ==
    ASSUME MoveInv, NEW t \in Tasks, Move!Exit(t) \/ Move!Gone(t)
    PROVE  MoveInv'
<1>1. /\ life \in [Tasks -> {"run", "exiting", "gone"}] /\ usage \in [Tasks -> Int]
      /\ UNCHANGED <<place, numa_preferred_nid, search>>
  BY DEF MoveInv, MoveTyped, Move!Exit, Move!Gone
<1>2. \A x \in Tasks : HoldersOf(x)' = HoldersOf(x) /\ Cardinality(HoldersOf(x)) \in Int
  <2>1. \A x \in Tasks : IsFiniteSet(HoldersOf(x))
    BY MoveFinite, FS_Subset DEF HoldersOf
  <2>2. \A x \in Tasks : HoldersOf(x)' = HoldersOf(x)
    BY <1>1 DEF HoldersOf
  <2> QED BY <2>1, <2>2, FS_CardinalityType
<1>3. /\ life' \in [Tasks -> {"run", "exiting", "gone"}] /\ usage' \in [Tasks -> Int]
      /\ \A x \in Tasks : usage'[x] - Alive(x)' = usage[x] - Alive(x)
                          /\ Alive(x) \in Int /\ Alive(x)' \in Int
  <2>1. CASE Move!Exit(t)
    BY <1>1, <2>1 DEF Move!Exit, Alive
  <2>2. CASE Move!Gone(t)
    <3>1. /\ life[t] = "exiting" /\ life' = [life EXCEPT ![t] = "gone"]
          /\ usage' = [usage EXCEPT ![t] = usage[t] - 1]
      BY <2>2 DEF Move!Gone
    <3> QED BY <1>1, <3>1 DEF Alive
  <2> QED BY <2>1, <2>2
<1>4. MoveTyped'
  BY <1>1, <1>3 DEF MoveInv, MoveTyped, Searches, SearchSound
<1>5. \A x \in Tasks : usage'[x] = Alive(x)' + Cardinality(HoldersOf(x)')
  <2> TAKE x \in Tasks
  <2>1. usage[x] = Alive(x) + Cardinality(HoldersOf(x))
    BY MoveRefs DEF MoveInv
  <2>2. usage'[x] \in Int /\ usage[x] \in Int
    BY <1>1, <1>3
  <2>3. usage'[x] = Alive(x)' + Cardinality(HoldersOf(x))
    BY <1>2, <1>3, <2>1, <2>2
  <2> QED BY <1>2, <2>3
<1> QED BY <1>4, <1>5, MoveRefsNext DEF MoveInv

LEMMA MoveBalance ==
    ASSUME MoveInv, NEW t \in Tasks, Move!Balance(t)
    PROVE  MoveInv'
<1>1. PICK c \in Allowed[t] : place' = [place EXCEPT ![t] = c]
  BY DEF Move!Balance
<1>2. c \in CPUs
  BY MoveAssumption
<1>3. place' \in [Tasks -> CPUs] /\ numa_preferred_nid' \in [Tasks -> MaybeNode]
  BY <1>1, <1>2 DEF MoveInv, MoveTyped, Move!Balance
<1> QED BY <1>3, MoveQuiet DEF Move!Balance

\* Every step of migration keeps the references and places.
LEMMA MoveStep == MoveInv /\ [Move!Next]_moveVars => MoveInv'
<1> SUFFICES ASSUME MoveInv, [Move!Next]_moveVars PROVE MoveInv'
  OBVIOUS
<1>1. CASE UNCHANGED moveVars
  <2>1. place' \in [Tasks -> CPUs] /\ numa_preferred_nid' \in [Tasks -> MaybeNode]
    BY <1>1 DEF moveVars, MoveInv, MoveTyped
  <2> QED BY <1>1, <2>1, MoveQuiet DEF moveVars
<1>2. ASSUME NEW t \in Tasks,
             \/ Move!Prefer(t) \/ Move!Stay(t) \/ Move!Start(t) \/ Move!Search(t)
             \/ Move!Exit(t) \/ Move!Gone(t) \/ Move!Balance(t)
      PROVE  MoveInv'
  BY <1>2, MovePrefer, MoveStay, MoveStart, MoveCompare, MoveNextNode, MoveFinish, MoveExit,
     MoveBalance DEF Move!Search
<1> QED BY <1>1, <1>2 DEF Move!Next, moveVars

-----------------------------------------------------------------------------
(* Load averages.                                                          *)

LEMMA LoadOperators ==
    \A f, S : LoadAvg!SumOver(f, S) = SumIn(f, S)
BY DEF LoadAvg!SumOver, SumIn, LoadAvg!MapThenSumSet, MapThenSumSet, LoadAvg!MapThenFoldSet,
   MapThenFoldSet

USE LoadOperators

\* The loads that can still be halved after time l: the clock stops at the
\* end.
LastTime == Horizon + 1
Halvable(l) == {v \in Nat : \E k \in Nat : v = k * 2^(LastTime - l)}
Dec(v, n) == LoadAvg!decay_load(v, n)
Acc(v, w, n) == LoadAvg!Accrued(v, w, n)

LEMMA Exact ==
    ASSUME NEW p \in Nat \ {0}, NEW q \in Int
    PROVE  (p * q) \div p = q
<1>1. p * q = p * q + 0 /\ 0 \in 0 .. p - 1 /\ p \in Int /\ p > 0
  OBVIOUS
<1>2. (p * q + 0) \div p = q
  BY <1>1, DivUnique
<1> QED BY <1>1, <1>2

LEMMA Powers ==
    ASSUME NEW a \in 0 .. Horizon, NEW b \in 0 .. Horizon
    PROVE  2^a \in Nat \ {0} /\ 2^(a + b) = 2^a * 2^b /\ 2^0 = 1 /\ Horizon \in Nat
<1>1. Horizon \in Nat /\ \A x, y \in 0 .. Horizon : 2^x \in Nat \ {0} /\ 2^(x + y) = 2^x * 2^y
  BY LoadAssumption
<1>2. 2^a \in Nat \ {0} /\ 2^(a + b) = 2^a * 2^b
  BY <1>1
<1>3. 0 \in 0 .. Horizon /\ 0 + 0 = 0
  BY <1>1
<1>4. 2^0 \in Nat \ {0} /\ 2^0 = 2^0 * 2^0
  BY <1>1, <1>3
<1>5. \A x \in Nat \ {0} : x = x * x => x = 1
  <2> TAKE x \in Nat \ {0}
  <2> SUFFICES ASSUME x = x * x PROVE x = 1
    OBVIOUS
  <2>1. (x * x) \div x = x /\ (x * 1) \div x = 1
    BY Exact
  <2> QED BY <2>1
<1> QED BY <1>1, <1>2, <1>4, <1>5

\* The factors at two times.
LEMMA PowerAt ==
    ASSUME NEW l \in 1 .. LastTime, NEW n \in 0 .. LastTime - l
    PROVE  /\ 2^n \in Nat \ {0} /\ 2^(LastTime - l) \in Nat \ {0}
           /\ 2^(LastTime - (l + n)) \in Nat \ {0}
           /\ 2^(LastTime - l) = 2^n * 2^(LastTime - (l + n))
<1>1. Horizon \in Nat
  BY LoadAssumption
<1>2. n \in 0 .. Horizon /\ LastTime - (l + n) \in 0 .. Horizon /\ LastTime - l \in 0 .. Horizon
      /\ n + (LastTime - (l + n)) = LastTime - l
  BY <1>1 DEF LastTime
<1> QED BY <1>2, Powers

\* A load that can be halved is, exactly.
LEMMA DecExact ==
    ASSUME NEW l \in 1 .. LastTime, NEW n \in 0 .. LastTime - l, NEW v \in Halvable(l)
    PROVE  Dec(v, n) \in Halvable(l + n) /\ v = 2^n * Dec(v, n) /\ Dec(v, n) <= v
           /\ Dec(v, n) \in Nat /\ v \in Nat
<1> DEFINE p == 2^n
           q == 2^(LastTime - (l + n))
<1>1. p \in Nat \ {0} /\ q \in Nat \ {0} /\ 2^(LastTime - l) = p * q
  BY PowerAt
<1>2. PICK k \in Nat : v = k * 2^(LastTime - l)
  BY DEF Halvable
<1>3. v = p * (k * q)
  <2> HIDE DEF p, q
  <2> QED BY <1>1, <1>2
<1>4. k * q \in Nat /\ Dec(v, n) = k * q
  <2>1. Dec(v, n) = v \div p
    BY DEF Dec, LoadAvg!decay_load
  <2> HIDE DEF p, q
  <2>2. k * q \in Nat
    BY <1>1
  <2> QED BY <1>1, <1>3, <2>1, <2>2, Exact
<1>5. k * q \in Halvable(l + n)
  BY <1>4 DEF Halvable
<1>6. k * q <= p * (k * q)
  <2> HIDE DEF p, q
  <2> DEFINE x == k * q
  <2>1. x \in Nat
    BY <1>4
  <2> HIDE DEF x
  <2>2. x <= p * x
    BY <1>1, <2>1
  <2> QED BY <2>2 DEF x
<1> QED BY <1>3, <1>4, <1>5, <1>6

LEMMA DecSum ==
    ASSUME NEW l \in 1 .. LastTime, NEW n \in 0 .. LastTime - l,
           NEW v \in Halvable(l), NEW w \in Halvable(l)
    PROVE  /\ v + w \in Halvable(l) /\ Dec(v + w, n) = Dec(v, n) + Dec(w, n)
           /\ w <= v => /\ v - w \in Halvable(l) /\ Dec(v - w, n) = Dec(v, n) - Dec(w, n)
                        /\ Dec(w, n) <= Dec(v, n)
<1> DEFINE p == 2^(LastTime - l)
           q == 2^n
<1>1. p \in Nat \ {0} /\ q \in Nat \ {0}
  BY PowerAt
<1>2. PICK i \in Nat : v = i * p
  BY DEF Halvable
<1>3. PICK j \in Nat : w = j * p
  BY DEF Halvable
<1>4. v + w \in Halvable(l)
  <2>1. v + w = (i + j) * p /\ i + j \in Nat /\ v + w \in Nat
    <3> HIDE DEF p
    <3> QED BY <1>1, <1>2, <1>3
  <2> QED BY <2>1 DEF Halvable
<1>5. w <= v => v - w \in Halvable(l)
  <2> SUFFICES ASSUME w <= v PROVE v - w \in Halvable(l)
    OBVIOUS
  <2>1. v - w = (i - j) * p /\ i - j \in Nat /\ v - w \in Nat
    <3> HIDE DEF p
    <3>1. j * p <= i * p
      BY <1>2, <1>3
    <3>2. j <= i
      BY <1>1, <3>1
    <3> QED BY <1>1, <1>2, <1>3, <3>2
  <2> QED BY <2>1 DEF Halvable
<1>6. /\ v = q * Dec(v, n) /\ Dec(v, n) \in Nat /\ v \in Nat
      /\ w = q * Dec(w, n) /\ Dec(w, n) \in Nat /\ w \in Nat
      /\ v + w = q * Dec(v + w, n) /\ Dec(v + w, n) \in Nat
      /\ w <= v => v - w = q * Dec(v - w, n) /\ Dec(v - w, n) \in Nat
  <2> HIDE DEF p
  <2> QED BY <1>4, <1>5, DecExact
<1> HIDE DEF p, q
<1>7. \A a, b, c \in Int : q * a + q * b = q * c => c = a + b
  <2> TAKE a, b, c \in Int
  <2> SUFFICES ASSUME q * a + q * b = q * c PROVE c = a + b
    OBVIOUS
  <2>1. q * (a + b) = q * c
    BY <1>1
  <2>2. (q * (a + b)) \div q = a + b /\ (q * c) \div q = c
    BY <1>1, Exact
  <2> QED BY <2>1, <2>2
<1>8. Dec(v + w, n) = Dec(v, n) + Dec(w, n)
  <2> DEFINE a == Dec(v, n)
             b == Dec(w, n)
             c == Dec(v + w, n)
  <2>1. a \in Int /\ b \in Int /\ c \in Int /\ q * a + q * b = q * c
    BY <1>6
  <2> HIDE DEF a, b, c
  <2>2. c = a + b
    BY <1>7, <2>1
  <2> QED BY <2>2 DEF a, b, c
<1>9. w <= v => Dec(v, n) = Dec(w, n) + Dec(v - w, n)
  <2> SUFFICES ASSUME w <= v PROVE Dec(v, n) = Dec(w, n) + Dec(v - w, n)
    OBVIOUS
  <2> DEFINE a == Dec(w, n)
             b == Dec(v - w, n)
             c == Dec(v, n)
  <2>1. a \in Int /\ b \in Int /\ c \in Int /\ w + (v - w) = v
    BY <1>6
  <2>2. w = q * a /\ v - w = q * b /\ v = q * c
    BY <1>6
  <2> HIDE DEF a, b, c
  <2>3. q * a + q * b = q * c
    BY <2>1, <2>2
  <2>4. c = a + b
    BY <1>7, <2>1, <2>3
  <2> QED BY <2>4 DEF a, b, c
<1> QED BY <1>4, <1>5, <1>6, <1>8, <1>9

LEMMA DecTwice ==
    ASSUME NEW l \in 1 .. LastTime, NEW n \in 0 .. LastTime - l, NEW m \in 0 .. LastTime - (l + n),
           NEW v \in Halvable(l)
    PROVE  Dec(Dec(v, n), m) = Dec(v, n + m)
<1>0. LastTime \in Nat /\ Horizon \in Nat
  BY LoadAssumption DEF LastTime
<1>1. l + n \in 1 .. LastTime /\ n + m \in 0 .. LastTime - l /\ n \in 0 .. Horizon /\ m \in 0 .. Horizon
  BY <1>0 DEF LastTime
<1> DEFINE p == 2^n
           q == 2^m
           x == Dec(Dec(v, n), m)
           y == Dec(v, n + m)
<1>2. p \in Nat \ {0} /\ q \in Nat \ {0} /\ 2^(n + m) = p * q
  BY <1>1, Powers
<1>3. v = p * Dec(v, n) /\ Dec(v, n) = q * x /\ x \in Nat
  BY <1>1, DecExact
<1>4. v = (p * q) * y /\ y \in Nat
  BY <1>1, <1>2, DecExact
<1> HIDE DEF p, q, x, y
<1>5. v = (p * q) * x
  BY <1>2, <1>3
<1>6. p * q \in Nat \ {0}
  BY <1>2
<1>7. ((p * q) * x) \div (p * q) = x /\ ((p * q) * y) \div (p * q) = y
  BY <1>3, <1>4, <1>6, Exact
<1> QED BY <1>4, <1>5, <1>7 DEF x, y

LEMMA DecNone ==
    ASSUME NEW l \in 1 .. LastTime, NEW v \in Halvable(l)
    PROVE  Dec(v, 0) = v
<1>0. Horizon \in Nat
  BY LoadAssumption
<1>1. 0 \in 0 .. LastTime - l /\ 0 \in 0 .. Horizon
  BY <1>0 DEF LastTime
<1>2. 2^0 = 1
  BY <1>1, Powers
<1>3. v = 2^0 * Dec(v, 0) /\ Dec(v, 0) \in Nat
  BY <1>1, DecExact
<1> QED BY <1>2, <1>3

LEMMA StillHalvable ==
    ASSUME NEW l \in 1 .. LastTime, NEW m \in l .. LastTime, NEW v \in Halvable(l)
    PROVE  v \in Halvable(m)
<1>0. LastTime \in Nat
  BY LoadAssumption DEF LastTime
<1> DEFINE n == m - l
           p == 2^n
           q == 2^(LastTime - (l + n))
<1>1. n \in 0 .. LastTime - l /\ l + n = m
  BY <1>0
<1>2. p \in Nat \ {0} /\ q \in Nat \ {0} /\ 2^(LastTime - l) = p * q
  <2> HIDE DEF n
  <2> QED BY <1>1, PowerAt
<1>3. PICK k \in Nat : v = k * 2^(LastTime - l)
  BY DEF Halvable
<1>4. v = (k * p) * q /\ k * p \in Nat
  <2> HIDE DEF p, q
  <2> QED BY <1>2, <1>3
<1>5. q = 2^(LastTime - m)
  BY <1>1
<1> HIDE DEF p, q
<1> QED BY <1>4, <1>5 DEF Halvable

-----------------------------------------------------------------------------
\* What time adds.
LEMMA HalvableZero ==
    ASSUME NEW l \in 1 .. LastTime
    PROVE  0 \in Halvable(l) /\ \A n \in 0 .. LastTime - l : Dec(0, n) = 0
<1>1. 0 \in Halvable(l)
  <2>1. 0 \in 0 .. LastTime - l
    BY LoadAssumption DEF LastTime
  <2>2. 2^(LastTime - l) \in Nat
    BY <2>1, PowerAt
  <2>3. 0 = 0 * 2^(LastTime - l) /\ 0 \in Nat
    BY <2>2
  <2> QED BY <2>3 DEF Halvable
<1>2. ASSUME NEW n \in 0 .. LastTime - l PROVE Dec(0, n) = 0
  <2>1. Dec(0, n) \in Nat /\ Dec(0, n) <= 0
    BY <1>1, DecExact
  <2> QED BY <2>1
<1> QED BY <1>1, <1>2

\* A weight grows into the load as the load decays.
LEMMA Growth ==
    ASSUME NEW l \in 1 .. LastTime, NEW n \in 0 .. LastTime - l, NEW w \in Halvable(1)
    PROVE  /\ w - Dec(w, n) \in Halvable(l + n) /\ Dec(w, n) \in Nat /\ w \in Nat
           /\ Dec(w, n) \in Halvable(l + n) /\ w \in Halvable(l + n)
           /\ \A m \in 0 .. LastTime - (l + n) :
                 Dec(w - Dec(w, n), m) = Dec(w, m) - Dec(w, n + m)
<1>0. LastTime \in Nat
  BY LoadAssumption DEF LastTime
<1>1. 1 \in 1 .. LastTime /\ n \in 0 .. LastTime - 1 /\ 1 + n \in 1 .. LastTime
      /\ 1 + n \in 1 .. LastTime /\ l + n \in 1 + n .. LastTime /\ l + n \in 1 .. LastTime
  BY <1>0
<1>2. Dec(w, n) \in Halvable(1 + n) /\ Dec(w, n) \in Nat /\ w \in Nat /\ Dec(w, n) <= w
  BY <1>1, DecExact
<1>3. w \in Halvable(1 + n)
  <2>1. 1 + n \in 1 .. LastTime
    BY <1>1
  <2> QED BY <1>1, <2>1, StillHalvable
<1>4. w \in Halvable(l + n) /\ Dec(w, n) \in Halvable(l + n)
  BY <1>1, <1>2, <1>3, StillHalvable
<1>5. w - Dec(w, n) \in Halvable(l + n)
  <2>1. 0 \in 0 .. LastTime - (l + n)
    BY <1>0, <1>1
  <2> QED BY <1>1, <1>2, <1>4, <2>1, DecSum
<1>6. ASSUME NEW m \in 0 .. LastTime - (l + n)
      PROVE  Dec(w - Dec(w, n), m) = Dec(w, m) - Dec(w, n + m)
  <2>1. Dec(w - Dec(w, n), m) = Dec(w, m) - Dec(Dec(w, n), m)
    BY <1>1, <1>2, <1>4, DecSum
  <2>2. m \in 0 .. LastTime - (1 + n)
    BY <1>0
  <2>3. Dec(Dec(w, n), m) = Dec(w, n + m)
    BY <1>1, <2>2, DecTwice
  <2> QED BY <2>1, <2>3
<1> QED BY <1>2, <1>4, <1>5, <1>6

LEMMA AccDef ==
    ASSUME NEW v, NEW w, NEW n
    PROVE  Acc(v, w, n) = Dec(v, n) + w - Dec(w, n)
BY DEF Acc, Dec, LoadAvg!Accrued

LEMMA AccType ==
    ASSUME NEW l \in 1 .. LastTime, NEW n \in 0 .. LastTime - l,
           NEW v \in Halvable(l), NEW w \in Halvable(1)
    PROVE  /\ l + n \in 1 .. LastTime
           /\ Acc(v, w, n) \in Halvable(l + n) /\ Acc(v, w, n) \in Nat
           /\ Acc(v, w, n) = Dec(v, n) + (w - Dec(w, n))
<1>0. l + n \in 1 .. LastTime /\ 0 \in 0 .. LastTime - (l + n)
  BY LoadAssumption DEF LastTime
<1>1. Dec(v, n) \in Halvable(l + n) /\ Dec(v, n) \in Nat
  BY DecExact
<1>2. w - Dec(w, n) \in Halvable(l + n) /\ Dec(w, n) \in Nat /\ w \in Nat
  BY Growth
<1>3. Acc(v, w, n) = Dec(v, n) + (w - Dec(w, n))
  BY <1>1, <1>2, AccDef
<1>4. Acc(v, w, n) \in Halvable(l + n)
  BY <1>0, <1>1, <1>2, <1>3, DecSum
<1>5. Acc(v, w, n) \in Nat
  BY <1>4 DEF Halvable
<1> QED BY <1>0, <1>3, <1>4, <1>5

LEMMA AccSum ==
    ASSUME NEW l \in 1 .. LastTime, NEW n \in 0 .. LastTime - l,
           NEW v \in Halvable(l), NEW w \in Halvable(1), NEW x \in Halvable(l), NEW y \in Halvable(1)
    PROVE  /\ v + x \in Halvable(l) /\ w + y \in Halvable(1)
           /\ Acc(v + x, w + y, n) = Acc(v, w, n) + Acc(x, y, n)
<1>0. LastTime \in Nat /\ 1 \in 1 .. LastTime /\ n \in 0 .. LastTime - 1
  BY LoadAssumption DEF LastTime
<1>1. v + x \in Halvable(l) /\ Dec(v + x, n) = Dec(v, n) + Dec(x, n)
  BY DecSum
<1>2. w + y \in Halvable(1) /\ Dec(w + y, n) = Dec(w, n) + Dec(y, n)
  BY <1>0, DecSum
<1>3. /\ Dec(v, n) \in Int /\ Dec(x, n) \in Int /\ Dec(w, n) \in Int /\ Dec(y, n) \in Int
      /\ w \in Int /\ y \in Int
  BY <1>0, DecExact
<1> QED BY <1>1, <1>2, <1>3, AccDef

LEMMA AccTwice ==
    ASSUME NEW l \in 1 .. LastTime, NEW n \in 0 .. LastTime - l, NEW m \in 0 .. LastTime - (l + n),
           NEW v \in Halvable(l), NEW w \in Halvable(1)
    PROVE  Acc(Acc(v, w, n), w, m) = Acc(v, w, n + m)
<1>0. l + n \in 1 .. LastTime /\ n + m \in 0 .. LastTime - l /\ 1 \in 1 .. LastTime
      /\ m \in 0 .. LastTime - 1 /\ n + m \in 0 .. LastTime - 1
  BY LoadAssumption DEF LastTime
<1> DEFINE u == w - Dec(w, n)
<1>1. u \in Halvable(l + n) /\ Dec(u, m) = Dec(w, m) - Dec(w, n + m)
  BY Growth
<1>2. Dec(v, n) \in Halvable(l + n) /\ Acc(v, w, n) = Dec(v, n) + u
  BY DecExact, AccType
<1>3. Dec(Dec(v, n) + u, m) = Dec(Dec(v, n), m) + Dec(u, m)
  <2> HIDE DEF u
  <2> QED BY <1>0, <1>1, <1>2, DecSum
<1>4. Dec(Dec(v, n), m) = Dec(v, n + m)
  BY DecTwice
<1>5. /\ Dec(w, m) \in Int /\ Dec(w, n + m) \in Int /\ w \in Int /\ Dec(v, n + m) \in Int
  <2> HIDE DEF u
  <2>1. Dec(w, m) \in Nat /\ w \in Nat
    BY <1>0, DecExact
  <2>2. Dec(w, n + m) \in Nat
    BY <1>0, DecExact
  <2>3. Dec(v, n + m) \in Nat
    BY <1>0, DecExact
  <2> QED BY <2>1, <2>2, <2>3
<1>6. Acc(Acc(v, w, n), w, m) = Dec(v, n + m) + (Dec(w, m) - Dec(w, n + m)) + w - Dec(w, m)
  BY <1>1, <1>2, <1>3, <1>4, AccDef
<1> QED BY <1>5, <1>6, AccDef

LEMMA AccNone ==
    ASSUME NEW l \in 1 .. LastTime, NEW v \in Halvable(l), NEW w \in Halvable(1)
    PROVE  Acc(v, w, 0) = v
<1>1. 1 \in 1 .. LastTime
  BY LoadAssumption DEF LastTime
<1>2. Dec(v, 0) = v /\ Dec(w, 0) = w /\ v \in Nat /\ w \in Nat
  BY <1>1, DecNone DEF Halvable
<1> QED BY <1>2, AccDef

LEMMA AccIdle ==
    ASSUME NEW l \in 1 .. LastTime, NEW n \in 0 .. LastTime - l, NEW v \in Halvable(l)
    PROVE  Acc(v, 0, n) = Dec(v, n) /\ 0 \in Halvable(1)
<1>1. 1 \in 1 .. LastTime /\ n \in 0 .. LastTime - 1
  BY LoadAssumption DEF LastTime
<1>2. Dec(0, n) = 0 /\ 0 \in Halvable(1) /\ Dec(v, n) \in Nat
  BY <1>1, HalvableZero, DecExact
<1> QED BY <1>2, AccDef

\* What holds of the tasks holds of their sums.
LEMMA AccOfSums ==
    ASSUME NEW l \in 1 .. LastTime, NEW n \in 0 .. LastTime - l, NEW S, IsFiniteSet(S),
           NEW f, NEW g, NEW h, \A x \in S : f[x] \in Halvable(l) /\ g[x] \in Halvable(1),
           \A x \in S : h[x] = Acc(f[x], g[x], n)
    PROVE  /\ SumIn(f, S) \in Halvable(l) /\ SumIn(g, S) \in Halvable(1)
           /\ SumIn(h, S) = Acc(SumIn(f, S), SumIn(g, S), n)
<1> DEFINE R == {r \in Int \X Int \X Int :
                   r[1] \in Halvable(l) /\ r[2] \in Halvable(1) /\ r[3] = Acc(r[1], r[2], n)}
<1>1. \A a, b, c : <<a, b, c>> \in R <=>
          a \in Int /\ b \in Int /\ c \in Int
          /\ a \in Halvable(l) /\ b \in Halvable(1) /\ c = Acc(a, b, n)
  OBVIOUS
<1>2. /\ 1 \in 1 .. LastTime
      /\ \A v \in Halvable(l) : v \in Int
      /\ \A v \in Halvable(1) : v \in Int
  BY LoadAssumption DEF LastTime, Halvable
<1> HIDE DEF R
<1>3. <<0, 0, 0>> \in R
  <2>1. 0 \in Halvable(l) /\ 0 \in Halvable(1) /\ Dec(0, n) = 0
    BY <1>2, HalvableZero
  <2>2. Acc(0, 0, n) = 0
    BY <2>1, AccIdle
  <2> QED BY <1>1, <2>1, <2>2
<1>4. \A x \in S : /\ f[x] \in Int /\ g[x] \in Int /\ h[x] \in Int
                   /\ <<f[x], g[x], h[x]>> \in R
  <2> TAKE x \in S
  <2>1. f[x] \in Halvable(l) /\ g[x] \in Halvable(1) /\ h[x] = Acc(f[x], g[x], n)
    OBVIOUS
  <2>2. Acc(f[x], g[x], n) \in Nat
    BY <2>1, AccType
  <2> QED BY <1>1, <1>2, <2>1, <2>2
<1>5. \A a, b, c, d, e, k \in Int :
          <<a, b, c>> \in R /\ <<d, e, k>> \in R => <<a + d, b + e, c + k>> \in R
  <2> TAKE a, b, c, d, e, k \in Int
  <2> SUFFICES ASSUME <<a, b, c>> \in R, <<d, e, k>> \in R PROVE <<a + d, b + e, c + k>> \in R
    OBVIOUS
  <2>1. /\ a \in Halvable(l) /\ b \in Halvable(1) /\ c = Acc(a, b, n)
        /\ d \in Halvable(l) /\ e \in Halvable(1) /\ k = Acc(d, e, n)
    BY <1>1
  <2>2. /\ a + d \in Halvable(l) /\ b + e \in Halvable(1)
        /\ Acc(a + d, b + e, n) = c + k
    BY <2>1, AccSum
  <2> QED BY <1>1, <2>2
<1>6. <<SumIn(f, S), SumIn(g, S), SumIn(h, S)>> \in R
  BY <1>3, <1>4, <1>5, SumRelated
<1> QED BY <1>1, <1>6

-----------------------------------------------------------------------------
(* The invariant.                                                          *)

Ents == [load_avg : Nat, last_update_time : Nat, on_rq : BOOLEAN, cpu : RqCPUs,
         st : {"fair", "synced", "moved", "out"}]
CfsRqs == [load_avg : Nat, runnable : Nat, removed : Nat, last_update_time : Nat,
           contrib : Nat, propagate : BOOLEAN]
Uppers == [load_avg : Int, root : Int, last_update_time : Nat, weight : Int, on_rq : BOOLEAN]
Hiers == [cfs : CfsRqs, up : Uppers, tg : Int, changed : BOOLEAN]

\* A task's load can be halved until the clock stops; the task is not ahead of
\* the runqueue it counts for.
EntSound(e, q, n) ==
    /\ e.on_rq => e.st = "fair"
    /\ e.st = "moved" => e.last_update_time = 0 /\ e.load_avg \in Halvable(n)
    /\ e.st # "moved" => e.last_update_time \in 1 .. n
                         /\ e.load_avg \in Halvable(e.last_update_time)
    /\ e.st \in {"fair", "synced"} => e.last_update_time <= q.last_update_time

CfsRqSound(q, n) ==
    /\ q.last_update_time \in 1 .. n
    /\ {q.load_avg, q.runnable, q.removed} \subseteq Halvable(q.last_update_time)

UpperSound(u, n) == u.root = u.load_avg /\ u.last_update_time \in 1 .. n

\* The load of the tasks s on CPU c, in the time of q.
WeightOf(e) == IF e.on_rq THEN TaskWeight ELSE 0
LoadIn(e, q) == Acc(e.load_avg, WeightOf(e), q.last_update_time - e.last_update_time)
HereOf(s, c) == {t \in RqTasks : s[t].cpu = c /\ s[t].st \in {"fair", "synced"}}
QueuedOf(s, c) == {t \in RqTasks : s[t].cpu = c /\ s[t].on_rq}
SumHere(s, q, c) == SumIn([t \in HereOf(s, c) |-> LoadIn(s[t], q)], HereOf(s, c))
SumQueued(s, q, c) == SumIn([t \in QueuedOf(s, c) |-> LoadIn(s[t], q)], QueuedOf(s, c))

Balances(s, q, delayed, c) ==
    /\ IF delayed THEN q.load_avg <= SumHere(s, q, c) + q.removed
                  ELSE q.load_avg = SumHere(s, q, c) + q.removed
    /\ q.runnable = SumQueued(s, q, c)

Contribs(qs) == SumIn([c \in RqCPUs |-> qs[c].contrib], RqCPUs)

LoadTypes ==
    /\ now \in 1 .. LastTime
    /\ se \in [RqTasks -> Ents] /\ cfs_rq \in [RqCPUs -> CfsRqs] /\ parent \in [RqCPUs -> Uppers]
    /\ tg_load \in Nat

LoadAvgInv ==
    /\ LoadTypes
    /\ \A t \in RqTasks : EntSound(se[t], cfs_rq[se[t].cpu], now)
    /\ \A c \in RqCPUs : CfsRqSound(cfs_rq[c], now) /\ UpperSound(parent[c], now)
    /\ \A c \in RqCPUs : Balances(se, cfs_rq[c], c \in behind, c)
    /\ tg_load = Contribs(cfs_rq)

LEMMA LoadTimes == LastTime \in Nat /\ LastTime = Horizon + 1 /\ Horizon \in Nat
BY LoadAssumption DEF LastTime

LEMMA TasksFinite ==
    ASSUME NEW s, NEW c
    PROVE  /\ IsFiniteSet(HereOf(s, c)) /\ IsFiniteSet(QueuedOf(s, c))
           /\ HereOf(s, c) \subseteq RqTasks /\ QueuedOf(s, c) \subseteq RqTasks
<1>1. HereOf(s, c) \subseteq RqTasks /\ QueuedOf(s, c) \subseteq RqTasks
  BY DEF HereOf, QueuedOf
<1> QED BY <1>1, LoadAssumption, FS_Subset

LEMMA WeightHalvable ==
    /\ TaskWeight \in Halvable(1) /\ TaskWeight \in Nat
    /\ \A e \in Ents : WeightOf(e) \in Halvable(1) /\ WeightOf(e) \in Nat
<1>1. PICK k \in 0 .. TaskWeight : TaskWeight = k * 2^Horizon
  BY LoadAssumption
<1>2. TaskWeight \in Nat /\ k \in Nat /\ LastTime - 1 = Horizon
  BY LoadAssumption, LoadTimes
<1>3. TaskWeight \in Halvable(1)
  BY <1>1, <1>2 DEF Halvable
<1>4. 0 \in Halvable(1)
  BY LoadTimes, HalvableZero
<1> QED BY <1>2, <1>3, <1>4 DEF WeightOf

\* What the module says in its own words.
LEMMA LoadWords ==
    /\ \A t : LoadAvg!At(t) = LoadIn(se[t], cfs_rq[se[t].cpu])
    /\ \A c : LoadAvg!Queued(c) = QueuedOf(se, c)
BY DEF LoadAvg!At, LoadIn, Acc, WeightOf, LoadAvg!Queued, QueuedOf

LEMMA LoadSafe == LoadAvgInv => LoadAvg!Inv
<1> SUFFICES ASSUME LoadAvgInv PROVE LoadAvg!Inv
  OBVIOUS
<1>1. LoadAvg!TypeOK
  BY LoadTimes DEF LoadAvgInv, LoadTypes, LoadAvg!TypeOK, CfsRqs
<1>2. LoadAvg!LoadIsSum
  <2> SUFFICES ASSUME NEW c \in RqCPUs
               PROVE  LET here == {t \in RqTasks : se[t].cpu = c /\ se[t].st \in {"fair", "synced"}}
                          sum == SumIn([t \in here |-> LoadAvg!At(t)], here) + cfs_rq[c].removed
                      IN  IF c \in behind THEN cfs_rq[c].load_avg <= sum
                                          ELSE cfs_rq[c].load_avg = sum
    BY DEF LoadAvg!LoadIsSum
  <2>1. \A t \in HereOf(se, c) : LoadAvg!At(t) = LoadIn(se[t], cfs_rq[c])
    BY LoadWords DEF HereOf
  <2>2. [t \in HereOf(se, c) |-> LoadAvg!At(t)] = [t \in HereOf(se, c) |-> LoadIn(se[t], cfs_rq[c])]
    BY <2>1
  <2>3. Balances(se, cfs_rq[c], c \in behind, c)
    BY DEF LoadAvgInv
  <2> QED BY <2>2, <2>3 DEF Balances, SumHere, HereOf
<1>3. LoadAvg!RunnableIsSum
  <2> SUFFICES ASSUME NEW c \in RqCPUs
               PROVE  cfs_rq[c].runnable = SumIn([t \in QueuedOf(se, c) |-> LoadAvg!At(t)], QueuedOf(se, c))
    BY LoadWords DEF LoadAvg!RunnableIsSum
  <2>1. \A t \in QueuedOf(se, c) : LoadAvg!At(t) = LoadIn(se[t], cfs_rq[c])
    BY LoadWords DEF QueuedOf
  <2>2. [t \in QueuedOf(se, c) |-> LoadAvg!At(t)] = [t \in QueuedOf(se, c) |-> LoadIn(se[t], cfs_rq[c])]
    BY <2>1
  <2>3. Balances(se, cfs_rq[c], c \in behind, c)
    BY DEF LoadAvgInv
  <2> QED BY <2>2, <2>3 DEF Balances, SumQueued
<1>4. LoadAvg!LevelsAgree
  BY DEF LoadAvgInv, UpperSound, Contribs, LoadAvg!LevelsAgree
<1> QED BY <1>1, <1>2, <1>3, <1>4 DEF LoadAvg!Inv

\* The other runqueues' share of the group's load.
LEMMA OtherContribs ==
    ASSUME LoadAvgInv, NEW c \in RqCPUs
    PROVE  tg_load - cfs_rq[c].contrib \in Nat /\ cfs_rq[c].contrib \in Nat /\ tg_load \in Nat
<1> DEFINE f == [d \in RqCPUs |-> cfs_rq[d].contrib]
<1>1. IsFiniteSet(RqCPUs) /\ \A d \in RqCPUs : f[d] \in Nat
  BY LoadAssumption DEF LoadAvgInv, LoadTypes, CfsRqs
<1>2. f[c] <= SumIn(f, RqCPUs) /\ SumIn(f, RqCPUs) \in Nat
  <2> HIDE DEF f
  <2> QED BY <1>1, SumBound
<1>3. tg_load = SumIn(f, RqCPUs) /\ f[c] = cfs_rq[c].contrib
  BY DEF LoadAvgInv, Contribs
<1> HIDE DEF f
<1> QED BY <1>1, <1>2, <1>3

\* A task's load as it is now.
NowOf(t) == Acc(se[t].load_avg, WeightOf(se[t]), now - se[t].last_update_time)
HereNow(c) == SumIn([t \in HereOf(se, c) |-> NowOf(t)], HereOf(se, c))
QueuedNow(c) == SumIn([t \in QueuedOf(se, c) |-> NowOf(t)], QueuedOf(se, c))

\* A task up to date.
LEMMA Aging ==
    ASSUME LoadAvgInv, NEW t \in RqTasks, se[t].st # "moved"
    PROVE  /\ LoadAvg!Aged(t) = [se[t] EXCEPT !.load_avg = NowOf(t), !.last_update_time = now]
           /\ NowOf(t) \in Halvable(now) /\ NowOf(t) \in Nat
<1>1. /\ se[t] \in Ents /\ se[t].last_update_time \in 1 .. now /\ now \in 1 .. LastTime
      /\ se[t].load_avg \in Halvable(se[t].last_update_time)
  BY DEF LoadAvgInv, LoadTypes, EntSound
<1>2. LoadAvg!Aged(t) = [se[t] EXCEPT !.load_avg = NowOf(t), !.last_update_time = now]
  <2>1. se[t].last_update_time # 0
    BY <1>1
  <2> QED BY <2>1 DEF LoadAvg!Aged, NowOf, Acc, WeightOf
<1>3. WeightOf(se[t]) \in Halvable(1)
  BY <1>1, WeightHalvable
<1> DEFINE l == se[t].last_update_time
           n == now - l
<1>4. l \in 1 .. LastTime /\ n \in 0 .. LastTime - l /\ l + n = now
  BY <1>1, LoadTimes
<1>5. Acc(se[t].load_avg, WeightOf(se[t]), n) \in Halvable(l + n)
      /\ Acc(se[t].load_avg, WeightOf(se[t]), n) \in Nat
  <2>1. se[t].load_avg \in Halvable(l)
    BY <1>1
  <2> HIDE DEF l, n
  <2> QED BY <1>3, <1>4, <2>1, AccType
<1> QED BY <1>2, <1>4, <1>5 DEF NowOf

\* From the time of the runqueue to now.
LEMMA Later ==
    ASSUME LoadAvgInv, NEW c \in RqCPUs, NEW t \in HereOf(se, c)
    PROVE  /\ LoadIn(se[t], cfs_rq[c]) \in Halvable(cfs_rq[c].last_update_time)
           /\ WeightOf(se[t]) \in Halvable(1)
           /\ NowOf(t) = Acc(LoadIn(se[t], cfs_rq[c]), WeightOf(se[t]), now - cfs_rq[c].last_update_time)
<1>1. /\ t \in RqTasks /\ se[t] \in Ents /\ se[t].cpu = c /\ se[t].st \in {"fair", "synced"}
  BY DEF LoadAvgInv, LoadTypes, HereOf
<1> DEFINE l == se[t].last_update_time
           n == cfs_rq[c].last_update_time - l
           m == now - cfs_rq[c].last_update_time
           v == se[t].load_avg
           w == WeightOf(se[t])
<1>2. /\ l \in 1 .. now /\ v \in Halvable(l) /\ l <= cfs_rq[c].last_update_time
      /\ cfs_rq[c].last_update_time \in 1 .. now /\ now \in 1 .. LastTime
  BY <1>1 DEF LoadAvgInv, LoadTypes, EntSound, CfsRqSound
<1>3. w \in Halvable(1)
  BY <1>1, WeightHalvable
<1>4. /\ l \in 1 .. LastTime /\ n \in 0 .. LastTime - l /\ m \in 0 .. LastTime - (l + n)
      /\ l + n = cfs_rq[c].last_update_time /\ n + m = now - l
  BY <1>2, LoadTimes
<1>5. LoadIn(se[t], cfs_rq[c]) = Acc(v, w, n) /\ NowOf(t) = Acc(v, w, n + m)
  BY <1>4 DEF LoadIn, NowOf
<1>6. v \in Halvable(l)
  BY <1>2
<1> HIDE DEF l, n, v, w
<1>7. Acc(v, w, n) \in Halvable(l + n) /\ Acc(Acc(v, w, n), w, m) = Acc(v, w, n + m)
  <2> HIDE DEF m
  <2> QED BY <1>3, <1>4, <1>6, AccType, AccTwice
<1> QED BY <1>3, <1>4, <1>5, <1>7 DEF w

-----------------------------------------------------------------------------
(* The functions the operations are made of.                               *)

\* What they all keep, and what those for the levels above leave alone.
HierSound(h) == h \in Hiers /\ UpperSound(h.up, now) /\ h.tg - h.cfs.contrib \in Nat

SameLoads(h, x) ==
    /\ x.cfs.load_avg = h.cfs.load_avg /\ x.cfs.runnable = h.cfs.runnable
    /\ x.cfs.removed = h.cfs.removed /\ x.cfs.last_update_time = h.cfs.last_update_time
    /\ x.tg - x.cfs.contrib = h.tg - h.cfs.contrib

LEMMA HierParts ==
    ASSUME NEW h \in Hiers
    PROVE  /\ h.cfs \in CfsRqs /\ h.up \in Uppers /\ h.tg \in Int
           /\ h.cfs.load_avg \in Nat /\ h.cfs.runnable \in Nat /\ h.cfs.removed \in Nat
           /\ h.cfs.contrib \in Nat
BY DEF Hiers, CfsRqs

LEMMA TgUpdated ==
    ASSUME NEW h, HierSound(h)
    PROVE  /\ HierSound(LoadAvg!update_tg_load_avg(h))
           /\ SameLoads(h, LoadAvg!update_tg_load_avg(h))
<1> DEFINE delta == h.cfs.load_avg - h.cfs.contrib
           x == [h EXCEPT !.tg = @ + delta, !.cfs.contrib = h.cfs.load_avg]
<1>1. h \in Hiers /\ h.cfs \in CfsRqs /\ h.tg \in Int /\ h.cfs.load_avg \in Nat /\ h.cfs.contrib \in Nat
  BY HierParts DEF HierSound
<1>2. LoadAvg!update_tg_load_avg(h) \in {x, h}
  BY DEF LoadAvg!update_tg_load_avg
<1>3. x \in Hiers
  <2> DEFINE q == [h.cfs EXCEPT !.contrib = h.cfs.load_avg]
             g == h.tg + delta
  <2>1. q \in CfsRqs /\ g \in Int
    BY <1>1 DEF CfsRqs
  <2>2. x = [h EXCEPT !.tg = g, !.cfs = q]
    BY <1>1 DEF Hiers
  <2> HIDE DEF q, g, x
  <2> QED BY <1>1, <2>1, <2>2 DEF Hiers
<1>4. /\ x.up = h.up /\ x.tg = h.tg + delta /\ x.cfs.contrib = h.cfs.load_avg
      /\ x.cfs.load_avg = h.cfs.load_avg /\ x.cfs.runnable = h.cfs.runnable
      /\ x.cfs.removed = h.cfs.removed /\ x.cfs.last_update_time = h.cfs.last_update_time
  BY <1>1 DEF Hiers, CfsRqs
<1>5. x.tg - x.cfs.contrib = h.tg - h.cfs.contrib
  BY <1>1, <1>4
<1>6. HierSound(x) /\ SameLoads(h, x)
  <2> HIDE DEF x
  <2> QED BY <1>3, <1>4, <1>5 DEF HierSound, SameLoads
<1> QED BY <1>2, <1>6 DEF SameLoads

LEMMA AccInt ==
    ASSUME NEW v \in Int, NEW w \in Int, NEW n \in 0 .. Horizon
    PROVE  LoadAvg!Accrued(v, w, n) \in Int
<1>1. 2^n \in Nat \ {0}
  BY Powers
<1> DEFINE p == 2^n
<1> HIDE DEF p
<1>2. v \div p \in Int /\ w \div p \in Int
  BY <1>1, DivMod DEF p
<1> QED BY <1>2 DEF LoadAvg!Accrued, LoadAvg!decay_load, p

\* The group's entity has no more load than its shares say.
LEMMA GroupLoadNat ==
    ASSUME NEW h, HierSound(h)
    PROVE  LoadAvg!GroupLoad(h) \in Nat
<1> DEFINE a == h.cfs.load_avg
           t == h.tg + 1 - h.cfs.contrib + a
<1>1. a \in Nat /\ h.tg \in Int /\ h.cfs.contrib \in Nat /\ Shares \in Nat
  BY HierParts, LoadAssumption DEF HierSound
<1>2. t \in Int
  BY <1>1
<1>3. LoadAvg!GroupLoad(h) = IF a # 0 /\ t > Shares THEN (a * Shares) \div t ELSE a
  BY DEF LoadAvg!GroupLoad
<1>4. t > Shares => (a * Shares) \div t \in Nat
  <2> SUFFICES ASSUME t > Shares PROVE (a * Shares) \div t \in Nat
    OBVIOUS
  <2> HIDE DEF a, t
  <2> DEFINE b == a * Shares
             q == b \div t
  <2>1. b \in Nat /\ t > 0
    BY <1>1, <1>2
  <2>2. q \in Int /\ b % t \in 0 .. t - 1 /\ b = t * q + (b % t)
    <3> HIDE DEF b
    <3> QED BY <1>2, <2>1, DivMod
  <2> HIDE DEF b, q
  <2>3. q >= 0
    <3> SUFFICES ASSUME q <= -1 PROVE FALSE
      BY <2>2
    <3>1. t * q <= t * (-1)
      BY <1>2, <2>1, <2>2
    <3> QED BY <1>2, <2>1, <2>2, <3>1
  <2> QED BY <2>2, <2>3 DEF b, q
<1> QED BY <1>1, <1>3, <1>4

LEMMA ParentUpdated ==
    ASSUME now \in 1 .. LastTime, NEW h, HierSound(h)
    PROVE  /\ HierSound(LoadAvg!UpdatedParent(h))
           /\ SameLoads(h, LoadAvg!UpdatedParent(h))
<1> DEFINE up == h.up
           n == now - up.last_update_time
           w == IF up.on_rq THEN up.weight ELSE 0
           aged == [up EXCEPT !.load_avg = LoadAvg!Accrued(@, w, n), !.root = LoadAvg!Accrued(@, w, n),
                              !.last_update_time = now]
           load == LoadAvg!GroupLoad(h)
           x == [h EXCEPT !.cfs.propagate = FALSE, !.up = LoadAvg!Propagated(aged, load)]
           y == [h EXCEPT !.up = aged]
<1>1. h \in Hiers /\ h.cfs \in CfsRqs /\ up \in Uppers
  BY HierParts DEF HierSound
<1>2. up.load_avg \in Int /\ up.root = up.load_avg /\ w \in Int /\ n \in 0 .. Horizon
  BY <1>1, LoadTimes DEF Uppers, HierSound, UpperSound
<1>3. /\ aged \in Uppers /\ aged.root = aged.load_avg /\ aged.last_update_time = now
      /\ aged.root \in Int /\ now \in Nat
  <2>1. LoadAvg!Accrued(up.load_avg, w, n) \in Int
    <3> HIDE DEF w, n, up
    <3> QED BY <1>2, AccInt
  <2> DEFINE g == LoadAvg!Accrued(up.load_avg, w, n)
  <2>2. aged = [up EXCEPT !.load_avg = g, !.root = g, !.last_update_time = now]
    BY <1>1, <1>2 DEF Uppers
  <2>3. g \in Int /\ now \in Nat
    BY <2>1, LoadTimes
  <2> HIDE DEF w, n, g, up, aged
  <2> QED BY <1>1, <2>2, <2>3 DEF Uppers
<1>4. load \in Nat
  BY GroupLoadNat
<1> HIDE DEF aged, load
<1> DEFINE z == LoadAvg!Propagated(aged, load)
<1>5. z \in Uppers /\ z.root = z.load_avg /\ z.last_update_time = now
  <2>1. LoadAvg!Larger(aged.root + load - aged.load_avg, 0) = load
    BY <1>3, <1>4 DEF LoadAvg!Larger
  <2>2. z = [aged EXCEPT !.root = load, !.load_avg = load]
    BY <1>3, <2>1 DEF LoadAvg!Propagated, Uppers
  <2>3. load \in Int /\ aged \in Uppers /\ aged.last_update_time = now
    BY <1>3, <1>4
  <2> HIDE DEF z
  <2> QED BY <2>2, <2>3 DEF Uppers
<1> HIDE DEF z
<1>6. LoadAvg!UpdatedParent(h) = IF h.cfs.propagate THEN x ELSE y
  BY DEF LoadAvg!UpdatedParent, aged, load
<1>7. x = [h EXCEPT !.cfs.propagate = FALSE, !.up = z]
  BY DEF z
<1>8. HierSound(x) /\ SameLoads(h, x)
  <2>1. [h.cfs EXCEPT !.propagate = FALSE] \in CfsRqs
    BY <1>1 DEF CfsRqs
  <2>2. x.cfs = [h.cfs EXCEPT !.propagate = FALSE] /\ x.up = z /\ x.tg = h.tg /\ x \in Hiers
    BY <1>1, <1>5, <1>7, <2>1 DEF Hiers
  <2>3. /\ x.cfs.load_avg = h.cfs.load_avg /\ x.cfs.runnable = h.cfs.runnable
        /\ x.cfs.removed = h.cfs.removed /\ x.cfs.last_update_time = h.cfs.last_update_time
        /\ x.cfs.contrib = h.cfs.contrib
    BY <1>1, <2>2 DEF CfsRqs
  <2> HIDE DEF x
  <2> QED BY <1>5, <2>2, <2>3 DEF HierSound, SameLoads, UpperSound
<1>9. HierSound(y) /\ SameLoads(h, y)
  <2>1. y.cfs = h.cfs /\ y.up = aged /\ y.tg = h.tg /\ y \in Hiers
    BY <1>1, <1>3 DEF Hiers
  <2> HIDE DEF y
  <2> QED BY <1>3, <2>1 DEF HierSound, SameLoads, UpperSound
<1> QED BY <1>6, <1>8, <1>9

LEMMA SharesInt ==
    ASSUME NEW h, HierSound(h), NEW w \in Nat
    PROVE  LoadAvg!calc_cfs_shares(h, w) \in Int
<1> DEFINE t == h.tg - h.cfs.contrib + w
           s == Shares * w
<1>1. t \in Nat /\ s \in Int /\ Shares \in Int
  BY LoadAssumption DEF HierSound
<1>2. t # 0 => s \div t \in Int
  <2> HIDE DEF t, s
  <2> QED BY <1>1, DivMod
<1>3. LoadAvg!MIN_SHARES \in Int
  BY DEF LoadAvg!MIN_SHARES
<1> QED BY <1>1, <1>2, <1>3 DEF LoadAvg!calc_cfs_shares

LEMMA AboveKept ==
    ASSUME now \in 1 .. LastTime, NEW h, HierSound(h), NEW w \in Nat
    PROVE  HierSound(LoadAvg!Above(h, w)) /\ SameLoads(h, LoadAvg!Above(h, w))
<1> DEFINE x == LoadAvg!UpdatedParent(h)
           v == LoadAvg!calc_cfs_shares(x, w)
           y == [x EXCEPT !.up.weight = v, !.up.on_rq = w > 0]
<1>1. HierSound(x) /\ SameLoads(h, x)
  BY ParentUpdated
<1> HIDE DEF x
<1>2. v \in Int
  BY <1>1, SharesInt
<1>3. LoadAvg!Above(h, w) = y
  BY DEF LoadAvg!Above, x
<1> HIDE DEF v
<1>4. x \in Hiers /\ x.up \in Uppers
  BY <1>1, HierParts DEF HierSound
<1>5. /\ y.cfs = x.cfs /\ y.tg = x.tg /\ y.up = [x.up EXCEPT !.weight = v, !.on_rq = w > 0]
  BY <1>4 DEF Hiers
<1>6. /\ y.up \in Uppers /\ y.up.root = x.up.root /\ y.up.load_avg = x.up.load_avg
      /\ y.up.last_update_time = x.up.last_update_time
  <2> DEFINE b == w > 0
  <2>1. b \in BOOLEAN /\ y.up = [x.up EXCEPT !.weight = v, !.on_rq = b]
    BY <1>5
  <2> HIDE DEF b, y
  <2> QED BY <1>2, <1>4, <2>1 DEF Uppers
<1>7. y \in Hiers
  <2>1. y = [x EXCEPT !.up = y.up]
    BY <1>4, <1>5 DEF Hiers
  <2> HIDE DEF y
  <2> QED BY <1>4, <1>6, <2>1 DEF Hiers
<1> HIDE DEF y
<1> QED BY <1>1, <1>3, <1>5, <1>6, <1>7 DEF HierSound, SameLoads, UpperSound

-----------------------------------------------------------------------------
(* Catching up with the time.                                              *)

LEMMA QueuedHere ==
    ASSUME LoadAvgInv, NEW c
    PROVE  /\ QueuedOf(se, c) \subseteq HereOf(se, c)
           /\ \A t \in HereOf(se, c) : t \notin QueuedOf(se, c) => WeightOf(se[t]) = 0
           /\ \A t \in QueuedOf(se, c) : WeightOf(se[t]) = TaskWeight
BY DEF LoadAvgInv, EntSound, QueuedOf, HereOf, WeightOf

\* The weight with which a runqueue's load grows is that of its tasks.
LEMMA WeightHere ==
    ASSUME LoadAvgInv, NEW c \in RqCPUs
    PROVE  /\ LoadAvg!RunWeight(c) \in Nat
           /\ \A t \in QueuedOf(se, c) : TaskWeight <= LoadAvg!RunWeight(c)
           /\ SumIn([t \in HereOf(se, c) |-> WeightOf(se[t])], HereOf(se, c)) = LoadAvg!RunWeight(c)
           /\ SumIn([t \in QueuedOf(se, c) |-> WeightOf(se[t])], QueuedOf(se, c)) = LoadAvg!RunWeight(c)
<1> DEFINE S == HereOf(se, c)
           T == QueuedOf(se, c)
           f == [t \in RqTasks |-> TaskWeight]
           g == [t \in S |-> WeightOf(se[t])]
           k == [t \in T |-> WeightOf(se[t])]
<1>1. IsFiniteSet(S) /\ IsFiniteSet(T) /\ S \subseteq RqTasks /\ T \subseteq S
  BY TasksFinite, QueuedHere
<1>2. \A t \in S : g[t] = WeightOf(se[t]) /\ g[t] \in Int /\ (t \notin T => g[t] = 0)
  <2> TAKE t \in S
  <2>1. g[t] = WeightOf(se[t]) /\ se[t] \in Ents
    BY <1>1 DEF LoadAvgInv, LoadTypes
  <2> QED BY <2>1, QueuedHere, WeightHalvable
<1>3. \A t \in T : k[t] = WeightOf(se[t]) /\ k[t] = TaskWeight /\ f[t] = TaskWeight /\ TaskWeight \in Nat
  BY <1>1, QueuedHere, WeightHalvable
<1>4. LoadAvg!RunWeight(c) = SumIn(f, T)
  BY LoadWords DEF LoadAvg!RunWeight
<1> HIDE DEF S, T, f, g, k
<1>5. SumIn(g, S) = SumIn(g, T)
  BY <1>1, <1>2, SumPart
<1>6. SumIn(g, T) = SumIn(f, T)
  <2>1. \A t \in T : g[t] \in Int /\ g[t] = f[t]
    BY <1>1, <1>2, <1>3
  <2> QED BY <1>1, <2>1, SumSame
<1>7. SumIn(k, T) = SumIn(f, T)
  <2>1. \A t \in T : k[t] \in Int /\ k[t] = f[t]
    BY <1>3
  <2> QED BY <1>1, <2>1, SumSame
<1>8. SumIn(f, T) \in Nat /\ \A t \in T : f[t] <= SumIn(f, T)
  <2>1. \A t \in T : f[t] \in Nat
    BY <1>3
  <2> QED BY <1>1, <2>1, SumBound
<1> QED BY <1>3, <1>4, <1>5, <1>6, <1>7, <1>8 DEF S, T, g, k

LEMMA RqTimes ==
    ASSUME LoadAvgInv, NEW c \in RqCPUs
    PROVE  /\ cfs_rq[c].last_update_time \in 1 .. LastTime
           /\ now - cfs_rq[c].last_update_time \in 0 .. LastTime - cfs_rq[c].last_update_time
           /\ cfs_rq[c].last_update_time + (now - cfs_rq[c].last_update_time) = now
           /\ now \in 1 .. LastTime
BY LoadTimes DEF LoadAvgInv, LoadTypes, CfsRqSound

\* The sums grow as the runqueue's own load does.
LEMMA InTime ==
    ASSUME LoadAvgInv, NEW c \in RqCPUs
    PROVE  LET q == cfs_rq[c]
               n == now - q.last_update_time
           IN  /\ LoadAvg!RunWeight(c) \in Halvable(1)
               /\ SumHere(se, q, c) \in Halvable(q.last_update_time)
               /\ SumQueued(se, q, c) \in Halvable(q.last_update_time)
               /\ HereNow(c) = Acc(SumHere(se, q, c), LoadAvg!RunWeight(c), n)
               /\ QueuedNow(c) = Acc(SumQueued(se, q, c), LoadAvg!RunWeight(c), n)
<1> DEFINE q == cfs_rq[c]
           l == q.last_update_time
           n == now - l
           S == HereOf(se, c)
           T == QueuedOf(se, c)
<1>1. l \in 1 .. LastTime /\ n \in 0 .. LastTime - l
  BY RqTimes
<1>2. IsFiniteSet(S) /\ IsFiniteSet(T) /\ T \subseteq S
  BY TasksFinite, QueuedHere
<1>3. \A t \in S : /\ LoadIn(se[t], q) \in Halvable(l) /\ WeightOf(se[t]) \in Halvable(1)
                   /\ NowOf(t) = Acc(LoadIn(se[t], q), WeightOf(se[t]), n)
  BY Later
<1>4. /\ SumHere(se, q, c) \in Halvable(l) /\ LoadAvg!RunWeight(c) \in Halvable(1)
      /\ HereNow(c) = Acc(SumHere(se, q, c), LoadAvg!RunWeight(c), n)
  <2> DEFINE f == [t \in S |-> LoadIn(se[t], q)]
             g == [t \in S |-> WeightOf(se[t])]
             k == [t \in S |-> NowOf(t)]
  <2>1. \A x \in S : f[x] \in Halvable(l) /\ g[x] \in Halvable(1)
    BY <1>3
  <2>2. \A x \in S : k[x] = Acc(f[x], g[x], n)
    BY <1>3
  <2>3. /\ SumHere(se, q, c) = SumIn(f, S) /\ HereNow(c) = SumIn(k, S)
        /\ LoadAvg!RunWeight(c) = SumIn(g, S)
    BY WeightHere DEF SumHere, HereNow
  <2> HIDE DEF q, l, n, S, T, f, g, k
  <2>4. /\ SumIn(f, S) \in Halvable(l) /\ SumIn(g, S) \in Halvable(1)
        /\ SumIn(k, S) = Acc(SumIn(f, S), SumIn(g, S), n)
    BY <1>1, <1>2, <2>1, <2>2, AccOfSums
  <2> QED BY <2>3, <2>4
<1>5. /\ SumQueued(se, q, c) \in Halvable(l)
      /\ QueuedNow(c) = Acc(SumQueued(se, q, c), LoadAvg!RunWeight(c), n)
  <2> DEFINE f == [t \in T |-> LoadIn(se[t], q)]
             g == [t \in T |-> WeightOf(se[t])]
             k == [t \in T |-> NowOf(t)]
  <2>1. \A x \in T : f[x] \in Halvable(l) /\ g[x] \in Halvable(1)
    BY <1>2, <1>3
  <2>2. \A x \in T : k[x] = Acc(f[x], g[x], n)
    BY <1>2, <1>3
  <2>3. /\ SumQueued(se, q, c) = SumIn(f, T) /\ QueuedNow(c) = SumIn(k, T)
        /\ LoadAvg!RunWeight(c) = SumIn(g, T)
    BY WeightHere DEF SumQueued, QueuedNow
  <2>5. IsFiniteSet(T)
    BY <1>2
  <2> HIDE DEF q, l, n, S, T, f, g, k
  <2>4. /\ SumIn(f, T) \in Halvable(l) /\ SumIn(g, T) \in Halvable(1)
        /\ SumIn(k, T) = Acc(SumIn(f, T), SumIn(g, T), n)
    BY <1>1, <2>1, <2>2, <2>5, AccOfSums
  <2> QED BY <2>3, <2>4
<1> QED BY <1>4, <1>5

LEMMA AccMonotone ==
    ASSUME NEW l \in 1 .. LastTime, NEW n \in 0 .. LastTime - l,
           NEW u \in Halvable(l), NEW v \in Halvable(l), NEW w \in Halvable(1), u <= v
    PROVE  Acc(u, w, n) <= Acc(v, w, n)
<1>1. Dec(u, n) <= Dec(v, n)
  BY DecSum
<1>2. /\ Dec(u, n) \in Nat /\ Dec(v, n) \in Nat
      /\ Dec(w, n) \in Nat /\ w \in Nat
  BY DecExact, Growth
<1> QED BY <1>1, <1>2, AccDef

\* Sums in the runqueue's time, when that is now.
LEMMA SumsNow ==
    ASSUME NEW q, q.last_update_time = now, NEW c
    PROVE  SumHere(se, q, c) = HereNow(c) /\ SumQueued(se, q, c) = QueuedNow(c)
BY DEF SumHere, SumQueued, HereNow, QueuedNow, LoadIn, NowOf

\* What an operation is to make of the runqueue of CPU c, with the tasks as in s.
Good(s, h, c) ==
    /\ HierSound(h) /\ CfsRqSound(h.cfs, now) /\ h.cfs.last_update_time = now
    /\ Balances(s, h.cfs, c \in behind, c)
    /\ h.tg - h.cfs.contrib = tg_load - cfs_rq[c].contrib

LEMMA GoodSame ==
    ASSUME NEW s, NEW c, NEW h, Good(s, h, c), NEW x, HierSound(x), SameLoads(h, x)
    PROVE  Good(s, x, c)
<1>1. SumHere(s, x.cfs, c) = SumHere(s, h.cfs, c) /\ SumQueued(s, x.cfs, c) = SumQueued(s, h.cfs, c)
  BY DEF SameLoads, SumHere, SumQueued, LoadIn
<1> QED BY <1>1 DEF SameLoads, Good, CfsRqSound, Balances

LEMMA CaughtUp ==
    ASSUME LoadAvgInv, NEW c \in RqCPUs
    PROVE  LET h == LoadAvg!update_cfs_rq_load_avg(LoadAvg!Hier(c), LoadAvg!RunWeight(c))
           IN  Good(se, h, c) /\ h.cfs.removed = 0
<1> DEFINE q == cfs_rq[c]
           l == q.last_update_time
           n == now - l
           w == LoadAvg!RunWeight(c)
           u == LoadAvg!Larger(q.load_avg - q.removed, 0)
           a == Acc(u, w, n)
           r == Acc(q.runnable, w, n)
           p == q.propagate \/ q.removed # 0
           k == [q EXCEPT !.load_avg = a, !.runnable = r, !.removed = 0,
                          !.last_update_time = now, !.propagate = p]
           e == n > 0 \/ q.removed # 0
           h == LoadAvg!update_cfs_rq_load_avg(LoadAvg!Hier(c), w)
           hi == [cfs |-> q, up |-> parent[c], tg |-> tg_load, changed |-> FALSE]
           hh == SumHere(se, q, c)
           qq == SumQueued(se, q, c)
<1>1. l \in 1 .. LastTime /\ n \in 0 .. LastTime - l /\ l + n = now /\ now \in Nat /\ now \in 1 .. LastTime
  BY RqTimes, LoadTimes
<1>2. /\ q \in CfsRqs /\ parent[c] \in Uppers /\ tg_load \in Nat /\ UpperSound(parent[c], now)
      /\ q.load_avg \in Halvable(l) /\ q.removed \in Halvable(l) /\ q.runnable \in Halvable(l)
      /\ Balances(se, q, c \in behind, c)
  BY DEF LoadAvgInv, LoadTypes, CfsRqSound
<1>3. q.load_avg \in Nat /\ q.removed \in Nat /\ q.runnable \in Nat
  BY <1>2 DEF Halvable
<1>4. /\ w \in Halvable(1) /\ hh \in Halvable(l) /\ qq \in Halvable(l)
      /\ HereNow(c) = Acc(hh, w, n) /\ QueuedNow(c) = Acc(qq, w, n)
  BY InTime
<1>5. /\ u \in Halvable(l) /\ hh \in Nat
      /\ IF c \in behind THEN u <= hh ELSE u = hh
  <2>1. hh \in Nat
    BY <1>4 DEF Halvable
  <2>2. IF c \in behind THEN q.load_avg <= hh + q.removed ELSE q.load_avg = hh + q.removed
    BY <1>2 DEF Balances
  <2>3. 0 \in Halvable(l) /\ q.removed <= q.load_avg => q.load_avg - q.removed \in Halvable(l)
    <3>1. 0 \in Halvable(l)
      BY <1>1, HalvableZero
    <3> HIDE DEF q, l, n
    <3> QED BY <1>1, <1>2, <3>1, DecSum
  <2>4. 0 \in Halvable(l)
    BY <1>1, HalvableZero
  <2>5. u = IF q.load_avg - q.removed < 0 THEN 0 ELSE q.load_avg - q.removed
    BY DEF LoadAvg!Larger
  <2> HIDE DEF q, l, u, hh
  <2> QED BY <1>3, <2>1, <2>2, <2>3, <2>4, <2>5
<1>6. /\ a \in Halvable(now) /\ a \in Nat /\ r \in Halvable(now) /\ r \in Nat
      /\ r = QueuedNow(c)
      /\ IF c \in behind THEN a <= HereNow(c) ELSE a = HereNow(c)
  <2>1. q.runnable = qq
    BY <1>2 DEF Balances
  <2> HIDE DEF q, n, u, w, hh, qq
  <2>2. a \in Halvable(l + n) /\ a \in Nat /\ r \in Halvable(l + n) /\ r \in Nat
    <3> HIDE DEF l
    <3> QED BY <1>1, <1>2, <1>4, <1>5, AccType
  <2>3. c \in behind => a <= HereNow(c)
    <3> HIDE DEF l
    <3> QED BY <1>1, <1>4, <1>5, AccMonotone
  <2>4. c \notin behind => a = HereNow(c)
    BY <1>4, <1>5
  <2>5. r = QueuedNow(c)
    BY <1>4, <2>1
  <2> HIDE DEF a, r, l
  <2> QED BY <1>1, <2>2, <2>3, <2>4, <2>5
<1>7. LoadAvg!Removed(q, LoadAvg!Accrued(q.load_avg, w, n)) = a
  <2>1. LoadAvg!Removed(q, Acc(q.load_avg, w, n)) = Dec(u, n) + (Acc(q.load_avg, w, n) - Dec(q.load_avg, n))
    BY DEF LoadAvg!Removed, Dec
  <2> DEFINE v == q.load_avg
  <2> HIDE DEF n, u, w, q, l, v
  <2>2. /\ Acc(v, w, n) = Dec(v, n) + w - Dec(w, n)
        /\ a = Dec(u, n) + w - Dec(w, n)
    BY AccDef
  <2>3. Dec(v, n) \in Nat /\ Dec(u, n) \in Nat /\ Dec(w, n) \in Nat /\ w \in Nat
    BY <1>1, <1>2, <1>4, <1>5, DecExact, Growth DEF v
  <2>4. Dec(u, n) + (Acc(v, w, n) - Dec(v, n)) = a
    <3> HIDE DEF a
    <3> QED BY <2>2, <2>3
  <2> QED BY <2>1, <2>4 DEF v, Acc
<1>8. h = [hi EXCEPT !.changed = e, !.cfs = k]
  <2>1. LoadAvg!Accrued(q.runnable, w, n) = r
    BY DEF Acc
  <2>2. LoadAvg!Hier(c) = hi /\ hi.cfs = q
    BY DEF LoadAvg!Hier
  <2>3. LoadAvg!update_cfs_rq_load_avg(hi, w) =
            [hi EXCEPT !.changed = e,
                       !.cfs = [q EXCEPT !.load_avg = LoadAvg!Removed(q, LoadAvg!Accrued(q.load_avg, w, n)),
                                         !.runnable = LoadAvg!Accrued(q.runnable, w, n), !.removed = 0,
                                         !.last_update_time = now, !.propagate = p]]
    BY DEF LoadAvg!update_cfs_rq_load_avg
  <2> HIDE DEF hi, a, r, e
  <2> QED BY <1>7, <2>1, <2>2, <2>3
<1>9. k \in CfsRqs /\ k.contrib = q.contrib /\ k.load_avg = a /\ k.runnable = r /\ k.removed = 0
      /\ k.last_update_time = now
  <2>1. p \in BOOLEAN
    BY <1>2 DEF CfsRqs
  <2> HIDE DEF q, a, r, p
  <2> QED BY <1>1, <1>2, <1>6, <2>1 DEF CfsRqs
<1>10. h \in Hiers /\ h.cfs = k /\ h.up = parent[c] /\ h.tg = tg_load
  <2>1. e \in BOOLEAN
    OBVIOUS
  <2>2. hi \in Hiers /\ hi.up = parent[c] /\ hi.tg = tg_load
    BY <1>2 DEF Hiers
  <2> HIDE DEF hi, k, e, h
  <2> QED BY <1>8, <1>9, <2>1, <2>2 DEF Hiers
<1>11. tg_load - q.contrib \in Nat
  BY OtherContribs
<1> HIDE DEF q, k, e, h, hi
<1>12. HierSound(h)
  BY <1>2, <1>9, <1>10, <1>11 DEF HierSound
<1>13. CfsRqSound(h.cfs, now)
  <2>1. 0 \in Halvable(now)
    BY <1>1, HalvableZero
  <2> HIDE DEF a, r
  <2> QED BY <1>1, <1>6, <1>9, <1>10, <2>1 DEF CfsRqSound
<1>14. Balances(se, h.cfs, c \in behind, c)
  <2>1. SumHere(se, k, c) = HereNow(c) /\ SumQueued(se, k, c) = QueuedNow(c)
    BY <1>9, SumsNow
  <2>2. HereNow(c) + 0 = HereNow(c)
    <3>1. HereNow(c) \in Int
      <4> HIDE DEF hh, w, n, l
      <4>1. Acc(hh, w, n) \in Nat
        BY <1>1, <1>4, AccType
      <4> QED BY <1>4, <4>1
    <3> QED BY <3>1
  <2> HIDE DEF a, r
  <2> QED BY <1>6, <1>9, <1>10, <2>1, <2>2 DEF Balances
<1>15. h.tg - h.cfs.contrib = tg_load - cfs_rq[c].contrib
  BY <1>9, <1>10 DEF q
<1> QED BY <1>9, <1>10, <1>12, <1>13, <1>14, <1>15 DEF Good, h

LEMMA RqCaughtUp ==
    ASSUME LoadAvgInv, NEW c \in RqCPUs
    PROVE  LET h == LoadAvg!UpdatedRq(LoadAvg!Hier(c), LoadAvg!RunWeight(c))
           IN  Good(se, h, c) /\ h.cfs.removed = 0
<1> DEFINE x == LoadAvg!update_cfs_rq_load_avg(LoadAvg!Hier(c), LoadAvg!RunWeight(c))
           y == LoadAvg!update_tg_load_avg(x)
<1>1. Good(se, x, c) /\ x.cfs.removed = 0
  BY CaughtUp
<1>2. LoadAvg!UpdatedRq(LoadAvg!Hier(c), LoadAvg!RunWeight(c)) \in {x, y}
  BY DEF LoadAvg!UpdatedRq
<1> HIDE DEF x
<1>3. HierSound(y) /\ SameLoads(x, y)
  BY <1>1, TgUpdated DEF Good
<1> HIDE DEF y
<1>4. Good(se, y, c) /\ y.cfs.removed = 0
  BY <1>1, <1>3, GoodSame DEF SameLoads
<1> QED BY <1>1, <1>2, <1>4

-----------------------------------------------------------------------------
(* One runqueue is written.                                                *)

\* The sums on CPU c when task t, as in s, becomes what it is in r.
SumsMoved(s, r, t, q, c) ==
    /\ SumHere(s, q, c) \in Int /\ SumQueued(s, q, c) \in Int
    /\ SumHere(r, q, c) =
         SumHere(s, q, c) - (IF t \in HereOf(s, c) THEN LoadIn(s[t], q) ELSE 0)
                          + (IF t \in HereOf(r, c) THEN LoadIn(r[t], q) ELSE 0)
    /\ SumQueued(r, q, c) =
         SumQueued(s, q, c) - (IF t \in QueuedOf(s, c) THEN LoadIn(s[t], q) ELSE 0)
                            + (IF t \in QueuedOf(r, c) THEN LoadIn(r[t], q) ELSE 0)

LEMMA SumsAfter ==
    ASSUME NEW s, NEW t \in RqTasks, NEW r, NEW q, NEW c,
           \A x \in RqTasks : x # t => r[x] = s[x],
           \A x \in HereOf(s, c) : LoadIn(s[x], q) \in Int,
           \A x \in QueuedOf(s, c) : LoadIn(s[x], q) \in Int,
           (t \in HereOf(r, c) \/ t \in QueuedOf(r, c)) => LoadIn(r[t], q) \in Int
    PROVE  SumsMoved(s, r, t, q, c)
<1>1. \A x \in RqTasks \ {t} : r[x] = s[x]
  OBVIOUS
<1>2. /\ SumHere(s, q, c) \in Int
      /\ SumHere(r, q, c) =
                SumHere(s, q, c) - (IF t \in HereOf(s, c) THEN LoadIn(s[t], q) ELSE 0)
                                 + (IF t \in HereOf(r, c) THEN LoadIn(r[t], q) ELSE 0)
  <2> DEFINE S == HereOf(s, c)
             T == HereOf(r, c)
             f == [x \in S |-> LoadIn(s[x], q)]
             g == [x \in T |-> LoadIn(r[x], q)]
  <2>1. IsFiniteSet(S) /\ T \ {t} = S \ {t}
    BY <1>1, TasksFinite DEF HereOf
  <2>2. \A x \in S : f[x] \in Int /\ f[x] = LoadIn(s[x], q)
    OBVIOUS
  <2>3. \A x \in T : g[x] = LoadIn(r[x], q) /\ g[x] \in Int
    <3> TAKE x \in T
    <3>1. g[x] = LoadIn(r[x], q)
      OBVIOUS
    <3>2. x \in S \ {t} \/ x = t
      BY <2>1
    <3>3. S \subseteq RqTasks
      BY TasksFinite
    <3>4. x = t => LoadIn(r[t], q) \in Int
      OBVIOUS
    <3> HIDE DEF g, T
    <3> QED BY <1>1, <3>1, <3>2, <3>3, <3>4
  <2>4. \A x \in S \ {t} : f[x] = g[x]
    <3> TAKE x \in S \ {t}
    <3>1. x \in T /\ x \in RqTasks
      BY <2>1, TasksFinite
    <3> HIDE DEF S, T
    <3> QED BY <1>1, <3>1
  <2>5. SumHere(s, q, c) = SumIn(f, S) /\ SumHere(r, q, c) = SumIn(g, T)
    BY DEF SumHere
  <2>6. /\ SumIn(f, S) \in Int
        /\ SumIn(g, T) = SumIn(f, S) - (IF t \in S THEN f[t] ELSE 0) + (IF t \in T THEN g[t] ELSE 0)
    <3> HIDE DEF S, T, f, g
    <3> QED BY <2>1, <2>2, <2>3, <2>4, SumMember
  <2>7. (t \in S => f[t] = LoadIn(s[t], q)) /\ (t \in T => g[t] = LoadIn(r[t], q))
    BY <1>1
  <2> HIDE DEF f, g
  <2> QED BY <2>5, <2>6, <2>7
<1>3. /\ SumQueued(s, q, c) \in Int
      /\ SumQueued(r, q, c) =
                SumQueued(s, q, c) - (IF t \in QueuedOf(s, c) THEN LoadIn(s[t], q) ELSE 0)
                                   + (IF t \in QueuedOf(r, c) THEN LoadIn(r[t], q) ELSE 0)
  <2> DEFINE S == QueuedOf(s, c)
             T == QueuedOf(r, c)
             f == [x \in S |-> LoadIn(s[x], q)]
             g == [x \in T |-> LoadIn(r[x], q)]
  <2>1. IsFiniteSet(S) /\ T \ {t} = S \ {t}
    BY <1>1, TasksFinite DEF QueuedOf
  <2>2. \A x \in S : f[x] \in Int /\ f[x] = LoadIn(s[x], q)
    OBVIOUS
  <2>3. \A x \in T : g[x] = LoadIn(r[x], q) /\ g[x] \in Int
    <3> TAKE x \in T
    <3>1. g[x] = LoadIn(r[x], q)
      OBVIOUS
    <3>2. x \in S \ {t} \/ x = t
      BY <2>1
    <3>3. S \subseteq RqTasks
      BY TasksFinite
    <3>4. x = t => LoadIn(r[t], q) \in Int
      OBVIOUS
    <3> HIDE DEF g, T
    <3> QED BY <1>1, <3>1, <3>2, <3>3, <3>4
  <2>4. \A x \in S \ {t} : f[x] = g[x]
    <3> TAKE x \in S \ {t}
    <3>1. x \in T /\ x \in RqTasks
      BY <2>1, TasksFinite
    <3> HIDE DEF S, T
    <3> QED BY <1>1, <3>1
  <2>5. SumQueued(s, q, c) = SumIn(f, S) /\ SumQueued(r, q, c) = SumIn(g, T)
    BY DEF SumQueued
  <2>6. /\ SumIn(f, S) \in Int
        /\ SumIn(g, T) = SumIn(f, S) - (IF t \in S THEN f[t] ELSE 0) + (IF t \in T THEN g[t] ELSE 0)
    <3> HIDE DEF S, T, f, g
    <3> QED BY <2>1, <2>2, <2>3, <2>4, SumMember
  <2>7. (t \in S => f[t] = LoadIn(s[t], q)) /\ (t \in T => g[t] = LoadIn(r[t], q))
    BY <1>1
  <2> HIDE DEF f, g
  <2> QED BY <2>5, <2>6, <2>7
<1> QED BY <1>2, <1>3 DEF SumsMoved

\* A CPU none of whose tasks changes.
LEMMA SumsElsewhere ==
    ASSUME NEW s, NEW r, NEW d,
           \A t \in RqTasks : s[t] = r[t] \/ (s[t].cpu # d /\ (r[t].cpu # d \/ (r[t].st = "moved" /\ ~r[t].on_rq)))
    PROVE  \A q : SumHere(r, q, d) = SumHere(s, q, d) /\ SumQueued(r, q, d) = SumQueued(s, q, d)
<1> TAKE q
<1>1. HereOf(r, d) = HereOf(s, d) /\ QueuedOf(r, d) = QueuedOf(s, d)
  BY DEF HereOf, QueuedOf
<1>2. \A t \in HereOf(s, d) \cup QueuedOf(s, d) : s[t] = r[t]
  BY DEF HereOf, QueuedOf
<1>3. [t \in HereOf(s, d) |-> LoadIn(r[t], q)] = [t \in HereOf(s, d) |-> LoadIn(s[t], q)]
  BY <1>2
<1>4. [t \in QueuedOf(s, d) |-> LoadIn(r[t], q)] = [t \in QueuedOf(s, d) |-> LoadIn(s[t], q)]
  BY <1>2
<1> QED BY <1>1, <1>3, <1>4 DEF SumHere, SumQueued

\* The group's load is what its runqueues have told it.
LEMMA ContribsAfter ==
    ASSUME NEW qs \in [RqCPUs -> CfsRqs], NEW c \in RqCPUs, NEW q \in CfsRqs
    PROVE  Contribs([qs EXCEPT ![c] = q]) = Contribs(qs) + (q.contrib - qs[c].contrib)
           /\ Contribs(qs) \in Int
<1> DEFINE rs == [qs EXCEPT ![c] = q]
           f == [d \in RqCPUs |-> qs[d].contrib]
           g == [d \in RqCPUs |-> rs[d].contrib]
<1>1. IsFiniteSet(RqCPUs)
  BY LoadAssumption
<1>2. rs[c] = q /\ \A d \in RqCPUs \ {c} : rs[d] = qs[d]
  OBVIOUS
<1>3. \A d \in RqCPUs : f[d] = qs[d].contrib /\ f[d] \in Int
  BY DEF CfsRqs
<1>4. \A d \in RqCPUs : g[d] = rs[d].contrib /\ g[d] \in Int
  <2>1. rs \in [RqCPUs -> CfsRqs]
    OBVIOUS
  <2> HIDE DEF rs
  <2> QED BY <2>1 DEF CfsRqs
<1>5. Contribs(qs) = SumIn(f, RqCPUs) /\ Contribs(rs) = SumIn(g, RqCPUs)
  BY DEF Contribs
<1> HIDE DEF f, g, rs
<1>6. SumIn(g, RqCPUs) = SumIn(f, RqCPUs) + (g[c] - f[c]) /\ SumIn(f, RqCPUs) \in Int
  <2>1. \A d \in RqCPUs \ {c} : g[d] = f[d]
    BY <1>2, <1>3, <1>4
  <2>2. \A d \in RqCPUs : f[d] \in Int /\ g[d] \in Int
    BY <1>3, <1>4
  <2>3. SumIn(f, RqCPUs) \in Int
    BY <1>1, <2>2, SumType
  <2>4. SumIn(g, RqCPUs) = SumIn(f, RqCPUs) + (g[c] - f[c])
    BY <1>1, <2>1, <2>2, SumChange
  <2> QED BY <2>3, <2>4
<1> QED BY <1>2, <1>3, <1>4, <1>5, <1>6 DEF rs

LEMMA Written ==
    ASSUME LoadAvgInv, NEW c \in RqCPUs, NEW h, NEW s, Good(s, h, c), LoadAvg!Put(c, h),
           now' = now, behind' = behind, se' = s, s \in [RqTasks -> Ents],
           \A t \in RqTasks : s[t] = se[t] \/ (se[t].cpu = c /\ s[t].cpu = c /\ EntSound(s[t], h.cfs, now))
    PROVE  LoadAvgInv'
<1>1. /\ cfs_rq \in [RqCPUs -> CfsRqs] /\ parent \in [RqCPUs -> Uppers] /\ se \in [RqTasks -> Ents]
      /\ now \in 1 .. LastTime
  BY DEF LoadAvgInv, LoadTypes
<1>2. /\ h.cfs \in CfsRqs /\ h.up \in Uppers /\ UpperSound(h.up, now) /\ h.tg \in Int
      /\ h.tg - h.cfs.contrib \in Nat /\ h.cfs.contrib \in Nat
      /\ CfsRqSound(h.cfs, now) /\ h.cfs.last_update_time = now
      /\ Balances(s, h.cfs, c \in behind, c) /\ h.tg - h.cfs.contrib = tg_load - cfs_rq[c].contrib
  BY HierParts DEF Good, HierSound
<1>3. cfs_rq' = [cfs_rq EXCEPT ![c] = h.cfs] /\ parent' = [parent EXCEPT ![c] = h.up] /\ tg_load' = h.tg
  BY DEF LoadAvg!Put
<1>4. /\ cfs_rq'[c] = h.cfs /\ parent'[c] = h.up
      /\ \A d \in RqCPUs \ {c} : cfs_rq'[d] = cfs_rq[d] /\ parent'[d] = parent[d]
  BY <1>1, <1>3
<1>5. LoadTypes'
  BY <1>1, <1>2, <1>3 DEF LoadTypes
<1>6. ASSUME NEW t \in RqTasks PROVE EntSound(s[t], cfs_rq'[s[t].cpu], now)
  <2>1. CASE s[t] # se[t]
    BY <1>4, <2>1
  <2>2. CASE s[t] = se[t] /\ se[t].cpu = c
    <3>1. EntSound(se[t], cfs_rq[c], now)
      BY <2>2 DEF LoadAvgInv
    <3>2. se[t] \in Ents
      BY <1>1
    <3>3. EntSound(se[t], h.cfs, now)
      BY <1>1, <1>2, <3>1, <3>2 DEF EntSound, Ents
    <3> QED BY <1>4, <2>2, <3>3
  <2>3. CASE s[t] = se[t] /\ se[t].cpu # c
    <3>1. EntSound(se[t], cfs_rq[se[t].cpu], now) /\ se[t].cpu \in RqCPUs \ {c}
      BY <1>1, <2>3 DEF LoadAvgInv, Ents
    <3> QED BY <1>4, <2>3, <3>1
  <2> QED BY <2>1, <2>2, <2>3
<1>7. ASSUME NEW d \in RqCPUs
      PROVE  /\ CfsRqSound(cfs_rq'[d], now) /\ UpperSound(parent'[d], now)
             /\ Balances(s, cfs_rq'[d], d \in behind, d)
  <2>1. CASE d = c
    BY <1>2, <1>4, <2>1
  <2>2. CASE d # c
    <3>1. \A t \in RqTasks : se[t] = s[t] \/ (se[t].cpu # d
                                   /\ (s[t].cpu # d \/ (s[t].st = "moved" /\ ~s[t].on_rq)))
      <4> TAKE t \in RqTasks
      <4>1. s[t] = se[t] \/ (se[t].cpu = c /\ s[t].cpu = c)
        OBVIOUS
      <4> QED BY <2>2, <4>1
    <3>2. \A q : SumHere(s, q, d) = SumHere(se, q, d) /\ SumQueued(s, q, d) = SumQueued(se, q, d)
      BY <3>1, SumsElsewhere
    <3>3. /\ CfsRqSound(cfs_rq[d], now) /\ UpperSound(parent[d], now)
          /\ Balances(se, cfs_rq[d], d \in behind, d)
      BY DEF LoadAvgInv
    <3>4. Balances(s, cfs_rq[d], d \in behind, d)
      BY <3>2, <3>3 DEF Balances
    <3> QED BY <1>4, <2>2, <3>3, <3>4
  <2> QED BY <2>1, <2>2
<1>8. tg_load' = Contribs(cfs_rq')
  <2>1. Contribs(cfs_rq') = Contribs(cfs_rq) + (h.cfs.contrib - cfs_rq[c].contrib) /\ Contribs(cfs_rq) \in Int
    BY <1>1, <1>2, <1>3, ContribsAfter
  <2>2. tg_load = Contribs(cfs_rq) /\ cfs_rq[c].contrib \in Nat
    BY OtherContribs DEF LoadAvgInv
  <2> QED BY <1>2, <1>3, <2>1, <2>2
<1>9. /\ \A t \in RqTasks : EntSound(se'[t], cfs_rq'[se'[t].cpu], now')
      /\ \A d \in RqCPUs : CfsRqSound(cfs_rq'[d], now') /\ UpperSound(parent'[d], now')
      /\ \A d \in RqCPUs : Balances(se', cfs_rq'[d], d \in behind', d)
  BY <1>6, <1>7
<1> QED BY <1>5, <1>8, <1>9 DEF LoadAvgInv

LEMMA HalvableSum ==
    ASSUME NEW l \in 1 .. LastTime, NEW v \in Halvable(l), NEW w \in Halvable(l)
    PROVE  /\ v \in Nat /\ w \in Nat
           /\ v + w \in Halvable(l) /\ LoadAvg!Larger(v - w, 0) \in Halvable(l)
<1>1. 0 \in 0 .. LastTime - l
  BY LoadTimes
<1>2. v + w \in Halvable(l) /\ (w <= v => v - w \in Halvable(l))
  BY <1>1, DecSum
<1>3. 0 \in Halvable(l)
  BY HalvableZero
<1>4. v \in Nat /\ w \in Nat
  BY DEF Halvable
<1>5. LoadAvg!Larger(v - w, 0) \in Halvable(l)
  <2>1. CASE w <= v
    BY <1>2, <1>4, <2>1 DEF LoadAvg!Larger
  <2>2. CASE v < w
    BY <1>3, <1>4, <2>2 DEF LoadAvg!Larger
  <2> QED BY <1>4, <2>1, <2>2
<1> QED BY <1>2, <1>4, <1>5

\* One task of the runqueue changes, and both are up to date.
LEMMA SumsOfTask ==
    ASSUME LoadAvgInv, NEW t \in RqTasks, NEW e \in Ents, e.cpu = se[t].cpu,
           e.last_update_time = now, e.load_avg \in Halvable(now),
           NEW q, q.last_update_time = now, NEW s, s = [se EXCEPT ![t] = e]
    PROVE  LET c == se[t].cpu
               mine(x) == x.st \in {"fair", "synced"}
           IN  /\ SumHere(se, q, c) \in Nat /\ SumQueued(se, q, c) \in Nat
               /\ SumHere(s, q, c) = SumHere(se, q, c) - (IF mine(se[t]) THEN NowOf(t) ELSE 0)
                                                       + (IF mine(e) THEN e.load_avg ELSE 0)
               /\ SumQueued(s, q, c) = SumQueued(se, q, c) - (IF se[t].on_rq THEN NowOf(t) ELSE 0)
                                                           + (IF e.on_rq THEN e.load_avg ELSE 0)
               /\ mine(se[t]) => NowOf(t) <= SumHere(se, q, c)
               /\ se[t].on_rq => NowOf(t) <= SumQueued(se, q, c)
<1> DEFINE c == se[t].cpu
           S == HereOf(se, c)
           T == QueuedOf(se, c)
<1>1. se \in [RqTasks -> Ents] /\ now \in 1 .. LastTime /\ s[t] = e /\ now \in Nat
  BY LoadTimes DEF LoadAvgInv, LoadTypes
<1>2. \A x \in S \cup T : LoadIn(se[x], q) = NowOf(x) /\ NowOf(x) \in Nat
  <2> TAKE x \in S \cup T
  <2>1. x \in RqTasks /\ se[x].st # "moved"
    BY QueuedHere DEF HereOf
  <2> QED BY <2>1, Aging DEF LoadIn, NowOf
<1>3. LoadIn(e, q) = e.load_avg /\ e.load_avg \in Nat
  <2>1. WeightOf(e) \in Halvable(1)
    BY WeightHalvable
  <2>2. now - now = 0
    BY <1>1
  <2> QED BY <1>1, <2>1, <2>2, AccNone DEF LoadIn, Ents
<1>4. IsFiniteSet(S) /\ IsFiniteSet(T)
  BY TasksFinite
<1>5. SumHere(se, q, c) \in Nat /\ \A x \in S : NowOf(x) <= SumHere(se, q, c)
  <2> DEFINE f == [x \in S |-> LoadIn(se[x], q)]
  <2>1. \A x \in S : f[x] = NowOf(x) /\ f[x] \in Nat
    BY <1>2
  <2>2. SumHere(se, q, c) = SumIn(f, S)
    BY DEF SumHere
  <2> HIDE DEF f, S
  <2>3. SumIn(f, S) \in Nat /\ \A x \in S : f[x] <= SumIn(f, S)
    BY <1>4, <2>1, SumBound
  <2> QED BY <2>1, <2>2, <2>3
<1>6. SumQueued(se, q, c) \in Nat /\ \A x \in T : NowOf(x) <= SumQueued(se, q, c)
  <2> DEFINE f == [x \in T |-> LoadIn(se[x], q)]
  <2>1. \A x \in T : f[x] = NowOf(x) /\ f[x] \in Nat
    BY <1>2
  <2>2. SumQueued(se, q, c) = SumIn(f, T)
    BY DEF SumQueued
  <2> HIDE DEF f, T
  <2>3. SumIn(f, T) \in Nat /\ \A x \in T : f[x] <= SumIn(f, T)
    BY <1>4, <2>1, SumBound
  <2> QED BY <2>1, <2>2, <2>3
<1>7. /\ SumHere(s, q, c) =
                SumHere(se, q, c) - (IF t \in S THEN LoadIn(se[t], q) ELSE 0)
                                 + (IF t \in HereOf(s, c) THEN LoadIn(e, q) ELSE 0)
      /\ SumQueued(s, q, c) =
                SumQueued(se, q, c) - (IF t \in T THEN LoadIn(se[t], q) ELSE 0)
                                   + (IF t \in QueuedOf(s, c) THEN LoadIn(e, q) ELSE 0)
  <2> DEFINE z == se
  <2>1. \A x \in HereOf(z, c) : LoadIn(z[x], q) \in Int
    BY <1>2
  <2>2. \A x \in QueuedOf(z, c) : LoadIn(z[x], q) \in Int
    BY <1>2
  <2>3. LoadIn(s[t], q) \in Int /\ (\A x \in RqTasks : x # t => s[x] = z[x])
    BY <1>1, <1>3
  <2> HIDE DEF z, c
  <2>4. SumsMoved(z, s, t, q, c)
    BY <2>1, <2>2, <2>3, SumsAfter, Zenon
  <2> QED BY <1>1, <2>4 DEF z, SumsMoved
<1>8. /\ (t \in S <=> se[t].st \in {"fair", "synced"}) /\ (t \in T <=> se[t].on_rq)
      /\ (t \in HereOf(s, c) <=> e.st \in {"fair", "synced"}) /\ (t \in QueuedOf(s, c) <=> e.on_rq)
  BY <1>1 DEF HereOf, QueuedOf
<1>9. (t \in S => LoadIn(se[t], q) = NowOf(t)) /\ (t \in T => LoadIn(se[t], q) = NowOf(t))
  BY <1>2
<1> HIDE DEF S, T
<1> QED BY <1>3, <1>5, <1>6, <1>7, <1>8, <1>9

\* The runqueue in h becomes k.
LEMMA GoodAdjusted ==
    ASSUME NEW s, NEW r, NEW c, NEW h, Good(s, h, c), NEW k \in CfsRqs, k.contrib = h.cfs.contrib,
           CfsRqSound(k, now), k.last_update_time = now, Balances(r, k, c \in behind, c)
    PROVE  Good(r, [h EXCEPT !.cfs = k], c) /\ [h EXCEPT !.cfs = k].cfs = k
<1> DEFINE x == [h EXCEPT !.cfs = k]
<1>1. h \in Hiers
  BY DEF Good, HierSound
<1>2. x \in Hiers /\ x.cfs = k /\ x.up = h.up /\ x.tg = h.tg
  BY <1>1 DEF Hiers
<1> HIDE DEF x
<1>3. Good(r, x, c)
  BY <1>2 DEF Good, HierSound
<1> QED BY <1>2, <1>3 DEF x

\* The levels above follow.
LEMMA GoodAbove ==
    ASSUME now \in 1 .. LastTime, NEW s, NEW c, NEW h, Good(s, h, c)
    PROVE  /\ Good(s, LoadAvg!update_tg_load_avg(h), c)
           /\ Good(s, LoadAvg!UpdatedParent(h), c)
           /\ \A w \in Nat : Good(s, LoadAvg!Above(h, w), c)
<1>1. HierSound(h)
  BY DEF Good
<1>2. Good(s, LoadAvg!update_tg_load_avg(h), c)
  <2> DEFINE x == LoadAvg!update_tg_load_avg(h)
  <2>1. HierSound(x) /\ SameLoads(h, x)
    BY <1>1, TgUpdated
  <2> HIDE DEF x
  <2>2. Good(s, x, c)
    BY <2>1, GoodSame
  <2> QED BY <2>2 DEF x
<1>3. Good(s, LoadAvg!UpdatedParent(h), c)
  <2> DEFINE x == LoadAvg!UpdatedParent(h)
  <2>1. HierSound(x) /\ SameLoads(h, x)
    BY <1>1, ParentUpdated
  <2> HIDE DEF x
  <2>2. Good(s, x, c)
    BY <2>1, GoodSame
  <2> QED BY <2>2 DEF x
<1>4. ASSUME NEW w \in Nat PROVE Good(s, LoadAvg!Above(h, w), c)
  <2> DEFINE x == LoadAvg!Above(h, w)
  <2>1. HierSound(x) /\ SameLoads(h, x)
    BY <1>1, AboveKept
  <2> HIDE DEF x
  <2>2. Good(s, x, c)
    BY <2>1, GoodSame
  <2> QED BY <2>2 DEF x
<1> QED BY <1>2, <1>3, <1>4

\* The task changes and the runqueue is written.
LEMMA TaskWritten ==
    ASSUME LoadAvgInv, NEW t \in RqTasks, NEW e \in Ents, e.cpu = se[t].cpu, NEW h,
           Good([se EXCEPT ![t] = e], h, se[t].cpu), EntSound(e, h.cfs, now),
           LoadAvg!Put(se[t].cpu, h), now' = now, behind' = behind, se' = [se EXCEPT ![t] = e]
    PROVE  LoadAvgInv'
<1> DEFINE s == [se EXCEPT ![t] = e]
           c == se[t].cpu
<1>1. se \in [RqTasks -> Ents] /\ c \in RqCPUs
  BY DEF LoadAvgInv, LoadTypes, Ents
<1>2. s \in [RqTasks -> Ents] /\ s[t] = e /\ \A u \in RqTasks \ {t} : s[u] = se[u]
  BY <1>1
<1>3. se' = s /\ Good(s, h, c) /\ LoadAvg!Put(c, h) /\ e.cpu = c
  OBVIOUS
<1> HIDE DEF s
<1>4. \A u \in RqTasks : s[u] = se[u] \/ (se[u].cpu = c /\ s[u].cpu = c /\ EntSound(s[u], h.cfs, now))
  <2> TAKE u \in RqTasks
  <2>1. CASE u = t
    BY <1>2, <1>3, <2>1
  <2>2. CASE u # t
    BY <1>2, <2>2
  <2> QED BY <2>1, <2>2
<1> HIDE DEF c
<1> QED BY <1>1, <1>2, <1>3, <1>4, Written

-----------------------------------------------------------------------------
(* The operations.                                                         *)

\* What a runqueue's load a becomes when a task's load v counted (m) and now
\* counts (n).
After(m, n, a, v) == IF m THEN IF n THEN a ELSE LoadAvg!Larger(a - v, 0)
                          ELSE IF n THEN a + v ELSE a

\* The task's load is part of its runqueue's.
Counts(e) == e.st \in {"fair", "synced"}

LEMMA Balanced ==
    ASSUME LoadAvgInv, NEW t \in RqTasks, NEW h, Good(se, h, se[t].cpu), h.cfs.removed = 0,
           NEW e \in Ents, e.cpu = se[t].cpu, e.last_update_time = now, e.load_avg \in Halvable(now),
           Counts(se[t]) => NowOf(t) = e.load_avg, NEW k \in CfsRqs,
           k.contrib = h.cfs.contrib, k.last_update_time = now, k.removed = 0,
           k.load_avg = After(Counts(se[t]), Counts(e), h.cfs.load_avg, e.load_avg),
           k.runnable = After(se[t].on_rq, e.on_rq, h.cfs.runnable, e.load_avg)
    PROVE  /\ Good([se EXCEPT ![t] = e], [h EXCEPT !.cfs = k], se[t].cpu)
           /\ [h EXCEPT !.cfs = k].cfs = k
<1> DEFINE c == se[t].cpu
           s == [se EXCEPT ![t] = e]
           v == e.load_avg
<1>1. now \in 1 .. LastTime /\ now \in Nat /\ (se[t].on_rq => Counts(se[t]))
  BY LoadTimes DEF LoadAvgInv, LoadTypes, EntSound, Counts
<1>2. /\ h.cfs.load_avg \in Halvable(now) /\ h.cfs.runnable \in Halvable(now)
      /\ Balances(se, h.cfs, c \in behind, c) /\ h.cfs.last_update_time = now
  BY DEF Good, CfsRqSound
<1>3. /\ SumHere(se, k, c) \in Nat /\ SumQueued(se, k, c) \in Nat
      /\ SumHere(s, k, c) = SumHere(se, k, c) - (IF Counts(se[t]) THEN NowOf(t) ELSE 0)
                                              + (IF Counts(e) THEN v ELSE 0)
      /\ SumQueued(s, k, c) = SumQueued(se, k, c) - (IF se[t].on_rq THEN NowOf(t) ELSE 0)
                                                  + (IF e.on_rq THEN v ELSE 0)
      /\ Counts(se[t]) => NowOf(t) <= SumHere(se, k, c)
      /\ se[t].on_rq => NowOf(t) <= SumQueued(se, k, c)
  BY SumsOfTask DEF Counts
<1>4. SumHere(se, k, c) = SumHere(se, h.cfs, c) /\ SumQueued(se, k, c) = SumQueued(se, h.cfs, c)
  BY <1>2, SumsNow
<1> DEFINE a == h.cfs.load_avg
           r == h.cfs.runnable
           H == SumHere(se, k, c)
           Q == SumQueued(se, k, c)
<1>5. /\ IF c \in behind THEN a <= H + 0 ELSE a = H + 0
      /\ r = Q
  BY <1>2, <1>4 DEF Balances
<1>6. /\ a \in Nat /\ r \in Nat /\ v \in Nat
      /\ a + v \in Halvable(now) /\ LoadAvg!Larger(a - v, 0) \in Halvable(now)
      /\ r + v \in Halvable(now) /\ LoadAvg!Larger(r - v, 0) \in Halvable(now)
  BY <1>1, <1>2, HalvableSum
<1>7. k.load_avg \in Halvable(now) /\ k.runnable \in Halvable(now) /\ 0 \in Halvable(now)
  BY <1>1, <1>2, <1>6, HalvableZero DEF After
<1>8. IF c \in behind THEN k.load_avg <= SumHere(s, k, c) + 0 ELSE k.load_avg = SumHere(s, k, c) + 0
  <2>1. k.load_avg = After(Counts(se[t]), Counts(e), a, v)
    OBVIOUS
  <2>2. Counts(se[t]) => NowOf(t) = v
    OBVIOUS
  <2>3. H \in Nat
    BY <1>3
  <2> DEFINE m == Counts(se[t])
             n == Counts(e)
             z == NowOf(t)
             y == SumHere(s, k, c)
             b == k.load_avg
  <2>4. /\ b = After(m, n, a, v) /\ (m => z = v) /\ (m => z <= H)
        /\ y = H - (IF m THEN z ELSE 0) + (IF n THEN v ELSE 0)
    BY <1>3, <2>1, <2>2
  <2> HIDE DEF a, v, H, m, n, z, y, b, c
  <2>5. IF c \in behind THEN b <= y + 0 ELSE b = y + 0
    <3>1. CASE m /\ n
      BY <1>5, <1>6, <2>3, <2>4, <3>1 DEF After
    <3>2. CASE m /\ ~n
      BY <1>5, <1>6, <2>3, <2>4, <3>2 DEF After, LoadAvg!Larger
    <3>3. CASE ~m /\ n
      BY <1>5, <1>6, <2>3, <2>4, <3>3 DEF After
    <3>4. CASE ~m /\ ~n
      BY <1>5, <1>6, <2>3, <2>4, <3>4 DEF After
    <3> QED BY <3>1, <3>2, <3>3, <3>4
  <2> QED BY <2>5 DEF b, y
<1>9. k.runnable = SumQueued(s, k, c)
  <2>1. se[t].on_rq => NowOf(t) = v
    BY <1>1
  <2>2. Q \in Nat
    BY <1>3
  <2> DEFINE m == se[t].on_rq
             n == e.on_rq
             z == NowOf(t)
             y == SumQueued(s, k, c)
             b == k.runnable
  <2>3. /\ b = After(m, n, r, v) /\ (m => z = v) /\ (m => z <= Q)
        /\ y = Q - (IF m THEN z ELSE 0) + (IF n THEN v ELSE 0)
    BY <1>3, <2>1
  <2> HIDE DEF r, v, Q, m, n, z, y, b, c
  <2>4. b = y
    <3>1. CASE m /\ n
      BY <1>5, <1>6, <2>2, <2>3, <3>1 DEF After
    <3>2. CASE m /\ ~n
      BY <1>5, <1>6, <2>2, <2>3, <3>2 DEF After, LoadAvg!Larger
    <3>3. CASE ~m /\ n
      BY <1>5, <1>6, <2>2, <2>3, <3>3 DEF After
    <3>4. CASE ~m /\ ~n
      BY <1>5, <1>6, <2>2, <2>3, <3>4 DEF After
    <3> QED BY <3>1, <3>2, <3>3, <3>4
  <2> QED BY <2>4 DEF b, y
<1>10. Balances(s, k, c \in behind, c) /\ CfsRqSound(k, now)
  BY <1>1, <1>7, <1>8, <1>9 DEF Balances, CfsRqSound
<1> HIDE DEF s, c
<1>11. Good(s, [h EXCEPT !.cfs = k], c) /\ [h EXCEPT !.cfs = k].cfs = k
  <2>1. Good(se, h, c)
    BY DEF c
  <2> QED BY <1>10, <2>1, GoodAdjusted
<1> QED BY <1>11 DEF s, c

\* A task's entry after it has been aged.
LEMMA AgedEnt ==
    ASSUME LoadAvgInv, NEW t \in RqTasks
    PROVE  /\ se[t] \in Ents /\ se[t].cpu \in RqCPUs /\ now \in 1 .. LastTime /\ now \in Nat /\ now # 0
           /\ LoadAvg!Aged(t) \in Ents /\ LoadAvg!Aged(t).load_avg \in Halvable(now)
           /\ LoadAvg!Aged(t).cpu = se[t].cpu /\ LoadAvg!Aged(t).on_rq = se[t].on_rq
           /\ LoadAvg!Aged(t).st = se[t].st
           /\ LoadAvg!Aged(t).last_update_time = (IF se[t].st = "moved" THEN 0 ELSE now)
           /\ se[t].st # "moved" => NowOf(t) = LoadAvg!Aged(t).load_avg
           /\ se[t].on_rq => se[t].st = "fair"
<1>1. se[t] \in Ents /\ now \in 1 .. LastTime /\ EntSound(se[t], cfs_rq[se[t].cpu], now)
  BY DEF LoadAvgInv, LoadTypes
<1>2. now \in Nat /\ now # 0
  BY <1>1, LoadTimes
<1>3. CASE se[t].st = "moved"
  <2>1. LoadAvg!Aged(t) = se[t]
    BY <1>1, <1>3 DEF LoadAvg!Aged, EntSound
  <2> QED BY <1>1, <1>2, <1>3, <2>1 DEF EntSound, Ents
<1>4. CASE se[t].st # "moved"
  <2> DEFINE v == NowOf(t)
  <2>1. LoadAvg!Aged(t) = [se[t] EXCEPT !.load_avg = v, !.last_update_time = now]
        /\ v \in Halvable(now) /\ v \in Nat
    BY <1>4, Aging
  <2> HIDE DEF v
  <2>2. LoadAvg!Aged(t).load_avg = v
    BY <1>1, <2>1 DEF Ents
  <2> QED BY <1>1, <1>2, <1>4, <2>1, <2>2 DEF EntSound, Ents, v
<1> QED BY <1>3, <1>4

\* An operation on a task, from its new entry and its runqueue's new state.
LEMMA TaskDone ==
    ASSUME LoadAvgInv, NEW t \in RqTasks, NEW e \in Ents, e.cpu = se[t].cpu,
           e.last_update_time = now, e.load_avg \in Halvable(now), e.st # "moved",
           e.on_rq => e.st = "fair", NEW h, Good([se EXCEPT ![t] = e], h, se[t].cpu),
           LoadAvg!Put(se[t].cpu, h), now' = now, behind' = behind, se' = [se EXCEPT ![t] = e]
    PROVE  LoadAvgInv'
<1>1. h.cfs.last_update_time = now
  BY DEF Good
<1>2. now \in Nat /\ now \in 1 .. now
  BY AgedEnt
<1>3. EntSound(e, h.cfs, now)
  BY <1>1, <1>2 DEF EntSound
<1> QED BY <1>3, TaskWritten

LEMMA EnqueueLoad ==
    ASSUME LoadAvgInv, NEW t \in RqTasks, LoadAvg!Enqueue(t)
    PROVE  LoadAvgInv'
<1> DEFINE c == se[t].cpu
           x == LoadAvg!Aged(t)
           v == x.load_avg
           u == LoadAvg!UpdatedRq(LoadAvg!Hier(c), LoadAvg!RunWeight(c))
           j == [u.cfs EXCEPT !.runnable = u.cfs.runnable + v]
           k == IF se[t].st = "moved"
                THEN [j EXCEPT !.load_avg = j.load_avg + v, !.propagate = TRUE] ELSE j
           f == [u EXCEPT !.cfs = k]
           e == [x EXCEPT !.on_rq = TRUE, !.st = "fair", !.last_update_time = now]
           h == LoadAvg!Attach([u EXCEPT !.cfs.runnable = @ + x.load_avg], x)
           w == LoadAvg!RunWeight(c) + TaskWeight
<1>1. /\ se[t].st \in {"fair", "moved"} /\ ~se[t].on_rq
      /\ se' = [se EXCEPT ![t] = e] /\ LoadAvg!Put(c, LoadAvg!Above(h, w))
      /\ now' = now /\ behind' = behind
  BY DEF LoadAvg!Enqueue
<1>2. /\ se[t] \in Ents /\ c \in RqCPUs /\ now \in 1 .. LastTime /\ now \in Nat /\ now # 0
      /\ x \in Ents /\ v \in Halvable(now) /\ x.cpu = c
      /\ x.last_update_time = (IF se[t].st = "moved" THEN 0 ELSE now)
      /\ se[t].st # "moved" => NowOf(t) = v
  BY AgedEnt
<1>3. w \in Nat
  <2>1. LoadAvg!RunWeight(c) \in Nat /\ TaskWeight \in Nat
    BY <1>2, WeightHere, WeightHalvable
  <2> QED BY <2>1
<1>4. Good(se, u, c) /\ u.cfs.removed = 0
  BY <1>2, RqCaughtUp
<1>5. v \in Nat
  BY <1>2 DEF Ents
<1> HIDE DEF x, v, u, w
<1>6. e \in Ents /\ e.cpu = c /\ e.last_update_time = now /\ e.on_rq = TRUE /\ e.st = "fair"
  BY <1>2 DEF Ents
<1>7. e.load_avg = v
  BY <1>2 DEF Ents, v
<1>8. u \in Hiers /\ u.cfs \in CfsRqs /\ u.cfs.last_update_time = now
      /\ u.cfs.load_avg \in Nat /\ u.cfs.runnable \in Nat
  BY <1>4, HierParts DEF Good, HierSound
<1>9. j \in CfsRqs /\ j.contrib = u.cfs.contrib /\ j.last_update_time = now /\ j.removed = 0
      /\ j.load_avg = u.cfs.load_avg /\ j.runnable = u.cfs.runnable + v
  BY <1>4, <1>5, <1>8 DEF CfsRqs
<1>10. k \in CfsRqs /\ k.contrib = u.cfs.contrib /\ k.last_update_time = now /\ k.removed = 0
       /\ k.load_avg = (IF se[t].st = "moved" THEN u.cfs.load_avg + v ELSE u.cfs.load_avg)
       /\ k.runnable = u.cfs.runnable + v
  <2> HIDE DEF j
  <2>1. u.cfs.load_avg + v \in Nat
    BY <1>5, <1>8
  <2> QED BY <1>8, <1>9, <2>1 DEF CfsRqs
<1>11. h = IF se[t].st = "moved" THEN LoadAvg!update_tg_load_avg(f) ELSE f
  <2>1. [u EXCEPT !.cfs.runnable = @ + x.load_avg] = [u EXCEPT !.cfs = j]
    BY <1>8 DEF v, Hiers
  <2> DEFINE g == [u EXCEPT !.cfs = j]
  <2>2. g.cfs = j /\ g \in Hiers
    <3> HIDE DEF j
    <3> QED BY <1>8, <1>9 DEF Hiers
  <2>3. CASE se[t].st = "moved"
    <3>1. h = LoadAvg!update_tg_load_avg(LoadAvg!attach_entity_load_avg(g, v))
      BY <1>2, <2>1, <2>3 DEF LoadAvg!Attach, v
    <3>2. LoadAvg!attach_entity_load_avg(g, v) = [g EXCEPT !.cfs = k]
      <4> HIDE DEF g, j
      <4> QED BY <2>2, <2>3 DEF LoadAvg!attach_entity_load_avg, Hiers, CfsRqs
    <3>3. [g EXCEPT !.cfs = k] = f
      <4> HIDE DEF j, k
      <4> QED BY <1>8 DEF Hiers
    <3> QED BY <2>3, <3>1, <3>2, <3>3
  <2>4. CASE se[t].st # "moved"
    BY <1>2, <2>1, <2>4 DEF LoadAvg!Attach
  <2> QED BY <2>3, <2>4
<1> HIDE DEF k, h, e
<1> DEFINE s == [se EXCEPT ![t] = e]
<1>12. Good(s, f, c)
  <2>1. k.load_avg = After(Counts(se[t]), Counts(e), u.cfs.load_avg, e.load_avg)
    BY <1>1, <1>6, <1>7, <1>10 DEF After, Counts
  <2>2. k.runnable = After(se[t].on_rq, e.on_rq, u.cfs.runnable, e.load_avg)
    BY <1>1, <1>6, <1>7, <1>10 DEF After
  <2>3. Counts(se[t]) => NowOf(t) = e.load_avg
    BY <1>2, <1>7 DEF Counts
  <2> QED BY <1>2, <1>4, <1>6, <1>7, <1>10, <2>1, <2>2, <2>3, Balanced
<1> HIDE DEF f, s
<1>13. Good(s, h, c)
  BY <1>2, <1>11, <1>12, GoodAbove
<1>14. Good(s, LoadAvg!Above(h, w), c)
  BY <1>2, <1>3, <1>13, GoodAbove
<1> DEFINE y == LoadAvg!Above(h, w)
<1>15. Good([se EXCEPT ![t] = e], y, c) /\ LoadAvg!Put(c, y)
  BY <1>1, <1>14 DEF s
<1> HIDE DEF y
<1>16. e.st # "moved" /\ e.load_avg \in Halvable(now) /\ e.cpu = se[t].cpu
  BY <1>2, <1>6, <1>7
<1> QED BY <1>1, <1>6, <1>15, <1>16, TaskDone

LEMMA DequeueLoad ==
    ASSUME LoadAvgInv, NEW t \in RqTasks, LoadAvg!Dequeue(t)
    PROVE  LoadAvgInv'
<1> DEFINE c == se[t].cpu
           x == LoadAvg!Aged(t)
           v == x.load_avg
           u == LoadAvg!UpdatedRq(LoadAvg!Hier(c), LoadAvg!RunWeight(c))
           k == [u.cfs EXCEPT !.runnable = LoadAvg!Larger(u.cfs.runnable - v, 0)]
           f == [u EXCEPT !.cfs = k]
           e == [x EXCEPT !.on_rq = FALSE]
           w == LoadAvg!RunWeight(c) - TaskWeight
<1>1. /\ se[t].on_rq /\ se' = [se EXCEPT ![t] = e]
      /\ LoadAvg!Put(c, LoadAvg!Above([u EXCEPT !.cfs.runnable = LoadAvg!Larger(@ - x.load_avg, 0)], w))
      /\ now' = now /\ behind' = behind
  BY DEF LoadAvg!Dequeue
<1>2. /\ se[t] \in Ents /\ c \in RqCPUs /\ now \in 1 .. LastTime /\ now \in Nat
      /\ se[t].st = "fair" /\ x \in Ents /\ v \in Halvable(now) /\ x.cpu = c /\ x.st = "fair"
      /\ x.last_update_time = now /\ NowOf(t) = v
  BY <1>1, AgedEnt
<1>3. w \in Nat
  <2>1. t \in QueuedOf(se, c)
    BY <1>1 DEF QueuedOf
  <2>2. LoadAvg!RunWeight(c) \in Nat /\ TaskWeight <= LoadAvg!RunWeight(c) /\ TaskWeight \in Nat
    BY <1>2, <2>1, WeightHere, WeightHalvable
  <2> QED BY <2>2
<1>4. Good(se, u, c) /\ u.cfs.removed = 0
  BY <1>2, RqCaughtUp
<1>5. v \in Nat
  BY <1>2 DEF Ents
<1> HIDE DEF x, v, u, w
<1>6. e \in Ents /\ e.cpu = c /\ e.last_update_time = now /\ e.on_rq = FALSE /\ e.st = "fair"
  BY <1>2 DEF Ents
<1>7. e.load_avg = v
  BY <1>2 DEF Ents, v
<1>8. u \in Hiers /\ u.cfs \in CfsRqs /\ u.cfs.last_update_time = now /\ u.cfs.runnable \in Nat
  BY <1>4, HierParts DEF Good, HierSound
<1> DEFINE r == LoadAvg!Larger(u.cfs.runnable - v, 0)
<1>9. r \in Nat
  BY <1>5, <1>8 DEF LoadAvg!Larger
<1>10. k \in CfsRqs /\ k.contrib = u.cfs.contrib /\ k.last_update_time = now /\ k.removed = 0
       /\ k.load_avg = u.cfs.load_avg /\ k.runnable = r
  <2> HIDE DEF r
  <2>1. k = [u.cfs EXCEPT !.runnable = r]
    BY DEF r
  <2> HIDE DEF k
  <2> QED BY <1>4, <1>8, <1>9, <2>1 DEF CfsRqs
<1>11. [u EXCEPT !.cfs.runnable = LoadAvg!Larger(@ - x.load_avg, 0)] = f
  BY <1>8 DEF v, Hiers
<1> HIDE DEF k, e
<1> DEFINE s == [se EXCEPT ![t] = e]
<1>12. Good(s, f, c)
  <2>1. k.load_avg = After(Counts(se[t]), Counts(e), u.cfs.load_avg, e.load_avg)
    BY <1>2, <1>6, <1>10 DEF After, Counts
  <2>2. k.runnable = After(se[t].on_rq, e.on_rq, u.cfs.runnable, e.load_avg)
    BY <1>1, <1>6, <1>7, <1>10 DEF After
  <2>3. Counts(se[t]) => NowOf(t) = e.load_avg
    BY <1>2, <1>7
  <2> QED BY <1>2, <1>4, <1>6, <1>7, <1>10, <2>1, <2>2, <2>3, Balanced
<1> HIDE DEF f, s
<1>14. Good(s, LoadAvg!Above(f, w), c)
  BY <1>2, <1>3, <1>12, GoodAbove
<1> DEFINE y == LoadAvg!Above(f, w)
<1>15. Good([se EXCEPT ![t] = e], y, c) /\ LoadAvg!Put(c, y)
  BY <1>1, <1>11, <1>14 DEF s
<1> HIDE DEF y
<1>16. e.st # "moved" /\ e.load_avg \in Halvable(now) /\ e.cpu = se[t].cpu
  BY <1>2, <1>6, <1>7
<1> QED BY <1>1, <1>6, <1>15, <1>16, TaskDone

LEMMA TickLoad ==
    ASSUME LoadAvgInv, NEW t \in RqTasks, LoadAvg!Tick(t)
    PROVE  LoadAvgInv'
<1> DEFINE c == se[t].cpu
           e == LoadAvg!Aged(t)
           u == LoadAvg!UpdatedRq(LoadAvg!Hier(c), LoadAvg!RunWeight(c))
           k == u.cfs
           f == [u EXCEPT !.cfs = k]
           w == LoadAvg!RunWeight(c)
<1>1. /\ se[t].on_rq /\ se' = [se EXCEPT ![t] = e] /\ LoadAvg!Put(c, LoadAvg!Above(u, w))
      /\ now' = now /\ behind' = behind
  BY DEF LoadAvg!Tick
<1>2. /\ se[t] \in Ents /\ c \in RqCPUs /\ now \in 1 .. LastTime /\ now \in Nat
      /\ se[t].st = "fair" /\ e \in Ents /\ e.load_avg \in Halvable(now) /\ e.cpu = c /\ e.st = "fair"
      /\ e.last_update_time = now /\ NowOf(t) = e.load_avg /\ e.on_rq = se[t].on_rq
  BY <1>1, AgedEnt
<1>3. w \in Nat
  BY <1>2, WeightHere
<1>4. Good(se, u, c) /\ u.cfs.removed = 0
  BY <1>2, RqCaughtUp
<1> HIDE DEF e, u, w
<1>5. u \in Hiers /\ u.cfs \in CfsRqs /\ u.cfs.last_update_time = now
  BY <1>4, HierParts DEF Good, HierSound
<1>6. f = u
  BY <1>5 DEF Hiers
<1> DEFINE s == [se EXCEPT ![t] = e]
<1>7. Good(s, f, c)
  <2>1. k.load_avg = After(Counts(se[t]), Counts(e), u.cfs.load_avg, e.load_avg)
    BY <1>2 DEF After, Counts
  <2>2. k.runnable = After(se[t].on_rq, e.on_rq, u.cfs.runnable, e.load_avg)
    BY <1>1, <1>2 DEF After
  <2>3. Counts(se[t]) => NowOf(t) = e.load_avg
    BY <1>2
  <2> QED BY <1>2, <1>4, <1>5, <2>1, <2>2, <2>3, Balanced
<1> HIDE DEF f, s
<1>8. Good(s, LoadAvg!Above(u, w), c)
  BY <1>2, <1>3, <1>6, <1>7, GoodAbove
<1> DEFINE y == LoadAvg!Above(u, w)
<1>9. Good([se EXCEPT ![t] = e], y, c) /\ LoadAvg!Put(c, y)
  BY <1>1, <1>8 DEF s
<1> HIDE DEF y
<1> QED BY <1>1, <1>2, <1>9, TaskDone

LEMMA BlockedLoad ==
    ASSUME LoadAvgInv, NEW c \in RqCPUs, LoadAvg!update_blocked_averages(c)
    PROVE  LoadAvgInv'
<1> DEFINE u == LoadAvg!UpdatedRq(LoadAvg!Hier(c), LoadAvg!RunWeight(c))
           y == IF LoadAvg!skip_blocked_update(u) THEN u ELSE LoadAvg!UpdatedParent(u)
<1>1. LoadAvg!Put(c, y) /\ now' = now /\ se' = se /\ behind' = behind
  BY DEF LoadAvg!update_blocked_averages
<1>2. Good(se, u, c)
  BY RqCaughtUp
<1>3. now \in 1 .. LastTime /\ se \in [RqTasks -> Ents]
  BY DEF LoadAvgInv, LoadTypes
<1> HIDE DEF u
<1>4. Good(se, y, c)
  BY <1>2, <1>3, GoodAbove
<1> HIDE DEF y
<1> DEFINE s == se
<1>5. Good(s, y, c) /\ se' = s /\ s \in [RqTasks -> Ents] /\ \A t \in RqTasks : s[t] = se[t]
  BY <1>1, <1>3, <1>4
<1> HIDE DEF s
<1> QED BY <1>1, <1>5, Written

LEMMA LeaveLoad ==
    ASSUME LoadAvgInv, NEW t \in RqTasks, LoadAvg!Leave(t)
    PROVE  LoadAvgInv'
<1> DEFINE c == se[t].cpu
           x == LoadAvg!Aged(t)
           v == x.load_avg
           u == LoadAvg!update_cfs_rq_load_avg(LoadAvg!Hier(c), LoadAvg!RunWeight(c))
           r == LoadAvg!Larger(u.cfs.load_avg - v, 0)
           k == [u.cfs EXCEPT !.load_avg = r, !.propagate = TRUE]
           f == [u EXCEPT !.cfs = k]
           less == [u EXCEPT !.cfs.load_avg = LoadAvg!Larger(@ - x.load_avg, 0), !.cfs.propagate = TRUE]
           e == [x EXCEPT !.st = "out"]
<1>1. /\ se[t].st = "fair" /\ ~se[t].on_rq /\ se' = [se EXCEPT ![t] = e]
      /\ LoadAvg!Put(c, LoadAvg!UpdatedParent(LoadAvg!update_tg_load_avg(less)))
      /\ now' = now /\ behind' = behind
  BY DEF LoadAvg!Leave
<1>2. /\ se[t] \in Ents /\ c \in RqCPUs /\ now \in 1 .. LastTime /\ now \in Nat
      /\ x \in Ents /\ v \in Halvable(now) /\ x.cpu = c /\ x.on_rq = se[t].on_rq
      /\ x.last_update_time = now /\ NowOf(t) = v
  BY <1>1, AgedEnt
<1>4. Good(se, u, c) /\ u.cfs.removed = 0
  BY <1>2, CaughtUp
<1>5. v \in Nat
  BY <1>2 DEF Ents
<1> HIDE DEF x, v, u
<1>6. e \in Ents /\ e.cpu = c /\ e.last_update_time = now /\ e.on_rq = x.on_rq /\ e.st = "out"
  BY <1>2 DEF Ents
<1>7. e.load_avg = v
  BY <1>2 DEF Ents, v
<1>8. u \in Hiers /\ u.cfs \in CfsRqs /\ u.cfs.last_update_time = now /\ u.cfs.load_avg \in Nat
  BY <1>4, HierParts DEF Good, HierSound
<1>9. r \in Nat
  BY <1>5, <1>8 DEF LoadAvg!Larger
<1>10. k \in CfsRqs /\ k.contrib = u.cfs.contrib /\ k.last_update_time = now /\ k.removed = 0
       /\ k.load_avg = r /\ k.runnable = u.cfs.runnable
  <2> HIDE DEF r
  <2> QED BY <1>4, <1>8, <1>9 DEF CfsRqs
<1>11. less = f
  BY <1>8 DEF v, Hiers, CfsRqs
<1> HIDE DEF k, e, less
<1> DEFINE s == [se EXCEPT ![t] = e]
<1>12. Good(s, f, c)
  <2>1. k.load_avg = After(Counts(se[t]), Counts(e), u.cfs.load_avg, e.load_avg)
    BY <1>1, <1>6, <1>7, <1>10 DEF After, Counts
  <2>2. k.runnable = After(se[t].on_rq, e.on_rq, u.cfs.runnable, e.load_avg)
    BY <1>1, <1>2, <1>6, <1>10 DEF After
  <2>3. Counts(se[t]) => NowOf(t) = e.load_avg
    BY <1>2, <1>7
  <2> QED BY <1>2, <1>4, <1>6, <1>7, <1>10, <2>1, <2>2, <2>3, Balanced
<1> HIDE DEF f, s
<1> DEFINE g == LoadAvg!update_tg_load_avg(f)
<1>13. Good(s, g, c)
  BY <1>2, <1>12, GoodAbove
<1> HIDE DEF g
<1>14. Good(s, LoadAvg!UpdatedParent(g), c)
  BY <1>2, <1>13, GoodAbove
<1> DEFINE y == LoadAvg!UpdatedParent(g)
<1>15. Good([se EXCEPT ![t] = e], y, c) /\ LoadAvg!Put(c, y)
  BY <1>1, <1>11, <1>14 DEF s, g
<1> HIDE DEF y
<1>16. e.st # "moved" /\ e.load_avg \in Halvable(now) /\ e.cpu = se[t].cpu /\ ~e.on_rq
  BY <1>1, <1>2, <1>6, <1>7
<1> QED BY <1>1, <1>6, <1>15, <1>16, TaskDone

LEMMA JoinLoad ==
    ASSUME LoadAvgInv, NEW t \in RqTasks, LoadAvg!Join(t)
    PROVE  LoadAvgInv'
<1> DEFINE c == se[t].cpu
           x == LoadAvg!Aged(t)
           v == x.load_avg
           u == LoadAvg!update_cfs_rq_load_avg(LoadAvg!Hier(c), LoadAvg!RunWeight(c))
           k == [u.cfs EXCEPT !.load_avg = u.cfs.load_avg + v, !.propagate = TRUE]
           f == [u EXCEPT !.cfs = k]
           more == LoadAvg!attach_entity_load_avg(u, v)
           e == [x EXCEPT !.st = "fair", !.last_update_time = now]
<1>1. /\ se[t].st = "out" /\ se' = [se EXCEPT ![t] = e]
      /\ LoadAvg!Put(c, LoadAvg!UpdatedParent(LoadAvg!update_tg_load_avg(more)))
      /\ now' = now /\ behind' = behind
  BY DEF LoadAvg!Join
<1>2. /\ se[t] \in Ents /\ c \in RqCPUs /\ now \in 1 .. LastTime /\ now \in Nat
      /\ x \in Ents /\ v \in Halvable(now) /\ x.cpu = c /\ x.on_rq = se[t].on_rq /\ ~se[t].on_rq
  BY <1>1, AgedEnt
<1>4. Good(se, u, c) /\ u.cfs.removed = 0
  BY <1>2, CaughtUp
<1>5. v \in Nat
  BY <1>2 DEF Ents
<1> HIDE DEF x, v, u
<1>6. e \in Ents /\ e.cpu = c /\ e.last_update_time = now /\ e.on_rq = x.on_rq /\ e.st = "fair"
  BY <1>2 DEF Ents
<1>7. e.load_avg = v
  BY <1>2 DEF Ents, v
<1>8. u \in Hiers /\ u.cfs \in CfsRqs /\ u.cfs.last_update_time = now /\ u.cfs.load_avg \in Nat
  BY <1>4, HierParts DEF Good, HierSound
<1>10. k \in CfsRqs /\ k.contrib = u.cfs.contrib /\ k.last_update_time = now /\ k.removed = 0
       /\ k.load_avg = u.cfs.load_avg + v /\ k.runnable = u.cfs.runnable
  <2> DEFINE r == u.cfs.load_avg + v
  <2>1. r \in Nat
    BY <1>5, <1>8
  <2> HIDE DEF r
  <2>2. k = [u.cfs EXCEPT !.load_avg = r, !.propagate = TRUE]
    BY DEF r
  <2> HIDE DEF k
  <2>3. k \in CfsRqs /\ k.contrib = u.cfs.contrib /\ k.last_update_time = now /\ k.removed = 0
        /\ k.load_avg = r /\ k.runnable = u.cfs.runnable
    BY <1>4, <1>8, <2>1, <2>2 DEF CfsRqs
  <2> QED BY <2>3 DEF r
<1>11. more = f
  BY <1>8 DEF LoadAvg!attach_entity_load_avg, Hiers, CfsRqs
<1> HIDE DEF k, e, more
<1> DEFINE s == [se EXCEPT ![t] = e]
<1>12. Good(s, f, c)
  <2>1. k.load_avg = After(Counts(se[t]), Counts(e), u.cfs.load_avg, e.load_avg)
    BY <1>1, <1>6, <1>7, <1>10 DEF After, Counts
  <2>2. k.runnable = After(se[t].on_rq, e.on_rq, u.cfs.runnable, e.load_avg)
    BY <1>2, <1>6, <1>10 DEF After
  <2>3. Counts(se[t]) => NowOf(t) = e.load_avg
    BY <1>1 DEF Counts
  <2> QED BY <1>2, <1>4, <1>6, <1>7, <1>10, <2>1, <2>2, <2>3, Balanced
<1> HIDE DEF f, s
<1> DEFINE g == LoadAvg!update_tg_load_avg(f)
<1>13. Good(s, g, c)
  BY <1>2, <1>12, GoodAbove
<1> HIDE DEF g
<1>14. Good(s, LoadAvg!UpdatedParent(g), c)
  BY <1>2, <1>13, GoodAbove
<1> DEFINE y == LoadAvg!UpdatedParent(g)
<1>15. Good([se EXCEPT ![t] = e], y, c) /\ LoadAvg!Put(c, y)
  BY <1>1, <1>11, <1>14 DEF s, g
<1> HIDE DEF y
<1>16. e.st # "moved" /\ e.load_avg \in Halvable(now) /\ e.cpu = se[t].cpu
  BY <1>2, <1>6, <1>7
<1> QED BY <1>1, <1>6, <1>15, <1>16, TaskDone

LEMMA SyncLoad ==
    ASSUME LoadAvgInv, NEW t \in RqTasks, LoadAvg!Sync(t)
    PROVE  LoadAvgInv'
<1> DEFINE c == se[t].cpu
           q == cfs_rq[c]
           l == se[t].last_update_time
           n == q.last_update_time - l
           v == se[t].load_avg
           d == Dec(v, n)
           x == LoadAvg!sync_entity_load_avg(t)
           e == [x EXCEPT !.st = "synced"]
           s == [se EXCEPT ![t] = e]
<1>1. /\ se[t].st = "fair" /\ ~se[t].on_rq /\ se' = s
      /\ UNCHANGED <<now, cfs_rq, parent, tg_load, behind>>
  BY DEF LoadAvg!Sync
<1>2. /\ se \in [RqTasks -> Ents] /\ se[t] \in Ents /\ c \in RqCPUs /\ q \in CfsRqs
      /\ v \in Halvable(l) /\ l \in 1 .. now /\ now \in 1 .. LastTime /\ l <= q.last_update_time
      /\ q.last_update_time \in 1 .. now
  BY <1>1 DEF LoadAvgInv, LoadTypes, EntSound, CfsRqSound, Ents
<1>3. /\ l \in 1 .. LastTime /\ n \in 0 .. LastTime - l /\ l + n = q.last_update_time
      /\ q.last_update_time \in Nat /\ q.last_update_time \in 1 .. LastTime
  BY <1>2, LoadTimes
<1>4. d \in Halvable(q.last_update_time) /\ d \in Nat
  <2>1. Dec(v, n) \in Halvable(l + n) /\ Dec(v, n) \in Nat
    <3> HIDE DEF l, n, v
    <3> QED BY <1>2, <1>3, DecExact
  <2> QED BY <1>3, <2>1
<1>5. x = [se[t] EXCEPT !.load_avg = d, !.last_update_time = q.last_update_time]
  BY <1>2 DEF LoadAvg!sync_entity_load_avg, Dec, Ents
<1>6. /\ e \in Ents /\ e.cpu = c /\ e.last_update_time = q.last_update_time /\ ~e.on_rq
      /\ e.st = "synced" /\ e.load_avg = d
  <2> HIDE DEF d, q, x, c
  <2> QED BY <1>1, <1>2, <1>3, <1>4, <1>5 DEF Ents, c
<1>7. LoadIn(e, q) = LoadIn(se[t], q)
  <2>1. LoadIn(se[t], q) = Acc(v, 0, n) /\ LoadIn(e, q) = Acc(d, 0, q.last_update_time - q.last_update_time)
    BY <1>1, <1>6 DEF LoadIn, WeightOf
  <2>2. q.last_update_time - q.last_update_time = 0
    BY <1>3
  <2> DEFINE p == q.last_update_time
  <2>3. Acc(v, 0, n) = d /\ 0 \in Halvable(1)
    <3> HIDE DEF l, n, v
    <3> QED BY <1>2, <1>3, AccIdle
  <2>4. Acc(d, 0, 0) = d
    <3> HIDE DEF d, p
    <3> QED BY <1>3, <1>4, <2>3, AccNone DEF p
  <2> QED BY <2>1, <2>2, <2>3, <2>4
<1> HIDE DEF e
<1>8. s \in [RqTasks -> Ents] /\ s[t] = e /\ \A z \in RqTasks : z # t => s[z] = se[z]
  BY <1>2, <1>6
<1> HIDE DEF s, d, l, n, v
<1>9. ASSUME NEW z \in RqTasks PROVE EntSound(s[z], cfs_rq[s[z].cpu], now)
  <2>1. CASE z = t
    BY <1>2, <1>3, <1>4, <1>6, <1>8, <2>1 DEF EntSound
  <2>2. CASE z # t
    BY <1>8, <2>2 DEF LoadAvgInv
  <2> QED BY <2>1, <2>2
<1>10. ASSUME NEW b \in RqCPUs PROVE Balances(s, cfs_rq[b], b \in behind, b)
  <2>1. HereOf(s, b) = HereOf(se, b) /\ QueuedOf(s, b) = QueuedOf(se, b)
    BY <1>1, <1>6, <1>8 DEF HereOf, QueuedOf
  <2>2. \A z \in RqTasks : s[z].cpu = b => LoadIn(s[z], cfs_rq[b]) = LoadIn(se[z], cfs_rq[b])
    BY <1>6, <1>7, <1>8
  <2>3. [z \in HereOf(se, b) |-> LoadIn(s[z], cfs_rq[b])] = [z \in HereOf(se, b) |-> LoadIn(se[z], cfs_rq[b])]
    BY <2>1, <2>2 DEF HereOf
  <2>4. [z \in QueuedOf(se, b) |-> LoadIn(s[z], cfs_rq[b])] = [z \in QueuedOf(se, b) |-> LoadIn(se[z], cfs_rq[b])]
    BY <2>1, <2>2 DEF QueuedOf
  <2>5. SumHere(s, cfs_rq[b], b) = SumHere(se, cfs_rq[b], b)
        /\ SumQueued(s, cfs_rq[b], b) = SumQueued(se, cfs_rq[b], b)
    BY <2>1, <2>3, <2>4 DEF SumHere, SumQueued
  <2>6. Balances(se, cfs_rq[b], b \in behind, b)
    BY DEF LoadAvgInv
  <2> QED BY <2>5, <2>6 DEF Balances
<1>11. \A z \in RqTasks : EntSound(se'[z], cfs_rq'[se'[z].cpu], now')
  BY <1>1, <1>9
<1>12. \A b \in RqCPUs : Balances(se', cfs_rq'[b], b \in behind', b)
  BY <1>1, <1>10
<1>13. /\ LoadTypes' /\ tg_load' = Contribs(cfs_rq')
       /\ \A b \in RqCPUs : CfsRqSound(cfs_rq'[b], now') /\ UpperSound(parent'[b], now')
  BY <1>1, <1>8 DEF LoadAvgInv, LoadTypes
<1> QED BY <1>11, <1>12, <1>13 DEF LoadAvgInv

\* A task goes away: its load stays until it is removed.
LEMMA RemoveLoad ==
    ASSUME LoadAvgInv, NEW t \in RqTasks, LoadAvg!Remove(t)
    PROVE  LoadAvgInv'
<1> DEFINE c == se[t].cpu
           q == cfs_rq[c]
           l == se[t].last_update_time
           n == q.last_update_time - l
           v == se[t].load_avg
           k == [q EXCEPT !.removed = q.removed + v]
           at_once == q.last_update_time = l
<1>1. /\ se[t].st = "synced" /\ cfs_rq' = [cfs_rq EXCEPT ![c].removed = @ + se[t].load_avg]
      /\ behind' = IF at_once THEN behind ELSE behind \cup {c}
      /\ \E b \in RqCPUs \ {c} :
            se' = [se EXCEPT ![t] = [se[t] EXCEPT !.cpu = b, !.last_update_time = 0, !.st = "moved"]]
      /\ now' = now /\ parent' = parent /\ tg_load' = tg_load
  BY DEF LoadAvg!Remove
<1>2. PICK b \in RqCPUs \ {c} :
            se' = [se EXCEPT ![t] = [se[t] EXCEPT !.cpu = b, !.last_update_time = 0, !.st = "moved"]]
  BY <1>1
<1> DEFINE e == [se[t] EXCEPT !.cpu = b, !.last_update_time = 0, !.st = "moved"]
           s == [se EXCEPT ![t] = e]
<1>3. /\ se \in [RqTasks -> Ents] /\ cfs_rq \in [RqCPUs -> CfsRqs] /\ se[t] \in Ents /\ c \in RqCPUs
      /\ q \in CfsRqs /\ v \in Halvable(l) /\ l \in 1 .. now /\ now \in 1 .. LastTime
      /\ l <= q.last_update_time /\ q.last_update_time \in 1 .. now /\ ~se[t].on_rq
      /\ q.removed \in Halvable(q.last_update_time) /\ CfsRqSound(q, now)
      /\ Balances(se, q, c \in behind, c) /\ q.removed \in Nat /\ v \in Nat
  BY <1>1 DEF LoadAvgInv, LoadTypes, EntSound, CfsRqSound, Ents, CfsRqs
<1>4. /\ l \in 1 .. LastTime /\ n \in 0 .. LastTime - l /\ l + n = q.last_update_time
      /\ q.last_update_time \in l .. LastTime /\ now \in l .. LastTime
      /\ q.last_update_time \in 1 .. LastTime
  BY <1>3, LoadTimes
<1>5. /\ e \in Ents /\ e.cpu = b /\ e.last_update_time = 0 /\ e.st = "moved" /\ ~e.on_rq
      /\ e.load_avg = v
  BY <1>3 DEF Ents
<1>6. /\ k \in CfsRqs /\ k.contrib = q.contrib /\ k.last_update_time = q.last_update_time
      /\ k.load_avg = q.load_avg /\ k.runnable = q.runnable /\ k.removed = q.removed + v
  <2> DEFINE r == q.removed + v
  <2>1. r \in Nat
    BY <1>3
  <2> HIDE DEF r
  <2>2. k = [q EXCEPT !.removed = r]
    BY DEF r
  <2> HIDE DEF k, q
  <2>3. /\ k \in CfsRqs /\ k.contrib = q.contrib /\ k.last_update_time = q.last_update_time
        /\ k.load_avg = q.load_avg /\ k.runnable = q.runnable /\ k.removed = r
    BY <1>3, <2>1, <2>2 DEF CfsRqs
  <2> QED BY <2>3 DEF r
<1>7. v \in Halvable(q.last_update_time) /\ v \in Halvable(now)
  <2> HIDE DEF l, v, q, n
  <2> QED BY <1>3, <1>4, StillHalvable
<1>8. q.removed + v \in Halvable(q.last_update_time)
  <2> HIDE DEF l, v
  <2> QED BY <1>3, <1>4, <1>7, HalvableSum
<1>9. cfs_rq' = [cfs_rq EXCEPT ![c] = k] /\ se' = s
  BY <1>1, <1>2, <1>3
<1> HIDE DEF e, k
<1>10. /\ s \in [RqTasks -> Ents] /\ s[t] = e /\ \A z \in RqTasks : z # t => s[z] = se[z]
  BY <1>3, <1>5
<1>11. /\ cfs_rq' \in [RqCPUs -> CfsRqs] /\ cfs_rq'[c] = k
       /\ \A d \in RqCPUs : d # c => cfs_rq'[d] = cfs_rq[d]
  BY <1>3, <1>6, <1>9
<1> HIDE DEF s
<1>12. ASSUME NEW z \in RqTasks PROVE EntSound(s[z], cfs_rq'[s[z].cpu], now)
  <2>1. CASE z = t
    BY <1>5, <1>7, <1>10, <2>1 DEF EntSound
  <2>2. CASE z # t
    <3>1. EntSound(se[z], cfs_rq[se[z].cpu], now) /\ se[z].cpu \in RqCPUs /\ s[z] = se[z]
      BY <1>3, <1>10, <2>2 DEF LoadAvgInv, Ents
    <3>2. cfs_rq'[se[z].cpu].last_update_time = cfs_rq[se[z].cpu].last_update_time
      BY <1>6, <1>11, <3>1
    <3> QED BY <3>1, <3>2 DEF EntSound
  <2> QED BY <2>1, <2>2
<1>13. Balances(s, k, c \in behind', c)
  <2> DEFINE d == LoadIn(se[t], q)
             H == SumHere(se, q, c)
  <2>1. /\ \A x \in HereOf(se, c) : LoadIn(se[x], q) \in Nat
        /\ t \in HereOf(se, c) /\ t \notin HereOf(s, c)
        /\ t \notin QueuedOf(se, c) /\ t \notin QueuedOf(s, c)
    <3>1. \A x \in HereOf(se, c) : LoadIn(se[x], q) \in Nat
      BY <1>3, Later DEF Halvable
    <3> QED BY <1>1, <1>3, <1>5, <1>10, <3>1 DEF HereOf, QueuedOf
  <2>2. d \in Nat /\ d <= v /\ (at_once => d = v)
    <3>1. LoadIn(se[t], q) = Acc(v, 0, n)
      BY <1>3 DEF LoadIn, WeightOf
    <3>2. Acc(v, 0, n) = Dec(v, n) /\ Dec(v, n) \in Nat /\ Dec(v, n) <= v
      <4> HIDE DEF l, n, v
      <4> QED BY <1>3, <1>4, AccIdle, DecExact
    <3>3. at_once => Dec(v, n) = v
      <4>1. at_once => n = 0
        BY <1>4
      <4> HIDE DEF l, n, v, at_once
      <4>2. Dec(v, 0) = v
        BY <1>3, <1>4, DecNone
      <4> QED BY <4>1, <4>2
    <3> QED BY <3>1, <3>2, <3>3
  <2>3. SumsMoved(se, s, t, q, c)
    <3> DEFINE z == se
    <3>1. /\ \A x \in HereOf(z, c) : LoadIn(z[x], q) \in Int
          /\ \A x \in RqTasks : x # t => s[x] = z[x]
      BY <1>10, <2>1
    <3>2. \A x \in QueuedOf(z, c) : LoadIn(z[x], q) \in Int
      BY <2>1, QueuedHere
    <3>3. (t \in HereOf(s, c) \/ t \in QueuedOf(s, c)) => LoadIn(s[t], q) \in Int
      BY <2>1
    <3> HIDE DEF z, c, q
    <3>4. SumsMoved(z, s, t, q, c)
      BY <3>1, <3>2, <3>3, SumsAfter, Zenon
    <3> QED BY <3>4 DEF z
  <2>4. /\ H \in Int /\ SumHere(s, q, c) = H - d /\ SumQueued(s, q, c) = SumQueued(se, q, c)
    BY <2>1, <2>2, <2>3 DEF SumsMoved
  <2>5. SumHere(s, k, c) = SumHere(s, q, c) /\ SumQueued(s, k, c) = SumQueued(s, q, c)
    BY <1>6 DEF SumHere, SumQueued, LoadIn
  <2>6. c \notin behind' => c \notin behind /\ at_once
    BY <1>1
  <2>7. q.load_avg \in Nat /\ (IF c \in behind THEN q.load_avg <= H + q.removed ELSE q.load_avg = H + q.removed)
        /\ q.runnable = SumQueued(se, q, c)
    BY <1>3 DEF Balances, CfsRqs
  <2> HIDE DEF d, H, at_once, q, v
  <2>8. IF c \in behind' THEN q.load_avg <= (H - d) + (q.removed + v)
                         ELSE q.load_avg = (H - d) + (q.removed + v)
    BY <1>3, <2>2, <2>4, <2>6, <2>7
  <2> QED BY <1>6, <2>4, <2>5, <2>7, <2>8 DEF Balances
<1>14. ASSUME NEW d \in RqCPUs
       PROVE  CfsRqSound(cfs_rq'[d], now) /\ Balances(s, cfs_rq'[d], d \in behind', d)
  <2>1. CASE d = c
    <3>1. CfsRqSound(k, now)
      <4> HIDE DEF v
      <4> QED BY <1>3, <1>6, <1>8 DEF CfsRqSound
    <3> QED BY <1>11, <1>13, <2>1, <3>1
  <2>2. CASE d # c
    <3>1. \A z \in RqTasks : se[z] = s[z]
                   \/ (se[z].cpu # d /\ (s[z].cpu # d \/ (s[z].st = "moved" /\ ~s[z].on_rq)))
      <4> TAKE z \in RqTasks
      <4>1. CASE z = t
        BY <1>5, <1>10, <2>2, <4>1
      <4>2. CASE z # t
        BY <1>10, <4>2
      <4> QED BY <4>1, <4>2
    <3>2. \A x : SumHere(s, x, d) = SumHere(se, x, d) /\ SumQueued(s, x, d) = SumQueued(se, x, d)
      BY <3>1, SumsElsewhere
    <3>3. Balances(se, cfs_rq[d], d \in behind, d) /\ CfsRqSound(cfs_rq[d], now)
      BY DEF LoadAvgInv
    <3>4. d \in behind' <=> d \in behind
      BY <1>1, <2>2
    <3> HIDE DEF c
    <3> QED BY <1>11, <2>2, <3>2, <3>3, <3>4 DEF Balances
  <2> QED BY <2>1, <2>2
<1>15. tg_load' = Contribs(cfs_rq')
  <2>1. Contribs(cfs_rq') = Contribs(cfs_rq) + (k.contrib - q.contrib) /\ Contribs(cfs_rq) \in Int
    BY <1>3, <1>6, <1>9, ContribsAfter
  <2>2. q.contrib \in Nat
    BY <1>3 DEF CfsRqs
  <2> QED BY <1>1, <1>6, <2>1, <2>2 DEF LoadAvgInv
<1>16. /\ \A z \in RqTasks : EntSound(se'[z], cfs_rq'[se'[z].cpu], now')
       /\ \A d \in RqCPUs : CfsRqSound(cfs_rq'[d], now')
       /\ \A d \in RqCPUs : Balances(se', cfs_rq'[d], d \in behind', d)
  BY <1>1, <1>9, <1>12, <1>14
<1>17. LoadTypes' /\ \A d \in RqCPUs : UpperSound(parent'[d], now')
  BY <1>1, <1>9, <1>10, <1>11 DEF LoadAvgInv, LoadTypes
<1> QED BY <1>15, <1>16, <1>17 DEF LoadAvgInv

LEMMA ElapseLoad ==
    ASSUME LoadAvgInv, LoadAvg!Elapse
    PROVE  LoadAvgInv'
<1>1. now <= Horizon /\ now' = now + 1 /\ UNCHANGED <<se, cfs_rq, parent, tg_load, behind>>
  BY DEF LoadAvg!Elapse
<1>2. /\ now \in 1 .. LastTime /\ now + 1 \in now .. LastTime /\ now + 1 \in 1 .. LastTime /\ now \in Nat
  BY <1>1, LoadTimes DEF LoadAvgInv, LoadTypes
<1>3. ASSUME NEW t \in RqTasks PROVE EntSound(se[t], cfs_rq[se[t].cpu], now + 1)
  <2>1. EntSound(se[t], cfs_rq[se[t].cpu], now)
    BY DEF LoadAvgInv
  <2>2. se[t].load_avg \in Halvable(now) => se[t].load_avg \in Halvable(now + 1)
    BY <1>2, StillHalvable
  <2>3. \A x \in 1 .. now : x \in 1 .. now + 1
    BY <1>2
  <2> QED BY <2>1, <2>2, <2>3 DEF EntSound
<1>4. \A c \in RqCPUs : CfsRqSound(cfs_rq[c], now + 1) /\ UpperSound(parent[c], now + 1)
  BY <1>2 DEF LoadAvgInv, CfsRqSound, UpperSound
<1>5. LoadTypes'
  BY <1>1, <1>2 DEF LoadAvgInv, LoadTypes
<1>6. /\ \A t \in RqTasks : EntSound(se'[t], cfs_rq'[se'[t].cpu], now')
      /\ \A c \in RqCPUs : CfsRqSound(cfs_rq'[c], now') /\ UpperSound(parent'[c], now')
      /\ \A c \in RqCPUs : Balances(se', cfs_rq'[c], c \in behind', c)
      /\ tg_load' = Contribs(cfs_rq')
  BY <1>1, <1>3, <1>4 DEF LoadAvgInv
<1> QED BY <1>5, <1>6 DEF LoadAvgInv

LEMMA LoadInit == LoadAvg!Init => LoadAvgInv
<1> SUFFICES ASSUME LoadAvg!Init PROVE LoadAvgInv
  OBVIOUS
<1> DEFINE weights == [t \in RqTasks |-> TaskWeight]
<1>1. PICK f \in [RqTasks -> RqCPUs] :
        /\ se = [t \in RqTasks |-> [load_avg |-> TaskWeight, last_update_time |-> 1, on_rq |-> FALSE,
                                    cpu |-> f[t], st |-> "fair"]]
        /\ LET load == [c \in RqCPUs |-> LoadAvg!SumOver(weights, {t \in RqTasks : f[t] = c})]
           IN  /\ cfs_rq = [c \in RqCPUs |->
                     [load_avg |-> load[c], runnable |-> 0, removed |-> 0,
                      last_update_time |-> 1, contrib |-> load[c], propagate |-> FALSE]]
               /\ tg_load = LoadAvg!SumOver(load, RqCPUs)
  BY DEF LoadAvg!Init
<1> DEFINE mine(c) == {t \in RqTasks : f[t] = c}
           load == [c \in RqCPUs |-> SumIn(weights, mine(c))]
<1>2. /\ cfs_rq = [c \in RqCPUs |->
                     [load_avg |-> load[c], runnable |-> 0, removed |-> 0,
                      last_update_time |-> 1, contrib |-> load[c], propagate |-> FALSE]]
      /\ tg_load = SumIn(load, RqCPUs)
  <2> DEFINE given == [c \in RqCPUs |-> LoadAvg!SumOver(weights, {t \in RqTasks : f[t] = c})]
  <2>1. given = load
    BY LoadOperators
  <2>2. /\ cfs_rq = [c \in RqCPUs |->
                     [load_avg |-> given[c], runnable |-> 0, removed |-> 0,
                      last_update_time |-> 1, contrib |-> given[c], propagate |-> FALSE]]
        /\ tg_load = LoadAvg!SumOver(given, RqCPUs)
    BY <1>1
  <2> HIDE DEF given, load
  <2> QED BY <2>1, <2>2, LoadOperators
<1>3. /\ now = 1 /\ behind = {}
      /\ parent = [c \in RqCPUs |-> [load_avg |-> 0, root |-> 0, last_update_time |-> 1,
                                     weight |-> Shares, on_rq |-> FALSE]]
  BY DEF LoadAvg!Init
<1>4. 1 \in 1 .. LastTime /\ 0 \in 0 .. LastTime - 1 /\ 0 \in Halvable(1)
      /\ TaskWeight \in Halvable(1) /\ TaskWeight \in Nat /\ Shares \in Nat
  <2>1. 1 \in 1 .. LastTime /\ 0 \in 0 .. LastTime - 1
    BY LoadTimes
  <2> QED BY <2>1, HalvableZero, WeightHalvable, LoadAssumption
<1>5. \A t \in RqTasks : /\ se[t] \in Ents /\ se[t].load_avg = TaskWeight /\ se[t].last_update_time = 1
                         /\ se[t].on_rq = FALSE /\ se[t].st = "fair" /\ se[t].cpu = f[t]
                         /\ f[t] \in RqCPUs
  BY <1>1, <1>4 DEF Ents
<1>6. ASSUME NEW c \in RqCPUs PROVE load[c] \in Halvable(1) /\ load[c] \in Nat
  <2> DEFINE S == mine(c)
  <2>1. IsFiniteSet(S)
    <3>1. S \subseteq RqTasks
      OBVIOUS
    <3> HIDE DEF S
    <3> QED BY <3>1, LoadAssumption, FS_Subset
  <2>2. \A x \in S : weights[x] \in Halvable(1)
    BY <1>4
  <2>3. \A x \in S : weights[x] = Acc(weights[x], weights[x], 0)
    <3> TAKE x \in S
    <3> HIDE DEF weights
    <3> QED BY <1>4, <2>2, AccNone
  <2>4. load[c] = SumIn(weights, S)
    OBVIOUS
  <2> HIDE DEF S, weights, load
  <2>5. SumIn(weights, S) \in Halvable(1)
    BY <1>4, <2>1, <2>2, <2>3, AccOfSums
  <2> QED BY <2>4, <2>5 DEF Halvable
<1>7. \A c \in RqCPUs : HereOf(se, c) = mine(c) /\ QueuedOf(se, c) = {}
  BY <1>5 DEF HereOf, QueuedOf
<1> HIDE DEF load
<1>8. \A c \in RqCPUs : /\ cfs_rq[c] \in CfsRqs /\ cfs_rq[c].load_avg = load[c] /\ cfs_rq[c].runnable = 0
                        /\ cfs_rq[c].removed = 0 /\ cfs_rq[c].last_update_time = 1
                        /\ cfs_rq[c].contrib = load[c]
  BY <1>2, <1>4, <1>6 DEF CfsRqs
<1>9. ASSUME NEW c \in RqCPUs PROVE Balances(se, cfs_rq[c], c \in behind, c)
  <2> DEFINE g == [t \in mine(c) |-> LoadIn(se[t], cfs_rq[c])]
  <2>1. ASSUME NEW t \in mine(c) PROVE g[t] = TaskWeight /\ weights[t] = TaskWeight
    <3>1. LoadIn(se[t], cfs_rq[c]) = Acc(TaskWeight, 0, 1 - 1) /\ 1 - 1 = 0
      BY <1>5, <1>8 DEF LoadIn, WeightOf
    <3> QED BY <1>4, <3>1, AccNone
  <2>2. SumHere(se, cfs_rq[c], c) = SumIn(g, mine(c)) /\ SumQueued(se, cfs_rq[c], c) = 0
    BY <1>7, SumOfNone DEF SumHere, SumQueued
  <2> DEFINE S == mine(c)
  <2>3. IsFiniteSet(S)
    <3>1. S \subseteq RqTasks
      OBVIOUS
    <3> HIDE DEF S
    <3> QED BY <3>1, LoadAssumption, FS_Subset
  <2>4. \A x \in S : g[x] \in Int /\ g[x] = weights[x]
    <3> TAKE x \in S
    <3>1. g[x] = TaskWeight /\ weights[x] = TaskWeight
      BY <2>1
    <3> HIDE DEF g, weights
    <3> QED BY <1>4, <3>1
  <2>5. load[c] = SumIn(weights, S)
    BY DEF load
  <2>6. SumIn(g, S) = SumIn(weights, S)
    <3> HIDE DEF g, S, weights
    <3> QED BY <2>3, <2>4, SumSame
  <2>7. load[c] + 0 = load[c] /\ c \notin behind
    BY <1>3, <1>6
  <2> HIDE DEF g, weights
  <2> QED BY <1>8, <2>2, <2>5, <2>6, <2>7 DEF Balances
<1>10. tg_load = Contribs(cfs_rq) /\ tg_load \in Nat
  <2>1. [c \in RqCPUs |-> cfs_rq[c].contrib] = load
    BY <1>8 DEF load
  <2>2. IsFiniteSet(RqCPUs)
    BY LoadAssumption
  <2>3. SumIn(load, RqCPUs) \in Nat
    BY <1>6, <2>2, SumBound
  <2> QED BY <1>2, <2>1, <2>3 DEF Contribs
<1>11. \A c \in RqCPUs : CfsRqSound(cfs_rq[c], now) /\ UpperSound(parent[c], now) /\ parent[c] \in Uppers
  BY <1>3, <1>4, <1>6, <1>8 DEF CfsRqSound, UpperSound, Uppers
<1>12. \A t \in RqTasks : EntSound(se[t], cfs_rq[se[t].cpu], now)
  <2> TAKE t \in RqTasks
  <2>1. cfs_rq[se[t].cpu].last_update_time = 1
    BY <1>5, <1>8
  <2> QED BY <1>3, <1>4, <1>5, <2>1 DEF EntSound
<1>13. LoadTypes
  <2>1. se \in [RqTasks -> Ents]
    BY <1>1, <1>5
  <2>2. cfs_rq \in [RqCPUs -> CfsRqs]
    BY <1>2, <1>8
  <2>3. parent \in [RqCPUs -> Uppers]
    BY <1>3, <1>11
  <2> QED BY <1>3, <1>4, <1>10, <2>1, <2>2, <2>3 DEF LoadTypes
<1> QED BY <1>9, <1>10, <1>11, <1>12, <1>13 DEF LoadAvgInv

LEMMA LoadStep == LoadAvgInv /\ [LoadAvg!Next]_loadVars => LoadAvgInv'
<1> SUFFICES ASSUME LoadAvgInv, [LoadAvg!Next]_loadVars PROVE LoadAvgInv'
  OBVIOUS
<1>1. CASE LoadAvg!Elapse
  BY <1>1, ElapseLoad
<1>2. ASSUME NEW t \in RqTasks,
             \/ LoadAvg!Enqueue(t) \/ LoadAvg!Dequeue(t) \/ LoadAvg!Tick(t) \/ LoadAvg!Leave(t)
             \/ LoadAvg!Join(t) \/ LoadAvg!Sync(t) \/ LoadAvg!Remove(t)
      PROVE  LoadAvgInv'
  BY <1>2, EnqueueLoad, DequeueLoad, TickLoad, LeaveLoad, JoinLoad, SyncLoad, RemoveLoad
<1>3. ASSUME NEW c \in RqCPUs, LoadAvg!update_blocked_averages(c) PROVE LoadAvgInv'
  BY <1>3, BlockedLoad
<1>4. CASE UNCHANGED loadVars
  <2>1. UNCHANGED <<now, se, cfs_rq, parent, tg_load, behind>>
    BY <1>4 DEF loadVars
  <2>2. LoadTypes'
    BY <2>1 DEF LoadAvgInv, LoadTypes
  <2>3. /\ \A t \in RqTasks : EntSound(se'[t], cfs_rq'[se'[t].cpu], now')
        /\ \A c \in RqCPUs : CfsRqSound(cfs_rq'[c], now') /\ UpperSound(parent'[c], now')
        /\ \A c \in RqCPUs : Balances(se', cfs_rq'[c], c \in behind', c)
        /\ tg_load' = Contribs(cfs_rq')
    BY <2>1 DEF LoadAvgInv
  <2> QED BY <2>2, <2>3 DEF LoadAvgInv
<1> QED BY <1>1, <1>2, <1>3, <1>4 DEF LoadAvg!Next

-----------------------------------------------------------------------------
(* The parts together.                                                     *)

\* The invariants of the parts that are proved here.
PartsInv == LbInv /\ NohzInv /\ PeriodInv /\ ScanInv /\ GroupInv /\ MoveInv
            /\ LoadAvgInv

LEMMA PartsInit == MCInit => PartsInv
BY LbInit, NohzInit, PeriodInit, ScanInit, NumaInit, MoveInit, LoadInit DEF MCInit, PartsInv

LEMMA PartsNext ==
    ASSUME [MCNext]_all
    PROVE  /\ [Balance!Next]_balanceVars /\ [Nohz!Next]_nohzVars /\ [Period!Next]_periodVars
           /\ [Scan!Next]_scanVars /\ [Numa!Next]_numaVars /\ [Move!Next]_moveVars
           /\ [LoadAvg!Next]_loadVars
<1>1. CASE UNCHANGED all
  BY <1>1 DEF all, cpuVars, memVars
<1>2. CASE CpuNext /\ UNCHANGED memVars
  BY <1>2 DEF CpuNext, memVars
<1>3. CASE MemNext /\ UNCHANGED cpuVars
  BY <1>3 DEF MemNext, cpuVars
<1> QED BY <1>1, <1>2, <1>3 DEF MCNext

LEMMA PartsStep == PartsInv /\ [MCNext]_all => PartsInv'
<1> SUFFICES ASSUME PartsInv, [MCNext]_all PROVE PartsInv'
  OBVIOUS
<1>1. LbInv' /\ NohzInv' /\ PeriodInv'
  BY PartsNext, LbStep, NohzStep, PeriodStep DEF PartsInv
<1>2. ScanInv' /\ GroupInv' /\ MoveInv' /\ LoadAvgInv'
  BY PartsNext, ScanStep, NumaStep, MoveStep, LoadStep DEF PartsInv
<1> QED BY <1>1, <1>2 DEF PartsInv

\* The inductive invariants of the parts hold in every behaviour.
THEOREM PartsKept == MCSpec => []PartsInv
<1>1. MCInit => PartsInv
  BY PartsInit
<1>2. PartsInv /\ [MCNext]_all => PartsInv'
  BY PartsStep
<1> QED BY <1>1, <1>2, PTL DEF MCSpec

\* No task is lost, run twice or put where it may not run by balancing CPUs,
\* whatever other CPUs do between the steps of a pass, and the mask, bits and
\* counters of idle CPUs agree.
THEOREM BalanceKept == MCSpec => []BalanceInv
<1>1. PartsInv => BalanceInv
  BY LbSafe DEF PartsInv, NohzInv, BalanceInv
<1> QED BY <1>1, PartsKept, PTL

\* A runqueue's load is that of its tasks, although it does not look at them as
\* time passes and tasks are removed from it without its lock, and the levels of
\* the hierarchy agree.
THEOREM LoadKept == MCSpec => []LoadInv
<1>1. PartsInv => LoadInv
  BY LoadSafe DEF PartsInv, LoadInv
<1> QED BY <1>1, PartsKept, PTL

\* A NUMA group's sums and references are those of its members, a search gives
\* back every reference it took, and the scan period stays in its range.
THEOREM NumaKept == MCSpec => []NumaInv
<1>1. PartsInv => NumaInv
  BY MoveSafe DEF PartsInv, GroupInv, PeriodInv, NumaInv
<1> QED BY <1>1, PartsKept, PTL

\* The invariants of the parts hold on the way to where an undisturbed system
\* gets, and a window of the scan stays in its mapping.
THEOREM SettleKept == MCSpec => []SettleInv
<1>1. PartsInv => SettleInv
  BY LbSafe, MoveSafe DEF PartsInv, NohzInv, ScanInv, SettleInv
<1> QED BY <1>1, PartsKept, PTL

\* A task with mostly remote, private faults is scanned no less often than
\* before: update_task_scan_period does not lengthen its period, but to the
\* least that is allowed now.
THEOREM RemoteFasterKept == MCSpec => RemoteScansFaster
<1> DEFINE Faster == Period!Placement /\ ~Period!Quiet /\ 10 * local < 7 * (local + remote)
                       => numa_scan_period' <=
                            Period!Larger(numa_scan_period, Period!task_scan_min(windows))
<1>1. PartsInv => (Faster \/ UNCHANGED Period!vars)
  BY Updated DEF PartsInv
<1>2. MCSpec => [][Faster]_(Period!vars)
  <2>1. MCSpec => []PartsInv
    BY PartsKept
  <2>2. PartsInv => [Faster]_(Period!vars)
    BY <1>1
  <2> QED BY <2>1, <2>2, PTL
<1> QED BY <1>2 DEF RemoteScansFaster, Period!RemoteScansFaster
==============================================================================
