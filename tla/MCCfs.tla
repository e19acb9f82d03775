-------------------------------- MODULE MCCfs --------------------------------
(***************************************************************************)
(* The parts of the scheduler in one run: the vruntimes of runqueues, load *)
(* balancing, CPUs without a tick, load averages, and NUMA groups,         *)
(* migration, scan period and scanner.  They share no state here, so a     *)
(* behaviour is of one part, chosen at the start, and the others stay as   *)
(* they are.                                                               *)
(***************************************************************************)
EXTENDS Integers, Sequences, FiniteSetsExt

CONSTANTS
    Parts,              \* what a behaviour may be of
    Churn,              \* tasks sleep, wake up and end
    None,
    \* the runqueues
    RqCPUs, RqTasks, Cost, W, RqHorizon, Lag, Latency, Gran, MinGran, NrLatency, Ops,
    \* load balancing
    CPUs, SdTopology, Capacity, sd_imbalance_pct, Flags, LbTasks, Load, LbAllowed, CacheHot,
    cache_nice_tries, Balancers,
    \* CPUs without a tick
    NohzCPUs, MaxTasks,
    \* load averages
    Horizon, TaskWeight, Shares,
    \* NUMA groups
    Tasks, Nodes, Touches, Addresses, MaxFaults,
    \* NUMA migration
    NodeOf, Faults, Group, Allowed, Distance, NumaTopology, Trapped, Searchers,
    \* the scan period
    scan_period_min, scan_period_max, Floor, Windows, MaxCount,
    \* the scanner
    ScanTasks, Vmas, scan_size, HPAGE

\* A task's weight can be halved at each step of the clock.  (What powers of two
\* are is no assumption, but the provers do not know it.)
ASSUME LoadAssumption ==
    /\ IsFiniteSet(RqCPUs) /\ IsFiniteSet(RqTasks)
    /\ Horizon \in Nat /\ Shares \in Nat
    /\ TaskWeight \in Nat /\ \E k \in 0 .. TaskWeight : TaskWeight = k * 2^Horizon
    /\ \A a, b \in 0 .. Horizon : 2^a \in Nat \ {0} /\ 2^(a + b) = 2^a * 2^b

\* CPUs are numbers, of which there are some.
ASSUME NohzAssumption ==
    IsFiniteSet(NohzCPUs) /\ NohzCPUs # {} /\ NohzCPUs \subseteq Nat /\ MaxTasks \in Nat

\* The groups of a level part the CPUs, and none is empty.
ASSUME BalanceAssumption ==
    /\ IsFiniteSet(CPUs) /\ CPUs \subseteq Nat
    /\ SdTopology \in Seq(SUBSET ((SUBSET CPUs) \ {{}}))
    /\ \A l \in DOMAIN SdTopology : \A c \in CPUs : \E s \in SdTopology[l] :
          c \in s /\ \A r \in SdTopology[l] : c \in r => r = s
    /\ Capacity \in [CPUs -> Nat \ {0}] /\ cache_nice_tries \in Nat
    /\ IsFiniteSet(LbTasks) /\ None \notin LbTasks
    /\ \A t \in LbTasks : Load[t] \in Nat

\* A process has one window or more, and a second of scanning has 14 periods of
\* the fastest scan at the least: the floor is 100 for the default scan size.
ASSUME PeriodAssumption ==
    /\ Windows # {} /\ Windows \subseteq Nat \ {0}
    /\ scan_period_min \in Nat /\ scan_period_max \in Nat /\ MaxCount \in Nat
    /\ Floor \in Nat /\ Floor >= 14

\* A process has memory; its VMAs are in the order of their addresses, apart.
ASSUME ScanAssumption ==
    /\ Vmas \in Seq([start : Nat, end : Nat, migratable : BOOLEAN]) /\ Len(Vmas) >= 1
    /\ \A i \in 1 .. Len(Vmas) : Vmas[i].start < Vmas[i].end
    /\ \A i, j \in 1 .. Len(Vmas) : i < j => Vmas[i].end <= Vmas[j].start
    /\ scan_size \in Nat \ {0} /\ HPAGE \in Nat \ {0}

\* Tasks and nodes are finite in number; a group's address is not NULL.
ASSUME NumaAssumption ==
    /\ IsFiniteSet(Tasks)
    /\ IsFiniteSet(Nodes) /\ Nodes # {} /\ Nodes \subseteq Nat
    /\ Touches \in [Tasks -> SUBSET Nodes]
    /\ Addresses \subseteq Nat \ {0}

\* CPUs are numbers, each of a node; None stands for no task.  Where nodes are
\* not directly connected, some of them are farther than the local distance.
ASSUME MoveAssumption ==
    /\ IsFiniteSet(CPUs) /\ CPUs \subseteq Nat /\ NodeOf \in [CPUs -> Nodes]
    /\ Faults \in [Tasks -> [Nodes -> Nat]] /\ Allowed \in [Tasks -> SUBSET CPUs]
    /\ Load \in [Tasks -> Nat]
    /\ Distance \in [Nodes -> [Nodes -> Nat]]
    /\ NumaTopology # "DIRECT" => \E n, m \in Nodes : Distance[n][m] > 10
    /\ None \notin Tasks

VARIABLES
    part,
    st, cpu, vr, rq,
    at, state, curr, failed, imbalance, push, lb,
    nr, idle_cpus_mask, nr_cpus, tick_stopped, kicked, nohz_idle, nr_busy_cpus,
    late, ipi, softirq, idle_balance, ilb,
    now, se, cfs_rq, parent, tg_load, behind,
    numa_faults, membuf, numa_group, preferred_nid, fresh, fault, group, nfaults,
    place, life, usage, numa_preferred_nid, search,
    windows, numa_scan_period, numa_scan_period_max, remote, local, notMoved, buf, stale,
    due, numa_scan_offset, numa_scan_seq, marked, placed, queued, work

Rq == INSTANCE CfsRq WITH CPUs <- RqCPUs, Tasks <- RqTasks, Horizon <- RqHorizon
Balance == INSTANCE CfsBalance WITH
    Topology <- SdTopology, Tasks <- LbTasks, Allowed <- LbAllowed, st <- state,
    imbalance_pct <- sd_imbalance_pct
Nohz == INSTANCE CfsNohz WITH CPUs <- NohzCPUs
LoadAvg == INSTANCE CfsLoadAvg WITH CPUs <- RqCPUs, Tasks <- RqTasks, late <- behind,
    Weight <- TaskWeight
Numa == INSTANCE CfsNuma
Move == INSTANCE CfsNumaMove WITH Topology <- NumaTopology, NULL <- None,
            at <- place, st <- life
Period == INSTANCE CfsNumaPeriod WITH failed <- notMoved
Scan == INSTANCE CfsNumaScan WITH Tasks <- ScanTasks

rqVars == <<st, cpu, vr, rq>>
balanceVars == <<at, state, curr, failed, imbalance, push, lb>>
nohzVars == <<nr, idle_cpus_mask, nr_cpus, tick_stopped, kicked, nohz_idle, nr_busy_cpus,
              late, ipi, softirq, idle_balance, ilb>>
loadVars == <<now, se, cfs_rq, parent, tg_load, behind>>
numaVars == <<numa_faults, membuf, numa_group, preferred_nid, fresh, fault, group, nfaults>>
moveVars == <<place, life, usage, numa_preferred_nid, search>>
periodVars == <<windows, numa_scan_period, numa_scan_period_max, remote, local, notMoved,
                buf, stale>>
scanVars == <<due, numa_scan_offset, numa_scan_seq, marked, placed, queued, work>>

cpuVars == <<rqVars, balanceVars, nohzVars, loadVars>>
memVars == <<numaVars, moveVars, periodVars, scanVars>>
all == <<part, cpuVars, memVars>>

\* Only the part that is chosen begins in every way it may.
MCInit ==
    /\ part \in Parts
    /\ Rq!Init /\ Balance!Init /\ Nohz!Init /\ LoadAvg!Init
    /\ Numa!Init /\ Move!Init /\ Period!Init /\ Scan!Init
    /\ part # "rq" => \A t \in RqTasks : cpu[t] = Min(RqCPUs)
    /\ part # "balance" => \A t \in LbTasks : at[t] = Min(LbAllowed[t])
    /\ part # "nohz" => \A c \in NohzCPUs : nr[c] = IF c = Min(NohzCPUs) THEN 1 ELSE 0
    /\ part # "load" => \A t \in RqTasks : se[t].cpu = Min(RqCPUs)
    /\ part # "move" => \A t \in Tasks : place[t] = Min(Allowed[t])
    /\ part # "period" => windows = Min(Windows)

CpuNext ==
    \/ part = "rq" /\ Rq!Next /\ UNCHANGED <<balanceVars, nohzVars, loadVars>>
    \/ part = "balance" /\ Balance!Next /\ UNCHANGED <<rqVars, nohzVars, loadVars>>
    \/ part = "nohz" /\ Nohz!Next /\ UNCHANGED <<rqVars, balanceVars, loadVars>>
    \/ part = "load" /\ LoadAvg!Next /\ UNCHANGED <<rqVars, balanceVars, nohzVars>>

MemNext ==
    \/ part = "numa" /\ Numa!Next /\ UNCHANGED <<moveVars, periodVars, scanVars>>
    \/ part = "move" /\ Move!Next /\ UNCHANGED <<numaVars, periodVars, scanVars>>
    \/ part = "period" /\ Period!Next /\ UNCHANGED <<numaVars, moveVars, scanVars>>
    \/ part = "scan" /\ Scan!Next /\ UNCHANGED <<numaVars, moveVars, periodVars>>

MCNext ==
    /\ UNCHANGED part
    /\ \/ CpuNext /\ UNCHANGED memVars
       \/ MemNext /\ UNCHANGED cpuVars

MCSpec == MCInit /\ [][MCNext]_all

\* The fairness of the modules, for the behaviours that are their own.
BalanceFairness ==
    /\ \A c \in CPUs : /\ WF_balanceVars(part = "balance" /\ Balance!Balance(c))
                       /\ WF_balanceVars(part = "balance" /\ Balance!ActiveStop(c))
                       /\ WF_balanceVars(part = "balance" /\ curr[c] = None /\ Balance!Pick(c))
    /\ \A t \in LbTasks : WF_balanceVars(part = "balance" /\ Balance!AttachOne(t))

NohzFairness ==
    /\ WF_nohzVars(part = "nohz" /\ Nohz!Elapse)
    /\ \A c \in NohzCPUs : /\ WF_nohzVars(part = "nohz" /\ Nohz!Handlers(c))
                           /\ WF_nohzVars(part = "nohz" /\ Nohz!Tick(c))
                           /\ WF_nohzVars(part = "nohz" /\ late /\ Nohz!Tick(c))

ScanFairness ==
    /\ WF_scanVars(part = "scan" /\ Scan!Elapse)
    /\ \A t \in ScanTasks : /\ WF_scanVars(part = "scan" /\ Scan!task_tick_numa(t))
                            /\ WF_scanVars(part = "scan" /\ Scan!Step(t))

MoveFairness == \A t \in Tasks : WF_moveVars(part = "move" /\ Move!Search(t))

\* What is tried again and again: balancing a domain, and, counted with one of
\* them, taking mmap_sem.
SomeDomain == CHOOSE d \in Balance!Domains : TRUE
Again(d) ==
    \/ part = "balance" /\ Balance!Starts(d[1], d[2]) /\ UNCHANGED scanVars
    \/ /\ part = "scan" /\ d = SomeDomain
       /\ (\E t \in ScanTasks : Scan!Lock(t)) /\ UNCHANGED balanceVars

FairSpec ==
    /\ MCSpec
    /\ BalanceFairness /\ NohzFairness /\ ScanFairness /\ MoveFairness
    /\ \A d \in Balance!Domains : SF_<<balanceVars, scanVars>>(Again(d))

-----------------------------------------------------------------------------
\* Whatever CPUs and classes a task goes through, its vruntime stays comparable
\* and the queues, counters and buddies are those of the tasks.
MigrateInv == part = "rq" => Rq!Inv

\* No task is lost, run twice or put where it may not run by balancing CPUs,
\* and the mask, bits and counters of idle CPUs agree.
BalanceInv ==
    /\ part = "balance" => Balance!Inv
    /\ part = "nohz" => Nohz!Inv

\* A runqueue's load is that of its tasks, although they come, go and are
\* removed under other locks, and the levels of the hierarchy agree.
LoadInv == part = "load" => LoadAvg!Inv

\* A NUMA group's sums and references are those of its members, a search gives
\* back every reference it took, and the scan period stays in its range.
NumaInv ==
    /\ part = "numa" => Numa!Inv
    /\ part = "move" => Move!Inv
    /\ part = "period" => Period!Inv

\* A task with mostly remote, private faults is scanned no less often than
\* before.
RemoteScansFaster == Period!RemoteScansFaster

\* On the way to where an undisturbed system gets, no task is lost or put where
\* it may not run, the state of idle CPUs agrees, and a window of the scan
\* stays in its mapping.
SettleInv ==
    /\ part = "balance" => Balance!Inv
    /\ part = "nohz" => Nohz!Inv
    /\ part = "scan" => Scan!Inv
    /\ part = "move" => Move!Inv

\* No CPU stays idle for ever while another one has tasks to spare, whether it
\* balances for itself or sleeps without a tick.
NoIdleCpu ==
    []<>/\ part = "balance" => ~\E c, d \in CPUs : Balance!Wasted(c, d)
        /\ part = "nohz" => ~\E c, d \in NohzCPUs : Nohz!Wasted(c, d)

\* The scan goes round: every page that may be scanned is marked again and
\* again, and passes end, however the tasks race for the offset.
EveryPageScanned ==
    /\ \A p \in Scan!Pages : []<>(part = "scan" => p \in marked)
    /\ part # "scan" \/ []<><<numa_scan_seq' # numa_scan_seq>>_scanVars

\* Undisturbed, the tasks find their nodes: no two of them change places for
\* ever.
Settles == <>[][place' = place]_place
=============================================================================
