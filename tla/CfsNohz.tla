------------------------------ MODULE CfsNohz ------------------------------
(***************************************************************************)
(* Idle load balancing (fair.c): a CPU without work stops its tick, and so *)
(* the balancing it would do for itself; a busy CPU kicks one of the idle  *)
(* ones, which then balances for all of them.                              *)
(*                                                                         *)
(* The flags and counters are atomic and each CPU changes its own, so what *)
(* happens on a CPU with interrupts off is one step.  A balancing pass     *)
(* takes a task from a CPU that has one to spare; module CfsBalance has    *)
(* its inside.  The tick and the IPI belong to the rest of the kernel.     *)
(***************************************************************************)
EXTENDS Integers, FiniteSetsExt

CONSTANTS
    CPUs,           \* numbers: the first idle one is kicked
    MaxTasks,       \* in all
    Churn           \* tasks sleep and wake up

VARIABLES
    nr,             \* nr_running of each CPU
    idle_cpus_mask, nr_cpus,    \* nohz
    tick_stopped,   \* CPUs with NOHZ_TICK_STOPPED
    kicked,         \* CPUs with NOHZ_BALANCE_KICK
    nohz_idle,      \* CPUs whose sd->nohz_idle is set
    nr_busy_cpus,   \* of the domain of all CPUs
    late,           \* nohz.next_balance has passed
    ipi,            \* CPUs with a reschedule IPI to come
    softirq,        \* CPUs with a pending SCHED_SOFTIRQ
    idle_balance,   \* rq->idle_balance
    ilb             \* of each CPU: next one to balance for, -1 when it does not

vars == <<nr, idle_cpus_mask, nr_cpus, tick_stopped, kicked, nohz_idle, nr_busy_cpus,
          late, ipi, softirq, idle_balance, ilb>>
idleness == <<idle_cpus_mask, nr_cpus, tick_stopped, nohz_idle, nr_busy_cpus>>
signals == <<kicked, ipi, softirq, idle_balance, ilb>>

idle_cpu(c) == nr[c] = 0
SumOver(f) == MapThenSumSet(LAMBDA c : f[c], CPUs)

Init ==
    /\ nr \in {f \in [CPUs -> 0 .. MaxTasks] : SumOver(f) \in 1 .. MaxTasks}
    /\ idle_cpus_mask = {} /\ nr_cpus = 0 /\ tick_stopped = {} /\ kicked = {}
    /\ nohz_idle = {} /\ nr_busy_cpus = Cardinality(CPUs)
    /\ late = FALSE /\ ipi = {} /\ softirq = {}
    /\ idle_balance = [c \in CPUs |-> FALSE]
    /\ ilb = [c \in CPUs |-> -1]

-----------------------------------------------------------------------------
(* Going idle and coming back.                                             *)

\* set_cpu_sd_state_idle and nohz_balance_enter_idle.
EnterIdle(c) ==
    /\ idle_cpu(c) /\ c \notin tick_stopped /\ c \notin ipi \cup softirq /\ ilb[c] = -1
    /\ idle_cpus_mask' = idle_cpus_mask \cup {c}
    /\ nr_cpus' = nr_cpus + 1
    /\ tick_stopped' = tick_stopped \cup {c}
    /\ nohz_idle' = nohz_idle \cup {c}
    /\ nr_busy_cpus' = nr_busy_cpus - (IF c \in nohz_idle THEN 0 ELSE 1)
    /\ UNCHANGED <<nr, late, signals>>

\* Mutant: the domain's state is set back without a look at it.
ExitIdle_Always(c) ==
    /\ nohz_idle' = nohz_idle \ {c}
    /\ nr_busy_cpus' = nr_busy_cpus + 1
    /\ idle_cpus_mask' = idle_cpus_mask \ {c}
    /\ nr_cpus' = nr_cpus - (IF c \in idle_cpus_mask THEN 1 ELSE 0)
    /\ tick_stopped' = tick_stopped \ {c}

\* set_cpu_sd_state_busy and nohz_balance_exit_idle.
ExitIdle(c) ==
    /\ nohz_idle' = nohz_idle \ {c}
    /\ nr_busy_cpus' = nr_busy_cpus + (IF c \in nohz_idle THEN 1 ELSE 0)
    /\ idle_cpus_mask' = idle_cpus_mask \ {c}
    /\ nr_cpus' = nr_cpus - (IF c \in idle_cpus_mask /\ c \in tick_stopped THEN 1 ELSE 0)
    /\ tick_stopped' = tick_stopped \ {c}

\* nohz_kick_needed, after ExitIdle: this CPU has tasks to spare, or it and
\* another one of the domain are busy.
KickNeeded(c) == nr_cpus' > 0 /\ late /\ (nr[c] >= 2 \/ nr_busy_cpus' > 1)

\* find_new_ilb: the first of the mask, if it is still idle.
find_new_ilb(mask) == {c \in mask : c = Min(mask) /\ idle_cpu(c)}

\* nohz_balancer_kick: the bit is tested and set, so there is one IPI for it.
nohz_balancer_kick(c) ==
    LET new == find_new_ilb(idle_cpus_mask') \ kicked
    IN  /\ late' = FALSE
        /\ kicked' = kicked \cup new
        /\ ipi' = ipi \cup new

\* The tick of a busy CPU: trigger_load_balance.
Tick(c) ==
    /\ ~idle_cpu(c) /\ ilb[c] = -1
    /\ ExitIdle(c)
    /\ idle_balance' = [idle_balance EXCEPT ![c] = FALSE]
    /\ \E due \in BOOLEAN : softirq' = IF due THEN softirq \cup {c} ELSE softirq
    /\ IF KickNeeded(c) THEN nohz_balancer_kick(c) ELSE UNCHANGED <<late, kicked, ipi>>
    /\ UNCHANGED <<nr, ilb>>

\* The tick of an idle CPU that has not stopped it.
IdleTick(c) ==
    /\ idle_cpu(c) /\ c \notin tick_stopped /\ ilb[c] = -1
    /\ idle_balance' = [idle_balance EXCEPT ![c] = TRUE]
    /\ softirq' = softirq \cup {c}
    /\ UNCHANGED <<nr, late, kicked, ipi, ilb, idleness>>

\* got_nohz_idle_kick in the IPI: a CPU with work cancels the kick.
Ipi(c) ==
    /\ c \in ipi
    /\ ipi' = ipi \ {c}
    /\ IF c \in kicked /\ idle_cpu(c)
       THEN /\ softirq' = softirq \cup {c}
            /\ idle_balance' = [idle_balance EXCEPT ![c] = TRUE]
            /\ UNCHANGED kicked
       ELSE /\ kicked' = kicked \ {c}
            /\ UNCHANGED <<softirq, idle_balance>>
    /\ UNCHANGED <<nr, late, ilb, idleness>>

-----------------------------------------------------------------------------
(* run_rebalance_domains.                                                  *)

\* rebalance_domains for CPU b: a task is pulled when there is one to spare.
Rebalanced(b, from) ==
    [nr EXCEPT ![b] = @ + 1, ![from] = @ - 1]

Rebalance(b) ==
    LET spare == {d \in CPUs : nr[d] > nr[b] + 1}
    IN  IF spare = {} THEN UNCHANGED nr ELSE \E d \in spare : nr' = Rebalanced(b, d)

\* nohz_idle_balance begins, if it has been kicked and was idle.
Softirq(c) ==
    /\ c \in softirq /\ ilb[c] = -1
    /\ softirq' = softirq \ {c}
    /\ ilb' = [ilb EXCEPT ![c] =
                IF idle_balance[c] /\ c \in kicked THEN 0 ELSE Max(CPUs) + 1]
    /\ UNCHANGED <<nr, late, kicked, ipi, idle_balance, idleness>>

\* The CPUs of the mask still to come.
Ahead(c) == {b \in idle_cpus_mask \ {c} : b >= ilb[c] /\ idle_cpu(b)}

\* One CPU of the mask.
IlbStep(c) ==
    /\ ilb[c] \in CPUs /\ idle_cpu(c) /\ Ahead(c) # {}
    /\ Rebalance(Min(Ahead(c)))
    /\ ilb' = [ilb EXCEPT ![c] = Min(Ahead(c)) + 1]
    /\ UNCHANGED <<late, kicked, ipi, softirq, idle_balance, idleness>>

\* The bit is cleared whether the balancing was done or broken off.
Cleared(c) == kicked \ {c}

\* The end: the CPU got work to do (need_resched), or there is none left.  It
\* balances for itself.
IlbEnd(c) ==
    /\ ilb[c] # -1
    /\ ilb[c] \in CPUs => ~idle_cpu(c) \/ Ahead(c) = {}
    /\ kicked' = Cleared(c)
    /\ ilb' = [ilb EXCEPT ![c] = -1]
    /\ Rebalance(c)
    /\ UNCHANGED <<late, ipi, softirq, idle_balance, idleness>>

-----------------------------------------------------------------------------
Sleep(c) ==
    /\ Churn /\ ~idle_cpu(c) /\ ilb[c] = -1
    /\ nr' = [nr EXCEPT ![c] = @ - 1]
    /\ UNCHANGED <<late, signals, idleness>>

Wake(c) ==
    /\ Churn /\ SumOver(nr) < MaxTasks
    /\ nr' = [nr EXCEPT ![c] = @ + 1]
    /\ UNCHANGED <<late, signals, idleness>>

\* nohz.next_balance passes.
Elapse ==
    /\ ~late /\ late' = TRUE
    /\ UNCHANGED <<nr, signals, idleness>>

Cpu(c) == Tick(c) \/ IdleTick(c)
Handlers(c) == Ipi(c) \/ Softirq(c) \/ IlbStep(c) \/ IlbEnd(c)

Next ==
    \/ Elapse
    \/ \E c \in CPUs : Cpu(c) \/ Handlers(c) \/ EnterIdle(c) \/ Sleep(c) \/ Wake(c)

\* Time goes by, a busy CPU has ticks, an interrupt or softirq is served.
Fairness ==
    /\ WF_vars(Elapse)
    /\ \A c \in CPUs : /\ WF_vars(Handlers(c))
                       /\ WF_vars(Tick(c)) /\ WF_vars(late /\ Tick(c))

Spec == Init /\ [][Next]_vars /\ Fairness

-----------------------------------------------------------------------------
TypeOK ==
    /\ nr \in [CPUs -> 0 .. MaxTasks]
    /\ kicked \cup ipi \cup softirq \cup nohz_idle \cup tick_stopped \subseteq CPUs
    /\ ilb \in [CPUs -> -1 .. Max(CPUs) + 1]

\* The mask, the bits and the two counters say the same, whatever the order in
\* which CPUs go idle and come back.
CountsMatch ==
    /\ idle_cpus_mask = tick_stopped
    /\ nr_cpus = Cardinality(idle_cpus_mask)
    /\ nr_busy_cpus = Cardinality(CPUs \ nohz_idle)

\* A kick bit is cleared some time: only the first idle CPU is ever kicked, and
\* a bit left set would keep it from being kicked again.
KickUnderWay == kicked \subseteq ipi \cup softirq \cup {c \in CPUs : ilb[c] # -1}

\* The three together.
Inv == TypeOK /\ CountsMatch /\ KickUnderWay

\* d sleeps without a tick and c has a task for it.
Wasted(c, d) == nr[c] >= 2 /\ d \in tick_stopped /\ nr[d] = 0

\* With tasks that run on and on, no CPU sleeps without a tick for ever while
\* another one has tasks to spare.
IdleFindsWork ==
    ~Churn => []<>~(\E c, d \in CPUs : Wasted(c, d))
=============================================================================
