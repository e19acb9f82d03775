---------------------------- MODULE CfsNumaPeriod ----------------------------
(***************************************************************************)
(* How often a task's memory is scanned (fair.c): the period follows the   *)
(* share of local faults since the last placement.  One task; the numbers  *)
(* are unsigned, the difference is signed.                                 *)
(***************************************************************************)
EXTENDS Integers

CONSTANTS
    scan_period_min, scan_period_max,   \* sysctls
    Floor,          \* 1000 divided by the number of windows a second
    Windows,        \* values of task_nr_scan_windows
    MaxCount        \* bound on the faults of a kind

NUMA_PERIOD_SLOTS == 10
NUMA_PERIOD_THRESHOLD == 7

VARIABLES
    windows,        \* task_nr_scan_windows, with the size of the process
    numa_scan_period, numa_scan_period_max,
    remote, local, failed,  \* numa_faults_locality
    buf,            \* faults since the last placement: shared and private
    stale           \* numa_scan_seq has changed

vars == <<windows, numa_scan_period, numa_scan_period_max, remote, local, failed, buf, stale>>

Larger(a, b) == IF a < b THEN b ELSE a
Smaller(a, b) == IF a < b THEN a ELSE b
task_scan_min(w) == Larger(Floor, scan_period_min \div w)
task_scan_max(w) == Larger(task_scan_min(w), scan_period_max \div w)
DIV_ROUND_UP(a, b) == (a + b - 1) \div b

Init ==
    /\ windows \in Windows
    /\ numa_scan_period = task_scan_min(windows)
    /\ numa_scan_period_max = task_scan_max(windows)
    /\ remote = 0 /\ local = 0 /\ failed = 0 /\ buf = <<0, 0>> /\ stale = FALSE

\* Mutant: the product is not divided by the number of slots.
Diff_Undivided ==
    LET slot == DIV_ROUND_UP(numa_scan_period, NUMA_PERIOD_SLOTS)
        ratio == (local * NUMA_PERIOD_SLOTS) \div (local + remote)
        sharing == DIV_ROUND_UP(buf[2] * NUMA_PERIOD_SLOTS, buf[1] + buf[2] + 1)
    IN  IF ratio >= NUMA_PERIOD_THRESHOLD
        THEN Larger(ratio - NUMA_PERIOD_THRESHOLD, 1) * slot
        ELSE -((NUMA_PERIOD_THRESHOLD - ratio) * slot * sharing)

\* What the faults change the period by; division rounds towards zero.
Diff ==
    LET slot == DIV_ROUND_UP(numa_scan_period, NUMA_PERIOD_SLOTS)
        ratio == (local * NUMA_PERIOD_SLOTS) \div (local + remote)
        sharing == DIV_ROUND_UP(buf[2] * NUMA_PERIOD_SLOTS, buf[1] + buf[2] + 1)
    IN  IF ratio >= NUMA_PERIOD_THRESHOLD
        THEN Larger(ratio - NUMA_PERIOD_THRESHOLD, 1) * slot
        ELSE -(((NUMA_PERIOD_THRESHOLD - ratio) * slot * sharing) \div NUMA_PERIOD_SLOTS)

\* clamp of an unsigned sum: a negative one is larger than any bound.
Clamp(n) ==
    IF n < 0 THEN task_scan_max(windows)
    ELSE Smaller(Larger(n, task_scan_min(windows)), task_scan_max(windows))

Quiet == local + buf[1] = 0 \/ failed > 0

\* A quiet task's counters are kept when its period is doubled.
Kept == UNCHANGED <<remote, local, failed>>

\* task_numa_placement, then the fault is counted.
update_task_scan_period ==
    IF Quiet
    THEN /\ numa_scan_period' = Smaller(numa_scan_period_max', 2 * numa_scan_period)
         /\ Kept
    ELSE /\ numa_scan_period' = Clamp(numa_scan_period + Diff)
         /\ remote' = 0 /\ local' = 0 /\ failed' = 0

Placement ==
    /\ stale /\ stale' = FALSE
    /\ numa_scan_period_max' = task_scan_max(windows)
    /\ update_task_scan_period
    /\ buf' = <<0, 0>>
    /\ UNCHANGED windows

\* A fault of t: where, of which kind, and whether the page could not be moved.
Fault(isLocal, priv, fail) ==
    /\ ~stale
    /\ remote + local < MaxCount /\ failed < MaxCount
    /\ IF isLocal THEN local' = local + 1 /\ UNCHANGED remote
       ELSE remote' = remote + 1 /\ UNCHANGED local
    /\ failed' = failed + (IF fail THEN 1 ELSE 0)
    /\ buf' = [buf EXCEPT ![priv] = @ + 1]
    /\ UNCHANGED <<windows, numa_scan_period, numa_scan_period_max, stale>>

\* The scanner begins another pass.
NewSeq ==
    /\ ~stale /\ stale' = TRUE
    /\ UNCHANGED <<windows, numa_scan_period, numa_scan_period_max, remote, local, failed, buf>>

\* task_numa_migrate: the task goes to another node.
Migrated ==
    /\ numa_scan_period' = task_scan_min(windows)
    /\ UNCHANGED <<windows, numa_scan_period_max, remote, local, failed, buf, stale>>

\* The process grows or shrinks.
Resize ==
    /\ windows' \in Windows \ {windows}
    /\ UNCHANGED <<numa_scan_period, numa_scan_period_max, remote, local, failed, buf, stale>>

Next ==
    \/ Placement \/ NewSeq \/ Migrated \/ Resize
    \/ \E isLocal, fail \in BOOLEAN, priv \in {1, 2} : Fault(isLocal, priv, fail)

Spec == Init /\ [][Next]_vars

-----------------------------------------------------------------------------
\* The share of local faults is never one of none: whatever placements kept the
\* counters, they know of every fault in the buffers.
NoDivisionByZero == local + remote >= buf[1] + buf[2]

\* The period is one the scanner can use: not 0, and not above the maximum of
\* the smallest process.
PeriodInRange ==
    numa_scan_period \in 1 .. task_scan_max(CHOOSE w \in Windows : \A x \in Windows : w <= x)

\* The two together.
Inv == NoDivisionByZero /\ PeriodInRange

\* A task with mostly remote, private faults is scanned no less often than
\* before, unless its old period was below what is allowed now.
RemoteScansFaster ==
    [][Placement /\ ~Quiet /\ 10 * local < 7 * (local + remote)
        => numa_scan_period' <= Larger(numa_scan_period, task_scan_min(windows))]_vars
=============================================================================
