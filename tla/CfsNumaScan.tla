----------------------------- MODULE CfsNumaScan -----------------------------
(***************************************************************************)
(* The NUMA scanner of fair.c: the tasks of a process take turns in        *)
(* marking its pages, a window at a time, so that touching one of them     *)
(* faults.                                                                 *)
(*                                                                         *)
(* task_numa_work holds mmap_sem for reading only, so two tasks of the     *)
(* process can be in it; each turn of its loop is a step.  Addresses are   *)
(* page numbers, times are whether they have passed.                       *)
(***************************************************************************)
EXTENDS Integers, Sequences, FiniteSetsExt

CONSTANTS
    Tasks,          \* of the process
    Vmas,           \* sequence of [start, end, migratable], in the order of addresses
    scan_size,      \* sysctl_numa_balancing_scan_size, in pages
    HPAGE           \* pages of a huge page: windows end at a multiple of it

VARIABLES
    due,            \* numa_next_scan has passed
    numa_scan_offset,
    numa_scan_seq,  \* its parity
    marked,         \* pages that fault when touched
    placed,         \* tasks that have seen numa_scan_seq
    queued,         \* tasks whose numa_work is queued
    work            \* of a task: its task_numa_work

vars == <<due, numa_scan_offset, numa_scan_seq, marked, placed, queued, work>>

Pages == UNION {Vmas[i].start .. Vmas[i].end - 1 :
                    i \in {j \in DOMAIN Vmas : Vmas[j].migratable}}
Last == Vmas[Len(Vmas)].end
NoWork == [pc |-> "none"]

Init ==
    /\ due = FALSE /\ numa_scan_offset = 0 /\ numa_scan_seq = 0
    /\ marked = {} /\ placed = Tasks /\ queued = {}
    /\ work = [t \in Tasks |-> NoWork]

\* numa_next_scan passes.
Elapse ==
    /\ ~due /\ due' = TRUE
    /\ UNCHANGED <<numa_scan_offset, numa_scan_seq, placed, marked, queued, work>>

\* The work is queued once, when the task has run long enough.
task_tick_numa(t) ==
    /\ t \notin queued /\ due
    /\ queued' = queued \cup {t}
    /\ UNCHANGED <<due, numa_scan_offset, numa_scan_seq, placed, marked, work>>

\* task_numa_work runs as the task returns to user mode.
Work(t) ==
    /\ t \in queued /\ work[t].pc = "none"
    /\ queued' = queued \ {t}
    /\ work' = IF due THEN [work EXCEPT ![t] = [pc |-> "try", won |-> TRUE]] ELSE work
    /\ UNCHANGED <<due, numa_scan_offset, numa_scan_seq, placed, marked>>

\* The cmpxchg on numa_next_scan: one of the tasks that have seen the same time
\* wins.  It reads where to begin.
Lost(u) == IF work[u].pc = "try" THEN [work[u] EXCEPT !.won = FALSE] ELSE work[u]

Try(t) ==
    /\ work[t].pc = "try"
    /\ IF work[t].won
       THEN /\ due' = FALSE
            /\ work' = [u \in Tasks |->
                            IF u = t THEN [pc |-> "lock", start |-> numa_scan_offset]
                            ELSE Lost(u)]
       ELSE /\ work' = [work EXCEPT ![t] = NoWork]
            /\ UNCHANGED due
    /\ UNCHANGED <<numa_scan_offset, numa_scan_seq, placed, marked, queued>>

\* The VMA with or after address a, or one past the last.
find_vma(a) == Min({i \in DOMAIN Vmas : Vmas[i].end > a} \cup {Len(Vmas) + 1})

\* Mutant: the sequence number stays.
reset_ptenuma_scan_Offset ==
    /\ numa_scan_offset' = 0
    /\ UNCHANGED <<numa_scan_seq, placed>>

\* A pass over the memory is complete.
reset_ptenuma_scan ==
    /\ numa_scan_seq' = 1 - numa_scan_seq
    /\ numa_scan_offset' = 0
    /\ placed' = {}

\* down_read_trylock, which may fail, and the first VMA.
Lock(t) ==
    LET start == work[t].start
        i == find_vma(start)
        scan(s, v) == [pc |-> "scan", start |-> s, vma |-> v,
                       pages |-> scan_size, virtpages |-> 8 * scan_size]
    IN  /\ work[t].pc = "lock"
        /\ IF i <= Len(Vmas)
           THEN /\ work' = [work EXCEPT ![t] = scan(start, i)]
                /\ UNCHANGED <<numa_scan_offset, numa_scan_seq, placed>>
           ELSE /\ work' = [work EXCEPT ![t] = scan(0, 1)]
                /\ reset_ptenuma_scan
        /\ UNCHANGED <<due, marked, queued>>

Locked(t) ==
    /\ work[t].pc = "lock"
    /\ work' = [work EXCEPT ![t] = NoWork]
    /\ UNCHANGED <<due, numa_scan_offset, numa_scan_seq, placed, marked, queued>>

Larger(a, b) == IF a < b THEN b ELSE a
Smaller(a, b) == IF a < b THEN a ELSE b
Align(a) == HPAGE * ((a + HPAGE - 1) \div HPAGE)

\* One call of change_prot_numa: a window with pages to mark counts for the
\* pages, any for the virtual space.
Chunk(t) ==
    LET w == work[t]
        v == Vmas[w.vma]
        start == Larger(w.start, v.start)
        end == Smaller(Align(start + w.pages), v.end)
        pages == start .. end - 1
        left == IF pages \subseteq marked THEN w.pages ELSE w.pages - (end - start)
        virt == w.virtpages - (end - start)
        stop == left <= 0 \/ virt <= 0
    IN  /\ w.pc = "scan" /\ w.vma <= Len(Vmas) /\ v.migratable
        /\ marked' = marked \cup pages
        /\ work' = [work EXCEPT ![t] =
                [w EXCEPT !.pc = IF stop THEN "out" ELSE "scan", !.start = end,
                          !.pages = left, !.virtpages = virt,
                          !.vma = IF end = v.end /\ ~stop THEN @ + 1 ELSE @]]
        /\ UNCHANGED <<due, numa_scan_offset, numa_scan_seq, placed, queued>>

\* A VMA that is not to be scanned, or the end of the list.
Skip(t) ==
    LET w == work[t]
    IN  /\ w.pc = "scan" /\ (w.vma <= Len(Vmas) => ~Vmas[w.vma].migratable)
        /\ work' = [work EXCEPT ![t] =
                IF w.vma > Len(Vmas) THEN [w EXCEPT !.pc = "out"] ELSE [w EXCEPT !.vma = @ + 1]]
        /\ UNCHANGED <<due, numa_scan_offset, numa_scan_seq, placed, marked, queued>>

Out(t) ==
    /\ work[t].pc = "out"
    /\ IF work[t].vma <= Len(Vmas)
       THEN numa_scan_offset' = work[t].start /\ UNCHANGED <<numa_scan_seq, placed>>
       ELSE reset_ptenuma_scan
    /\ work' = [work EXCEPT ![t] = NoWork]
    /\ UNCHANGED <<due, marked, queued>>

\* A task touches a page: its hinting fault.  The first one of a pass leads to
\* a placement, which puts the next scan off when there was little to count.
Touch(t, p) ==
    /\ p \in marked
    /\ marked' = marked \ {p}
    /\ placed' = placed \cup {t}
    /\ \/ UNCHANGED <<due, work>>
       \/ /\ t \notin placed
          /\ due' = FALSE
          /\ work' = [u \in Tasks |-> Lost(u)]
    /\ UNCHANGED <<numa_scan_offset, numa_scan_seq, queued>>

Step(t) == Work(t) \/ Try(t) \/ Lock(t) \/ Chunk(t) \/ Skip(t) \/ Out(t)

Next ==
    \/ Elapse
    \/ \E t \in Tasks : task_tick_numa(t) \/ Step(t) \/ Locked(t)
    \/ \E t \in Tasks, p \in Pages : work[t].pc = "none" /\ Touch(t, p)

\* Time passes; the tasks run, and mmap_sem is not held for writing each
\* time that one of them tries it.
Fairness ==
    /\ WF_vars(Elapse) /\ SF_vars(\E t \in Tasks : Lock(t))
    /\ \A t \in Tasks : WF_vars(task_tick_numa(t)) /\ WF_vars(Step(t))

Spec == Init /\ [][Next]_vars /\ Fairness

-----------------------------------------------------------------------------
TypeOK ==
    /\ due \in BOOLEAN /\ numa_scan_seq \in {0, 1}
    /\ numa_scan_offset \in 0 .. Last /\ marked \subseteq Pages
    /\ placed \subseteq Tasks /\ queued \subseteq Tasks

\* A window stays inside one VMA, ends past its beginning, and the budget of
\* pages left is one that ALIGN cannot have made negative.
WindowSound ==
    \A t \in Tasks : work[t].pc = "scan" =>
        /\ work[t].pages \in 1 .. scan_size /\ work[t].virtpages > 0
        /\ work[t].vma <= Len(Vmas) => work[t].start < Vmas[work[t].vma].end

\* The two together.
Inv == TypeOK /\ WindowSound

\* The scan goes round: every page that may be scanned is marked again and
\* again, and passes end, however the tasks race for the offset.
EveryPageScanned ==
    /\ \A p \in Pages : []<>(p \in marked)
    /\ []<>(numa_scan_seq = 0) /\ []<>(numa_scan_seq = 1)
=============================================================================
