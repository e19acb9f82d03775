------------------------------ MODULE CfsNuma ------------------------------
(***************************************************************************)
(* NUMA faults and NUMA groups (fair.c).  A task keeps its hinting faults; *)
(* tasks that touch the same pages join a group, which keeps the sums of   *)
(* its members' faults.  A group is found through the task that runs on    *)
(* another CPU, without its lock: the reference count and RCU keep it.     *)
(*                                                                         *)
(* The parts of task_numa_fault between which other CPUs may run are steps *)
(* of their own.  The faults are those by memory node; the ones by CPU     *)
(* node move along with them.  Nodes are directly connected.               *)
(***************************************************************************)
EXTENDS Integers, FiniteSetsExt

CONSTANTS
    Tasks,
    Nodes,          \* numbers
    Touches,        \* the nodes with the memory of a task
    Addresses,      \* where a group may be allocated, numbers above 0
    MaxFaults       \* bound on the number of faults

NULL == 0
Cells == Nodes \X {0, 1}        \* node and priv

VARIABLES
    numa_faults,    \* of a task, averaged
    membuf,         \* of a task, since the last placement
    numa_group,     \* of a task: address or NULL
    preferred_nid,  \* of a task, or -1
    fresh,          \* tasks that have not seen the current numa_scan_seq
    fault,          \* of a task: the fault it handles
    group,          \* what is at an address
    nfaults         \* faults so far

vars == <<numa_faults, membuf, numa_group, preferred_nid, fresh, fault, group, nfaults>>

NoFaults == [c \in Cells |-> 0]
NoGroup == [refcount |-> 0, nr_tasks |-> 0, faults |-> NoFaults, rcu |-> FALSE]
NoFault == [pc |-> "none"]
SumOver(f, S) == MapThenSumSet(LAMBDA x : f[x], S)
Total(f) == SumOver(f, Cells)
OnNode(f, n) == f[<<n, 0>>] + f[<<n, 1>>]
Plus(f, g) == [c \in Cells |-> f[c] + g[c]]
Minus(f, g) == [c \in Cells |-> f[c] - g[c]]

Init ==
    /\ numa_faults = [t \in Tasks |-> NoFaults]
    /\ membuf = [t \in Tasks |-> NoFaults]
    /\ numa_group = [t \in Tasks |-> NULL]
    /\ preferred_nid = [t \in Tasks |-> -1]
    /\ fresh = {}
    /\ fault = [t \in Tasks |-> NoFault]
    /\ group = [g \in Addresses |-> NoGroup]
    /\ nfaults = 0

\* The memory at address g is not in use.
Free(g) == group[g].refcount = 0 /\ ~group[g].rcu

Goto(t, pc) == fault' = [fault EXCEPT ![t].pc = pc]

-----------------------------------------------------------------------------
(* task_numa_fault and task_numa_group.                                    *)

\* A group of its own for the task; the allocation may fail.
Create(t) ==
    \/ UNCHANGED <<numa_group, group>>
    \/ \E g \in Addresses :
         /\ Free(g)
         /\ group' = [group EXCEPT ![g] = [refcount |-> 1, nr_tasks |-> 1,
                                           faults |-> numa_faults[t], rcu |-> FALSE]]
         /\ numa_group' = [numa_group EXCEPT ![t] = g]

\* A fault on a page of node n.  Nobody or the task itself was the last to
\* touch it, or grouping is off (TNF_NO_GROUP): nothing but its placement is
\* left to do.
task_numa_fault(t) ==
    /\ fault[t].pc = "none" /\ nfaults < MaxFaults
    /\ nfaults' = nfaults + 1
    /\ \E n \in Touches[t], priv \in {0, 1} :
          fault' = [fault EXCEPT ![t] = [pc |-> "place", node |-> n, priv |-> priv]]
    /\ UNCHANGED <<numa_faults, membuf, numa_group, preferred_nid, fresh, group>>

\* Task u was the last to touch the page; join says whether it is of the same
\* process or the page is shared (TNF_SHARED).
task_numa_group(t) ==
    /\ fault[t].pc = "none" /\ nfaults < MaxFaults
    /\ nfaults' = nfaults + 1
    /\ IF numa_group[t] = NULL THEN Create(t) ELSE UNCHANGED <<numa_group, group>>
    /\ \E n \in Touches[t], u \in Tasks \ {t}, join \in BOOLEAN :
          fault' = [fault EXCEPT ![t] =
                [pc |-> IF numa_group'[t] = NULL THEN "place" ELSE "look",
                 node |-> n, priv |-> 0, tsk |-> u, join |-> join, grp |-> NULL]]
    /\ UNCHANGED <<numa_faults, membuf, preferred_nid, fresh>>

\* Whether a member of group my should leave it for group g: g is larger, or
\* as large and at a higher address.
Better(g, my) ==
    /\ g # NULL /\ g # my
    /\ \/ group[my].nr_tasks < group[g].nr_tasks
       \/ group[my].nr_tasks = group[g].nr_tasks /\ my < g

\* The other task's group is looked at; the task may be gone from its CPU.
Look(t) ==
    LET f == fault[t]
    IN  /\ f.pc = "look"
        /\ \E g \in {NULL, numa_group[f.tsk]} :
             fault' = [fault EXCEPT ![t] =
                CASE ~Better(g, numa_group[t]) -> [f EXCEPT !.pc = "place"]
                  [] Better(g, numa_group[t]) /\ ~f.join ->
                        [f EXCEPT !.pc = "place", !.priv = 1]
                  [] OTHER -> [f EXCEPT !.pc = "get", !.grp = g]]
        /\ UNCHANGED <<numa_faults, membuf, numa_group, preferred_nid, fresh, group, nfaults>>

\* Mutant: the reference is taken whatever the count.
get_numa_group_Always(g) == TRUE

\* atomic_inc_not_zero
get_numa_group(g) == group[g].refcount # 0

Get(t) ==
    LET g == fault[t].grp
    IN  /\ fault[t].pc = "get"
        /\ IF get_numa_group(g)
           THEN /\ group' = [group EXCEPT ![g].refcount = @ + 1]
                /\ Goto(t, "move")
           ELSE UNCHANGED group /\ Goto(t, "place")
        /\ UNCHANGED <<numa_faults, membuf, numa_group, preferred_nid, fresh, nfaults>>

\* With the locks of both groups.
Move(t) ==
    LET g == fault[t].grp
        my == numa_group[t]
    IN  /\ fault[t].pc = "move"
        /\ group' = [group EXCEPT
                ![my].faults = Minus(@, numa_faults[t]), ![my].nr_tasks = @ - 1,
                ![g].faults = Plus(@, numa_faults[t]), ![g].nr_tasks = @ + 1]
        /\ Goto(t, "assign")
        /\ UNCHANGED <<numa_faults, membuf, numa_group, preferred_nid, fresh, nfaults>>

\* put_numa_group: the last reference gives the group to kfree_rcu.
put_numa_group(g) ==
    group' = [group EXCEPT ![g].refcount = @ - 1, ![g].rcu = group[g].refcount = 1]

Assign(t) ==
    /\ fault[t].pc = "assign"
    /\ numa_group' = [numa_group EXCEPT ![t] = fault[t].grp]
    /\ put_numa_group(numa_group[t])
    /\ Goto(t, "place")
    /\ UNCHANGED <<numa_faults, membuf, preferred_nid, fresh, nfaults>>

-----------------------------------------------------------------------------
(* task_numa_placement.                                                    *)

\* What the average of a task changes by: it is halved, the new ones are added.
Diff(t) == [c \in Cells |-> membuf[t][c] - numa_faults[t][c] \div 2]

\* The node with most faults, the first of several; -1 when there are none.
MaxNid(f) ==
    LET best == {n \in Nodes : OnNode(f, n) > 0 /\ \A o \in Nodes : OnNode(f, o) <= OnNode(f, n)}
    IN  IF best = {} THEN -1 ELSE Min(best)

\* The group's sums, changed under its lock along with the task's.
Placed(t) ==
    IF numa_group[t] = NULL THEN group
    ELSE [group EXCEPT ![numa_group[t]].faults = Plus(@, Diff(t))]

\* The end of task_numa_fault: the placement, once for each numa_scan_seq, and
\* the new fault.  A member of a group prefers its group's node.
task_numa_placement(t) ==
    /\ fault[t].pc = "place"
    /\ LET cell == <<fault[t].node, fault[t].priv>>
           mine == Plus(numa_faults[t], Diff(t))
           g == numa_group[t]
           nid == IF g = NULL THEN MaxNid(mine) ELSE MaxNid(Placed(t)[g].faults)
       IN  IF t \in fresh
           THEN /\ numa_faults' = [numa_faults EXCEPT ![t] = mine]
                /\ membuf' = [membuf EXCEPT ![t] = [NoFaults EXCEPT ![cell] = 1]]
                /\ group' = Placed(t)
                /\ preferred_nid' = IF Total(mine) > 0
                                    THEN [preferred_nid EXCEPT ![t] = nid] ELSE preferred_nid
                /\ fresh' = fresh \ {t}
           ELSE /\ membuf' = [membuf EXCEPT ![t][cell] = @ + 1]
                /\ UNCHANGED <<numa_faults, group, preferred_nid, fresh>>
    /\ fault' = [fault EXCEPT ![t] = NoFault]
    /\ UNCHANGED <<numa_group, nfaults>>

-----------------------------------------------------------------------------
\* task_numa_free, of a task that runs no more: its faults are taken out under
\* the group's lock, then its reference is given back.
FreeFaults(t) ==
    /\ fault[t].pc = "none"
    /\ LET g == numa_group[t]
       IN  group' = IF g = NULL THEN group
                    ELSE [group EXCEPT ![g].faults = Minus(@, numa_faults[t]),
                                       ![g].nr_tasks = @ - 1]
    /\ Goto(t, "free")
    /\ UNCHANGED <<numa_faults, membuf, numa_group, preferred_nid, fresh, nfaults>>

FreeGroup(t) ==
    /\ fault[t].pc = "free"
    /\ IF numa_group[t] = NULL THEN UNCHANGED group ELSE put_numa_group(numa_group[t])
    /\ numa_group' = [numa_group EXCEPT ![t] = NULL]
    /\ numa_faults' = [numa_faults EXCEPT ![t] = NoFaults]
    /\ membuf' = [membuf EXCEPT ![t] = NoFaults]
    /\ Goto(t, "dead")
    /\ UNCHANGED <<preferred_nid, fresh, nfaults>>

\* reset_ptenuma_scan: a pass over the memory begins.
Scan ==
    /\ fresh' = {t \in Tasks : fault[t].pc # "dead"}
    /\ UNCHANGED <<numa_faults, membuf, numa_group, preferred_nid, fault, group, nfaults>>

\* The grace period is over: nobody who saw the group is still looking at it.
Reclaim(g) ==
    /\ group[g].rcu
    /\ \A t \in Tasks : fault[t].pc = "get" => fault[t].grp # g
    /\ group' = [group EXCEPT ![g] = NoGroup]
    /\ UNCHANGED <<numa_faults, membuf, numa_group, preferred_nid, fresh, fault, nfaults>>

Next ==
    \/ \E t \in Tasks : \/ task_numa_fault(t) \/ task_numa_group(t) \/ Look(t) \/ Get(t) \/ Move(t)
                        \/ Assign(t) \/ task_numa_placement(t)
                        \/ FreeFaults(t) \/ FreeGroup(t)
    \/ Scan
    \/ \E g \in Addresses : Reclaim(g)

Spec == Init /\ [][Next]_vars

-----------------------------------------------------------------------------
TypeOK ==
    /\ numa_faults \in [Tasks -> [Cells -> Nat]]
    /\ membuf \in [Tasks -> [Cells -> Nat]]
    /\ numa_group \in [Tasks -> Addresses \cup {NULL}]
    /\ preferred_nid \in [Tasks -> Nodes \cup {-1}]

\* The group whose sums hold the faults of task t.
CountedIn(t) ==
    CASE fault[t].pc = "assign" -> fault[t].grp
      [] fault[t].pc = "free" -> NULL
      [] OTHER -> numa_group[t]

\* A group's sums are those of its members, who join, leave and age their
\* faults under different locks: the unsigned sums never wrap round.
SumsMatch ==
    \A g \in Addresses :
        LET members == {t \in Tasks : CountedIn(t) = g}
        IN  /\ group[g].nr_tasks = Cardinality(members)
            /\ \A c \in Cells : group[g].faults[c] = SumOver([t \in members |-> numa_faults[t][c]], members)

\* A group is freed when the last task that refers to it lets go, and not
\* before, whoever joins it meanwhile.
RefsMatch ==
    \A g \in Addresses :
        group[g].refcount =
              Cardinality({t \in Tasks : numa_group[t] = g})
            + Cardinality({t \in Tasks : fault[t].pc \in {"move", "assign"} /\ fault[t].grp = g})

\* A task with faults has a node to go to: a group never looks empty to a
\* member that has faults.
Placeable == \A t \in Tasks : Total(numa_faults[t]) > 0 => preferred_nid[t] # -1

\* The four together.
Inv == TypeOK /\ SumsMatch /\ RefsMatch /\ Placeable
=============================================================================
