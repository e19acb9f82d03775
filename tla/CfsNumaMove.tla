----------------------------- MODULE CfsNumaMove -----------------------------
(***************************************************************************)
(* Where a task goes for its memory's sake (fair.c): its preferred node,   *)
(* and the search of task_numa_migrate for a CPU there or elsewhere, empty *)
(* or with a task to change places with.                                   *)
(*                                                                         *)
(* The search looks at one CPU after the other without locks, keeping a    *)
(* reference to the best task so far; each look is a step.  The faults of  *)
(* the tasks (module CfsNuma) stay as they are.  migrate_task_to and       *)
(* migrate_swap belong to the scheduler core.                              *)
(***************************************************************************)
EXTENDS Integers, FiniteSetsExt, Folds

CONSTANTS
    CPUs, Nodes,        \* numbers
    NodeOf,             \* cpu_to_node
    Tasks, NULL,
    Faults,             \* of a task on a node
    Group,              \* numa_group of a task, NULL for none
    Load,               \* task_h_load
    Allowed,            \* cpus_allowed
    Distance,           \* node_distance
    Topology,           \* "DIRECT", "GLUELESS_MESH" or "BACKPLANE"
    Trapped,            \* tasks in a cpuset without an SD_NUMA domain
    Searchers,          \* how many tasks may search at a time
    Churn               \* tasks end, and the load balancer moves them

VARIABLES
    at,                 \* CPU of a task
    st,                 \* "run", "exiting" or "gone"
    usage,              \* of a task_struct
    numa_preferred_nid,
    search              \* the task_numa_migrate of a task

vars == <<at, st, usage, numa_preferred_nid, search>>

LOCAL_DISTANCE == 10
imbalance_pct == 112
ACTIVE_NODE_FRACTION == 3
SumOver(f, S) == MapThenSumSet(LAMBDA x : f[x], S)
MaxDistance == Max({Distance[n][m] : n, m \in Nodes})
NoSearch == [pc |-> "none"]

-----------------------------------------------------------------------------
(* Faults and weights.                                                     *)

task_faults(t, n) == Faults[t][n]
group_faults(t, n) ==
    IF Group[t] = NULL THEN 0
    ELSE LET members == {u \in Tasks : Group[u] = Group[t]}
         IN  SumOver([u \in members |-> Faults[u][n]], members)

\* Nodes nearer than the farthest count, on a mesh the less the farther.
score_nearby_nodes(f, n, maxdist) ==
    LET near == {m \in Nodes : /\ m # n /\ Distance[n][m] # MaxDistance
                               /\ Topology = "BACKPLANE" => Distance[n][m] <= maxdist}
        scaled(m) == IF Topology = "GLUELESS_MESH"
                     THEN (f[m] * (MaxDistance - Distance[n][m])) \div (MaxDistance - LOCAL_DISTANCE)
                     ELSE f[m]
    IN  IF Topology = "DIRECT" THEN 0 ELSE SumOver([m \in near |-> scaled(m)], near)

Weight(f, n, dist) ==
    LET total == SumOver(f, Nodes)
    IN  IF total = 0 THEN 0 ELSE (1000 * (f[n] + score_nearby_nodes(f, n, dist))) \div total

task_weight(t, n, dist) == Weight([m \in Nodes |-> task_faults(t, m)], n, dist)
group_weight(t, n, dist) == Weight([m \in Nodes |-> group_faults(t, m)], n, dist)

\* The first of the nodes in S for which f is highest, nid when it is 0.
Best(f, S, nid) ==
    LET top == Max({f[n] : n \in S})
    IN  IF top = 0 THEN nid ELSE Min({n \in S : f[n] = top})

\* Node a leaves with those nearer than dist to it, as a group that is remembered
\* if no other one had more faults.
Split(t, dist, a, s) ==
    LET this_group == {b \in s.nodes : Distance[a][b] < dist}
        faults == SumOver([b \in this_group |-> group_faults(t, b)], this_group)
        left == s.nodes \ this_group
    IN  CASE a \notin s.nodes -> s
          [] a \in s.nodes /\ faults <= s.max_faults -> [s EXCEPT !.nodes = left]
          [] OTHER -> [nodes |-> left, max_faults |-> faults, max_group |-> this_group, nid |-> a]

\* One round of the search on a backplane: the group with most faults remains.
Round(t, dist, r) ==
    LET end == MapThenFoldSet(LAMBDA a, s : Split(t, dist, a, s),
                              [nodes |-> r.nodes, max_faults |-> 0, max_group |-> {},
                               nid |-> r.nid], LAMBDA a : a, Max, r.nodes)
    IN  IF r.done \/ end.max_faults = 0 THEN [r EXCEPT !.done = TRUE]
        ELSE [r EXCEPT !.nid = end.nid, !.nodes = end.max_group]

\* The distances between nodes that are not local.
Farther == {d \in {Distance[n][m] : n, m \in Nodes} : d > LOCAL_DISTANCE}

preferred_group_nid(t, nid) ==
    CASE Topology = "DIRECT" -> nid
      [] Topology = "GLUELESS_MESH" ->
           Best([n \in Nodes |-> group_weight(t, n, MaxDistance)], Nodes, nid)
      [] OTHER ->
           MapThenFoldSet(LAMBDA dist, r : Round(t, dist, r),
                          [nid |-> nid, nodes |-> Nodes, done |-> FALSE], LAMBDA dist : dist, Min,
                          Farther).nid

\* numa_group_count_active_nodes and numa_is_active_node, of faults by CPU that
\* are those by memory.
Active(t) == {n \in Nodes : group_faults(t, n) * ACTIVE_NODE_FRACTION
                                > Max({group_faults(t, m) : m \in Nodes})}

-----------------------------------------------------------------------------
Init ==
    /\ at \in {f \in [Tasks -> CPUs] : \A t \in Tasks : f[t] \in Allowed[t]}
    /\ st = [t \in Tasks |-> "run"]
    /\ usage = [t \in Tasks |-> 1]
    /\ numa_preferred_nid = [t \in Tasks |-> -1]
    /\ search = [t \in Tasks |-> NoSearch]

On(c) == {t \in Tasks : at[t] = c /\ st[t] # "gone"}
task_node(t) == NodeOf[at[t]]

\* The end of task_numa_placement.
Prefer(t) ==
    /\ st[t] = "run" /\ search[t].pc = "none" /\ \E n \in Nodes : Faults[t][n] > 0
    /\ numa_preferred_nid' = [numa_preferred_nid EXCEPT ![t] =
            IF Group[t] = NULL THEN Best([n \in Nodes |-> task_faults(t, n)], Nodes, -1)
            ELSE preferred_group_nid(t, Best([n \in Nodes |-> group_faults(t, n)], Nodes, -1))]
    /\ UNCHANGED <<at, st, usage, search>>

\* update_numa_stats, of CPUs with their full capacity.
update_numa_stats(n) ==
    LET cpus == {c \in CPUs : NodeOf[c] = n}
        nr == SumOver([c \in cpus |-> Cardinality(On(c))], cpus)
    IN  [nr_running |-> nr,
         load |-> SumOver([c \in cpus |-> SumOver(Load, On(c))], cpus),
         capacity |-> Cardinality(cpus), free |-> nr < Cardinality(cpus)]

\* Only to a node less busy than this one.
numa_has_capacity(src, dst) ==
    /\ ~(src.free /\ ~dst.free)
    /\ src.load * dst.capacity * imbalance_pct > dst.load * src.capacity * 100

Imb(e, src, dst) ==
    LET hi == IF dst < src THEN src ELSE dst
        lo == IF dst < src THEN dst ELSE src
    IN  hi * e.src.capacity * 100 - lo * e.dst.capacity * imbalance_pct

\* The loads differ by too much, and by more than before.
load_too_imbalanced(e, src, dst) ==
    Imb(e, src, dst) > 0 /\ Imb(e, src, dst) > Imb(e, e.src.load, e.dst.load)

CpusOf(t, n) == {c \in Allowed[t] : NodeOf[c] = n}

\* The CPUs of node n are next, if there is capacity.
Towards(e, n, dist, stats) ==
    [e EXCEPT !.dst_nid = n, !.dist = dist, !.dst = stats,
        !.taskimp = task_weight(e.p, n, dist) - task_weight(e.p, e.src_nid, dist),
        !.groupimp = group_weight(e.p, n, dist) - group_weight(e.p, e.src_nid, dist),
        !.cpus = IF numa_has_capacity(e.src, stats) THEN CpusOf(e.p, n) ELSE {}]

\* numa_migrate_preferred and the beginning of task_numa_migrate.
Start(t) ==
    LET pref == numa_preferred_nid[t]
        src == task_node(t)
        e == [pc |-> "look", p |-> t, src_cpu |-> at[t], src_nid |-> src, dst_nid |-> pref,
              dist |-> Distance[src][pref], src |-> update_numa_stats(src),
              dst |-> update_numa_stats(src), taskimp |-> 0, groupimp |-> 0, cpus |-> {},
              nodes |-> Nodes \ {src, pref}, wide |-> FALSE, best_task |-> NULL, best_imp |-> 0,
              best_cpu |-> -1]
    IN  /\ st[t] = "run" /\ search[t].pc = "none" /\ t \notin Trapped
        /\ Cardinality({u \in Tasks : search[u].pc = "look"}) < Searchers
        /\ pref # -1 /\ src # pref
        /\ search' = [search EXCEPT ![t] =
                        Towards(e, pref, Distance[src][pref], update_numa_stats(pref))]
        /\ UNCHANGED <<at, st, usage, numa_preferred_nid>>

\* A task that cannot be moved to another node stays content with its own.
Stay(t) ==
    /\ st[t] = "run" /\ t \in Trapped
    /\ numa_preferred_nid[t] \notin {-1, task_node(t)}
    /\ numa_preferred_nid' = [numa_preferred_nid EXCEPT ![t] = task_node(t)]
    /\ UNCHANGED <<at, st, usage, search>>

-----------------------------------------------------------------------------
(* task_numa_compare.                                                      *)

MoveImp(e) == IF Group[e.p] = NULL THEN e.taskimp ELSE e.groupimp
Toward0(n) == IF n < 0 THEN -((-n) \div 16) ELSE n \div 16

\* What is gained when p and cur change places.
SwapImp(e, cur) ==
    LET task == task_weight(cur, e.src_nid, e.dist) - task_weight(cur, e.dst_nid, e.dist)
        grp == group_weight(cur, e.src_nid, e.dist) - group_weight(cur, e.dst_nid, e.dist)
        same == e.taskimp + task
    IN  CASE Group[cur] = Group[e.p] -> same - (IF Group[cur] = NULL THEN 0 ELSE Toward0(same))
          [] Group[cur] # Group[e.p] -> MoveImp(e) + (IF Group[cur] = NULL THEN task ELSE grp)

\* Mutant: no gain is good enough.
Gains_Equal(e, imp) == imp >= e.best_imp

\* Better than the best so far.
Gains(e, imp) == imp > e.best_imp

\* The alternatives: change places with cur, just move, or neither.
Choice(e, c, cur) ==
    LET move == MoveImp(e)
        imp == IF cur = NULL THEN move ELSE SwapImp(e, cur)
        src == e.src.load - Load[e.p]
        dst == e.dst.load + Load[e.p]
        back == IF cur = NULL THEN 0 ELSE Load[cur]
    IN  CASE \/ cur = e.p
             \/ ~Gains(e, imp) /\ ~Gains(e, move)
             \/ cur = NULL /\ e.src.nr_running <= e.src.capacity /\ ~e.dst.free
             \/ cur # NULL /\ e.src_cpu \notin Allowed[cur]
             -> [kind |-> "none"]
          [] OTHER ->
             IF /\ cur # NULL /\ Gains(e, imp)
                /\ Cardinality(On(e.src_cpu)) = 1 /\ Cardinality(On(c)) = 1
             THEN [kind |-> "swap", imp |-> imp]
             ELSE IF move > imp /\ Gains(e, move) /\ ~load_too_imbalanced(e, src, dst)
             THEN [kind |-> "move", imp |-> move - 1]
             ELSE IF ~Gains(e, imp) \/ load_too_imbalanced(e, src + back, dst - back)
             THEN [kind |-> "none"]
             ELSE [kind |-> IF cur = NULL THEN "idle" ELSE "swap", imp |-> imp]

\* select_idle_sibling, of CPU c.
Sibling(t, c) ==
    IF On(c) = {} THEN {c}
    ELSE {c} \cup {d \in Allowed[t] : NodeOf[d] = NodeOf[c] /\ On(d) = {}}

\* put_task_struct of one task, get_task_struct of the other.
Refs(old, new) ==
    [t \in Tasks |-> usage[t] + (IF t = new THEN 1 ELSE 0) - (IF t = old THEN 1 ELSE 0)]

task_numa_assign(t, rest, c, cur, imp) ==
    /\ usage' = Refs(search[t].best_task, cur)
    /\ search' = [search EXCEPT ![t] = [rest EXCEPT !.best_task = cur, !.best_imp = imp,
                                                    !.best_cpu = c]]

\* The task running on the next CPU; an exiting one is as good as none.
Runs(c) ==
    IF On(c) = {} THEN {NULL} ELSE {IF st[u] = "exiting" THEN NULL ELSE u : u \in On(c)}

\* One turn of task_numa_find_cpu.
Compare(t) ==
    LET e == search[t]
        c == Min(e.cpus)
        rest == [e EXCEPT !.cpus = @ \ {c}]
    IN  /\ e.pc = "look" /\ e.cpus # {}
        /\ \E cur \in Runs(c) : \E x \in {Choice(e, c, cur)} :
             CASE x.kind = "none" ->
                    search' = [search EXCEPT ![t] = rest] /\ UNCHANGED usage
               [] x.kind = "swap" -> task_numa_assign(t, rest, c, cur, x.imp)
               [] x.kind = "move" -> task_numa_assign(t, rest, c, NULL, x.imp)
               [] x.kind = "idle" ->
                    \E d \in Sibling(t, c) : task_numa_assign(t, rest, d, NULL, x.imp)
        /\ UNCHANGED <<at, st, numa_preferred_nid>>

\* The other nodes are looked at when there is no place on the preferred one, or for
\* a group spread over several; this is not asked again from node to node.
Wider(e) == e.wide \/ e.best_cpu = -1 \/ Cardinality(Active(e.p)) > 1

\* Nodes where neither the task nor its group is worse off.
NextNode(t) ==
    LET e == search[t]
        n == Min(e.nodes)
        dist == Distance[e.src_nid][e.dst_nid]
        x == Towards(e, n, dist, update_numa_stats(n))
    IN  /\ e.pc = "look" /\ e.cpus = {} /\ e.nodes # {} /\ Wider(e)
        /\ search' = [search EXCEPT ![t] =
                IF x.taskimp < 0 /\ x.groupimp < 0
                THEN [e EXCEPT !.nodes = @ \ {n}, !.wide = TRUE]
                ELSE [x EXCEPT !.nodes = @ \ {n}, !.wide = TRUE]]
        /\ UNCHANGED <<at, st, usage, numa_preferred_nid>>

-----------------------------------------------------------------------------
(* The end of task_numa_migrate.                                           *)

\* The node looked at last becomes the preferred one of an interleaved group.
Remember(t) ==
    LET e == search[t]
    IN  IF Cardinality(Active(t)) > 1 /\ e.dst_nid \in Active(t)
        THEN [numa_preferred_nid EXCEPT ![t] = e.dst_nid] ELSE numa_preferred_nid

\* migrate_task_to and migrate_swap look at the tasks' CPUs again.
Moved(t, c) == IF c \in Allowed[t] THEN {at, [at EXCEPT ![t] = c]} ELSE {at}
Swapped(t, u) ==
    IF st[u] # "gone" /\ at[u] \in Allowed[t] /\ at[t] \in Allowed[u]
    THEN {at, [at EXCEPT ![t] = at[u], ![u] = at[t]]} ELSE {at}

Finish(t) ==
    LET e == search[t]
    IN  /\ e.pc = "look" /\ e.cpus = {}
        /\ e.nodes = {} \/ ~Wider(e)
        /\ numa_preferred_nid' = Remember(t)
        /\ at' \in CASE e.best_cpu = -1 -> {at}
                     [] e.best_cpu # -1 /\ e.best_task = NULL -> Moved(t, e.best_cpu)
                     [] OTHER -> Swapped(t, e.best_task)
        /\ usage' = Refs(e.best_task, NULL)
        /\ search' = [search EXCEPT ![t] = NoSearch]
        /\ UNCHANGED st

-----------------------------------------------------------------------------
(* The rest of the kernel.                                                 *)

Exit(t) ==
    /\ Churn /\ st[t] = "run" /\ search[t].pc = "none"
    /\ st' = [st EXCEPT ![t] = "exiting"]
    /\ UNCHANGED <<at, usage, numa_preferred_nid, search>>

Gone(t) ==
    /\ st[t] = "exiting"
    /\ st' = [st EXCEPT ![t] = "gone"]
    /\ usage' = [usage EXCEPT ![t] = @ - 1]
    /\ UNCHANGED <<at, numa_preferred_nid, search>>

Balance(t) ==
    /\ Churn /\ st[t] # "gone"
    /\ \E c \in Allowed[t] \ {at[t]} : at' = [at EXCEPT ![t] = c]
    /\ UNCHANGED <<st, usage, numa_preferred_nid, search>>

Search(t) == Compare(t) \/ NextNode(t) \/ Finish(t)

Next == \E t \in Tasks : \/ Prefer(t) \/ Stay(t) \/ Start(t) \/ Search(t)
                         \/ Exit(t) \/ Gone(t) \/ Balance(t)

Spec == Init /\ [][Next]_vars /\ \A t \in Tasks : WF_vars(Search(t))

-----------------------------------------------------------------------------
TypeOK ==
    /\ at \in [Tasks -> CPUs] /\ st \in [Tasks -> {"run", "exiting", "gone"}]
    /\ numa_preferred_nid \in [Tasks -> Nodes \cup {-1}]

\* Every reference that a search takes is given back, whichever candidates it
\* goes through and whoever ends meanwhile.
RefsBalanced ==
    \A t \in Tasks : usage[t] =
        (IF st[t] = "gone" THEN 0 ELSE 1)
            + Cardinality({u \in Tasks : search[u].pc = "look" /\ search[u].best_task = t})

\* A search for an improvement has found a place for it, where the task may go.
ChoiceSound ==
    \A t \in Tasks : search[t].pc = "look" =>
        /\ search[t].best_imp >= 0
        /\ search[t].best_task # NULL => search[t].best_cpu # -1 /\ search[t].best_task # t
        /\ search[t].best_cpu # -1 => search[t].best_cpu \in Allowed[t]

\* The three together.
Inv == TypeOK /\ RefsBalanced /\ ChoiceSound

\* Undisturbed, the tasks find their places: no two of them change places for
\* ever, whether they are in one group, in two or in none.
Settles == ~Churn => <>[][at' = at]_at

\* "remember this node as the task's preferred numa node": the node that a task
\* of an interleaved group moves into.
MovedIsPreferred ==
    [][\A t \in Tasks :
        /\ Finish(t) /\ at'[t] # at[t] /\ search[t].best_task = NULL
        /\ numa_preferred_nid' # numa_preferred_nid
        => numa_preferred_nid'[t] = NodeOf[at'[t]]]_vars
=============================================================================
