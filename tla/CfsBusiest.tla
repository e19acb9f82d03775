----------------------------- MODULE CfsBusiest -----------------------------
(***************************************************************************)
(* Which group and which queue a CPU should take tasks from, and how much  *)
(* of their load (find_busiest_group and find_busiest_queue of fair.c).    *)
(*                                                                         *)
(* An env is the struct lb_env of a balancing pass: dst (dst_cpu), level   *)
(* (of the sched_domain), idle, cpus.  A view v is what it reads of the    *)
(* runqueues, without their locks: nr_running and load of each CPU, and    *)
(* the imbalance flags of the groups.  The load history (cpu_load) is that *)
(* of a steady load; NUMA classes are left out (fbq_type all).             *)
(***************************************************************************)
EXTENDS Integers, FiniteSetsExt, Folds

CONSTANTS
    CPUs,           \* numbers
    Topology,       \* partition of CPUs into the spans of each level
    Capacity,       \* of each CPU, SCHED_CAPACITY_SCALE when nothing else runs on it
    imbalance_pct,
    Flags           \* subset of {"PREFER_SIBLING", "ASYM_PACKING"}

SCHED_CAPACITY_SCALE == 1024
NICE_0_LOAD == 1024

Levels == DOMAIN Topology
Spans(l) == IF l = 0 THEN {{c} : c \in CPUs} ELSE Topology[l]
Span(c, l) == CHOOSE s \in Spans(l) : c \in s
GroupOf(c, l) == Span(c, l - 1)
Groups(c, l) == {s \in Spans(l - 1) : s \subseteq Span(c, l)}

\* A domain with one group is none (sd_parent_degenerate).
HasDomain(c, l) == l \in Levels /\ Cardinality(Groups(c, l)) > 1

SumOver(f, S) == MapThenSumSet(LAMBDA x : f[x], S)

\* F(x), for an x that is worked out once however often F looks at it.
With(x, F(_)) == CHOOSE r \in {F(y) : y \in {x}} : TRUE

-----------------------------------------------------------------------------
(* Statistics of a group.                                                  *)

\* cpu_util, of a CPU whose tasks never sleep.
Util(v, c) == IF v.nr[c] > 0 THEN Capacity[c] ELSE 0

group_is_overloaded(s) ==
    s.nr > s.weight /\ s.capacity * 100 < s.util * imbalance_pct

group_has_capacity(s) ==
    s.nr < s.weight \/ s.capacity * 100 > s.util * imbalance_pct

\* The order of the types is that of enum group_type.
group_classify(s) ==
    [s EXCEPT !.type =
        CASE s.no_capacity -> 2 [] ~s.no_capacity /\ s.imbalanced -> 1 [] OTHER -> 0]

update_sg_lb_stats(env, v, g) ==
    LET on == g \cap env.cpus
        load == SumOver(v.load, on)
        nr == SumOver(v.nr, on)
        capacity == SumOver(Capacity, g)
        sgs == [group |-> g, load |-> load, nr |-> nr, capacity |-> capacity,
                util |-> SumOver([c \in on |-> Util(v, c)], on),
                idle_cpus |-> Cardinality({c \in on : v.nr[c] = 0}),
                avg |-> (load * SCHED_CAPACITY_SCALE) \div capacity,
                per_task |-> IF nr = 0 THEN 0 ELSE load \div nr,
                weight |-> Cardinality(g),
                imbalanced |-> g \in v.imbalance, no_capacity |-> FALSE, type |-> 0]
    IN  With(sgs, LAMBDA s : group_classify([s EXCEPT !.no_capacity = group_is_overloaded(s)]))

\* A group of lower priority than the local one is marked busy.
Asym == "ASYM_PACKING" \in Flags
sched_asym_prefer(a, b) == a < b
asym_prefer_cpu(g) == Min(g)

\* With SD_PREFER_SIBLING a group with more tasks than the local one is out of
\* capacity, if the local one has some.
Adjusted(s, local) ==
    group_classify([s EXCEPT !.no_capacity =
                        @ \/ ("PREFER_SIBLING" \in Flags /\ group_has_capacity(local)
                              /\ s.nr > local.nr + 1)])

\* update_sd_pick_busiest: whether s takes the place of b, the busiest so far.
update_sd_pick_busiest(env, s, b) ==
    \/ s.type > b.type
    \/ /\ s.type = b.type /\ s.avg > b.avg
       /\ \/ ~Asym \/ env.idle = "NOT_IDLE"
          \/ /\ s.nr > 0 /\ sched_asym_prefer(env.dst, asym_prefer_cpu(s.group))
             /\ b.group = {} \/ sched_asym_prefer(asym_prefer_cpu(b.group),
                                                  asym_prefer_cpu(s.group))

NoGroup == [group |-> {}, type |-> 0, avg |-> 0, nr |-> 0]

\* update_sd_lb_stats goes through the groups from the local one on.
update_sd_lb_stats(env, v, local) ==
    LET groups == Groups(env.dst, env.level)
        turn == [g \in groups |-> (Min(g) - Min(local.group)) % Cardinality(CPUs)]
        last(S) == CHOOSE g \in S : \A h \in S : turn[h] <= turn[g]
        busier(g, b) == With(Adjusted(update_sg_lb_stats(env, v, g), local),
                             LAMBDA s : IF update_sd_pick_busiest(env, s, b) THEN s ELSE b)
    IN  MapThenFoldSet(busier, NoGroup, LAMBDA g : g, last, groups \ {local.group})

-----------------------------------------------------------------------------
(* The amount of load to be moved.                                         *)

Least(a, b) == IF a < b THEN a ELSE b

\* fix_small_imbalance; otherwise is the imbalance found so far.
fix_small_imbalance(env, v, b, l0, otherwise) ==
    LET avgTask == IF v.nr[env.dst] = 0 THEN 0 ELSE v.load[env.dst] \div v.nr[env.dst]
        l == IF l0.nr = 0 THEN [l0 EXCEPT !.per_task = avgTask] ELSE l0
        imbn == IF l0.nr # 0 /\ b.per_task > l0.per_task THEN 1 ELSE 2
        scaled == (b.per_task * SCHED_CAPACITY_SCALE) \div b.capacity
        now == (b.capacity * Least(b.per_task, b.avg)
                + l.capacity * Least(l.per_task, l.avg)) \div SCHED_CAPACITY_SCALE
        less == IF b.avg > scaled THEN b.capacity * Least(b.per_task, b.avg - scaled) ELSE 0
        added == Least(b.avg * b.capacity, b.per_task * SCHED_CAPACITY_SCALE) \div l.capacity
        moved == (less + l.capacity * Least(l.per_task, l.avg + added))
                    \div SCHED_CAPACITY_SCALE
    IN  IF b.avg + scaled >= l.avg + scaled * imbn \/ moved > now
        THEN b.per_task ELSE otherwise

\* calculate_imbalance, with the average of all groups.
calculate_imbalance(env, v, b0, l, avg) ==
    LET b == IF b0.type = 1 THEN [b0 EXCEPT !.per_task = Least(@, avg)] ELSE b0
        excess == b.nr * SCHED_CAPACITY_SCALE - b.capacity
        gap == b.avg - avg
        max_pull == IF b.type = 2 /\ l.type = 2 /\ excess > 0
                    THEN Least(gap, (excess * NICE_0_LOAD) \div b.capacity) ELSE gap
        imbalance == Least(max_pull * b.capacity, (avg - l.avg) * l.capacity)
                        \div SCHED_CAPACITY_SCALE
    IN  IF b.avg <= avg \/ l.avg >= avg THEN fix_small_imbalance(env, v, b, l, 0)
        ELSE IF imbalance < b.per_task THEN fix_small_imbalance(env, v, b, l, imbalance)
        ELSE imbalance

Balanced == [group |-> {}, imbalance |-> 0]

\* Whether find_busiest_group leaves things as they are.
OutBalanced(env, b, l, avg) ==
    \/ b.nr = 0
    \/ /\ b.type # 1
       /\ ~(env.idle = "NEWLY_IDLE" /\ group_has_capacity(l) /\ b.no_capacity)
       /\ \/ l.avg >= b.avg
          \/ l.avg >= avg
          \/ IF env.idle = "IDLE" THEN b.type # 2 /\ l.idle_cpus <= b.idle_cpus + 1
             ELSE 100 * b.avg <= imbalance_pct * l.avg

\* check_asym_packing: the busiest group has a CPU of lower priority.
check_asym_packing(env, b) ==
    /\ Asym /\ env.idle # "NOT_IDLE"
    /\ ~sched_asym_prefer(asym_prefer_cpu(b.group), env.dst)

\* The average load of all groups.
AvgLoad(env, v) ==
    LET all == {update_sg_lb_stats(env, v, g) : g \in Groups(env.dst, env.level)}
    IN  (SCHED_CAPACITY_SCALE * SumOver([s \in all |-> s.load], all))
            \div SumOver([s \in all |-> s.capacity], all)

\* The busiest group, or none, and the load to move.
find_busiest_group(env, v) ==
    LET chosen(b, l, avg) ==
            CASE b.group = {} -> Balanced
              [] b.group # {} /\ check_asym_packing(env, b) ->
                    [group |-> b.group,
                     imbalance |-> (b.avg * b.capacity) \div SCHED_CAPACITY_SCALE]
              [] OTHER -> IF OutBalanced(env, b, l, avg) THEN Balanced
                          ELSE [group |-> b.group,
                                imbalance |-> calculate_imbalance(env, v, b, l, avg)]
    IN  With(update_sg_lb_stats(env, v, GroupOf(env.dst, env.level)), LAMBDA l :
          With(update_sd_lb_stats(env, v, l), LAMBDA b :
            With(AvgLoad(env, v), LAMBDA avg : chosen(b, l, avg))))

\* check_cpu_capacity: other classes or interrupts take much of the CPU.
check_cpu_capacity(c) == Capacity[c] * imbalance_pct < SCHED_CAPACITY_SCALE * 100

\* The queue of group g with the most load for its capacity, or -1: not one
\* whose only task is more than is to be moved.
find_busiest_queue(env, v, g, imbalance) ==
    LET fit == {c \in g \cap env.cpus :
                    /\ v.load[c] > 0
                    /\ v.nr[c] = 1 /\ v.load[c] > imbalance => check_cpu_capacity(c)}
        most == {c \in fit : \A d \in fit :
                    v.load[c] * Capacity[d] >= v.load[d] * Capacity[c]}
    IN  IF fit = {} THEN -1 ELSE Min(most)

\* should_we_balance: the first idle CPU of the group, or its first CPU.
should_we_balance(env, v) ==
    LET mask == GroupOf(env.cpu, env.level)
        idle == {c \in mask \cap env.cpus : v.nr[c] = 0}
    IN  \/ env.idle = "NEWLY_IDLE"
        \/ env.dst = Min(IF idle = {} THEN mask ELSE idle)
=============================================================================
