----------------------------- MODULE CfsBalance -----------------------------
(***************************************************************************)
(* Load balancing (fair.c): load_balance with its retries, the detaching   *)
(* and attaching of tasks, newly idle balancing and active balancing by    *)
(* the stopper of the busiest CPU.                                         *)
(*                                                                         *)
(* What load_balance reads of other CPUs it reads without their locks; it  *)
(* holds the lock of the source while it detaches tasks and that of the    *)
(* destination while it attaches them, one after the other.  Each of these *)
(* is a step.  The queues are shorter than sched_nr_migrate_break, the     *)
(* balancing intervals are left out.                                       *)
(***************************************************************************)
EXTENDS CfsBusiest, SequencesExt

CONSTANTS
    Tasks, None,
    Load,               \* task_h_load
    Allowed,            \* cpus_allowed
    CacheHot,           \* tasks that may be cache-hot
    cache_nice_tries,   \* of every domain
    Churn,              \* tasks sleep, wake up and take turns
    Balancers           \* how many CPUs may balance at a time

VARIABLES
    at,         \* CPU of a task; it is asleep, queued or on its way there
    st,         \* state of a task
    curr,       \* running task of a CPU, or None
    failed,     \* nr_balance_failed of a domain: <<CPU, level>>
    imbalance,  \* groups with sgc->imbalance set
    push,       \* of a CPU: push_cpu, or -1 when active_balance is 0
    lb          \* the load_balance under way on a CPU

vars == <<at, st, curr, failed, imbalance, push, lb>>

Domains == {d \in CPUs \X Levels : HasDomain(d[1], d[2])}
IdleTypes == {"IDLE", "NOT_IDLE", "NEWLY_IDLE"}
NoLb == [pc |-> "none"]

On(c) == {t \in Tasks : st[t] = "queued" /\ at[t] = c}
View == [nr |-> [c \in CPUs |-> Cardinality(On(c))],
         load |-> [c \in CPUs |-> SumOver(Load, On(c))],
         imbalance |-> imbalance]

Init ==
    /\ at \in {f \in [Tasks -> CPUs] : \A t \in Tasks : f[t] \in Allowed[t]}
    /\ st = [t \in Tasks |-> "queued"]
    /\ curr = [c \in CPUs |-> IF On(c) = {} THEN None ELSE CHOOSE t \in On(c) : TRUE]
    /\ failed = [d \in Domains |-> 0]
    /\ imbalance = {}
    /\ push = [c \in CPUs |-> -1]
    /\ lb = [c \in CPUs |-> NoLb]

-----------------------------------------------------------------------------
(* load_balance until the source is known.                                 *)

\* Env at the label redo, of a pass on CPU c.
NewEnv(c, l, idle) ==
    [pc |-> "redo", cpu |-> c, dst |-> c, level |-> l, idle |-> idle, cpus |-> Span(c, l),
     src |-> -1, imbalance |-> 0, all_pinned |-> FALSE, some_pinned |-> FALSE,
     new_dst |-> -1, tasks |-> {}, moved |-> FALSE]

\* rebalance_domains and idle_balance.  A CPU that is about to be idle looks
\* whether another one has tasks to spare (rd->overload).
Start(c, l, idle) ==
    /\ lb[c].pc = "none" /\ HasDomain(c, l)
    /\ Cardinality({d \in CPUs : lb[d].pc # "none"}) < Balancers
    /\ idle = "NOT_IDLE" <=> curr[c] # None
    /\ idle = "NEWLY_IDLE" => \E d \in CPUs : Cardinality(On(d)) > 1
    /\ lb' = [lb EXCEPT ![c] = NewEnv(c, l, idle)]
    /\ UNCHANGED <<at, st, curr, failed, imbalance, push>>

Parent(e) == GroupOf(e.cpu, e.level + 1)
HasParent(e) == HasDomain(e.cpu, e.level + 1)
Sd(e) == <<e.cpu, e.level>>

\* out_balanced.
Redo(c) ==
    LET e == lb[c]
    IN  /\ e.pc = "redo"
        /\ \E v \in {View} : \E f \in {find_busiest_group(e, v)} :
           \E src \in {find_busiest_queue(e, v, f.group, f.imbalance)} :
           IF ~should_we_balance(e, v) \/ f.group = {} \/ src = -1
           THEN /\ lb' = [lb EXCEPT ![c] = NoLb]
                /\ failed' = [failed EXCEPT ![Sd(e)] = 0]
                /\ imbalance' = IF HasParent(e) THEN imbalance \ {Parent(e)} ELSE imbalance
           ELSE /\ lb' = [lb EXCEPT ![c] =
                    [e EXCEPT !.pc = IF v.nr[src] > 1 THEN "detach" ELSE "nothing",
                              !.src = src, !.imbalance = f.imbalance,
                              !.all_pinned = @ \/ v.nr[src] > 1]]
                /\ UNCHANGED <<failed, imbalance>>
        /\ UNCHANGED <<at, st, curr, push>>

-----------------------------------------------------------------------------
(* detach_tasks and attach_tasks.                                          *)

\* Mutant: the running task is taken, too.
MayTake_Running(e, t, hot) == t \notin hot \/ failed[Sd(e)] > cache_nice_tries

\* can_migrate_task, of a task that may run on the destination: not the
\* running one, and a cache-hot one only after several failures.
MayTake(e, t, hot) ==
    /\ curr[e.src] # t
    /\ t \notin hot \/ failed[Sd(e)] > cache_nice_tries

\* One turn of the loop in detach_tasks for a task that may not run on the
\* destination: is there another CPU of the group for it?
Pinned(e, t) ==
    LET cpus == GroupOf(e.cpu, e.level) \cap e.cpus \cap Allowed[t]
    IN  [e EXCEPT !.some_pinned = TRUE,
                  !.new_dst = IF e.idle = "NEWLY_IDLE" \/ @ # -1 \/ cpus = {} THEN @
                              ELSE Min(cpus)]

\* Mutant: a task that is running or cache-hot counts as pinned, too.
Taken_StaysPinned(e, t, hot) ==
    IF MayTake(e, t, hot) /\ Load[t] \div 2 <= e.imbalance
    THEN [e EXCEPT !.all_pinned = FALSE, !.tasks = @ \cup {t}, !.imbalance = @ - Load[t]]
    ELSE e

\* Not all tasks are pinned, even if this one stays for another reason.
Taken(e, t, hot) ==
    LET x == [e EXCEPT !.all_pinned = FALSE]
    IN  IF MayTake(e, t, hot) /\ Load[t] \div 2 <= e.imbalance
        THEN [x EXCEPT !.tasks = @ \cup {t}, !.imbalance = @ - Load[t]] ELSE x

\* Whether the loop stops: "we don't want to steal all", enough has been
\* taken, or one task has, for a newly idle CPU (CONFIG_PREEMPT).
Enough(e) ==
    \/ e.idle # "NOT_IDLE" /\ Cardinality(On(e.src) \ e.tasks) <= 1
    \/ e.imbalance <= 0
    \/ e.idle = "NEWLY_IDLE" /\ e.tasks # {}

detach_tasks(e, order, hot) ==
    LET turn(x, t) == IF Enough(x) THEN x
                      ELSE IF x.dst \notin Allowed[t] THEN Pinned(x, t) ELSE Taken(x, t, hot)
    IN  FoldLeft(LAMBDA x, t : With(x, LAMBDA y : turn(y, t)), e, order)

Detach(c) ==
    LET e == lb[c]
    IN  /\ e.pc = "detach"
        /\ \E order \in SetToSeqs(On(e.src)), hot \in SUBSET CacheHot :
             \E x \in {detach_tasks(e, order, hot)} :
                 /\ lb' = [lb EXCEPT ![c] = [x EXCEPT !.pc = "attach",
                                                      !.moved = @ \/ x.tasks # {}]]
                 /\ st' = [t \in Tasks |-> IF t \in x.tasks THEN "migrating" ELSE st[t]]
                 /\ at' = [t \in Tasks |-> IF t \in x.tasks THEN e.dst ELSE at[t]]
        /\ UNCHANGED <<curr, failed, imbalance, push>>

\* The tasks that may not run on the destination are looked at again, for
\* another CPU of the group.
Revisit(e) ==
    [e EXCEPT !.pc = "detach", !.dst = e.new_dst, !.new_dst = -1, !.cpus = @ \ {e.dst}]

\* What is next after the tasks have been attached.
Attached(e) ==
    LET cpus == e.cpus \ {e.src}
    IN  CASE e.new_dst # -1 /\ e.imbalance > 0 -> Revisit(e)
          [] /\ ~(e.new_dst # -1 /\ e.imbalance > 0) /\ e.all_pinned
             -> IF cpus \subseteq GroupOf(e.cpu, e.level) THEN [e EXCEPT !.pc = "all_pinned"]
                ELSE [e EXCEPT !.pc = "redo", !.cpus = cpus]
          [] OTHER -> [e EXCEPT !.pc = IF e.moved THEN "moved" ELSE "nothing"]

Attach(c) ==
    LET e == lb[c]
        x == Attached([e EXCEPT !.tasks = {}])
    IN  /\ e.pc = "attach"
        /\ st' = [t \in Tasks |-> IF t \in e.tasks THEN "queued" ELSE st[t]]
        /\ imbalance' = IF /\ x.pc # "detach" /\ HasParent(e)
                           /\ e.some_pinned /\ e.imbalance > 0
                        THEN imbalance \cup {Parent(e)} ELSE imbalance
        /\ lb' = [lb EXCEPT ![c] = x]
        /\ UNCHANGED <<at, curr, failed, push>>

-----------------------------------------------------------------------------
(* The end of load_balance.                                                *)

need_active_balance(e, fails) ==
    \/ e.idle = "NEWLY_IDLE" /\ Asym /\ sched_asym_prefer(e.dst, e.src)
    \/ /\ e.idle # "NOT_IDLE" /\ Cardinality(On(e.src)) = 1
       /\ check_cpu_capacity(e.src)
       /\ Capacity[e.src] * imbalance_pct < Capacity[e.dst] * 100
    \/ fails > cache_nice_tries + 2

\* Tasks have been moved, or all are pinned.
Done(c) ==
    /\ lb[c].pc \in {"moved", "all_pinned"}
    /\ failed' = [failed EXCEPT ![Sd(lb[c])] = 0]
    /\ lb' = [lb EXCEPT ![c] = NoLb]
    /\ UNCHANGED <<at, st, curr, imbalance, push>>

\* ->active_balance is cleared when the push is over.
Pushed(src, c) == IF push[src] = -1 THEN [push EXCEPT ![src] = c] ELSE push

\* No task could be moved: after some more times the running one is pushed.
Nothing(c) ==
    LET e == lb[c]
        fails == failed[Sd(e)] + (IF e.idle = "NEWLY_IDLE" THEN 0 ELSE 1)
        movable == curr[e.src] # None /\ e.cpu \in Allowed[curr[e.src]]
    IN  /\ e.pc = "nothing"
        /\ IF need_active_balance(e, fails) /\ movable
           THEN /\ push' = Pushed(e.src, e.cpu)
                /\ failed' = [failed EXCEPT ![Sd(e)] = cache_nice_tries + 1]
           ELSE /\ UNCHANGED push
                /\ failed' = [failed EXCEPT ![Sd(e)] = Least(fails, cache_nice_tries + 3)]
        /\ lb' = [lb EXCEPT ![c] = NoLb]
        /\ UNCHANGED <<at, st, curr, imbalance>>

\* active_load_balance_cpu_stop, on the busiest CPU itself: no task runs.  The
\* task is attached by another step.
ActiveStop(c) ==
    LET target == push[c]
        level == Min({l \in Levels : c \in Span(target, l)})
    IN  /\ target # -1
        /\ push' = [push EXCEPT ![c] = -1]
        /\ \E hot \in SUBSET CacheHot :
             LET fit == {t \in On(c) : target \in Allowed[t]
                            /\ (t \notin hot \/ failed[<<target, level>>] > cache_nice_tries)}
             IN  IF Cardinality(On(c)) <= 1 \/ fit = {}
                 THEN UNCHANGED <<at, st, curr, failed>>
                 ELSE \E t \in fit :
                      /\ st' = [st EXCEPT ![t] = "pushed"]
                      /\ at' = [at EXCEPT ![t] = target]
                      /\ failed' = [failed EXCEPT ![<<target, level>>] = 0]
                      /\ curr' = [curr EXCEPT ![c] = IF @ = t THEN None ELSE @]
        /\ UNCHANGED <<imbalance, lb>>

AttachOne(t) ==
    /\ st[t] = "pushed"
    /\ st' = [st EXCEPT ![t] = "queued"]
    /\ UNCHANGED <<at, curr, failed, imbalance, push, lb>>

-----------------------------------------------------------------------------
(* The rest of the scheduler.                                              *)

\* A CPU picks another task.
Pick(c) ==
    /\ curr[c] = None \/ Churn
    /\ lb[c].pc = "none"
    /\ \E t \in On(c) \ {curr[c]} :
          curr' = [curr EXCEPT ![c] = t]
    /\ UNCHANGED <<at, st, failed, imbalance, push, lb>>

Sleep(c) ==
    /\ Churn /\ curr[c] # None /\ lb[c].pc = "none"
    /\ st' = [st EXCEPT ![curr[c]] = "asleep"]
    /\ curr' = [curr EXCEPT ![c] = None]
    /\ UNCHANGED <<at, failed, imbalance, push, lb>>

Wake(t) ==
    /\ st[t] = "asleep"
    /\ st' = [st EXCEPT ![t] = "queued"]
    /\ UNCHANGED <<at, curr, failed, imbalance, push, lb>>

\* One balancing of a domain of CPU c, as idle or not.
Starts(c, l) == Start(c, l, "IDLE") \/ Start(c, l, "NOT_IDLE")

Balance(c) == Redo(c) \/ Detach(c) \/ Attach(c) \/ Done(c) \/ Nothing(c)

Next ==
    \/ \E c \in CPUs : \/ Balance(c) \/ ActiveStop(c) \/ Pick(c) \/ Sleep(c)
                       \/ \E l \in Levels, idle \in IdleTypes : Start(c, l, idle)
    \/ \E t \in Tasks : AttachOne(t) \/ Wake(t)

\* Balancing ends, stoppers run, an idle CPU takes a task it has, and each CPU
\* balances each of its domains some time (rebalance_domains).
Fairness ==
    /\ \A c \in CPUs : /\ WF_vars(Balance(c)) /\ WF_vars(ActiveStop(c))
                       /\ WF_vars(curr[c] = None /\ Pick(c))
    /\ \A d \in Domains : SF_vars(Starts(d[1], d[2]))
    /\ \A t \in Tasks : WF_vars(AttachOne(t))

Spec == Init /\ [][Next]_vars /\ Fairness

-----------------------------------------------------------------------------
TypeOK ==
    /\ at \in [Tasks -> CPUs]
    /\ st \in [Tasks -> {"queued", "asleep", "migrating", "pushed"}]
    /\ failed \in [Domains -> 0 .. cache_nice_tries + 3]
    /\ \A c \in CPUs : push[c] \in CPUs \cup {-1}

\* A task that is being moved is in the list of one balancing CPU, which will
\* attach it where it has been sent, and a running task is queued where it
\* runs: nothing is lost or run twice although no two runqueues are locked at
\* a time.
OnePlace ==
    /\ \A t \in Tasks : st[t] = "migrating" <=>
          \E c \in CPUs : lb[c].pc = "attach" /\ t \in lb[c].tasks /\ at[t] = lb[c].dst
    /\ \A c, d \in CPUs : lb[c].pc = "attach" /\ lb[d].pc = "attach" /\ c # d
                            => lb[c].tasks \cap lb[d].tasks = {}
    /\ \A c \in CPUs : curr[c] # None => curr[c] \in On(c)

\* No task ends up where it may not run, whichever destinations a pass tries.
AffinityKept == \A t \in Tasks : at[t] \in Allowed[t]

\* BUG_ON(busiest == env.dst_rq) and its like in the stopper.
NeverItself ==
    /\ \A c \in CPUs : lb[c].pc \in {"detach", "attach"} => lb[c].src # lb[c].dst
    /\ \A c \in CPUs : push[c] # c

\* The four together.
Inv == TypeOK /\ OnePlace /\ AffinityKept /\ NeverItself

\* c has nothing to do and d has a task for it.
Wasted(c, d) == On(c) = {} /\ Cardinality(On(d)) > 1 /\ \E t \in On(d) : c \in Allowed[t]

\* With tasks that run on and on, no CPU stays without work while another has
\* tasks to spare that may run there; and every pass ends.
WorkConserving ==
    /\ ~Churn => []<>~\E c, d \in CPUs : Wasted(c, d)
    /\ \A c \in CPUs : []<>(lb[c].pc = "none")
=============================================================================
