----------------------------- MODULE CfsLoadAvg -----------------------------
(***************************************************************************)
(* Load tracking (fair.c): the decayed load of each task, of a task        *)
(* group's runqueue on each CPU, of the entity that stands for it one      *)
(* level up, and of the group as a whole.                                  *)
(*                                                                         *)
(* A runqueue keeps the sum of its tasks' loads, blocked ones included,    *)
(* without looking at them again.  A task that wakes up on another CPU     *)
(* takes its load from the old runqueue without that runqueue's lock: it   *)
(* catches up with the runqueue's time and leaves what is to be removed    *)
(* in removed_load_avg.                                                    *)
(*                                                                         *)
(* A unit of time is the half-life of the load.  Weights are multiples of  *)
(* 2^Horizon, so that halving a task's load is exact.  Utilization goes    *)
(* along with load.                                                        *)
(***************************************************************************)
EXTENDS Integers, FiniteSetsExt

CONSTANTS
    CPUs, Tasks,
    Horizon,        \* the clock stops there
    Weight,         \* of a task
    Shares          \* of the group

MIN_SHARES == 2

VARIABLES
    now,            \* rq_clock_task; 0 is "never"
    se,             \* of a task: load_avg, last_update_time, on_rq, cpu, st
    cfs_rq,         \* of a CPU: the group's runqueue
    parent,         \* of a CPU: the group's entity and the root runqueue
    tg_load,        \* tg->load_avg
    late            \* CPUs whose runqueue has gone on between the two halves of a removal

vars == <<now, se, cfs_rq, parent, tg_load, late>>

SumOver(f, S) == MapThenSumSet(LAMBDA x : f[x], S)
Larger(a, b) == IF a < b THEN b ELSE a
Abs(n) == IF n < 0 THEN -n ELSE n

Init ==
    /\ now = 1
    /\ \E f \in [Tasks -> CPUs] :
         /\ se = [t \in Tasks |-> [load_avg |-> Weight, last_update_time |-> 1, on_rq |-> FALSE,
                                   cpu |-> f[t], st |-> "fair"]]
         /\ LET load == [c \in CPUs |-> SumOver([t \in Tasks |-> Weight], {t \in Tasks : f[t] = c})]
            IN  /\ cfs_rq = [c \in CPUs |->
                     [load_avg |-> load[c], runnable |-> 0, removed |-> 0,
                      last_update_time |-> 1, contrib |-> load[c], propagate |-> FALSE]]
                /\ tg_load = SumOver(load, CPUs)
    /\ parent = [c \in CPUs |-> [load_avg |-> 0, root |-> 0, last_update_time |-> 1,
                                 weight |-> Shares, on_rq |-> FALSE]]
    /\ late = {}

-----------------------------------------------------------------------------
(* Decay and accumulation.                                                 *)

decay_load(v, n) == v \div 2^n

\* accumulate_sum and ___update_load_avg: the old part decays, the time since
\* then counts with the weight.
Accrued(load, weight, n) == decay_load(load, n) + weight - decay_load(weight, n)

Queued(c) == {t \in Tasks : se[t].cpu = c /\ se[t].on_rq}
RunWeight(c) == SumOver([t \in Tasks |-> Weight], Queued(c))

\* What is known of a CPU, and of the whole group: the state the functions
\* below work on.
Hier(c) == [cfs |-> cfs_rq[c], up |-> parent[c], tg |-> tg_load, changed |-> FALSE]

\* Mutant: what is to be removed is taken off after the decay.
Removed_After(q, load) == Larger(load - q.removed, 0)

\* The load before it decays: without what is to be removed.
Removed(q, load) == decay_load(Larger(q.load_avg - q.removed, 0), now - q.last_update_time)
                        + (load - decay_load(q.load_avg, now - q.last_update_time))

update_cfs_rq_load_avg(h, weight) ==
    LET q == h.cfs
        n == now - q.last_update_time
    IN  [h EXCEPT !.changed = n > 0 \/ q.removed # 0,
                  !.cfs = [q EXCEPT
                    !.load_avg = Removed(q, Accrued(q.load_avg, weight, n)),
                    !.runnable = Accrued(q.runnable, weight, n),
                    !.removed = 0, !.last_update_time = now,
                    !.propagate = q.propagate \/ q.removed # 0]]

\* The difference is passed on to the group unless it is small.
update_tg_load_avg(h) ==
    LET delta == h.cfs.load_avg - h.cfs.contrib
    IN  IF Abs(delta) > h.cfs.contrib \div 64
        THEN [h EXCEPT !.tg = @ + delta, !.cfs.contrib = h.cfs.load_avg] ELSE h

\* update_load_avg of a task with UPDATE_TG; se is aged by Aged.
UpdatedRq(h, weight) ==
    LET x == update_cfs_rq_load_avg(h, weight)
    IN  IF x.changed THEN update_tg_load_avg(x) ELSE x

Aged(t) ==
    IF se[t].last_update_time = 0 THEN se[t]
    ELSE [se[t] EXCEPT !.load_avg = Accrued(@, IF se[t].on_rq THEN Weight ELSE 0,
                                             now - se[t].last_update_time),
                       !.last_update_time = now]

-----------------------------------------------------------------------------
(* One level up.                                                           *)

\* update_tg_cfs_load: the load of the group's entity, no more than its shares.
GroupLoad(h) ==
    LET load == h.cfs.load_avg
        tg == h.tg + 1 - h.cfs.contrib + load
    IN  IF load # 0 /\ tg > Shares THEN (load * Shares) \div tg ELSE load

\* Both get the same difference (add_positive).
Propagated(up, load) ==
    [up EXCEPT !.root = Larger(@ + load - up.load_avg, 0), !.load_avg = load]

\* update_load_avg of the group's entity, with propagate_entity_load_avg.
UpdatedParent(h) ==
    LET up == h.up
        n == now - up.last_update_time
        w == IF up.on_rq THEN up.weight ELSE 0
        aged == [up EXCEPT !.load_avg = Accrued(@, w, n), !.root = Accrued(@, w, n),
                           !.last_update_time = now]
    IN  IF h.cfs.propagate
        THEN [h EXCEPT !.cfs.propagate = FALSE, !.up = Propagated(aged, GroupLoad(h))]
        ELSE [h EXCEPT !.up = aged]

calc_cfs_shares(h, load) ==
    LET tg == h.tg - h.cfs.contrib + load
        shares == IF tg = 0 THEN Shares * load ELSE (Shares * load) \div tg
    IN  IF shares < MIN_SHARES THEN MIN_SHARES ELSE IF shares > Shares THEN Shares ELSE shares

\* The parent's part of an operation: its load, its weight (update_cfs_shares),
\* and whether it is queued with weight on its own runqueue.
Above(h, weight) ==
    LET x == UpdatedParent(h)
    IN  [x EXCEPT !.up.weight = calc_cfs_shares(x, weight), !.up.on_rq = weight > 0]

Put(c, h) ==
    /\ cfs_rq' = [cfs_rq EXCEPT ![c] = h.cfs]
    /\ parent' = [parent EXCEPT ![c] = h.up]
    /\ tg_load' = h.tg

-----------------------------------------------------------------------------
(* Operations on a runqueue, with its lock.                                *)

attach_entity_load_avg(h, load) ==
    [h EXCEPT !.cfs.load_avg = @ + load, !.cfs.propagate = TRUE]

\* A task that comes from elsewhere is attached.
Attach(h, x) ==
    IF x.last_update_time = 0
    THEN update_tg_load_avg(attach_entity_load_avg(h, x.load_avg)) ELSE h

\* enqueue_entity, with enqueue_entity_load_avg.
Enqueue(t) ==
    LET c == se[t].cpu
        x == Aged(t)
        rq == UpdatedRq(Hier(c), RunWeight(c))
        h == Attach([rq EXCEPT !.cfs.runnable = @ + x.load_avg], x)
    IN  /\ se[t].st \in {"fair", "moved"} /\ ~se[t].on_rq
        /\ se' = [se EXCEPT ![t] = [x EXCEPT !.on_rq = TRUE, !.st = "fair",
                                             !.last_update_time = now]]
        /\ Put(c, Above(h, RunWeight(c) + Weight))
        /\ UNCHANGED <<now, late>>

\* dequeue_entity, with dequeue_entity_load_avg.
Dequeue(t) ==
    LET c == se[t].cpu
        x == Aged(t)
        h == UpdatedRq(Hier(c), RunWeight(c))
    IN  /\ se[t].on_rq
        /\ se' = [se EXCEPT ![t] = [x EXCEPT !.on_rq = FALSE]]
        /\ Put(c, Above([h EXCEPT !.cfs.runnable = Larger(@ - x.load_avg, 0)],
                        RunWeight(c) - Weight))
        /\ UNCHANGED <<now, late>>

\* entity_tick.
Tick(t) ==
    LET c == se[t].cpu
    IN  /\ se[t].on_rq /\ cfs_rq[c].last_update_time < now
        /\ se' = [se EXCEPT ![t] = Aged(t)]
        /\ Put(c, Above(UpdatedRq(Hier(c), RunWeight(c)), RunWeight(c)))
        /\ UNCHANGED <<now, late>>

\* The entity above is left alone when it has no load and none is coming.
skip_blocked_update(h) == h.up.load_avg = 0 /\ ~h.cfs.propagate

update_blocked_averages(c) ==
    LET h == UpdatedRq(Hier(c), RunWeight(c))
    IN  /\ cfs_rq[c].last_update_time < now \/ cfs_rq[c].removed # 0 \/ cfs_rq[c].propagate
        /\ Put(c, IF skip_blocked_update(h) THEN h ELSE UpdatedParent(h))
        /\ UNCHANGED <<now, se, late>>

\* switched_from_fair and switched_to_fair, of a task that is not queued:
\* detach_entity_cfs_rq and attach_entity_cfs_rq.
Leave(t) ==
    LET c == se[t].cpu
        x == Aged(t)
        h == update_cfs_rq_load_avg(Hier(c), RunWeight(c))
        less == [h EXCEPT !.cfs.load_avg = Larger(@ - x.load_avg, 0), !.cfs.propagate = TRUE]
    IN  /\ se[t].st = "fair" /\ ~se[t].on_rq
        /\ se' = [se EXCEPT ![t] = [x EXCEPT !.st = "out"]]
        /\ Put(c, UpdatedParent(update_tg_load_avg(less)))
        /\ UNCHANGED <<now, late>>

Join(t) ==
    LET c == se[t].cpu
        x == Aged(t)
        h == update_cfs_rq_load_avg(Hier(c), RunWeight(c))
    IN  /\ se[t].st = "out"
        /\ se' = [se EXCEPT ![t] = [x EXCEPT !.st = "fair", !.last_update_time = now]]
        /\ Put(c, UpdatedParent(update_tg_load_avg(attach_entity_load_avg(h, x.load_avg))))
        /\ UNCHANGED <<now, late>>

-----------------------------------------------------------------------------
(* Waking up on another CPU, without the lock of the old one.              *)

\* sync_entity_load_avg: up to the time of the old runqueue.
sync_entity_load_avg(t) ==
    LET last == cfs_rq[se[t].cpu].last_update_time
    IN  [se[t] EXCEPT !.load_avg = decay_load(@, last - se[t].last_update_time),
                      !.last_update_time = last]

Sync(t) ==
    /\ se[t].st = "fair" /\ ~se[t].on_rq
    /\ se' = [se EXCEPT ![t] = [sync_entity_load_avg(t) EXCEPT !.st = "synced"]]
    /\ UNCHANGED <<now, cfs_rq, parent, tg_load, late>>

\* The rest of remove_entity_load_avg and of migrate_task_rq_fair.
Remove(t) ==
    LET c == se[t].cpu
    IN  /\ se[t].st = "synced"
        /\ cfs_rq' = [cfs_rq EXCEPT ![c].removed = @ + se[t].load_avg]
        /\ late' = IF cfs_rq[c].last_update_time = se[t].last_update_time THEN late
                   ELSE late \cup {c}
        /\ \E d \in CPUs \ {c} :
             se' = [se EXCEPT ![t] = [se[t] EXCEPT !.cpu = d, !.last_update_time = 0, !.st = "moved"]]
        /\ UNCHANGED <<now, parent, tg_load>>

Elapse ==
    /\ now <= Horizon
    /\ now' = now + 1
    /\ UNCHANGED <<se, cfs_rq, parent, tg_load, late>>

Next ==
    \/ Elapse
    \/ \E t \in Tasks : \/ Enqueue(t) \/ Dequeue(t) \/ Tick(t) \/ Leave(t) \/ Join(t)
                        \/ Sync(t) \/ Remove(t)
    \/ \E c \in CPUs : update_blocked_averages(c)

Spec == Init /\ [][Next]_vars

-----------------------------------------------------------------------------
TypeOK ==
    /\ now \in 1 .. Horizon + 1
    /\ \A c \in CPUs : cfs_rq[c].load_avg >= 0 /\ cfs_rq[c].runnable >= 0 /\ tg_load >= 0

\* The load of task t at the time of its runqueue.
At(t) ==
    Accrued(se[t].load_avg, IF se[t].on_rq THEN Weight ELSE 0,
            cfs_rq[se[t].cpu].last_update_time - se[t].last_update_time)

\* A runqueue's load is that of its tasks and of those that have gone but are
\* still to be removed, although it has not looked at them since they came; it
\* is less only after a removal that came late.
LoadIsSum ==
    \A c \in CPUs :
        LET here == {t \in Tasks : se[t].cpu = c /\ se[t].st \in {"fair", "synced"}}
            sum == SumOver([t \in here |-> At(t)], here) + cfs_rq[c].removed
        IN  IF c \in late THEN cfs_rq[c].load_avg <= sum ELSE cfs_rq[c].load_avg = sum

\* The runnable load is that of the queued tasks, always.
RunnableIsSum ==
    \A c \in CPUs : cfs_rq[c].runnable = SumOver([t \in Queued(c) |-> At(t)], Queued(c))

\* The group's load is what its runqueues have told it, and the root runqueue's
\* load is that of the one entity in it.
LevelsAgree ==
    /\ tg_load = SumOver([c \in CPUs |-> cfs_rq[c].contrib], CPUs)
    /\ \A c \in CPUs : parent[c].root = parent[c].load_avg

\* The four together.
Inv == TypeOK /\ LoadIsSum /\ RunnableIsSum /\ LevelsAgree
=============================================================================
