--------------------------------- MODULE CfsRq ---------------------------------
(***************************************************************************)
(* The runqueues of the CFS scheduler (fair.c): virtual time, enqueueing   *)
(* and dequeueing, the choice of the next task, buddies, ticks, wakeups,   *)
(* forks, migration between CPUs and changes of the scheduling class.      *)
(*                                                                         *)
(* A task that is queued or sleeping has a vruntime in the time of its     *)
(* CPU's cfs_rq; one on its way to another CPU or of another class has one *)
(* relative to min_vruntime.  vruntime wraps around at W (2^64).           *)
(*                                                                         *)
(* Every operation runs under the lock of its rq and is one step.  Task    *)
(* groups are one level deep: for_each_sched_entity runs once.  rq and vr  *)
(* change together, so the functions of the code are operators on a record *)
(* s with both.                                                            *)
(***************************************************************************)
EXTENDS Integers, FiniteSetsExt

CONSTANTS
    CPUs, Tasks, None,
    Cost,       \* vruntime of a unit of time: NICE_0_LOAD / weight
    W,          \* 2^64
    Horizon,    \* min_vruntime at which an instance ends, from its beginning
    Lag,        \* a sleeper's vruntime further behind than this is all the same
    Latency,    \* sysctl_sched_latency
    Gran,       \* sysctl_sched_wakeup_granularity
    MinGran,    \* sysctl_sched_min_granularity
    NrLatency,  \* sched_nr_latency
    Ops         \* operations that may happen

VARIABLES
    st,         \* state of each task
    cpu,        \* task_cpu
    vr,         \* se.vruntime
    rq          \* the cfs_rq of each CPU

vars == <<st, cpu, vr, rq>>

\* States in which vruntime is relative to min_vruntime.
Normalized == {"forked", "waking", "moving", "other", "other_sleeping"}
States == {"none", "queued", "sleeping"} \cup Normalized

Weight(t) == 2 \div Cost[t]

\* F(s), for an s that is worked out once however often F looks at it.
With(s, F(_)) == CHOOSE r \in {F(x) : x \in {s}} : TRUE

\* init_cfs_rq: min_vruntime begins below zero, so that it soon wraps around.
Init ==
    /\ st = [t \in Tasks |-> "none"]
    /\ cpu \in [Tasks -> CPUs]
    /\ \A t, u \in Tasks : cpu[t] = cpu[u]
    /\ vr = [t \in Tasks |-> 0]
    /\ rq = [c \in CPUs |->
                [curr |-> None, tree |-> {}, nr |-> 0, load |-> 0, min |-> W - 2,
                 last |-> None, next |-> None, skip |-> None,
                 ran |-> 0, pend |-> FALSE, due |-> FALSE, resched |-> FALSE]]

-----------------------------------------------------------------------------
(* Virtual time.                                                           *)

\* (s64)(a - b)
Minus(a, b) == LET d == (a - b) % W IN IF d >= W \div 2 THEN d - W ELSE d
entity_before(a, b) == Minus(a, b) < 0
max_vruntime(a, b) == IF Minus(b, a) > 0 THEN b ELSE a
min_vruntime(a, b) == IF Minus(b, a) < 0 THEN b ELSE a

\* The entities queued on c, the running one included.
OnRq(s, c) == s.rq[c].tree \cup ({s.rq[c].curr} \cap {t \in Tasks : st[t] = "queued"})

\* __pick_first_entity, or None.  Among equals the one queued first is taken:
\* any of them.  (Were the times more than half of W apart, none would be the
\* first.)
First(s, set) ==
    LET leftmost(t) == \A u \in set : ~entity_before(s.vr[u], s.vr[t])
    IN  IF set = {} THEN None
        ELSE CHOOSE t \in set : leftmost(t) \/ ~\E u \in set : leftmost(u)

\* update_min_vruntime; on says whether curr is on the rq.  min_vruntime never
\* goes back.  A sleeper's vruntime is brought up to Lag behind, which
\* place_entity does not tell from one still further behind.
update_min_vruntime(s, c, on) ==
    LET q == s.rq[c]
        first == First(s, q.tree)
        v == CASE on /\ first # None -> min_vruntime(s.vr[q.curr], s.vr[first])
               [] on /\ first = None -> s.vr[q.curr]
               [] ~on /\ first # None -> s.vr[first]
               [] OTHER -> q.min
        min == max_vruntime(q.min, v)
    IN  [s EXCEPT !.rq[c].min = min,
                  !.vr = [t \in Tasks |-> IF st[t] = "sleeping" /\ cpu[t] = c
                            THEN max_vruntime(s.vr[t], (min - Lag) % W) ELSE s.vr[t]]]

\* update_curr, with the time that has passed; on as above.
update_curr(s, c, on) ==
    LET q == s.rq[c]
    IN  IF q.curr = None \/ ~q.pend THEN s
        ELSE With([s EXCEPT !.vr[q.curr] = (@ + Cost[q.curr]) % W,
                            !.rq[c].pend = FALSE,
                            !.rq[c].ran = IF @ > Latency THEN @ ELSE @ + 1],
                  LAMBDA x : update_min_vruntime(x, c, on))

CurrOn(s, c) == s.rq[c].curr # None /\ st[s.rq[c].curr] = "queued"

\* sched_slice: the share of the period, for a task that may not be queued yet.
sched_slice(s, c, t) ==
    LET load == s.rq[c].load + (IF t \in OnRq(s, c) THEN 0 ELSE Weight(t))
    IN  (Latency * Weight(t)) \div load
sched_vslice(s, c, t) == sched_slice(s, c, t) * Cost[t]

\* place_entity: "we never gain time by being placed backwards".
place_entity(s, c, t, initial) ==
    LET v == s.rq[c].min + (IF initial THEN sched_vslice(s, c, t)
                                        ELSE -(Latency \div 2))
    IN  [s EXCEPT !.vr[t] = max_vruntime(@, v % W)]

-----------------------------------------------------------------------------
(* Enqueueing and dequeueing.                                              *)

\* Whether enqueue_entity adds min_vruntime.
Renorm(flags) == "WAKEUP" \notin flags \/ "MIGRATED" \in flags

\* enqueue_entity.  A task that is still the cfs_rq's curr does not go to the tree,
\* and is renormalised before update_curr.
enqueue_entity(s, c, t, flags) ==
    LET curr == s.rq[c].curr = t
        renormalised(x) == IF Renorm(flags) THEN [x EXCEPT !.vr[t] = (@ + x.rq[c].min) % W]
                           ELSE x
        accounted(x) == [x EXCEPT !.rq[c].load = @ + Weight(t), !.rq[c].nr = @ + 1]
        placed(x) == IF "WAKEUP" \in flags THEN place_entity(x, c, t, FALSE) ELSE x
        queued(x) == [placed(x) EXCEPT !.rq[c].tree = IF curr THEN @ ELSE @ \cup {t}]
        updated == IF curr THEN update_curr(renormalised(s), c, FALSE)
                   ELSE With(update_curr(s, c, CurrOn(s, c)), renormalised)
    IN  With(accounted(updated), queued)

\* Mutant: the "last" buddy is forgotten.
clear_buddies_NotLast(q, t) ==
    [q EXCEPT !.next = IF @ = t THEN None ELSE @, !.skip = IF @ = t THEN None ELSE @]

clear_buddies(q, t) ==
    [q EXCEPT !.last = IF @ = t THEN None ELSE @,
              !.next = IF @ = t THEN None ELSE @,
              !.skip = IF @ = t THEN None ELSE @]

\* Flags with which the code advances min_vruntime after the dequeue.
AdvancesMin(flags) == flags = {"SAVE"}

\* dequeue_entity.
dequeue_entity(s, c, t, flags) ==
    LET off(x) == [x EXCEPT !.rq[c] = [clear_buddies(@, t) EXCEPT
                              !.tree = @ \ {t}, !.load = @ - Weight(t), !.nr = @ - 1],
                            !.vr[t] = IF "SLEEP" \in flags THEN @
                                      ELSE (@ - x.rq[c].min) % W]
        advanced(x) == IF AdvancesMin(flags)
                       THEN update_min_vruntime(x, c, CurrOn(s, c) /\ s.rq[c].curr # t) ELSE x
    IN  With(With(update_curr(s, c, CurrOn(s, c)), off), advanced)

-----------------------------------------------------------------------------
(* The next task.                                                          *)

\* Whether t should preempt curr: 1, 0 or -1.
wakeup_preempt_entity(s, curr, t) ==
    LET vdiff == Minus(s.vr[curr], s.vr[t])
    IN  CASE vdiff <= 0 -> -1 [] vdiff > Gran * Cost[t] -> 1 [] OTHER -> 0

\* pick_next_entity: the leftmost of the tree and of curr, when it is runnable,
\* unless a buddy can be preferred without being unfair.
pick_next_entity(s, c, curr) ==
    LET q == s.rq[c]
        all == q.tree \cup ({curr} \ {None})
        left == First(s, all)
        second == First(s, all \ {left})
        fair(t) == t # None /\ wakeup_preempt_entity(s, t, left) < 1
    IN  CASE fair(q.next) -> q.next
          [] ~fair(q.next) /\ fair(q.last) -> q.last
          [] ~fair(q.next) /\ ~fair(q.last) /\ q.skip = left /\ fair(second) -> second
          [] OTHER -> left

\* put_prev_entity, after update_curr; on: whether prev is still runnable.
put_prev_entity(s, c, on) ==
    [s EXCEPT !.rq[c].curr = None,
              !.rq[c].tree = IF on THEN @ \cup {s.rq[c].curr} ELSE @]

set_next_entity(s, c, t) ==
    [s EXCEPT !.rq[c].curr = t, !.rq[c].tree = @ \ {t}, !.rq[c].ran = 0,
              !.rq[c].pend = FALSE]

\* pick_next_task_fair, after which the rq's resched mark is gone.  When curr
\* stays, it is neither put back nor set again.
pick_next_task_fair(s, c, on) ==
    LET curr == s.rq[c].curr
        switch(x, t) ==
            IF on /\ t = curr THEN x
            ELSE set_next_entity(IF curr = None THEN x ELSE put_prev_entity(x, c, on), c, t)
        picked(x) ==
            LET t == pick_next_entity(x, c, IF on THEN curr ELSE None)
            IN  IF x.rq[c].nr = 0 THEN put_prev_entity(x, c, FALSE)      \* idle
                ELSE switch([x EXCEPT !.rq[c] = clear_buddies(@, t)], t)
        marked(x) == [x EXCEPT !.rq[c].resched = FALSE]
    IN  With(With(IF on THEN update_curr(s, c, on) ELSE s, picked), marked)

\* check_preempt_wakeup: an idle CPU takes the task at once.
check_preempt_wakeup(s, c, t) ==
    LET q == s.rq[c]
        preempted(x) == [x EXCEPT !.rq[c].resched = TRUE, !.rq[c].next = t,
                                  !.rq[c].last = IF q.nr >= NrLatency THEN q.curr ELSE @]
        checked(x) == IF wakeup_preempt_entity(x, q.curr, t) = 1 THEN preempted(x) ELSE x
    IN  CASE q.resched \/ q.curr = t -> s
          [] q.curr = None /\ ~q.resched -> [s EXCEPT !.rq[c].resched = TRUE]
          [] OTHER -> With(update_curr(s, c, TRUE), checked)

-----------------------------------------------------------------------------
(* What happens.                                                           *)

Now == [rq |-> rq, vr |-> vr]
Become(s) == \E x \in {s} : rq' = x.rq /\ vr' = x.vr
Op(o) == o \in Ops
Woken(s, c, t) == With(s, LAMBDA x : check_preempt_wakeup(x, c, t))

InTime(c) == (rq[c].min + 2) % W < Horizon

\* Time passes for the running task: not more than a unit between two ticks.
Elapse(c) ==
    /\ CurrOn(Now, c) /\ ~rq[c].due /\ ~rq[c].resched
    /\ InTime(c)
    /\ rq' = [rq EXCEPT ![c].due = TRUE, ![c].pend = TRUE]
    /\ UNCHANGED <<st, cpu, vr>>

\* Mutant: a task that has run for its slice is not stopped.
Tired_Never(s, c, curr) == FALSE

\* check_preempt_tick: whether curr has had enough.
Tired(s, c, curr) ==
    LET slice == sched_slice(s, c, curr)
        first == First(s, s.rq[c].tree)
    IN  \/ s.rq[c].ran > slice
        \/ /\ s.rq[c].ran >= MinGran /\ first # None
           /\ Minus(s.vr[curr], s.vr[first]) > slice

task_tick_fair(c) ==
    LET curr == rq[c].curr
        tired(x) == [x EXCEPT !.rq[c] =
                        [(IF x.rq[c].ran > sched_slice(x, c, curr) THEN clear_buddies(@, curr)
                          ELSE @) EXCEPT !.resched = TRUE]]
        ticked(x) == IF x.rq[c].nr > 1 /\ Tired(x, c, curr) THEN tired(x) ELSE x
    IN  /\ CurrOn(Now, c) /\ rq[c].due
        /\ Become(With([update_curr(Now, c, TRUE) EXCEPT !.rq[c].due = FALSE], ticked))
        /\ UNCHANGED <<st, cpu>>

Schedule(c) ==
    /\ rq[c].resched
    /\ Become(pick_next_task_fair(Now, c, CurrOn(Now, c)))
    /\ UNCHANGED <<st, cpu>>

\* schedule() of a task that goes to sleep, or has ended (task_dead_fair); init
\* never ends, so there is always another.
Block(c, to) ==
    LET t == rq[c].curr
    IN  /\ CurrOn(Now, c)
        /\ IF to = "none" THEN Op("exit") /\ \E u \in Tasks \ {t} : st[u] # "none"
                          ELSE to = "sleeping"
        /\ st' = [st EXCEPT ![t] = to]
        /\ LET s == pick_next_task_fair(dequeue_entity(Now, c, t, {"SLEEP"}), c, FALSE)
           IN  Become([s EXCEPT !.rq[c].due = FALSE,
                                !.vr[t] = IF to = "none" THEN 0 ELSE @])
        /\ UNCHANGED cpu

\* A wakeup on the CPU the task slept on.
Wake(t) ==
    LET c == cpu[t]
    IN  /\ st[t] = "sleeping"
        /\ st' = [st EXCEPT ![t] = "queued"]
        /\ Become(Woken(enqueue_entity(Now, c, t, {"WAKEUP"}), c, t))
        /\ UNCHANGED cpu

\* Mutant: vruntime is not made relative.
migrate_task_rq_fair_Absolute(t, c) ==
    /\ Op("wake_remote") /\ st[t] = "sleeping" /\ c # cpu[t]
    /\ st' = [st EXCEPT ![t] = "waking"]
    /\ cpu' = [cpu EXCEPT ![t] = c]
    /\ UNCHANGED <<rq, vr>>

\* A wakeup on another CPU, until its rq has been locked: the min_vruntime of
\* the old one is read without its lock.
migrate_task_rq_fair(t, c) ==
    /\ Op("wake_remote") /\ st[t] = "sleeping" /\ c # cpu[t]
    /\ st' = [st EXCEPT ![t] = "waking"]
    /\ cpu' = [cpu EXCEPT ![t] = c]
    /\ vr' = [vr EXCEPT ![t] = (@ - rq[cpu[t]].min) % W]
    /\ UNCHANGED rq

\* The end of such a wakeup, of a migration or of wake_up_new_task.
Arrive(t) ==
    LET c == cpu[t]
        flags == IF st[t] = "waking" THEN {"WAKEUP", "MIGRATED"} ELSE {}
    IN  /\ st[t] \in {"waking", "moving", "forked"}
        /\ st' = [st EXCEPT ![t] = "queued"]
        /\ Become(Woken(enqueue_entity(Now, c, t, flags), c, t))
        /\ UNCHANGED cpu

\* A queued task that does not run is taken to another CPU (detach_task).
Detach(t, c) ==
    /\ Op("migrate") /\ st[t] = "queued" /\ rq[cpu[t]].curr # t /\ c # cpu[t]
    /\ Become(dequeue_entity(Now, cpu[t], t, {}))
    /\ st' = [st EXCEPT ![t] = "moving"] /\ cpu' = [cpu EXCEPT ![t] = c]

\* The vruntime of a child whose parent is of another class is still 0: its place
\* is found from there while min_vruntime is in its lower half, for 292 years.
Young(c) == rq[c].min >= W - 2 \/ rq[c].min + 2 * Latency < W \div 2

\* The child of a task that runs on c, or of one of another class.  It may be
\* woken on another CPU.
task_fork_fair(t, c) ==
    /\ st[t] = "none" /\ st' = [st EXCEPT ![t] = "forked"]
    /\ CurrOn(Now, c) \/ Young(c)
    /\ \E d \in CPUs : cpu' = [cpu EXCEPT ![t] = d] /\ (d # c => Op("migrate"))
    /\ LET curr == rq[c].curr
           s1 == IF CurrOn(Now, c)
                 THEN LET s == update_curr(Now, c, TRUE)
                      IN  [s EXCEPT !.vr[t] = s.vr[curr]]
                 ELSE [Now EXCEPT !.vr[t] = 0]
           s2 == place_entity(s1, c, t, TRUE)
           s3 == IF Op("child_first") /\ CurrOn(Now, c) /\ entity_before(s2.vr[curr], s2.vr[t])
                 THEN [s2 EXCEPT !.vr[t] = s2.vr[curr], !.vr[curr] = s2.vr[t],
                                 !.rq[c].resched = TRUE]
                 ELSE s2
       IN  Become([s3 EXCEPT !.vr[t] = (@ - s3.rq[c].min) % W])

yield_task_fair(c) ==
    /\ Op("yield") /\ CurrOn(Now, c) /\ ~rq[c].resched /\ rq[c].nr > 1
    /\ LET t == rq[c].curr
           s == update_curr([Now EXCEPT !.rq[c] = clear_buddies(@, t)], c, TRUE)
       IN  \E to \in rq[c].tree \cup {None} :       \* yield_to_task_fair
             Become(pick_next_task_fair(
                [s EXCEPT !.rq[c].skip = t,
                          !.rq[c].next = IF to = None THEN @ ELSE to], c, TRUE))
    /\ UNCHANGED <<st, cpu>>

\* What follows a change of the priority: the task may preempt, or be preempted.
prio_changed_fair(s, c, t) ==
    IF s.rq[c].curr = t THEN [s EXCEPT !.rq[c].resched = TRUE] ELSE Woken(s, c, t)

\* A setting of a task is changed while it is off the rq (DEQUEUE_SAVE).  The
\* running one stays the cfs_rq's curr, or the scheduler core puts it first and sets
\* it again, as one that has just begun to run or is about to be replaced: see the
\* README.
Change(t) ==
    LET c == cpu[t]
        runs == rq[c].curr = t
        off == dequeue_entity(Now, c, t, {"SAVE"})
        back(x) == enqueue_entity(x, c, t, {"RESTORE"})
        again(x) == With(back(put_prev_entity(x, c, FALSE)), LAMBDA y : set_next_entity(y, c, t))
    IN  /\ Op("change") /\ st[t] = "queued" /\ InTime(c)
        /\ \E s \in {With(off, back)} \cup
                    (IF runs /\ (rq[c].resched \/ (rq[c].ran = 0 /\ ~rq[c].pend))
                     THEN {With(off, again)} ELSE {}) :
              Become(s) \/ Become(prio_changed_fair(s, c, t))
        /\ UNCHANGED <<st, cpu>>

\* switched_from_fair.
SwitchFrom(t) ==
    LET c == cpu[t]
    IN  /\ Op("class")
        /\ \/ /\ st[t] = "queued" /\ st' = [st EXCEPT ![t] = "other"]
              /\ LET s == dequeue_entity(Now, c, t, {"SAVE", "MOVE"})
                 IN  Become(IF rq[c].curr # t THEN s
                            ELSE [s EXCEPT !.rq[c].curr = None, !.rq[c].due = FALSE,
                                           !.rq[c].pend = FALSE, !.rq[c].resched = TRUE])
           \/ /\ st[t] = "sleeping" /\ st' = [st EXCEPT ![t] = "other_sleeping"]
              /\ LET s == place_entity(Now, c, t, FALSE)
                 IN  Become([s EXCEPT !.vr[t] = (@ - rq[c].min) % W])
           \/ /\ st[t] = "waking" /\ st' = [st EXCEPT ![t] = "other"]
              /\ UNCHANGED <<rq, vr>>
        /\ UNCHANGED cpu

\* switched_to_fair.
SwitchTo(t) ==
    LET c == cpu[t]
    IN  /\ \/ /\ st[t] = "other" /\ st' = [st EXCEPT ![t] = "queued"]
              /\ Become(Woken(enqueue_entity(Now, c, t, {"RESTORE", "MOVE"}), c, t))
           \/ /\ st[t] = "other_sleeping" /\ st' = [st EXCEPT ![t] = "sleeping"]
              /\ vr' = [vr EXCEPT ![t] = (@ + rq[c].min) % W]
              /\ UNCHANGED rq
        /\ UNCHANGED cpu

\* A task of another class sleeps and wakes up, on any CPU.
Other(t) ==
    /\ st[t] \in {"other", "other_sleeping"}
    /\ st' = [st EXCEPT ![t] = IF @ = "other" THEN "other_sleeping" ELSE "other"]
    /\ \E c \in CPUs : cpu' = [cpu EXCEPT ![t] = c]
    /\ UNCHANGED <<rq, vr>>

-----------------------------------------------------------------------------
Next ==
    \/ \E c \in CPUs :
          \/ Elapse(c) \/ task_tick_fair(c) \/ Schedule(c) \/ yield_task_fair(c)
          \/ \E to \in {"sleeping", "none"} : Block(c, to)
          \/ \E t \in Tasks : migrate_task_rq_fair(t, c) \/ Detach(t, c) \/ task_fork_fair(t, c)
    \/ \E t \in Tasks : Wake(t) \/ Arrive(t) \/ Change(t)
                        \/ SwitchFrom(t) \/ SwitchTo(t) \/ Other(t)

\* Time goes on, whatever tasks do; ticks come; a mark to reschedule is seen.
Fairness ==
    \A c \in CPUs : SF_vars(Elapse(c)) /\ WF_vars(task_tick_fair(c)) /\ WF_vars(Schedule(c))

Spec == Init /\ [][Next]_vars /\ Fairness

-----------------------------------------------------------------------------
TypeOK ==
    /\ st \in [Tasks -> States] /\ cpu \in [Tasks -> CPUs]
    /\ vr \in [Tasks -> 0 .. W - 1]
    /\ \A c \in CPUs :
          /\ {rq[c].curr, rq[c].last, rq[c].next, rq[c].skip} \subseteq Tasks \cup {None}
          /\ rq[c].min \in 0 .. W - 1 /\ rq[c].ran \in 0 .. Latency + 1

\* A task is queued on the cfs_rq of its CPU and nowhere else, the running one
\* is not in the tree, and nr_running and the load are those of the tasks.
QueuesMatch ==
    \A c \in CPUs :
        LET on == {t \in Tasks : st[t] = "queued" /\ cpu[t] = c}
        IN  /\ rq[c].tree = on \ {rq[c].curr}
            /\ rq[c].curr # None => rq[c].curr \in on
            /\ rq[c].nr = Cardinality(on)
            /\ rq[c].load = MapThenSumSet(Weight, on)

\* A buddy is a task that is queued here: pick_next_entity returns it without
\* looking whether it is in the tree.
BuddiesQueued ==
    \A c \in CPUs : {rq[c].last, rq[c].next, rq[c].skip} \ {None}
                        \subseteq rq[c].tree \cup {rq[c].curr}

\* How far a vruntime may be from min_vruntime.
Ahead == 2 * Latency + 2
Behind == Lag + Latency

\* Whatever CPUs and classes a task goes through, its vruntime is taken for
\* what it is: near min_vruntime when it is queued, near zero when it is
\* relative to it, so that it neither waits for long nor keeps others waiting.
TimesComparable ==
    \A t \in Tasks : st[t] # "none" =>
        LET base == IF st[t] \in Normalized THEN 0 ELSE rq[cpu[t]].min
        IN  Minus(vr[t], base) \in -Behind .. Ahead

\* The four together.
Inv == TypeOK /\ QueuesMatch /\ BuddiesQueued /\ TimesComparable

\* min_vruntime never goes back ("never gain time by being placed backwards").
MinMonotonic == [][\A c \in CPUs : Minus(rq'[c].min, rq[c].min) >= 0]_vars

\* A task that is queued runs some time, or is taken away.
NoStarvation == \A t \in Tasks : (st[t] = "queued") ~> (rq[cpu[t]].curr = t \/ st[t] # "queued")

\* "except when: DEQUEUE_SAVE && !DEQUEUE_MOVE, in this case we'll be put back
\* on, and if we advance min_vruntime, we'll be placed back further than we
\* started" (dequeue_entity): a change of a waiting task leaves its vruntime.
SavedIsRestored ==
    [][\A t \in Tasks : Change(t) => vr'[t] = vr[t]]_vars
=============================================================================
