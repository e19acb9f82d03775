----------------------------- MODULE CfsBandwidth -----------------------------
(***************************************************************************)
(* CFS bandwidth control (fair.c): the runtime of a task group, handed out *)
(* in slices to its cfs_rqs, which are throttled when there is none left,  *)
(* and the two timers that refill the pool and give back what is not used. *)
(*                                                                         *)
(* What a CPU does under its rq lock (with cfs_b->lock taken inside) is one*)
(* step.  The timers give up cfs_b->lock while they distribute runtime, and*)
(* take one rq lock after the other.  One group below the root, with the   *)
(* quota it was given at first.                                            *)
(***************************************************************************)
EXTENDS Integers, FiniteSetsExt, SequencesExt

CONSTANTS
    CPUs,
    Quota,      \* cfs_b->quota
    Slice,      \* sched_cfs_bandwidth_slice()
    MinRuntime, \* min_cfs_rq_runtime
    Deltas,     \* times a task may run until update_curr
    Debt,       \* the most runtime with which ticks still come before schedule()
    Hotplug     \* the CPUs that go offline and come back

\* The slice is positive; there is a longest time that a task may run.
ASSUME BandwidthAssumption ==
    /\ Quota \in Nat /\ Slice \in Nat \ {0} /\ MinRuntime \in Nat /\ Debt \in Nat
    /\ Deltas \subseteq Nat /\ \E d \in Deltas : \A e \in Deltas : e <= d

VARIABLES
    q,          \* the cfs_rq of the group on each CPU
    runtime,    \* cfs_b->runtime
    idle, period_active, slack_timer,
    list,       \* throttled_cfs_rq
    timer       \* of each timer: whether its handler distributes, and what

vars == <<q, runtime, idle, period_active, slack_timer, list, timer>>
pool == <<idle, period_active, slack_timer>>

Timers == {"period", "slack"}
Off == [pc |-> "off", from |-> 0, left |-> 0, todo |-> <<>>, valid |-> TRUE]

\* A new cfs_rq has no runtime; fresh says that its runtime_expires is that of
\* the pool.
Init ==
    /\ q = [c \in CPUs |-> [rem |-> 0, fresh |-> FALSE, enabled |-> TRUE, throttled |-> FALSE,
                            nr |-> FALSE, curr |-> FALSE, resched |-> FALSE]]
    /\ runtime = Quota
    /\ idle = FALSE /\ period_active = FALSE /\ slack_timer = FALSE
    /\ list = <<>>
    /\ timer = [t \in Timers |-> Off]

-----------------------------------------------------------------------------
(* A cfs_rq.                                                               *)

\* expire_cfs_rq_runtime: whether the rq's clock is past the deadline is a
\* matter of time; only if the pool still has the same one, its runtime is
\* gone.
Expired(r) ==
    {r} \cup (IF r.fresh /\ r.rem >= 0 THEN {[r EXCEPT !.rem = 0]} ELSE {})

\* assign_cfs_rq_runtime: what a cfs_rq with r.rem <= 0 gets of the pool.
Assigned(r) == Min({runtime, Slice - r.rem})

\* __account_cfs_rq_runtime: what becomes of r after it has run for d, what it
\* got, and whether the pool was asked, which starts the period timer
\* (start_cfs_bandwidth).
Account(r, d) ==
    LET asked(e, amount) ==
            [rq |-> [e EXCEPT !.rem = @ + amount, !.fresh = TRUE,
                              !.resched = @ \/ (e.curr /\ e.rem + amount <= 0)],
             amount |-> amount, asked |-> TRUE]
    IN  {IF e.rem > 0 THEN [rq |-> e, amount |-> 0, asked |-> FALSE]
         ELSE asked(e, Assigned(e)) : e \in Expired([r EXCEPT !.rem = @ - d])}

\* update_curr: some time has passed, which is accounted, or none.
update_curr(c) ==
    {[rq |-> q[c], amount |-> 0, asked |-> FALSE]}
        \cup (IF q[c].curr /\ q[c].enabled THEN UNION {Account(q[c], d) : d \in Deltas} ELSE {})

Taken(a) ==
    /\ runtime' = runtime - a.amount
    /\ idle' = (idle /\ (a.asked => runtime = 0))

Set(c, r, started) ==
    /\ q' = [q EXCEPT ![c] = r]
    /\ period_active' = (period_active \/ started)
    /\ UNCHANGED list

\* Mutant: the timer is taken to run, since the pool has just been asked.
StartsTimer_Never == FALSE

\* "If we're the first throttled task, make sure the bandwidth timer is
\* running": it may have stopped since the pool was asked.
StartsTimer == list = <<>>

\* throttle_cfs_rq: at the head of the list.
throttle_cfs_rq(c, r, started) ==
    /\ q' = [q EXCEPT ![c] = [r EXCEPT !.throttled = TRUE]]
    /\ list' = <<c>> \o list
    /\ period_active' = (period_active \/ started \/ StartsTimer)

\* check_enqueue_throttle and check_cfs_rq_runtime.
ThrottleIfOut(c, r, started) ==
    IF r.enabled /\ r.rem <= 0 /\ ~r.throttled THEN throttle_cfs_rq(c, r, started)
    ELSE Set(c, r, started)

-----------------------------------------------------------------------------
(* What happens on a CPU.                                                  *)

\* The first task of the group is queued (enqueue_entity).
Enqueue(c) ==
    LET r == [q[c] EXCEPT !.nr = TRUE]
    IN  /\ ~q[c].nr
        /\ IF r.enabled /\ ~r.throttled
           THEN \E a \in Account(r, 0) : ThrottleIfOut(c, a.rq, a.asked) /\ Taken(a)
           ELSE Set(c, r, FALSE) /\ UNCHANGED <<runtime, idle>>
        /\ UNCHANGED <<slack_timer, timer>>

\* The group's entity is picked.
SetNext(c) ==
    /\ q[c].nr /\ ~q[c].throttled /\ ~q[c].curr
    /\ Set(c, [q[c] EXCEPT !.curr = TRUE], FALSE)
    /\ UNCHANGED <<runtime, idle, slack_timer, timer>>

\* update_curr in a tick.  Ticks come, too, while the group is to be rescheduled:
\* how many they are is bounded by Debt.
Tick(c) ==
    /\ q[c].curr /\ q[c].rem > -Debt
    /\ \E a \in update_curr(c) : Set(c, a.rq, a.asked) /\ Taken(a)
    /\ UNCHANGED <<slack_timer, timer>>

\* put_prev_entity: update_curr and check_cfs_rq_runtime.
PutPrev(c) ==
    /\ q[c].curr
    /\ \E a \in update_curr(c) :
         /\ ThrottleIfOut(c, [a.rq EXCEPT !.curr = FALSE, !.resched = FALSE], a.asked)
         /\ Taken(a)
    /\ UNCHANGED <<slack_timer, timer>>

\* Whether the period timer is about to fire: a matter of time, or it runs.
RefreshSoon == IF timer["period"].pc # "off" THEN {TRUE} ELSE BOOLEAN

\* return_cfs_rq_runtime gives back what is more than MinRuntime.
Slack(r) == IF r.enabled /\ r.rem > MinRuntime THEN r.rem - MinRuntime ELSE 0

\* The last task sleeps or ends: update_curr, return_cfs_rq_runtime (to the pool if
\* it is of this period), and put_prev_entity if it was running.  A throttled group
\* loses its tasks, too.
Dequeue(c) ==
    /\ q[c].nr
    /\ \E a \in update_curr(c) :
         LET back == Slack(a.rq)
             r == [a.rq EXCEPT !.rem = @ - back, !.nr = FALSE, !.curr = FALSE, !.resched = FALSE]
         IN  /\ runtime' = runtime - a.amount + (IF r.fresh THEN back ELSE 0)
             /\ idle' = (idle /\ (a.asked => runtime = 0))
             /\ \E soon \in RefreshSoon :
                  slack_timer' = (slack_timer \/ (back > 0 /\ r.fresh /\ runtime' > Slice
                                                     /\ list # <<>> /\ ~soon))
             /\ IF q[c].curr THEN ThrottleIfOut(c, r, a.asked) ELSE Set(c, r, a.asked)
    /\ UNCHANGED timer

-----------------------------------------------------------------------------
(* The timers.                                                             *)

\* unthrottle_cfs_rq.
Unthrottle(c, r) ==
    /\ q' = [q EXCEPT ![c] = [r EXCEPT !.throttled = FALSE]]
    /\ \E i \in DOMAIN list : list[i] = c /\ list' = RemoveAt(list, i)

\* Mutant: the timer stops with a group still throttled.
MayStop_Idle == idle

\* Whether do_sched_cfs_period_timer deactivates the timer.
MayStop == idle /\ list = <<>>

\* The period timer: refill, and begin to distribute when there are throttled
\* cfs_rqs.
PeriodFires ==
    /\ period_active /\ timer["period"].pc = "off"
    /\ IF MayStop
       THEN /\ period_active' = FALSE
            /\ UNCHANGED <<q, runtime, idle, timer>>
       ELSE /\ runtime' = Quota
            /\ q' = [c \in CPUs |-> [q[c] EXCEPT !.fresh = FALSE]]
            /\ timer' = [timer EXCEPT
                            !["slack"].valid = timer["slack"].pc = "off",
                            !["period"] = IF list = <<>> THEN Off
                                ELSE [pc |-> "distribute", from |-> Quota, left |-> Quota,
                                      todo |-> list, valid |-> TRUE]]
            /\ idle' = (idle \/ list = <<>>)
            /\ UNCHANGED period_active
    /\ UNCHANGED <<slack_timer, list>>

\* The slack timer.
SlackFires ==
    /\ slack_timer /\ timer["slack"].pc = "off"
    /\ slack_timer' = FALSE
    /\ \E soon \in RefreshSoon :
         timer' = IF soon \/ runtime <= Slice THEN timer
                  ELSE [timer EXCEPT !["slack"] =
                            [pc |-> "distribute", from |-> runtime, left |-> runtime,
                             todo |-> list, valid |-> TRUE]]
    /\ UNCHANGED <<q, runtime, idle, period_active, list>>

\* distribute_cfs_runtime, one cfs_rq of the list: those that are put at its
\* head meanwhile are not seen.
Distribute(t) ==
    LET h == timer[t]
        c == Head(h.todo)
        give == Min({1 - q[c].rem, h.left})
        r == [q[c] EXCEPT !.rem = @ + give, !.fresh = h.valid]
    IN  /\ h.pc = "distribute" /\ h.todo # <<>> /\ h.left > 0
        /\ IF ~q[c].throttled
           THEN /\ timer' = [timer EXCEPT ![t].todo = Tail(@)]
                /\ UNCHANGED <<q, list>>
           ELSE /\ timer' = [timer EXCEPT ![t].todo = Tail(@), ![t].left = @ - give]
                /\ IF r.rem > 0
                   THEN Unthrottle(c, r)
                   ELSE q' = [q EXCEPT ![c] = r] /\ UNCHANGED list
        /\ UNCHANGED <<runtime, pool>>

\* The pool is charged after the distribution.  The period timer goes on while
\* there are throttled cfs_rqs and runtime, the slack timer does not.
Distributed(t) ==
    LET h == timer[t]
        charge == IF t = "slack" /\ ~h.valid THEN 0 ELSE Min({h.from - h.left, runtime})
    IN  /\ h.pc = "distribute" /\ (h.todo = <<>> \/ h.left = 0)
        /\ runtime' = runtime - charge
        /\ IF t = "period" /\ list # <<>> /\ runtime' > 0
           THEN /\ timer' = [timer EXCEPT ![t] = [h EXCEPT !.from = runtime', !.left = runtime',
                                                           !.todo = list]]
                /\ UNCHANGED idle
           ELSE /\ timer' = [timer EXCEPT ![t] = Off]
                /\ idle' = (idle /\ t = "slack")
        /\ UNCHANGED <<q, period_active, slack_timer, list>>

\* unthrottle_offline_cfs_rqs and update_runtime_enabled.
Online(c) ==
    /\ c \in Hotplug
    /\ IF ~q[c].enabled
       THEN q' = [q EXCEPT ![c].enabled = TRUE] /\ UNCHANGED list
       ELSE LET r == [q[c] EXCEPT !.rem = 1, !.enabled = FALSE, !.resched = FALSE]
            IN  IF r.throttled THEN Unthrottle(c, r)
                ELSE q' = [q EXCEPT ![c] = r] /\ UNCHANGED list
    /\ UNCHANGED <<runtime, pool, timer>>

-----------------------------------------------------------------------------
Next ==
    \/ \E c \in CPUs : Enqueue(c) \/ SetNext(c) \/ Tick(c) \/ PutPrev(c) \/ Dequeue(c)
                        \/ Online(c)
    \/ PeriodFires \/ SlackFires
    \/ \E t \in Timers : Distribute(t) \/ Distributed(t)

\* A timer that is armed fires, and its handler ends.
Fairness ==
    /\ WF_vars(PeriodFires) /\ WF_vars(SlackFires)
    /\ \A t \in Timers : WF_vars(Distribute(t)) /\ WF_vars(Distributed(t))

Spec == Init /\ [][Next]_vars /\ Fairness

-----------------------------------------------------------------------------
TypeOK ==
    /\ \A c \in CPUs : /\ q[c].rem \in -(Debt + 2 * Max(Deltas)) .. Slice
                       /\ q[c].curr => q[c].nr
    /\ runtime >= 0
    /\ {idle, period_active, slack_timer} \subseteq BOOLEAN
    /\ ToSet(list) \subseteq CPUs

\* The list has exactly the throttled cfs_rqs, each once, and none of them
\* runs.
ListMatches ==
    /\ IsInjective(list)
    /\ \A c \in CPUs : q[c].throttled <=> c \in ToSet(list)
    /\ \A c \in CPUs : q[c].throttled => ~q[c].curr

\* As long as a cfs_rq is throttled the period timer will come: it is never
\* deactivated under it, nor is a cfs_rq throttled with the timer off.
ThrottledHasTimer == list # <<>> => period_active

\* The three together.
Inv == TypeOK /\ ListMatches /\ ThrottledHasTimer

\* With a quota large enough for what all cfs_rqs may owe, a throttled one
\* runs again.
ThrottledRuns == \A c \in CPUs : q[c].throttled ~> ~q[c].throttled
=============================================================================
