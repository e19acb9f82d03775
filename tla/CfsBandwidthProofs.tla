-------------------------- MODULE CfsBandwidthProofs --------------------------
(***************************************************************************)
(* CFS bandwidth control keeps its list and its timer, for every number of *)
(* CPUs, quota, slice and length of a tick.                                *)
(***************************************************************************)
EXTENDS CfsBandwidth, SequenceTheorems, TLAPS

USE BandwidthAssumption

\* What a cfs_rq owes at most: the debt with which a last tick comes, that tick, and
\* the time until it is put.
MostOwed == Debt + 2 * Max(Deltas)

QueueType ==
    [rem : Int, fresh : BOOLEAN, enabled : BOOLEAN, throttled : BOOLEAN, nr : BOOLEAN,
     curr : BOOLEAN, resched : BOOLEAN]

HandlerType ==
    [pc : {"off", "distribute"}, from : Nat, left : Nat, todo : Seq(CPUs), valid : BOOLEAN]

BwTypes ==
    /\ q \in [CPUs -> QueueType]
    /\ runtime \in Nat /\ idle \in BOOLEAN /\ period_active \in BOOLEAN /\ slack_timer \in BOOLEAN
    /\ list \in Seq(CPUs)
    /\ timer \in [Timers -> HandlerType]
    /\ \A t \in Timers : timer[t].left <= timer[t].from

\* A cfs_rq with tasks has runtime, is throttled or is about to be.
Paid(r) ==
    /\ r.rem <= Slice /\ r.rem >= -MostOwed
    /\ r.curr => r.nr /\ r.rem - Max(Deltas) >= -MostOwed
    /\ r.throttled => r.rem <= 0 /\ ~r.curr /\ r.enabled
    /\ ~r.enabled => r.rem > 0
    /\ r.nr /\ ~r.curr /\ ~r.throttled => r.rem > 0
    /\ r.curr /\ ~r.resched => r.rem > 0

AllPaid == \A c \in CPUs : Paid(q[c])

BwIInv == BwTypes /\ AllPaid /\ ListMatches /\ ThrottledHasTimer

-----------------------------------------------------------------------------
(* The operators.                                                          *)

LEMMA MinOfTwo ==
    \A a, b \in Int : Min({a, b}) = IF a <= b THEN a ELSE b
<1> SUFFICES ASSUME NEW a \in Int, NEW b \in Int
             PROVE  Min({a, b}) = IF a <= b THEN a ELSE b
  OBVIOUS
<1> DEFINE m == IF a <= b THEN a ELSE b
<1>1. m \in {a, b} /\ \A y \in {a, b} : m <= y
  OBVIOUS
<1>2. \A x \in {a, b} : (\A y \in {a, b} : x <= y) => x = m
  OBVIOUS
<1> HIDE DEF m
<1>3. Min({a, b}) = m
  BY <1>1, <1>2 DEF Min
<1> QED BY <1>3 DEF m

LEMMA LongestDelta ==
    /\ Max(Deltas) \in Nat /\ MostOwed \in Nat /\ Debt \in Nat /\ MinRuntime \in Nat
    /\ MostOwed = Debt + Max(Deltas) + Max(Deltas)
    /\ \A d \in Deltas : d \in Nat /\ d <= Max(Deltas)
<1>1. \E x \in Deltas : \A y \in Deltas : x >= y
  OBVIOUS
<1>2. Max(Deltas) \in Deltas /\ \A y \in Deltas : Max(Deltas) >= y
  BY <1>1 DEF Max
<1>3. Max(Deltas) \in Nat /\ \A d \in Deltas : d \in Nat /\ d <= Max(Deltas)
  BY <1>2
<1> QED BY <1>3 DEF MostOwed

\* What is at i leaves a list in which everything is once.
LEMMA Removal ==
    ASSUME NEW s \in Seq(CPUs), IsInjective(s), NEW i \in DOMAIN s
    PROVE  /\ RemoveAt(s, i) \in Seq(CPUs) /\ IsInjective(RemoveAt(s, i))
           /\ ToSet(RemoveAt(s, i)) = ToSet(s) \ {s[i]}
<1> DEFINE n == Len(s)
           t == RemoveAt(s, i)
<1>1. n \in Nat /\ DOMAIN s = 1 .. n /\ i \in 1 .. n /\ \A j \in 1 .. n : s[j] \in CPUs
  OBVIOUS
<1>2. /\ t \in Seq(CPUs) /\ Len(t) = n - 1
      /\ \A j \in 1 .. n - 1 : t[j] = IF j < i THEN s[j] ELSE s[j + 1]
  <2> DEFINE a == SubSeq(s, 1, i - 1)
             b == SubSeq(s, i + 1, n)
  <2>1. a \in Seq(CPUs) /\ Len(a) = i - 1 /\ \A j \in 1 .. i - 1 : a[j] = s[j]
    <3>1. 1 \in 1 .. n + 1 /\ i - 1 \in 0 .. n
      BY <1>1
    <3>2. /\ a \in Seq(CPUs) /\ Len(a) = IF 1 <= i - 1 THEN (i - 1) - 1 + 1 ELSE 0
          /\ \A j \in 1 .. (i - 1) - 1 + 1 : a[j] = s[1 + j - 1]
      BY <3>1, SubSeqProperties
    <3>3. (i - 1) - 1 + 1 = i - 1 /\ \A j \in 1 .. i - 1 : 1 + j - 1 = j
      BY <1>1
    <3> HIDE DEF a
    <3> QED BY <1>1, <3>2, <3>3
  <2>2. b \in Seq(CPUs) /\ Len(b) = n - i /\ \A j \in 1 .. n - i : b[j] = s[j + i]
    <3>1. i + 1 \in 1 .. n + 1 /\ n \in (i + 1) - 1 .. n
      BY <1>1
    <3>2. /\ b \in Seq(CPUs) /\ Len(b) = IF i + 1 <= n THEN n - (i + 1) + 1 ELSE 0
          /\ \A j \in 1 .. n - (i + 1) + 1 : b[j] = s[(i + 1) + j - 1]
      BY <3>1, SubSeqProperties
    <3>3. n - (i + 1) + 1 = n - i /\ \A j \in 1 .. n - i : (i + 1) + j - 1 = j + i
      BY <1>1
    <3> HIDE DEF b
    <3> QED BY <1>1, <3>2, <3>3
  <2>3. t = a \o b
    BY DEF RemoveAt
  <2> HIDE DEF a, b, t
  <2>4. t \in Seq(CPUs) /\ Len(t) = n - 1
    <3>1. t \in Seq(CPUs) /\ Len(t) = Len(a) + Len(b)
      BY <2>1, <2>2, <2>3, ConcatProperties
    <3> QED BY <1>1, <2>1, <2>2, <3>1
  <2>c. \A j \in 1 .. Len(a) + Len(b) : t[j] = IF j <= Len(a) THEN a[j] ELSE b[j - Len(a)]
    BY <2>1, <2>2, <2>3, ConcatProperties
  <2>5. \A j \in 1 .. n - 1 : t[j] = IF j < i THEN s[j] ELSE s[j + 1]
    <3> SUFFICES ASSUME NEW j \in 1 .. n - 1
                 PROVE  t[j] = IF j < i THEN s[j] ELSE s[j + 1]
      OBVIOUS
    <3>0. j \in 1 .. Len(a) + Len(b)
      BY <1>1, <2>1, <2>2
    <3>1. CASE j < i
      <4>1. j <= Len(a) /\ j \in 1 .. i - 1
        BY <1>1, <2>1, <3>1
      <4> QED BY <2>1, <2>c, <3>0, <3>1, <4>1
    <3>2. CASE j >= i
      <4>1. j - (i - 1) \in 1 .. n - i /\ (j - (i - 1)) + i = j + 1
        BY <1>1, <3>2
      <4>2. t[j] = b[j - (i - 1)]
        BY <1>1, <2>1, <2>c, <3>0, <3>2
      <4>3. b[j - (i - 1)] = s[(j - (i - 1)) + i]
        BY <2>2, <4>1
      <4>4. ~(j < i)
        BY <1>1, <3>2
      <4> QED BY <4>1, <4>2, <4>3, <4>4
    <3> QED BY <1>1, <3>1, <3>2
  <2> QED BY <2>4, <2>5
<1> HIDE DEF t
<1>3. DOMAIN t = 1 .. n - 1
  BY <1>2
<1> DEFINE at(j) == IF j < i THEN j ELSE j + 1
<1>a. \A j \in 1 .. n - 1 : at(j) \in 1 .. n /\ at(j) # i /\ t[j] = s[at(j)]
  BY <1>1, <1>2
<1>b. \A j, k \in 1 .. n - 1 : at(j) = at(k) => j = k
  BY <1>1
<1>c. \A j, k \in 1 .. n : s[j] = s[k] => j = k
  BY <1>1 DEF IsInjective
<1> HIDE DEF at
<1>4. IsInjective(t)
  BY <1>3, <1>a, <1>b, <1>c DEF IsInjective
<1>5. ToSet(t) \subseteq ToSet(s) \ {s[i]}
  BY <1>1, <1>3, <1>a, <1>c DEF ToSet
<1>6. ToSet(s) \ {s[i]} \subseteq ToSet(t)
  <2> SUFFICES ASSUME NEW k \in 1 .. n, s[k] # s[i]
               PROVE  s[k] \in ToSet(t)
    BY <1>1 DEF ToSet
  <2>1. k # i
    OBVIOUS
  <2>2. CASE k < i
    <3>1. k \in 1 .. n - 1 /\ t[k] = s[k]
      BY <1>1, <1>2, <2>2
    <3> QED BY <1>3, <3>1 DEF ToSet
  <2>3. CASE k > i
    <3>1. k - 1 \in 1 .. n - 1 /\ ~(k - 1 < i) /\ (k - 1) + 1 = k
      BY <1>1, <2>3
    <3>2. t[k - 1] = s[k]
      BY <1>2, <3>1
    <3> QED BY <1>3, <3>1, <3>2 DEF ToSet
  <2> QED BY <1>1, <2>1, <2>2, <2>3
<1> QED BY <1>2, <1>4, <1>5, <1>6 DEF t

\* The new one goes to the head.
LEMMA AtHead ==
    ASSUME NEW s \in Seq(CPUs), IsInjective(s), NEW c \in CPUs, c \notin ToSet(s)
    PROVE  /\ <<c>> \o s \in Seq(CPUs) /\ IsInjective(<<c>> \o s)
           /\ ToSet(<<c>> \o s) = ToSet(s) \cup {c} /\ <<c>> \o s # <<>>
<1> DEFINE n == Len(s)
           t == <<c>> \o s
<1>1. /\ n \in Nat /\ DOMAIN s = 1 .. n
      /\ t \in Seq(CPUs) /\ Len(t) = n + 1 /\ DOMAIN t = 1 .. n + 1
  OBVIOUS
<1>2. \A j \in 1 .. n + 1 : t[j] = IF j = 1 THEN c ELSE s[j - 1]
  OBVIOUS
<1> HIDE DEF t
<1>3. \A j \in 1 .. n : s[j] # c
  BY <1>1 DEF ToSet
<1>4. IsInjective(t)
  <2> SUFFICES ASSUME NEW j \in 1 .. n + 1, NEW k \in 1 .. n + 1, t[j] = t[k]
               PROVE  j = k
    BY <1>1 DEF IsInjective
  <2>1. \A x \in 1 .. n + 1 : x # 1 => x - 1 \in 1 .. n
    BY <1>1
  <2>2. CASE j = 1 \/ k = 1
    BY <1>2, <1>3, <2>1, <2>2
  <2>3. CASE j # 1 /\ k # 1
    <3>1. j - 1 \in 1 .. n /\ k - 1 \in 1 .. n /\ s[j - 1] = s[k - 1]
      BY <1>2, <2>1, <2>3
    <3>2. j - 1 = k - 1
      BY <1>1, <3>1 DEF IsInjective
    <3> QED BY <3>2
  <2> QED BY <2>2, <2>3
<1>5. ToSet(t) = ToSet(s) \cup {c}
  <2>1. \A j \in 1 .. n : j + 1 \in 1 .. n + 1 /\ t[j + 1] = s[j]
    <3> SUFFICES ASSUME NEW j \in 1 .. n
                 PROVE  j + 1 \in 1 .. n + 1 /\ t[j + 1] = s[j]
      OBVIOUS
    <3>1. j + 1 \in 1 .. n + 1 /\ j + 1 # 1 /\ (j + 1) - 1 = j
      BY <1>1
    <3> QED BY <1>2, <3>1
  <2>2. 1 \in 1 .. n + 1 /\ t[1] = c
    BY <1>1, <1>2
  <2>3. \A j \in 1 .. n + 1 : j # 1 => j - 1 \in 1 .. n
    BY <1>1
  <2>4. ToSet(t) = {t[j] : j \in 1 .. n + 1} /\ ToSet(s) = {s[j] : j \in 1 .. n}
    BY <1>1 DEF ToSet
  <2>5. ASSUME NEW j \in 1 .. n + 1
        PROVE  t[j] \in ToSet(s) \cup {c}
    BY <1>2, <2>3, <2>4
  <2>6. c \in ToSet(t)
    BY <2>2, <2>4
  <2>7. ASSUME NEW j \in 1 .. n
        PROVE  s[j] \in ToSet(t)
    BY <2>1, <2>4
  <2> QED BY <2>4, <2>5, <2>6, <2>7
<1>6. t # <<>>
  BY <1>1
<1> QED BY <1>1, <1>4, <1>5, <1>6 DEF t

\* What is accounted: a cfs_rq gets no more than the pool has, and is told to be
\* rescheduled when it got too little.
LEMMA Accounted ==
    ASSUME runtime \in Nat, NEW r \in QueueType, NEW d \in Nat, r.rem <= Slice,
           NEW low \in Nat, r.rem - d >= -low, NEW a \in Account(r, d)
    PROVE  /\ a.rq \in QueueType /\ a.rq.enabled = r.enabled /\ a.rq.throttled = r.throttled
           /\ a.rq.nr = r.nr /\ a.rq.curr = r.curr
           /\ a.rq.rem <= Slice /\ a.rq.rem >= -low
           /\ r.curr /\ a.rq.rem <= 0 => a.rq.resched
           /\ a.amount \in Nat /\ a.amount <= runtime /\ a.asked \in BOOLEAN
<1>s. Slice \in Nat \ {0}
  OBVIOUS
<1> DEFINE n == r.rem - d
           f == [r EXCEPT !.rem = n]
           zero == 0
           z == [f EXCEPT !.rem = zero]
<1>n. n \in Int /\ n <= Slice /\ n >= -low /\ zero = 0 /\ zero \in Int
  BY <1>s DEF QueueType
<1>1. PICK e \in Expired(f) :
        a = IF e.rem > 0 THEN [rq |-> e, amount |-> 0, asked |-> FALSE]
            ELSE [rq |-> [e EXCEPT !.rem = @ + Assigned(e), !.fresh = TRUE,
                                   !.resched = @ \/ (e.curr /\ e.rem + Assigned(e) <= 0)],
                  amount |-> Assigned(e), asked |-> TRUE]
  BY DEF Account
<1>2. e = f \/ e = z
  BY <1>1 DEF Expired
<1> HIDE DEF n, zero
<1>f. /\ f \in QueueType /\ f.rem = n /\ f.enabled = r.enabled /\ f.throttled = r.throttled
      /\ f.nr = r.nr /\ f.curr = r.curr
  BY <1>n DEF QueueType
<1> HIDE DEF f
<1>z. /\ z \in QueueType /\ z.rem = zero /\ z.enabled = f.enabled /\ z.throttled = f.throttled
      /\ z.nr = f.nr /\ z.curr = f.curr
  BY <1>f, <1>n DEF QueueType
<1> HIDE DEF z
<1>e. /\ e \in QueueType /\ e.enabled = r.enabled /\ e.throttled = r.throttled
      /\ e.nr = r.nr /\ e.curr = r.curr
      /\ e.rem <= Slice /\ e.rem >= -low /\ e.rem \in Int
  BY <1>2, <1>f, <1>n, <1>s, <1>z DEF QueueType
<1>3. CASE e.rem > 0
  <2>1. a = [rq |-> e, amount |-> 0, asked |-> FALSE]
    BY <1>1, <1>3
  <2>2. a.rq = e /\ a.amount = 0 /\ a.asked = FALSE
    BY <2>1
  <2>3. a.amount \in Nat /\ a.amount <= runtime /\ a.asked \in BOOLEAN
    <3>1. 0 \in Nat /\ 0 <= runtime /\ FALSE \in BOOLEAN
      OBVIOUS
    <3>2. a.asked \in BOOLEAN
      BY <2>2, <3>1, Zenon
    <3>3. a.amount \in Nat /\ a.amount <= runtime
      BY <2>2, <3>1
    <3> QED BY <3>2, <3>3
  <2>4. ~(e.rem <= 0)
    BY <1>3, <1>e
  <2> QED BY <1>e, <2>2, <2>3, <2>4
<1>4. CASE e.rem <= 0
  <2> DEFINE m == Assigned(e)
             w == e.rem + m
             s == e.resched \/ (e.curr /\ w <= 0)
             yes == TRUE
             g == [e EXCEPT !.rem = w, !.fresh = yes, !.resched = s]
  <2>1. m \in Nat /\ m <= runtime /\ m <= Slice - e.rem
    <3>1. Slice - e.rem \in Nat
      BY <1>4, <1>e, <1>s
    <3>2. m = IF runtime <= Slice - e.rem THEN runtime ELSE Slice - e.rem
      BY <3>1, MinOfTwo DEF Assigned
    <3> QED BY <3>1, <3>2
  <2>2. /\ a.rq = g /\ a.amount = m /\ a.asked = TRUE
    <3>1. ~(e.rem > 0)
      BY <1>4, <1>e
    <3>2. a = [rq |-> g, amount |-> m, asked |-> TRUE]
      BY <1>1, <3>1
    <3> QED BY <3>2
  <2>3. w \in Int /\ w <= Slice /\ w >= -low /\ yes \in BOOLEAN
    BY <1>e, <1>s, <2>1
  <2>4. s \in BOOLEAN /\ (e.curr /\ w <= 0 => s)
    <3>1. e.resched \in BOOLEAN /\ e.curr \in BOOLEAN
      BY <1>e DEF QueueType
    <3> HIDE DEF w
    <3> QED BY <3>1
  <2> HIDE DEF m, w, s, yes
  <2>5. g \in QueueType
    BY <1>e, <2>3, <2>4 DEF QueueType
  <2>6. /\ g.rem = w /\ g.resched = s /\ g.enabled = e.enabled /\ g.throttled = e.throttled
        /\ g.nr = e.nr /\ g.curr = e.curr
    BY <1>e DEF QueueType
  <2> HIDE DEF g
  <2> QED BY <1>e, <2>1, <2>2, <2>3, <2>4, <2>5, <2>6
<1> QED BY <1>3, <1>4, <1>e

-----------------------------------------------------------------------------
(* What the actions do to a cfs_rq and to the list.                        *)

Kept == q' \in [CPUs -> QueueType] /\ list' \in Seq(CPUs) /\ AllPaid' /\ ListMatches'

\* A cfs_rq stays on the list or off it.
LEMMA QueueSet ==
    ASSUME BwIInv, NEW c \in CPUs, NEW r \in QueueType, Paid(r),
           r.throttled = q[c].throttled, q' = [q EXCEPT ![c] = r], list' = list
    PROVE  Kept
<1>1. q \in [CPUs -> QueueType] /\ list \in Seq(CPUs) /\ AllPaid /\ ListMatches
  BY DEF BwIInv, BwTypes
<1>2. \A x \in CPUs : q'[x] = IF x = c THEN r ELSE q[x]
  BY <1>1
<1>3. q' \in [CPUs -> QueueType] /\ list' \in Seq(CPUs)
  BY <1>1
<1>4. AllPaid'
  <2>1. \A x \in CPUs : Paid(q'[x])
    BY <1>1, <1>2 DEF AllPaid
  <2> QED BY <2>1 DEF AllPaid, Paid
<1>5. ListMatches'
  <2>1. \A x \in CPUs : q'[x].throttled = q[x].throttled
    BY <1>2
  <2>2. \A x \in CPUs : q'[x].throttled => ~q'[x].curr
    BY <1>1, <1>2 DEF Paid, AllPaid
  <2> QED BY <1>1, <2>1, <2>2 DEF ListMatches
<1> QED BY <1>3, <1>4, <1>5 DEF Kept

\* One that is throttled leaves the list with runtime.
LEMMA Unthrottled ==
    ASSUME BwIInv, NEW c \in CPUs, NEW r \in QueueType, q[c].throttled, r.rem > 0, r.rem <= Slice,
           r.curr = q[c].curr, Unthrottle(c, r)
    PROVE  Kept /\ (list' # <<>> => list # <<>>)
<1>1. /\ q \in [CPUs -> QueueType] /\ list \in Seq(CPUs) /\ AllPaid /\ ListMatches
  BY DEF BwIInv, BwTypes
<1>2. ~r.curr
  BY <1>1 DEF AllPaid, Paid
<1> DEFINE no == FALSE
           g == [r EXCEPT !.throttled = no]
<1>3. q' = [q EXCEPT ![c] = g] /\ no \in BOOLEAN /\ ~no
  BY DEF Unthrottle
<1>4. PICK i \in DOMAIN list : list[i] = c /\ list' = RemoveAt(list, i)
  BY DEF Unthrottle
<1> HIDE DEF no
<1>g. g \in QueueType /\ g.throttled = no /\ g.rem = r.rem /\ g.curr = r.curr /\ g.nr = r.nr
  BY <1>3 DEF QueueType
<1> HIDE DEF g
<1>5. \A x \in CPUs : q'[x] = IF x = c THEN g ELSE q[x]
  BY <1>1, <1>3
<1>6. IsInjective(list)
  BY <1>1 DEF ListMatches
<1>7. list' \in Seq(CPUs) /\ IsInjective(list') /\ ToSet(list') = ToSet(list) \ {c}
  BY <1>1, <1>4, <1>6, Removal
<1>8. q' \in [CPUs -> QueueType]
  BY <1>1, <1>3, <1>g
<1>9. AllPaid'
  <2>1. Paid(g)
    <3>1. MostOwed \in Nat /\ r.rem \in Int
      BY LongestDelta DEF QueueType
    <3> QED BY <1>2, <1>3, <1>g, <3>1 DEF Paid
  <2>2. \A x \in CPUs : Paid(q'[x])
    BY <1>1, <1>5, <2>1 DEF AllPaid
  <2> QED BY <2>2 DEF AllPaid, Paid
<1>10. ListMatches'
  <2>1. \A x \in CPUs : q'[x].throttled <=> x \in ToSet(list')
    BY <1>1, <1>3, <1>5, <1>7, <1>g DEF ListMatches
  <2>2. \A x \in CPUs : q'[x].throttled => ~q'[x].curr
    BY <1>1, <1>3, <1>5, <1>g DEF ListMatches
  <2> QED BY <1>7, <2>1, <2>2 DEF ListMatches
<1>11. list # <<>>
  BY <1>1, <1>4
<1> QED BY <1>7, <1>8, <1>9, <1>10, <1>11 DEF Kept

\* One that does not run and is out of runtime goes to the list, and the timer is
\* made to come.
LEMMA Throttled ==
    ASSUME BwIInv, NEW c \in CPUs, NEW r \in QueueType, NEW started \in BOOLEAN,
           r.rem <= Slice, r.rem >= -MostOwed, ~r.curr, r.throttled = q[c].throttled,
           r.throttled => r.rem <= 0 /\ r.enabled,
           ~r.enabled => r.rem > 0,
           ThrottleIfOut(c, r, started)
    PROVE  Kept /\ period_active' \in BOOLEAN /\ ThrottledHasTimer'
<1>1. /\ q \in [CPUs -> QueueType] /\ list \in Seq(CPUs) /\ AllPaid /\ ListMatches
      /\ ThrottledHasTimer /\ period_active \in BOOLEAN
  BY DEF BwIInv, BwTypes
<1>r. r.rem \in Int /\ r.throttled \in BOOLEAN /\ r.enabled \in BOOLEAN
  BY DEF QueueType
<1>2. CASE r.enabled /\ r.rem <= 0 /\ ~r.throttled
  <2> DEFINE yes == TRUE
             g == [r EXCEPT !.throttled = yes]
  <2>1. /\ q' = [q EXCEPT ![c] = g] /\ list' = <<c>> \o list
        /\ period_active' = (period_active \/ started \/ (list = <<>>))
        /\ yes \in BOOLEAN /\ yes
    BY <1>2 DEF ThrottleIfOut, throttle_cfs_rq, StartsTimer
  <2> HIDE DEF yes
  <2>g. /\ g \in QueueType /\ g.throttled = yes /\ g.rem = r.rem /\ g.curr = r.curr
        /\ g.enabled = r.enabled
    BY <2>1 DEF QueueType
  <2> HIDE DEF g
  <2>2. \A x \in CPUs : q'[x] = IF x = c THEN g ELSE q[x]
    BY <1>1, <2>1
  <2>3. IsInjective(list) /\ c \notin ToSet(list)
    BY <1>1, <1>2 DEF ListMatches
  <2>4. /\ list' \in Seq(CPUs) /\ IsInjective(list') /\ ToSet(list') = ToSet(list) \cup {c}
    BY <1>1, <2>1, <2>3, AtHead
  <2>5. q' \in [CPUs -> QueueType]
    BY <1>1, <2>1, <2>g
  <2>6. AllPaid'
    <3>1. Paid(g)
      BY <1>2, <2>1, <2>g DEF Paid
    <3>2. \A x \in CPUs : Paid(q'[x])
      BY <1>1, <2>2, <3>1 DEF AllPaid
    <3> QED BY <3>2 DEF AllPaid, Paid
  <2>7. ListMatches'
    <3>1. \A x \in CPUs : q'[x].throttled <=> x \in ToSet(list')
      BY <1>1, <2>1, <2>2, <2>4, <2>g DEF ListMatches
    <3>2. \A x \in CPUs : q'[x].throttled => ~q'[x].curr
      BY <1>1, <2>2, <2>g DEF ListMatches
    <3> QED BY <2>4, <3>1, <3>2 DEF ListMatches
  <2>8. period_active'
    BY <1>1, <2>1 DEF ThrottledHasTimer
  <2>9. period_active' \in BOOLEAN
    BY <1>1, <2>1
  <2> QED BY <2>4, <2>5, <2>6, <2>7, <2>8, <2>9 DEF Kept, ThrottledHasTimer
<1>3. CASE ~(r.enabled /\ r.rem <= 0 /\ ~r.throttled)
  <2>1. q' = [q EXCEPT ![c] = r] /\ list' = list /\ period_active' = (period_active \/ started)
    BY <1>3 DEF ThrottleIfOut, Set
  <2>2. Paid(r)
    BY <1>3, <1>r DEF Paid
  <2>3. Kept
    BY <2>1, <2>2, QueueSet
  <2> QED BY <1>1, <2>1, <2>3 DEF ThrottledHasTimer
<1> QED BY <1>2, <1>3

Rest ==
    /\ runtime' \in Nat /\ idle' \in BOOLEAN /\ period_active' \in BOOLEAN
    /\ slack_timer' \in BOOLEAN /\ timer' \in [Timers -> HandlerType]
    /\ \A t \in Timers : timer'[t].left <= timer'[t].from
    /\ ThrottledHasTimer'

LEMMA Whole == Kept /\ Rest => BwIInv'
BY DEF Kept, Rest, BwIInv, BwTypes

-----------------------------------------------------------------------------
(* What happens on a CPU.                                                  *)

LEMMA Facts ==
    ASSUME BwIInv, NEW c \in CPUs
    PROVE  /\ q[c] \in QueueType /\ Paid(q[c]) /\ q[c].rem \in Int
           /\ Slice \in Nat \ {0} /\ Max(Deltas) \in Nat /\ MostOwed \in Nat
<1>1. q[c] \in QueueType /\ Paid(q[c])
  BY DEF BwIInv, BwTypes, AllPaid
<1> QED BY <1>1, LongestDelta DEF QueueType

\* What update_curr may leave of a cfs_rq.
LEMMA Updated ==
    ASSUME BwIInv, NEW c \in CPUs, NEW a \in update_curr(c)
    PROVE  /\ a.rq \in QueueType /\ a.rq.enabled = q[c].enabled /\ a.rq.throttled = q[c].throttled
           /\ a.rq.nr = q[c].nr /\ a.rq.curr = q[c].curr
           /\ a.rq.rem \in Int /\ a.rq.rem <= Slice /\ a.rq.rem >= -MostOwed
           /\ q[c].curr /\ q[c].rem > -Debt => a.rq.rem - Max(Deltas) >= -MostOwed
           /\ a.rq.throttled => a.rq.rem <= 0 /\ a.rq.enabled
           /\ ~a.rq.enabled => a.rq.rem > 0
           /\ a.rq.curr /\ ~a.rq.resched => a.rq.rem > 0
           /\ a.amount \in Nat /\ a.amount <= runtime /\ a.asked \in BOOLEAN
<1>0. q[c] \in QueueType /\ Paid(q[c]) /\ q[c].rem \in Int /\ runtime \in Nat
  BY Facts DEF BwIInv, BwTypes
<1>m. /\ Max(Deltas) \in Nat /\ MostOwed \in Nat /\ Debt \in Nat
      /\ MostOwed = Debt + Max(Deltas) + Max(Deltas)
  BY LongestDelta
<1> DEFINE none == [rq |-> q[c], amount |-> 0, asked |-> FALSE]
<1>1. CASE a = none
  <2>1. a.rq = q[c] /\ a.amount = 0 /\ a.asked = FALSE
    BY <1>1
  <2> HIDE DEF none
  <2>2. a.asked \in BOOLEAN
    <3>1. FALSE \in BOOLEAN
      OBVIOUS
    <3> QED BY <2>1, <3>1, Zenon
  <2>3. a.amount \in Nat /\ a.amount <= runtime
    BY <1>0, <2>1
  <2>4. q[c].curr => q[c].rem - Max(Deltas) >= -MostOwed
    BY <1>0 DEF Paid
  <2> QED BY <1>0, <2>1, <2>2, <2>3, <2>4 DEF Paid
<1>2. CASE a # none
  <2>1. q[c].curr /\ q[c].enabled /\ \E d \in Deltas : a \in Account(q[c], d)
    BY <1>2 DEF update_curr
  <2>2. PICK d \in Deltas : a \in Account(q[c], d)
    BY <2>1
  <2>3. d \in Nat /\ d <= Max(Deltas)
    BY LongestDelta
  <2>4. q[c].rem <= Slice /\ q[c].rem - d >= -MostOwed
    BY <1>0, <1>m, <2>1, <2>3 DEF Paid
  <2>5. /\ a.rq \in QueueType /\ a.rq.enabled = q[c].enabled /\ a.rq.throttled = q[c].throttled
        /\ a.rq.nr = q[c].nr /\ a.rq.curr = q[c].curr
        /\ a.rq.rem <= Slice /\ a.rq.rem >= -MostOwed
        /\ q[c].curr /\ a.rq.rem <= 0 => a.rq.resched
        /\ a.amount \in Nat /\ a.amount <= runtime /\ a.asked \in BOOLEAN
    BY <1>0, <1>m, <2>2, <2>3, <2>4, Accounted
  <2>6. a.rq.rem \in Int
    BY <2>5 DEF QueueType
  <2>7. q[c].rem > -Debt => a.rq.rem - Max(Deltas) >= -MostOwed
    <3> SUFFICES ASSUME q[c].rem > -Debt
                 PROVE  a.rq.rem - Max(Deltas) >= -MostOwed
      OBVIOUS
    <3> DEFINE low == Debt + Max(Deltas)
    <3>1. low \in Nat /\ q[c].rem - d >= -low
      BY <1>0, <1>m, <2>3
    <3>2. MostOwed = low + Max(Deltas)
      BY <1>m
    <3> HIDE DEF low
    <3>3. a.rq.rem >= -low
      BY <1>0, <2>2, <2>3, <2>4, <3>1, Accounted
    <3> QED BY <1>m, <2>6, <3>1, <3>2, <3>3
  <2>8. ~q[c].throttled
    BY <1>0, <2>1 DEF Paid
  <2> QED BY <2>1, <2>5, <2>6, <2>7, <2>8
<1> QED BY <1>1, <1>2

LEMMA Enqueued == ASSUME BwIInv, NEW c \in CPUs, Enqueue(c) PROVE BwIInv'
<1> DEFINE yes == TRUE
           r == [q[c] EXCEPT !.nr = yes]
<1>0. q[c] \in QueueType /\ Paid(q[c]) /\ q[c].rem \in Int /\ Slice \in Nat \ {0}
  BY Facts
<1>1. /\ ~q[c].nr /\ UNCHANGED <<slack_timer, timer>> /\ yes \in BOOLEAN
      /\ IF r.enabled /\ ~r.throttled
         THEN \E a \in Account(r, 0) : ThrottleIfOut(c, a.rq, a.asked) /\ Taken(a)
         ELSE Set(c, r, FALSE) /\ UNCHANGED <<runtime, idle>>
  BY DEF Enqueue
<1> HIDE DEF yes
<1>r. /\ r \in QueueType /\ r.nr = yes /\ r.rem = q[c].rem /\ r.curr = q[c].curr
      /\ r.throttled = q[c].throttled /\ r.enabled = q[c].enabled
  BY <1>0, <1>1 DEF QueueType
<1> HIDE DEF r
<1>2. ~q[c].curr
  BY <1>0, <1>1 DEF Paid
<1>3. CASE r.enabled /\ ~r.throttled
  <2>1. PICK a \in Account(r, 0) : ThrottleIfOut(c, a.rq, a.asked) /\ Taken(a)
    BY <1>1, <1>3
  <2>2. runtime \in Nat /\ r.rem <= Slice /\ r.rem - 0 >= -MostOwed /\ 0 \in Nat /\ MostOwed \in Nat
    BY <1>0, <1>r, LongestDelta DEF Paid, BwIInv, BwTypes
  <2>3. /\ a.rq \in QueueType /\ a.rq.enabled = r.enabled /\ a.rq.throttled = r.throttled
        /\ a.rq.nr = r.nr /\ a.rq.curr = r.curr
        /\ a.rq.rem <= Slice /\ a.rq.rem >= -MostOwed
        /\ a.amount \in Nat /\ a.amount <= runtime /\ a.asked \in BOOLEAN
    BY <1>r, <2>1, <2>2, Accounted
  <2>4. Kept /\ period_active' \in BOOLEAN /\ ThrottledHasTimer'
    BY <1>2, <1>3, <1>r, <2>1, <2>3, Throttled
  <2>5. runtime' \in Nat /\ idle' \in BOOLEAN
    BY <2>1, <2>2, <2>3 DEF Taken
  <2>6. Rest
    BY <1>1, <2>4, <2>5 DEF Rest, BwIInv, BwTypes
  <2> QED BY <2>4, <2>6, Whole
<1>4. CASE ~(r.enabled /\ ~r.throttled)
  <2>1. /\ q' = [q EXCEPT ![c] = r] /\ list' = list /\ period_active' = (period_active \/ FALSE)
        /\ UNCHANGED <<runtime, idle>>
    BY <1>1, <1>4 DEF Set
  <2>2. Paid(r)
    BY <1>0, <1>2, <1>4, <1>r DEF Paid
  <2>3. Kept
    BY <1>r, <2>1, <2>2, QueueSet
  <2>4. Rest
    BY <1>1, <2>1 DEF Rest, BwIInv, BwTypes, ThrottledHasTimer
  <2> QED BY <2>3, <2>4, Whole
<1> QED BY <1>3, <1>4

LEMMA IsNext == ASSUME BwIInv, NEW c \in CPUs, SetNext(c) PROVE BwIInv'
<1> DEFINE yes == TRUE
           r == [q[c] EXCEPT !.curr = yes]
<1>0. q[c] \in QueueType /\ Paid(q[c]) /\ q[c].rem \in Int
  BY Facts
<1>1. /\ q[c].nr /\ ~q[c].throttled /\ ~q[c].curr /\ yes \in BOOLEAN
      /\ UNCHANGED <<runtime, idle, slack_timer, timer, list>>
      /\ q' = [q EXCEPT ![c] = r] /\ period_active' = (period_active \/ FALSE)
  BY DEF SetNext, Set
<1> HIDE DEF yes
<1>r. /\ r \in QueueType /\ r.nr = q[c].nr /\ r.rem = q[c].rem /\ r.resched = q[c].resched
      /\ r.throttled = q[c].throttled /\ r.enabled = q[c].enabled
  BY <1>0, <1>1 DEF QueueType
<1> HIDE DEF r
<1>2. Paid(r)
  <2>1. Max(Deltas) \in Nat /\ MostOwed = Debt + Max(Deltas) + Max(Deltas) /\ Debt \in Nat
    BY LongestDelta
  <2> QED BY <1>0, <1>1, <1>r, <2>1 DEF Paid
<1>3. Kept
  BY <1>1, <1>2, <1>r, QueueSet
<1>4. Rest
  BY <1>1 DEF Rest, BwIInv, BwTypes, ThrottledHasTimer
<1> QED BY <1>3, <1>4, Whole

LEMMA Ticked == ASSUME BwIInv, NEW c \in CPUs, Tick(c) PROVE BwIInv'
<1>0. runtime \in Nat /\ Paid(q[c])
  BY Facts DEF BwIInv, BwTypes
<1>1. /\ q[c].curr /\ q[c].rem > -Debt
      /\ UNCHANGED <<slack_timer, timer>>
  BY DEF Tick
<1>2. PICK a \in update_curr(c) : Set(c, a.rq, a.asked) /\ Taken(a)
  BY DEF Tick
<1>3. /\ q' = [q EXCEPT ![c] = a.rq] /\ list' = list
      /\ period_active' = (period_active \/ a.asked)
  BY <1>2 DEF Set
<1>4. /\ a.rq \in QueueType /\ a.rq.enabled = q[c].enabled /\ a.rq.throttled = q[c].throttled
      /\ a.rq.nr = q[c].nr /\ a.rq.curr = q[c].curr
      /\ a.rq.rem \in Int /\ a.rq.rem <= Slice /\ a.rq.rem >= -MostOwed
      /\ a.rq.rem - Max(Deltas) >= -MostOwed
      /\ a.rq.throttled => a.rq.rem <= 0 /\ a.rq.enabled
      /\ ~a.rq.enabled => a.rq.rem > 0
      /\ a.rq.curr /\ ~a.rq.resched => a.rq.rem > 0
      /\ a.amount \in Nat /\ a.amount <= runtime /\ a.asked \in BOOLEAN
  BY <1>1, <1>2, Updated
<1>5. Paid(a.rq)
  BY <1>0, <1>1, <1>4 DEF Paid
<1>6. Kept
  BY <1>3, <1>4, <1>5, QueueSet
<1>7. runtime' \in Nat /\ idle' \in BOOLEAN
  BY <1>0, <1>2, <1>4 DEF Taken
<1>8. Rest
  BY <1>1, <1>3, <1>4, <1>7 DEF Rest, BwIInv, BwTypes, ThrottledHasTimer
<1> QED BY <1>6, <1>8, Whole

LEMMA IsPut == ASSUME BwIInv, NEW c \in CPUs, PutPrev(c) PROVE BwIInv'
<1>0. runtime \in Nat
  BY DEF BwIInv, BwTypes
<1> DEFINE no == FALSE
           R(a) == [a.rq EXCEPT !.curr = no, !.resched = no]
<1>1. /\ UNCHANGED <<slack_timer, timer>> /\ no \in BOOLEAN /\ ~no
      /\ \E a \in update_curr(c) : ThrottleIfOut(c, R(a), a.asked) /\ Taken(a)
  BY DEF PutPrev
<1>2. PICK a \in update_curr(c) : ThrottleIfOut(c, R(a), a.asked) /\ Taken(a)
  BY <1>1
<1> DEFINE r == R(a)
<1> HIDE DEF no
<1>3. /\ a.rq \in QueueType /\ a.rq.throttled = q[c].throttled
      /\ a.rq.rem \in Int /\ a.rq.rem <= Slice /\ a.rq.rem >= -MostOwed
      /\ a.rq.throttled => a.rq.rem <= 0 /\ a.rq.enabled
      /\ ~a.rq.enabled => a.rq.rem > 0
      /\ a.amount \in Nat /\ a.amount <= runtime /\ a.asked \in BOOLEAN
  BY <1>2, Updated
<1>r. /\ r \in QueueType /\ r.rem = a.rq.rem /\ r.curr = no
      /\ r.throttled = a.rq.throttled /\ r.enabled = a.rq.enabled
  BY <1>1, <1>3 DEF QueueType
<1>4. ThrottleIfOut(c, r, a.asked) /\ Taken(a)
  BY <1>2
<1> HIDE DEF r
<1>5. /\ r.rem <= Slice /\ r.rem >= -MostOwed /\ ~r.curr /\ r.throttled = q[c].throttled
      /\ r.throttled => r.rem <= 0 /\ r.enabled
      /\ ~r.enabled => r.rem > 0
  BY <1>1, <1>3, <1>r
<1>6. Kept /\ period_active' \in BOOLEAN /\ ThrottledHasTimer'
  BY <1>3, <1>4, <1>5, <1>r, Throttled
<1>7. runtime' \in Nat /\ idle' \in BOOLEAN
  BY <1>0, <1>3, <1>4 DEF Taken
<1>8. Rest
  BY <1>1, <1>6, <1>7 DEF Rest, BwIInv, BwTypes
<1> QED BY <1>6, <1>8, Whole

LEMMA SlackOf ==
    ASSUME NEW r \in QueueType
    PROVE  Slack(r) \in Nat /\ (Slack(r) > 0 => r.enabled /\ r.rem - Slack(r) = MinRuntime)
<1>1. r.rem \in Int /\ MinRuntime \in Nat
  BY DEF QueueType
<1> QED BY <1>1 DEF Slack

LEMMA Dequeued == ASSUME BwIInv, NEW c \in CPUs, Dequeue(c) PROVE BwIInv'
<1>0. runtime \in Nat /\ slack_timer \in BOOLEAN
  BY DEF BwIInv, BwTypes
<1> DEFINE no == FALSE
           Left(a) == a.rq.rem - Slack(a.rq)
           R(a) == [a.rq EXCEPT !.rem = Left(a), !.nr = no, !.curr = no, !.resched = no]
           After(a) ==
               /\ runtime' = runtime - a.amount + (IF R(a).fresh THEN Slack(a.rq) ELSE 0)
               /\ idle' = (idle /\ (a.asked => runtime = 0))
               /\ \E soon \in RefreshSoon :
                    slack_timer' = (slack_timer \/ (Slack(a.rq) > 0 /\ R(a).fresh
                                          /\ runtime' > Slice /\ list # <<>> /\ ~soon))
               /\ IF q[c].curr THEN ThrottleIfOut(c, R(a), a.asked) ELSE Set(c, R(a), a.asked)
<1>1. UNCHANGED timer /\ no \in BOOLEAN /\ ~no
  BY DEF Dequeue
<1>2. PICK a \in update_curr(c) : After(a)
  BY DEF Dequeue
<1> DEFINE back == Slack(a.rq)
           left == Left(a)
           r == R(a)
<1>3. /\ a.rq \in QueueType /\ a.rq.throttled = q[c].throttled /\ a.rq.curr = q[c].curr
      /\ a.rq.rem \in Int /\ a.rq.rem <= Slice /\ a.rq.rem >= -MostOwed
      /\ a.rq.throttled => a.rq.rem <= 0 /\ a.rq.enabled
      /\ ~a.rq.enabled => a.rq.rem > 0
      /\ a.amount \in Nat /\ a.amount <= runtime /\ a.asked \in BOOLEAN
  <2> HIDE DEF After
  <2> QED BY Updated
<1>4. back \in Nat /\ (back > 0 => a.rq.enabled /\ left = MinRuntime) /\ left = a.rq.rem - back
  BY <1>3, SlackOf
<1>5. /\ runtime' = runtime - a.amount + (IF r.fresh THEN back ELSE 0)
      /\ idle' = (idle /\ (a.asked => runtime = 0))
      /\ IF q[c].curr THEN ThrottleIfOut(c, r, a.asked) ELSE Set(c, r, a.asked)
  BY <1>2
<1>6. slack_timer' \in BOOLEAN
  <2>1. PICK soon \in RefreshSoon :
            slack_timer' = (slack_timer \/ (Slack(a.rq) > 0 /\ R(a).fresh
                                          /\ runtime' > Slice /\ list # <<>> /\ ~soon))
    BY <1>2
  <2> QED BY <1>0, <2>1
<1> HIDE DEF After, no, back, left
<1>7. left \in Int /\ (back = 0 => left = a.rq.rem)
  BY <1>3, <1>4
<1>r. /\ r \in QueueType /\ r.rem = left /\ r.curr = no /\ r.nr = no
      /\ r.throttled = a.rq.throttled /\ r.enabled = a.rq.enabled
  BY <1>1, <1>3, <1>7 DEF QueueType, left
<1> HIDE DEF r
<1>8. left <= Slice /\ left >= -MostOwed
  <2>1. MostOwed \in Nat /\ MinRuntime \in Nat
    BY LongestDelta
  <2> QED BY <1>3, <1>4, <1>7, <2>1
<1>9. /\ r.rem <= Slice /\ r.rem >= -MostOwed /\ ~r.curr /\ ~r.nr
      /\ r.throttled = q[c].throttled
      /\ r.throttled => r.rem <= 0 /\ r.enabled
      /\ ~r.enabled => r.rem > 0
  <2>1. MinRuntime \in Nat /\ Slice \in Nat \ {0}
    BY LongestDelta
  <2>2. r.throttled => back = 0
    BY <1>3, <1>4, <1>r, <2>1
  <2> QED BY <1>1, <1>3, <1>4, <1>7, <1>8, <1>r, <2>1, <2>2
<1>10. Kept /\ period_active' \in BOOLEAN /\ ThrottledHasTimer'
  <2>1. CASE q[c].curr
    <3>1. ThrottleIfOut(c, r, a.asked)
      BY <1>5, <2>1
    <3> QED BY <1>3, <1>9, <1>r, <3>1, Throttled
  <2>2. CASE ~q[c].curr
    <3>1. q' = [q EXCEPT ![c] = r] /\ list' = list /\ period_active' = (period_active \/ a.asked)
      BY <1>5, <2>2 DEF Set
    <3>2. Paid(r)
      BY <1>9 DEF Paid
    <3>3. Kept
      BY <1>9, <1>r, <3>1, <3>2, QueueSet
    <3> QED BY <1>3, <3>1, <3>3 DEF BwIInv, BwTypes, ThrottledHasTimer
  <2> QED BY <2>1, <2>2
<1>11. runtime' \in Nat /\ idle' \in BOOLEAN
  BY <1>0, <1>3, <1>4, <1>5
<1>12. Rest
  BY <1>1, <1>6, <1>10, <1>11 DEF Rest, BwIInv, BwTypes
<1> QED BY <1>10, <1>12, Whole

LEMMA WentOnline == ASSUME BwIInv, NEW c \in CPUs, Online(c) PROVE BwIInv'
<1>0. q[c] \in QueueType /\ Paid(q[c]) /\ q[c].rem \in Int /\ Slice \in Nat \ {0}
  BY Facts
<1>1. /\ UNCHANGED <<runtime, pool, timer>>
  BY DEF Online
<1>2. Kept /\ (list' # <<>> => list # <<>>)
  <2>1. CASE ~q[c].enabled
    <3> DEFINE yes == TRUE
               r == [q[c] EXCEPT !.enabled = yes]
    <3>1. q' = [q EXCEPT ![c] = r] /\ list' = list /\ yes \in BOOLEAN
      BY <2>1 DEF Online, BwIInv, BwTypes
    <3> HIDE DEF yes
    <3>r. /\ r \in QueueType /\ r.nr = q[c].nr /\ r.rem = q[c].rem /\ r.curr = q[c].curr
          /\ r.throttled = q[c].throttled /\ r.enabled = yes /\ r.resched = q[c].resched
      BY <1>0, <3>1 DEF QueueType
    <3> HIDE DEF r
    <3>2. Paid(r)
      BY <1>0, <2>1, <3>r DEF Paid
    <3> QED BY <3>1, <3>2, <3>r, QueueSet
  <2>2. CASE q[c].enabled
    <3> DEFINE no == FALSE
               one == 1
               r == [q[c] EXCEPT !.rem = one, !.enabled = no, !.resched = no]
    <3>1. /\ IF r.throttled THEN Unthrottle(c, r) ELSE q' = [q EXCEPT ![c] = r] /\ UNCHANGED list
          /\ one = 1 /\ one \in Int /\ no \in BOOLEAN
      BY <2>2 DEF Online
    <3> HIDE DEF no, one
    <3>r. /\ r \in QueueType /\ r.nr = q[c].nr /\ r.rem = one /\ r.curr = q[c].curr
          /\ r.throttled = q[c].throttled
      BY <1>0, <3>1 DEF QueueType
    <3> HIDE DEF r
    <3>2. r.rem > 0 /\ r.rem <= Slice /\ r.rem >= -MostOwed /\ r.rem \in Int
      BY <1>0, <3>1, <3>r, LongestDelta
    <3>3. CASE r.throttled
      BY <3>1, <3>2, <3>3, <3>r, Unthrottled
    <3>4. CASE ~r.throttled
      <4>1. Paid(r)
        <5>1. /\ Max(Deltas) \in Nat /\ Debt \in Nat
              /\ MostOwed = Debt + Max(Deltas) + Max(Deltas)
          BY LongestDelta
        <5> QED BY <1>0, <3>2, <3>4, <3>r, <5>1 DEF Paid
      <4> QED BY <3>1, <3>4, <3>r, <4>1, QueueSet
    <3> QED BY <3>3, <3>4
  <2> QED BY <2>1, <2>2
<1>3. Rest
  BY <1>1, <1>2 DEF Rest, BwIInv, BwTypes, ThrottledHasTimer, pool
<1> QED BY <1>2, <1>3, Whole

-----------------------------------------------------------------------------
(* The timers.                                                             *)

\* What a handler that distributes has is a handler.
LEMMA Handler ==
    ASSUME NEW p \in {"off", "distribute"}, NEW f \in Nat, NEW l \in Nat, NEW s \in Seq(CPUs),
           NEW v \in BOOLEAN
    PROVE  [pc |-> p, from |-> f, left |-> l, todo |-> s, valid |-> v] \in HandlerType
BY DEF HandlerType

LEMMA PeriodFired == ASSUME BwIInv, PeriodFires PROVE BwIInv'
<1>1. /\ BwTypes /\ AllPaid /\ ListMatches /\ ThrottledHasTimer
      /\ q \in [CPUs -> QueueType] /\ list \in Seq(CPUs) /\ timer \in [Timers -> HandlerType]
  BY DEF BwIInv, BwTypes
<1>2. UNCHANGED <<slack_timer, list>>
  BY DEF PeriodFires
<1>3. CASE MayStop
  <2>1. period_active' = FALSE /\ UNCHANGED <<q, runtime, idle, timer>> /\ list = <<>>
    BY <1>3 DEF PeriodFires, MayStop
  <2>2. BwTypes'
    BY <1>1, <1>2, <2>1 DEF BwTypes
  <2>3. AllPaid'
    BY <1>1, <2>1 DEF AllPaid, Paid
  <2>4. ListMatches'
    BY <1>1, <1>2, <2>1 DEF ListMatches
  <2>5. ThrottledHasTimer'
    BY <1>2, <2>1 DEF ThrottledHasTimer
  <2> QED BY <2>2, <2>3, <2>4, <2>5 DEF BwIInv
<1>4. CASE ~MayStop
  <2> DEFINE no == FALSE
             h == IF list = <<>> THEN Off
                  ELSE [pc |-> "distribute", from |-> Quota, left |-> Quota,
                        todo |-> list, valid |-> TRUE]
             v == timer["slack"].pc = "off"
             s == [timer["slack"] EXCEPT !.valid = v]
  <2>1. /\ runtime' = Quota
        /\ q' = [c \in CPUs |-> [q[c] EXCEPT !.fresh = no]]
        /\ timer' = [timer EXCEPT !["slack"].valid = v, !["period"] = h]
        /\ idle' = (idle \/ list = <<>>)
        /\ UNCHANGED period_active /\ no \in BOOLEAN /\ v \in BOOLEAN
    BY <1>4 DEF PeriodFires
  <2>2. h \in HandlerType /\ h.left <= h.from
    <3>1. Off \in HandlerType /\ Off.left <= Off.from
      <4>1. <<>> \in Seq(CPUs) /\ 0 \in Nat /\ TRUE \in BOOLEAN
        OBVIOUS
      <4>2. Off \in HandlerType
        BY <4>1, Handler DEF Off
      <4>3. Off.left = 0 /\ Off.from = 0
        BY DEF Off
      <4> QED BY <4>2, <4>3
    <3>2. [pc |-> "distribute", from |-> Quota, left |-> Quota, todo |-> list, valid |-> TRUE]
            \in HandlerType
      <4>1. TRUE \in BOOLEAN
        OBVIOUS
      <4> QED BY <1>1, <4>1, Handler
    <3> QED BY <3>1, <3>2
  <2> HIDE DEF no, h, v
  <2>3. /\ "slack" \in Timers /\ "period" \in Timers /\ timer["slack"] \in HandlerType
        /\ \A t \in Timers : t = "slack" \/ t = "period"
    BY <1>1 DEF Timers
  <2>4. s \in HandlerType /\ s.left = timer["slack"].left /\ s.from = timer["slack"].from
    BY <2>1, <2>3 DEF HandlerType
  <2>5. timer'["slack"] = s /\ timer'["period"] = h /\ DOMAIN timer' = Timers
    BY <1>1, <2>1, <2>3
  <2>6. timer' = [t \in Timers |-> timer'[t]]
    BY <1>1, <2>1
  <2> HIDE DEF s
  <2>7. \A t \in Timers : timer'[t] \in HandlerType /\ timer'[t].left <= timer'[t].from
    BY <1>1, <2>2, <2>3, <2>4, <2>5 DEF BwTypes
  <2>8. timer' \in [Timers -> HandlerType]
    <3>1. [t \in Timers |-> timer'[t]] \in [Timers -> HandlerType]
      BY <2>7
    <3> QED BY <2>6, <3>1
  <2>9. \A c \in CPUs : /\ q'[c] = [q[c] EXCEPT !.fresh = no] /\ q'[c] \in QueueType
                        /\ q'[c].rem = q[c].rem /\ q'[c].nr = q[c].nr /\ q'[c].curr = q[c].curr
                        /\ q'[c].throttled = q[c].throttled /\ q'[c].enabled = q[c].enabled
                        /\ q'[c].resched = q[c].resched
    <3> SUFFICES ASSUME NEW c \in CPUs
                 PROVE  /\ q'[c] = [q[c] EXCEPT !.fresh = no] /\ q'[c] \in QueueType
                        /\ q'[c].rem = q[c].rem /\ q'[c].nr = q[c].nr /\ q'[c].curr = q[c].curr
                        /\ q'[c].throttled = q[c].throttled /\ q'[c].enabled = q[c].enabled
                        /\ q'[c].resched = q[c].resched
      OBVIOUS
    <3> DEFINE r == [q[c] EXCEPT !.fresh = no]
    <3>1. q'[c] = r /\ q[c] \in QueueType
      BY <1>1, <2>1
    <3>2. /\ r \in QueueType
          /\ r.rem = q[c].rem /\ r.nr = q[c].nr /\ r.curr = q[c].curr
          /\ r.throttled = q[c].throttled /\ r.enabled = q[c].enabled
          /\ r.resched = q[c].resched
      BY <2>1, <3>1 DEF QueueType
    <3> HIDE DEF r
    <3> QED BY <3>1, <3>2 DEF r
  <2>10. q' \in [CPUs -> QueueType]
    <3>1. q' = [c \in CPUs |-> q'[c]]
      BY <2>1
    <3>2. [c \in CPUs |-> q'[c]] \in [CPUs -> QueueType]
      BY <2>9
    <3> QED BY <3>1, <3>2
  <2>11. AllPaid'
    <3>1. \A c \in CPUs : Paid(q'[c])
      BY <1>1, <2>9 DEF AllPaid, Paid
    <3> QED BY <3>1 DEF AllPaid, Paid
  <2>12. ListMatches'
    BY <1>1, <1>2, <2>9 DEF ListMatches
  <2>13. Kept
    BY <1>1, <1>2, <2>10, <2>11, <2>12 DEF Kept
  <2>14. Rest
    BY <1>1, <1>2, <2>1, <2>7, <2>8 DEF Rest, BwTypes, ThrottledHasTimer
  <2> QED BY <2>13, <2>14, Whole
<1> QED BY <1>3, <1>4

LEMMA SlackFired == ASSUME BwIInv, SlackFires PROVE BwIInv'
<1>1. /\ BwTypes /\ AllPaid /\ ListMatches /\ ThrottledHasTimer
      /\ q \in [CPUs -> QueueType] /\ list \in Seq(CPUs) /\ timer \in [Timers -> HandlerType]
      /\ runtime \in Nat
  BY DEF BwIInv, BwTypes
<1>2. slack_timer' = FALSE /\ UNCHANGED <<q, runtime, idle, period_active, list>>
  BY DEF SlackFires
<1> DEFINE h == [pc |-> "distribute", from |-> runtime, left |-> runtime, todo |-> list,
                 valid |-> TRUE]
<1>3. timer' = timer \/ timer' = [timer EXCEPT !["slack"] = h]
  BY DEF SlackFires
<1>4. h \in HandlerType /\ h.left <= h.from
  <2>1. TRUE \in BOOLEAN
    OBVIOUS
  <2>2. h \in HandlerType
    BY <1>1, <2>1, Handler
  <2> QED BY <1>1, <2>2
<1> HIDE DEF h
<1>5. timer' \in [Timers -> HandlerType] /\ \A t \in Timers : timer'[t].left <= timer'[t].from
  BY <1>1, <1>3, <1>4 DEF BwTypes
<1>6. AllPaid' /\ ListMatches' /\ ThrottledHasTimer'
  <2>1. AllPaid'
    BY <1>1, <1>2 DEF AllPaid, Paid
  <2>2. ListMatches'
    BY <1>1, <1>2 DEF ListMatches
  <2> QED BY <1>1, <1>2, <2>1, <2>2 DEF ThrottledHasTimer
<1>7. BwTypes'
  BY <1>1, <1>2, <1>5 DEF BwTypes
<1> QED BY <1>6, <1>7 DEF BwIInv

LEMMA Distributes == ASSUME BwIInv, NEW t \in Timers, Distribute(t) PROVE BwIInv'
<1>1. /\ BwTypes /\ AllPaid /\ ListMatches /\ ThrottledHasTimer
      /\ q \in [CPUs -> QueueType] /\ list \in Seq(CPUs) /\ timer \in [Timers -> HandlerType]
  BY DEF BwIInv, BwTypes
<1> DEFINE h == timer[t]
           c == Head(h.todo)
           give == Min({1 - q[c].rem, h.left})
           rem == q[c].rem + give
           fresh == h.valid
           r == [q[c] EXCEPT !.rem = rem, !.fresh = fresh]
           todo == Tail(h.todo)
           left == h.left - give
<1>2. /\ h.todo # <<>> /\ h.left > 0
      /\ UNCHANGED <<runtime, idle, period_active, slack_timer>>
      /\ IF ~q[c].throttled
         THEN /\ timer' = [timer EXCEPT ![t].todo = todo]
              /\ UNCHANGED <<q, list>>
         ELSE /\ timer' = [timer EXCEPT ![t].todo = todo, ![t].left = left]
              /\ IF r.rem > 0 THEN Unthrottle(c, r)
                 ELSE q' = [q EXCEPT ![c] = r] /\ UNCHANGED list
  BY DEF Distribute, pool
<1>3. h \in HandlerType /\ h.left <= h.from /\ h.left \in Nat /\ h.from \in Nat
  BY <1>1 DEF BwTypes, HandlerType
<1>4. c \in CPUs /\ todo \in Seq(CPUs)
  <2>1. h.todo \in Seq(CPUs)
    BY <1>3 DEF HandlerType
  <2> QED BY <1>2, <2>1
<1>5. fresh \in BOOLEAN
  BY <1>3 DEF HandlerType
<1> HIDE DEF h, c, todo, fresh
<1>6. q[c] \in QueueType /\ Paid(q[c]) /\ q[c].rem \in Int /\ Slice \in Nat \ {0}
      /\ Max(Deltas) \in Nat /\ MostOwed \in Nat
  BY <1>4, Facts
<1>7. CASE ~q[c].throttled
  <2> DEFINE g == [h EXCEPT !.todo = todo]
  <2>1. timer' = [timer EXCEPT ![t] = g] /\ UNCHANGED <<q, list>>
    BY <1>2, <1>7 DEF h
  <2>2. g \in HandlerType /\ g.left = h.left /\ g.from = h.from
    BY <1>3, <1>4 DEF HandlerType
  <2> HIDE DEF g
  <2>3. timer' \in [Timers -> HandlerType] /\ \A x \in Timers : timer'[x].left <= timer'[x].from
    BY <1>1, <1>3, <2>1, <2>2 DEF BwTypes
  <2>4. AllPaid' /\ ListMatches' /\ ThrottledHasTimer'
    <3>1. AllPaid'
      BY <1>1, <2>1 DEF AllPaid, Paid
    <3>2. ListMatches'
      BY <1>1, <2>1 DEF ListMatches
    <3> QED BY <1>1, <1>2, <2>1, <3>1, <3>2 DEF ThrottledHasTimer
  <2>5. BwTypes'
    BY <1>1, <1>2, <2>1, <2>3 DEF BwTypes
  <2> QED BY <2>4, <2>5 DEF BwIInv
<1>8. CASE q[c].throttled
  <2> DEFINE g == [h EXCEPT !.todo = todo, !.left = left]
  <2>1. /\ timer' = [timer EXCEPT ![t] = g]
        /\ IF r.rem > 0 THEN Unthrottle(c, r)
           ELSE q' = [q EXCEPT ![c] = r] /\ UNCHANGED list
    BY <1>2, <1>8 DEF h
  <2>2. q[c].rem <= 0 /\ ~q[c].curr /\ q[c].enabled
    BY <1>6, <1>8 DEF Paid
  <2>3. /\ give \in Nat /\ give <= h.left /\ give <= 1 - q[c].rem
        /\ rem \in Int /\ rem <= 1 /\ rem >= q[c].rem
        /\ left \in Nat /\ left <= h.from
    <3>1. 1 - q[c].rem \in Nat /\ 1 - q[c].rem \in Int /\ h.left \in Int
      BY <1>3, <1>6, <2>2
    <3>2. give = IF 1 - q[c].rem <= h.left THEN 1 - q[c].rem ELSE h.left
      BY <3>1, MinOfTwo
    <3> HIDE DEF give
    <3>3. give \in Nat /\ give <= h.left /\ give <= 1 - q[c].rem
      BY <1>3, <3>1, <3>2
    <3> QED BY <1>3, <1>6, <3>3
  <2> HIDE DEF give, rem, left
  <2>r. /\ r \in QueueType /\ r.rem = rem /\ r.curr = q[c].curr /\ r.nr = q[c].nr
        /\ r.throttled = q[c].throttled /\ r.enabled = q[c].enabled
    BY <1>5, <1>6, <2>3 DEF QueueType
  <2> HIDE DEF r
  <2>4. r.rem <= 1 /\ r.rem <= Slice /\ r.rem >= -MostOwed /\ r.rem \in Int
    BY <1>6, <2>3, <2>r DEF Paid
  <2>5. Kept /\ (list' # <<>> => list # <<>>)
    <3>1. CASE r.rem > 0
      <4>1. Unthrottle(c, r)
        BY <2>1, <3>1
      <4> QED BY <1>4, <1>8, <2>4, <2>r, <3>1, <4>1, Unthrottled
    <3>2. CASE ~(r.rem > 0)
      <4>1. q' = [q EXCEPT ![c] = r] /\ list' = list
        BY <2>1, <3>2
      <4>2. Paid(r)
        BY <1>8, <2>2, <2>4, <2>r, <3>2 DEF Paid
      <4> QED BY <1>4, <2>r, <4>1, <4>2, QueueSet
    <3> QED BY <3>1, <3>2
  <2>g. g \in HandlerType /\ g.left = left /\ g.from = h.from
    BY <1>3, <1>4, <2>3 DEF HandlerType
  <2> HIDE DEF g
  <2>6. timer' \in [Timers -> HandlerType] /\ \A x \in Timers : timer'[x].left <= timer'[x].from
    BY <1>1, <1>3, <2>1, <2>3, <2>g DEF BwTypes
  <2>7. Rest
    BY <1>1, <1>2, <2>5, <2>6 DEF Rest, BwTypes, ThrottledHasTimer
  <2> QED BY <2>5, <2>7, Whole
<1> QED BY <1>7, <1>8

LEMMA HasDistributed == ASSUME BwIInv, NEW t \in Timers, Distributed(t) PROVE BwIInv'
<1>1. /\ BwTypes /\ AllPaid /\ ListMatches /\ ThrottledHasTimer
      /\ q \in [CPUs -> QueueType] /\ list \in Seq(CPUs) /\ timer \in [Timers -> HandlerType]
      /\ runtime \in Nat
  BY DEF BwIInv, BwTypes
<1> DEFINE h == timer[t]
           charge == IF t = "slack" /\ ~h.valid THEN 0 ELSE Min({h.from - h.left, runtime})
           left == runtime'
           g == [h EXCEPT !.from = left, !.left = left, !.todo = list]
<1>2. /\ runtime' = runtime - charge
      /\ UNCHANGED <<q, period_active, slack_timer, list>>
      /\ \/ timer' = [timer EXCEPT ![t] = g] /\ UNCHANGED idle
         \/ timer' = [timer EXCEPT ![t] = Off] /\ idle' = (idle /\ t = "slack")
  BY DEF Distributed
<1>3. h \in HandlerType /\ h.left <= h.from /\ h.left \in Nat /\ h.from \in Nat
  BY <1>1 DEF BwTypes, HandlerType
<1> HIDE DEF h
<1>4. runtime' \in Nat
  <2>1. h.from - h.left \in Nat /\ h.from - h.left \in Int /\ runtime \in Int
    BY <1>1, <1>3
  <2>2. Min({h.from - h.left, runtime}) = IF h.from - h.left <= runtime THEN h.from - h.left ELSE runtime
    BY <2>1, MinOfTwo
  <2>3. charge \in Nat /\ charge <= runtime
    BY <1>1, <2>1, <2>2
  <2> HIDE DEF charge
  <2> QED BY <1>1, <1>2, <2>3
<1> HIDE DEF charge, left
<1>5. g \in HandlerType /\ g.left = left /\ g.from = left /\ left \in Nat
  <2>1. left \in Nat
    BY <1>4 DEF left
  <2> QED BY <1>1, <1>3, <2>1 DEF HandlerType
<1> HIDE DEF g
<1>6. Off \in HandlerType /\ Off.left = 0 /\ Off.from = 0
  <2>1. <<>> \in Seq(CPUs) /\ 0 \in Nat /\ TRUE \in BOOLEAN
    OBVIOUS
  <2>2. Off \in HandlerType
    BY <2>1, Handler DEF Off
  <2>3. Off.left = 0 /\ Off.from = 0
    BY DEF Off
  <2> QED BY <2>2, <2>3
<1>7. timer' \in [Timers -> HandlerType] /\ \A x \in Timers : timer'[x].left <= timer'[x].from
  <2>1. CASE timer' = [timer EXCEPT ![t] = g]
    BY <1>1, <1>5, <2>1 DEF BwTypes
  <2>2. CASE timer' = [timer EXCEPT ![t] = Off]
    BY <1>1, <1>6, <2>2 DEF BwTypes
  <2> QED BY <1>2, <2>1, <2>2
<1>8. AllPaid' /\ ListMatches' /\ ThrottledHasTimer'
  <2>1. AllPaid'
    BY <1>1, <1>2 DEF AllPaid, Paid
  <2>2. ListMatches'
    BY <1>1, <1>2 DEF ListMatches
  <2> QED BY <1>1, <1>2, <2>1, <2>2 DEF ThrottledHasTimer
<1>9. idle' \in BOOLEAN
  BY <1>1, <1>2 DEF BwTypes
<1>10. BwTypes'
  BY <1>1, <1>2, <1>4, <1>7, <1>9 DEF BwTypes
<1> QED BY <1>8, <1>10 DEF BwIInv

-----------------------------------------------------------------------------
(* The theorem.                                                            *)

LEMMA BwInit == Init => BwIInv
<1> SUFFICES ASSUME Init PROVE BwIInv
  OBVIOUS
<1>1. <<>> \in Seq(CPUs) /\ ToSet(<<>>) = {} /\ IsInjective(<<>>) /\ list = <<>>
  BY DEF Init, ToSet, IsInjective
<1>2. Off \in HandlerType /\ Off.left = 0 /\ Off.from = 0
  <2>1. 0 \in Nat /\ TRUE \in BOOLEAN
    OBVIOUS
  <2>2. Off \in HandlerType
    BY <1>1, <2>1, Handler DEF Off
  <2>3. Off.left = 0 /\ Off.from = 0
    BY DEF Off
  <2> QED BY <2>2, <2>3
<1> DEFINE r == [rem |-> 0, fresh |-> FALSE, enabled |-> TRUE, throttled |-> FALSE,
                 nr |-> FALSE, curr |-> FALSE, resched |-> FALSE]
<1>3. q = [c \in CPUs |-> r]
  BY DEF Init
<1>4. r \in QueueType
  <2>1. 0 \in Int /\ TRUE \in BOOLEAN /\ FALSE \in BOOLEAN
    OBVIOUS
  <2> QED BY <2>1 DEF QueueType
<1>5. /\ r.rem = 0 /\ r.enabled = TRUE /\ r.throttled = FALSE /\ r.nr = FALSE /\ r.curr = FALSE
  OBVIOUS
<1> HIDE DEF r
<1>6. Paid(r)
  BY <1>5, LongestDelta DEF Paid
<1>7. BwTypes
  <2>1. q \in [CPUs -> QueueType]
    BY <1>3, <1>4
  <2>2. timer = [t \in Timers |-> Off]
    BY DEF Init
  <2>3. timer \in [Timers -> HandlerType] /\ \A t \in Timers : timer[t].left <= timer[t].from
    BY <1>2, <2>2
  <2>4. runtime \in Nat /\ idle \in BOOLEAN /\ period_active \in BOOLEAN /\ slack_timer \in BOOLEAN
    BY DEF Init
  <2>5. list \in Seq(CPUs)
    BY <1>1
  <2> QED BY <2>1, <2>3, <2>4, <2>5 DEF BwTypes
<1>8. ListMatches
  <2>1. IsInjective(list) /\ ToSet(list) = {}
    BY <1>1, Zenon
  <2>2. \A c \in CPUs : q[c].throttled = FALSE
    BY <1>3, <1>5
  <2> QED BY <2>1, <2>2 DEF ListMatches
<1> QED BY <1>1, <1>3, <1>6, <1>7, <1>8 DEF BwIInv, AllPaid, ThrottledHasTimer

LEMMA BwStep == BwIInv /\ [Next]_vars => BwIInv'
<1> SUFFICES ASSUME BwIInv, [Next]_vars PROVE BwIInv'
  OBVIOUS
<1>1. CASE UNCHANGED vars
  BY <1>1 DEF vars, BwIInv, BwTypes, AllPaid, Paid, ListMatches, ThrottledHasTimer
<1>2. ASSUME NEW c \in CPUs,
             Enqueue(c) \/ SetNext(c) \/ Tick(c) \/ PutPrev(c) \/ Dequeue(c) \/ Online(c)
      PROVE  BwIInv'
  BY <1>2, Enqueued, IsNext, Ticked, IsPut, Dequeued, WentOnline
<1>3. ASSUME NEW t \in Timers, Distribute(t) \/ Distributed(t)
      PROVE  BwIInv'
  BY <1>3, Distributes, HasDistributed
<1> QED BY <1>1, <1>2, <1>3, PeriodFired, SlackFired DEF Next

LEMMA BwSafe == BwIInv => Inv
<1> SUFFICES ASSUME BwIInv PROVE Inv
  OBVIOUS
<1>1. /\ Slice \in Nat /\ Max(Deltas) \in Nat /\ Debt \in Nat
      /\ MostOwed = Debt + 2 * Max(Deltas)
  BY LongestDelta
<1>2. ASSUME NEW c \in CPUs
      PROVE  q[c].rem \in -(Debt + 2 * Max(Deltas)) .. Slice /\ (q[c].curr => q[c].nr)
  <2>1. q[c].rem \in Int /\ Paid(q[c])
    BY Facts
  <2>2. q[c].rem <= Slice /\ q[c].rem >= -MostOwed /\ (q[c].curr => q[c].nr)
    BY <2>1 DEF Paid
  <2> QED BY <1>1, <2>1, <2>2
<1>3. ToSet(list) \subseteq CPUs
  BY DEF ToSet, BwIInv, BwTypes
<1>4. {idle, period_active, slack_timer} \subseteq BOOLEAN /\ runtime >= 0
  BY DEF BwIInv, BwTypes
<1>5. TypeOK
  BY <1>2, <1>3, <1>4 DEF TypeOK
<1> QED BY <1>5 DEF Inv, BwIInv

\* Whatever the CPUs and the two timers do, and in whatever order, with cfs_b->lock
\* given up while runtime is distributed: throttle_cfs_rq and unthrottle_cfs_rq
\* keep the list of the throttled cfs_rqs what it says, with none of them running,
\* and do_sched_cfs_period_timer never stops the timer under one; the pool is
\* never overdrawn, nor does a cfs_rq owe more than the last tick before schedule()
\* and put_prev_entity add to Debt.
THEOREM ThrottledAreListed == Spec => []Inv
<1>1. Init => BwIInv
  BY BwInit
<1>2. BwIInv /\ [Next]_vars => BwIInv'
  BY BwStep
<1>3. BwIInv => Inv
  BY BwSafe
<1> QED BY <1>1, <1>2, <1>3, PTL DEF Spec
=============================================================================
