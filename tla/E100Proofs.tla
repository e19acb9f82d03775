------------------------------ MODULE E100Proofs ------------------------------
(***************************************************************************)
(* The rings of the e100 driver are sound for every number of CBs and RFDs,*)
(* and so is what it keeps in the adapter.                                 *)
(***************************************************************************)
EXTENDS MCE100, Sequences, NatLemmas, TLAPS

-----------------------------------------------------------------------------
(* Reception.  From rx_to_clean on lie d RFDs that are complete, then blank*)
(* ones up to the m-th, which has the EL bit, and then those without skb.  *)

IsRfd(r, m, d, k) ==
    /\ r.skb <=> k < m
    /\ r.el <=> k = m - 1
    /\ r.complete <=> k < d

\* The receive unit, when it is on, is at the first blank RFD.
RxRing(m, d) ==
    /\ m \in 0 .. Rfds /\ d \in 0 .. m
    /\ rx_to_use = (rx_to_clean + m) % Rfds
    /\ \A k \in 0 .. Rfds - 1 : IsRfd(rx[(rx_to_clean + k) % Rfds], m, d, k)
    /\ ru.on => /\ ru.at = (rx_to_clean + d) % Rfds /\ d < m
                /\ ru_running = "RUNNING" /\ "RNR" \notin stat_ack

\* e100_poll restarts it at rx_to_clean, where nothing is complete.
RxPoll(d) ==
    /\ poll.pc \in {"refill", "ack", "start"} =>
          /\ poll.start = rx_to_clean
          /\ poll.restart => d = 0
    /\ poll.pc \in {"indicate", "refill", "ack", "start"} /\ poll.restart => ~ru.on
    /\ poll.pc \in {"ack", "start"} => poll.restart
    /\ poll.pc = "start" => "RNR" \notin stat_ack

RfdType == [skb : BOOLEAN, el : BOOLEAN, complete : BOOLEAN]
WorkType == 0 .. Quota + 1

RxTypes ==
    /\ rx \in [Rx!Slots -> RfdType]
    /\ rx_to_use \in Rx!Slots /\ rx_to_clean \in Rx!Slots
    /\ ru_running \in {"RUNNING", "SUSPENDED"}
    /\ ru \in [on : BOOLEAN, at : Rx!Slots]
    /\ stat_ack \in SUBSET {"FR", "RNR", "SWI"} /\ masked \in BOOLEAN
    /\ poll \in [pc : {"idle", "scheduled", "indicate", "refill", "ack", "start", "end"},
                 work : WorkType, restart : BOOLEAN, start : Rx!Slots]
    /\ poll.pc # "end" => poll.work <= Quota

RxIInv == RxTypes /\ \E m, d \in 0 .. Rfds : RxRing(m, d) /\ RxPoll(d)

-----------------------------------------------------------------------------
(* Transmission.  From cb_to_clean on lie p CBs that are complete, then    *)
(* those that have been queued.                                            *)

Used == Cbs - cbs_avail

\* The last CB queued has the S bit, and while the next is being linked the one
\* before it.
TxRing(p) ==
    /\ p \in 0 .. Used
    /\ cb_to_use = (cb_to_clean + Used) % Cbs
    /\ \A k \in 0 .. Cbs - 1 :
          /\ cb[(cb_to_clean + k) % Cbs].complete <=> k < p
          /\ cb[(cb_to_clean + k) % Cbs].skb => k < Used
    /\ cb[(cb_to_clean + (Used - 1)) % Cbs].s
    /\ \A i \in Tx!Slots : cb[i].s =>
          \/ i = (cb_to_clean + (Used - 1)) % Cbs
          \/ call.pc = "link" /\ i = (cb_to_clean + (Used - 2)) % Cbs

\* Where the CU is, and what command is on its way to it.
TxCu(p) ==
    /\ cu.state = "active" => cu.at = (cb_to_clean + p) % Cbs /\ p < Used
    /\ cu.state = "suspended" =>
          /\ cu.at = (cb_to_clean + (p - 1)) % Cbs
          /\ p = Used \/ late \/ scb = "resume" \/ (p = 0 /\ cbs_avail = 0)
    /\ call.pc = "link" => late
    /\ scb = "start" => /\ cu.state = "idle" /\ cuc_cmd = "resume"
                        /\ gen_ptr = (cb_to_clean + p) % Cbs /\ p < Used
    /\ scb = "resume" => cu.state # "idle"
    /\ cuc_cmd = "resume" => cu.state # "idle" \/ scb = "start"
    /\ cuc_cmd = "start" =>
          /\ scb = "clear" /\ cu.state = "idle"
          /\ cb_to_send = (cb_to_clean + p) % Cbs
          /\ Used = IF call.pc = "none" THEN p ELSE p + 1

\* A ring that has been given back.
TxDown == scb = "clear" /\ cu.state = "idle" /\ call.pc = "none" /\ cuc_cmd = "start"

CbType == [skb : BOOLEAN, s : BOOLEAN, complete : BOOLEAN]
AvailType == 0 .. Cbs
CuType == [state : {"idle", "active", "suspended"}, at : Tx!Slots]
CallType == [pc : {"none", "link", "send"}, kind : {"none", "tx", "other", "init"},
             err : {"ok", "ENOSPC"}]

TxTypes ==
    /\ cb \in [Tx!Slots -> CbType]
    /\ cb_to_use \in Tx!Slots /\ cb_to_send \in Tx!Slots /\ cb_to_clean \in Tx!Slots
    /\ gen_ptr \in Tx!Slots
    /\ cu \in CuType
    /\ cbs_avail \in AvailType
    /\ cuc_cmd \in {"start", "resume"} /\ scb \in {"clear", "start", "resume"}
    /\ call \in CallType
    /\ xmit \in {"none", "ok", "ENOSPC", "ENOMEM"}
    /\ hung \in BOOLEAN /\ late \in BOOLEAN /\ cleaned \in BOOLEAN
    /\ stopped \in BOOLEAN /\ task \in BOOLEAN
    /\ phase \in {"up", "init", "down", "dead"}

TxIInv ==
    /\ TxTypes
    /\ phase = "down" => TxDown
    /\ phase = "dead" => call.pc = "none"
    /\ phase \in {"up", "init"} => \E p \in 0 .. Cbs : TxRing(p) /\ TxCu(p)

-----------------------------------------------------------------------------
(* Reception: each step keeps the invariant.                               *)

LEMMA RfdsInt == Rfds \in Int /\ Rfds > 0 /\ 0 \in 0 .. Rfds - 1 /\ Rfds - 1 \in 0 .. Rfds - 1
BY RingsAssumption

LEMMA RxTypeFacts ==
    /\ 0 \in Rx!Slots /\ 0 \in WorkType /\ 0 <= Quota
    /\ \A w \in WorkType : w < Quota => w + 1 \in WorkType /\ w + 1 <= Quota
    /\ \A w \in WorkType : w <= Quota => w + 1 \in WorkType
    /\ \A w \in WorkType : w + 0 = w
    /\ Rx!NoSkb \in RfdType /\ Rx!BlankRfd \in RfdType
    /\ \A b \in BOOLEAN : [Rx!BlankRfd EXCEPT !.el = b] \in RfdType
<1>1. /\ 0 \in Rx!Slots /\ 0 \in WorkType /\ 0 <= Quota
      /\ \A w \in WorkType : w < Quota => w + 1 \in WorkType /\ w + 1 <= Quota
      /\ \A w \in WorkType : w <= Quota => w + 1 \in WorkType
      /\ \A w \in WorkType : w + 0 = w
  BY RfdsInt, RingsAssumption DEF Rx!Slots, WorkType
<1>2. /\ Rx!NoSkb \in RfdType /\ Rx!BlankRfd \in RfdType
      /\ \A b \in BOOLEAN : [Rx!BlankRfd EXCEPT !.el = b] \in RfdType
  BY DEF Rx!NoSkb, Rx!BlankRfd, RfdType
<1> QED BY <1>1, <1>2

\* Which of the RFDs lies at slot i.
LEMMA RxAt ==
    ASSUME RxTypes, NEW m \in Int, NEW d \in Int, RxRing(m, d), NEW i \in Rx!Slots
    PROVE  \E k \in 0 .. Rfds - 1 : i = (rx_to_clean + k) % Rfds /\ IsRfd(rx[i], m, d, k)
<1>1. rx_to_clean \in 0 .. Rfds - 1 /\ i \in 0 .. Rfds - 1
  BY DEF RxTypes, Rx!Slots
<1>2. PICK k \in 0 .. Rfds - 1 : i = (rx_to_clean + k) % Rfds
  BY <1>1, RfdsInt, RingCover
<1> QED BY <1>2 DEF RxRing

\* The RFD that e100_rx_clean looks at.
LEMMA RxFirst ==
    ASSUME RxTypes, NEW m \in Int, NEW d \in Int, RxRing(m, d)
    PROVE  IsRfd(rx[rx_to_clean], m, d, 0)
<1>1. rx_to_clean \in 0 .. Rfds - 1
  BY DEF RxTypes, Rx!Slots
<1>2. (rx_to_clean + 0) % Rfds = rx_to_clean
  BY <1>1, RfdsInt, ModSmall
<1> QED BY <1>2, RfdsInt DEF RxRing

\* The invariant holds when the interface has come up.
LEMMA RxInit == Rx!Init => RxIInv
<1> SUFFICES ASSUME Rx!Init PROVE RxIInv
  OBVIOUS
<1> DEFINE First(b) == [Rx!BlankRfd EXCEPT !.el = b]
<1>a. \A i \in Rx!Slots : (i = Rfds - 1) \in BOOLEAN
  OBVIOUS
<1>b. \A b \in BOOLEAN : /\ First(b) \in RfdType
                         /\ First(b).skb /\ ~First(b).complete /\ First(b).el = b
  BY RxTypeFacts DEF Rx!BlankRfd
<1>c. rx = [i \in Rx!Slots |-> First(i = Rfds - 1)]
  BY DEF Rx!Init
<1> HIDE DEF First
<1>d. \A i \in Rx!Slots : /\ rx[i] \in RfdType
                          /\ rx[i].skb /\ ~rx[i].complete /\ (rx[i].el <=> i = Rfds - 1)
  <2> TAKE i \in Rx!Slots
  <2>1. rx[i] = First(i = Rfds - 1)
    BY <1>c
  <2>2. /\ First(i = Rfds - 1) \in RfdType
        /\ First(i = Rfds - 1).skb /\ ~First(i = Rfds - 1).complete
        /\ First(i = Rfds - 1).el = (i = Rfds - 1)
    BY <1>a, <1>b, Zenon
  <2> QED BY <2>1, <2>2
<1>e. rx \in [Rx!Slots -> RfdType]
  BY <1>c, <1>d
<1>1. RxTypes
  BY <1>e, RxTypeFacts DEF Rx!Init, RxTypes, Rx!Idle
<1>2. \A k \in 0 .. Rfds - 1 : (rx_to_clean + k) % Rfds = k
  BY RfdsInt, ModSmall DEF Rx!Init
<1>3. \A k \in 0 .. Rfds - 1 : IsRfd(rx[(rx_to_clean + k) % Rfds], Rfds, 0, k)
  BY <1>2, <1>d, RfdsInt DEF IsRfd, Rx!Slots
<1>4. (0 + Rfds) % Rfds = 0 /\ (0 + 0) % Rfds = 0
  BY RfdsInt, ModRound, ModSmall
<1>5. RxRing(Rfds, 0)
  <2>1. /\ rx_to_use = 0 /\ rx_to_clean = 0 /\ ru.on /\ ru.at = 0
        /\ ru_running = "RUNNING" /\ "RNR" \notin stat_ack
    BY DEF Rx!Init
  <2>2. Rfds \in 0 .. Rfds /\ 0 \in 0 .. Rfds /\ 0 < Rfds
    BY RfdsInt
  <2> QED BY <1>3, <1>4, <2>1, <2>2 DEF RxRing
<1>6. RxPoll(0)
  BY DEF Rx!Init, RxPoll, Rx!Idle
<1>7. Rfds \in 0 .. Rfds /\ 0 \in 0 .. Rfds
  BY RfdsInt
<1> QED BY <1>1, <1>5, <1>6, <1>7 DEF RxIInv

\* The RU fills the RFD it is at.
LEMMA RxFrameArrives == RxIInv /\ Rx!FrameArrives => RxIInv'
<1> SUFFICES ASSUME RxIInv, Rx!FrameArrives PROVE RxIInv'
  OBVIOUS
<1> USE RfdsInt
<1>1. PICK m \in 0 .. Rfds, d \in 0 .. Rfds : RxRing(m, d) /\ RxPoll(d)
  BY DEF RxIInv
<1>2. RxTypes
  BY DEF RxIInv
<1>3. CASE ~ru.on
  <2>1. RxTypes'
    BY <1>2, <1>3, RingsAssumption DEF Rx!FrameArrives, RxTypes
  <2>2. RxRing(m, d)' /\ RxPoll(d)'
    BY <1>1, <1>2, <1>3 DEF Rx!FrameArrives, RxRing, RxPoll, RxTypes
  <2> QED BY <2>1, <2>2 DEF RxIInv
<1>4. CASE ru.on
  <2>1. ru.at = (rx_to_clean + d) % Rfds /\ d < m /\ d \in 0 .. Rfds - 1
        /\ ru_running = "RUNNING" /\ "RNR" \notin stat_ack
        /\ rx_to_clean \in 0 .. Rfds - 1 /\ ru.at \in 0 .. Rfds - 1
    BY <1>1, <1>2, <1>4 DEF RxRing, RxTypes, Rx!Slots
  <2>2. IsRfd(rx[ru.at], m, d, d)
    BY <1>1, <2>1 DEF RxRing
  <2>3. Rx!Nxt(ru.at) = (rx_to_clean + (d + 1)) % Rfds /\ Rx!Nxt(ru.at) \in Rx!Slots
    BY <2>1, RingSteps DEF Rx!Nxt, Rx!Slots
  <2>4. RxTypes'
    <3>1. [rx EXCEPT ![ru.at].complete = TRUE] \in [Rx!Slots -> RfdType]
      BY <1>2 DEF RxTypes, RfdType
    <3> QED BY <1>2, <1>4, <2>3, <3>1 DEF Rx!FrameArrives, RxTypes
  <2>5. \A k \in 0 .. Rfds - 1 : (rx_to_clean + k) % Rfds = ru.at => k = d
    BY <2>1, RingApart
  <2>6. \A k \in 0 .. Rfds - 1 : (rx_to_clean + k) % Rfds \in Rx!Slots
    BY <2>1, RingSteps DEF Rx!Slots
  <2>7. \A k \in 0 .. Rfds - 1 :
            IsRfd(rx'[(rx_to_clean + k) % Rfds], m, d + 1, k)
    <3> SUFFICES ASSUME NEW k \in 0 .. Rfds - 1
                 PROVE  IsRfd(rx'[(rx_to_clean + k) % Rfds], m, d + 1, k)
      OBVIOUS
    <3>1. IsRfd(rx[(rx_to_clean + k) % Rfds], m, d, k)
      BY <1>1 DEF RxRing
    <3>2. CASE k = d
      <4>1. rx'[ru.at].skb = rx[ru.at].skb /\ rx'[ru.at].el = rx[ru.at].el
            /\ rx'[ru.at].complete
        BY <1>2, <1>4 DEF Rx!FrameArrives, RxTypes, RfdType
      <4> QED BY <2>1, <2>2, <3>2, <4>1 DEF IsRfd
    <3>3. CASE k # d
      <4>1. rx'[(rx_to_clean + k) % Rfds] = rx[(rx_to_clean + k) % Rfds]
        BY <1>2, <1>4, <2>5, <2>6, <3>3 DEF Rx!FrameArrives, RxTypes
      <4> QED BY <2>1, <3>1, <3>3, <4>1 DEF IsRfd
    <3> QED BY <3>2, <3>3
  <2>8. UNCHANGED <<rx_to_use, rx_to_clean, ru_running, poll>>
        /\ ru' = (IF d = m - 1 THEN [ru EXCEPT !.on = FALSE] ELSE [ru EXCEPT !.at = Rx!Nxt(ru.at)])
        /\ stat_ack' = stat_ack \cup {"FR"}
    BY <1>4, <2>2 DEF Rx!FrameArrives, IsRfd
  <2>9. RxRing(m, d + 1)'
    BY <1>1, <1>2, <2>1, <2>3, <2>7, <2>8 DEF RxRing, RxTypes
  <2>10. RxPoll(d + 1)'
    BY <1>1, <1>4, <2>1, <2>8 DEF RxPoll
  <2> QED BY <2>1, <2>4, <2>9, <2>10 DEF RxIInv
<1> QED BY <1>3, <1>4

\* A frame is indicated: the ring begins one RFD later.
LEMMA RxIndicate == RxIInv /\ Rx!Indicate => RxIInv'
<1> SUFFICES ASSUME RxIInv, Rx!Indicate PROVE RxIInv'
  OBVIOUS
<1> USE RfdsInt
<1>1. PICK m \in 0 .. Rfds, d \in 0 .. Rfds : RxRing(m, d) /\ RxPoll(d)
  BY DEF RxIInv
<1>2. RxTypes /\ rx_to_clean \in 0 .. Rfds - 1
  BY DEF RxIInv, RxTypes, Rx!Slots
<1>3. IsRfd(rx[rx_to_clean], m, d, 0)
  BY <1>1, <1>2, RxFirst
<1>4. 0 < d /\ d <= m /\ m - 1 \in 0 .. Rfds - 1 /\ d - 1 \in 0 .. m - 1
  BY <1>1, <1>3 DEF Rx!Indicate, IsRfd, RxRing
<1>5. rx_to_clean' = (rx_to_clean + 1) % Rfds /\ rx_to_clean' \in 0 .. Rfds - 1
  BY <1>2, RingSteps DEF Rx!Indicate, Rx!Nxt
<1>6. RxTypes'
  <2>1. rx' \in [Rx!Slots -> RfdType] /\ rx_to_clean' \in Rx!Slots
    BY <1>2, <1>5, RxTypeFacts DEF Rx!Indicate, RxTypes, Rx!Slots
  <2>2. PICK good \in {0, 1} : poll' = [poll EXCEPT !.work = @ + good]
    BY DEF Rx!Indicate
  <2>3. poll.work + good \in WorkType /\ poll.work + good <= Quota
    <3>1. poll.work \in WorkType /\ poll.work < Quota
      BY <1>2 DEF Rx!Indicate, RxTypes
    <3>2. poll.work <= Quota /\ good \in {0, 1}
      BY <1>2 DEF Rx!Indicate, RxTypes
    <3>3. CASE good = 0
      BY <3>1, <3>2, <3>3, RxTypeFacts
    <3>4. CASE good = 1
      BY <3>1, <3>4, RxTypeFacts
    <3> QED BY <3>2, <3>3, <3>4
  <2> QED BY <1>2, <2>1, <2>2, <2>3 DEF Rx!Indicate, RxTypes
<1>7. \A k \in Int : (rx_to_clean' + k) % Rfds = (rx_to_clean + (1 + k)) % Rfds
  <2> TAKE k \in Int
  <2>1. rx_to_clean \in Int
    BY <1>2
  <2>2. rx_to_clean + 1 \in Int /\ (rx_to_clean + 1) + k = rx_to_clean + (1 + k)
    BY <2>1
  <2>3. (((rx_to_clean + 1) % Rfds) + k) % Rfds = ((rx_to_clean + 1) + k) % Rfds
    BY <2>2, ModAdd
  <2> QED BY <1>5, <2>2, <2>3
<1>8. rx_to_use' = (rx_to_clean' + (m - 1)) % Rfds
  BY <1>1, <1>4, <1>7 DEF Rx!Indicate, RxRing
<1>9. ASSUME NEW k \in 0 .. Rfds - 1
      PROVE  IsRfd(rx'[(rx_to_clean' + k) % Rfds], m - 1, d - 1, k)
  <2>1. CASE k = Rfds - 1
    <3>1. (rx_to_clean' + k) % Rfds = (rx_to_clean + Rfds) % Rfds
      BY <1>2, <1>7, <2>1
    <3>2. (rx_to_clean + Rfds) % Rfds = rx_to_clean
      BY <1>2, ModRound, ModSmall
    <3>3. rx'[rx_to_clean] = Rx!NoSkb
      BY <1>2 DEF Rx!Indicate, RxTypes, Rx!Slots
    <3>4. ~Rx!NoSkb.skb /\ ~Rx!NoSkb.el /\ ~Rx!NoSkb.complete
      BY DEF Rx!NoSkb
    <3> QED BY <1>4, <2>1, <3>1, <3>2, <3>3, <3>4 DEF IsRfd
  <2>2. CASE k # Rfds - 1
    <3>1. 1 + k \in 0 .. Rfds - 1
      BY <2>2
    <3>2. (rx_to_clean + (1 + k)) % Rfds # rx_to_clean
      <4>1. (rx_to_clean + 0) % Rfds = rx_to_clean
        BY <1>2, ModSmall
      <4> QED BY <1>2, <3>1, <4>1, RingApart
    <3>3. (rx_to_clean + (1 + k)) % Rfds \in Rx!Slots
      BY <1>2, <3>1, RingSteps DEF Rx!Slots
    <3>4. rx'[(rx_to_clean + (1 + k)) % Rfds] = rx[(rx_to_clean + (1 + k)) % Rfds]
      BY <1>2, <3>2, <3>3 DEF Rx!Indicate, RxTypes
    <3>5. IsRfd(rx[(rx_to_clean + (1 + k)) % Rfds], m, d, 1 + k)
      BY <1>1, <3>1 DEF RxRing
    <3> QED BY <1>4, <1>7, <3>4, <3>5 DEF IsRfd
  <2> QED BY <2>1, <2>2
<1>10. RxRing(m - 1, d - 1)'
  <2>1. ru' = ru /\ stat_ack' = stat_ack
    BY DEF Rx!Indicate
  <2>2. ru.on => /\ ru.at = (rx_to_clean' + (d - 1)) % Rfds /\ d - 1 < m - 1
                 /\ ru_running = "RUNNING" /\ "RNR" \notin stat_ack /\ m # 1
    BY <1>1, <1>4, <1>7 DEF RxRing
  <2>3. ru.on => ru_running' = ru_running
    BY <1>3, <2>2 DEF Rx!Indicate, IsRfd
  <2> QED BY <1>4, <1>8, <1>9, <2>1, <2>2, <2>3 DEF RxRing
<1>11. RxPoll(d - 1)'
  BY <1>1, <1>2 DEF Rx!Indicate, RxPoll, RxTypes
<1>12. m - 1 \in 0 .. Rfds /\ d - 1 \in 0 .. Rfds
  BY <1>1, <1>4
<1> QED BY <1>6, <1>10, <1>11, <1>12 DEF RxIInv

\* An RFD is put in behind the last one, which loses its EL bit.
LEMMA RxRefill == RxIInv /\ Rx!Refill => RxIInv'
<1> SUFFICES ASSUME RxIInv, Rx!Refill PROVE RxIInv'
  OBVIOUS
<1> USE RfdsInt
<1>1. PICK m \in 0 .. Rfds, d \in 0 .. Rfds : RxRing(m, d) /\ RxPoll(d)
  BY DEF RxIInv
<1>2. RxTypes /\ rx_to_clean \in 0 .. Rfds - 1 /\ rx_to_use \in 0 .. Rfds - 1
  BY DEF RxIInv, RxTypes, Rx!Slots
<1>3. m \in 0 .. Rfds - 1
  <2>1. CASE m = Rfds
    <3>1. rx_to_use = rx_to_clean
      <4>1. rx_to_clean \in Int /\ rx_to_use = (rx_to_clean + Rfds) % Rfds
        BY <1>1, <1>2, <2>1 DEF RxRing
      <4>2. rx_to_clean % Rfds = rx_to_clean
        BY <1>2, ModSmall
      <4> QED BY <4>1, <4>2, ModRound
    <3> QED BY <1>1, <1>2, <2>1, <3>1, RxFirst DEF Rx!Refill, IsRfd
  <2> QED BY <1>1, <2>1
<1>4. rx_to_use = (rx_to_clean + m) % Rfds
  BY <1>1 DEF RxRing
<1>5. Rx!Nxt(rx_to_use) = (rx_to_clean + (m + 1)) % Rfds
      /\ Rx!Prev(rx_to_use) = (rx_to_clean + (m - 1)) % Rfds
      /\ Rx!Nxt(rx_to_use) \in Rx!Slots /\ Rx!Prev(rx_to_use) \in Rx!Slots
  BY <1>2, <1>3, <1>4, RingSteps DEF Rx!Nxt, Rx!Prev, Rx!Slots
<1>6. RxTypes'
  <2>1. [rx EXCEPT ![rx_to_use] = Rx!BlankRfd] \in [Rx!Slots -> RfdType]
    BY <1>2, RxTypeFacts DEF RxTypes
  <2>2. \A r \in [Rx!Slots -> RfdType], i \in Rx!Slots :
            [r EXCEPT ![i].el = FALSE] \in [Rx!Slots -> RfdType]
    BY DEF RfdType
  <2> QED BY <1>2, <1>5, <2>1, <2>2 DEF Rx!Refill, Rx!Linked, RxTypes, RfdType
<1>7. ASSUME NEW k \in 0 .. Rfds - 1
      PROVE  IsRfd(rx'[(rx_to_clean + k) % Rfds], m + 1, d, k)
  <2>1. (rx_to_clean + k) % Rfds \in Rx!Slots
    BY <1>2, RingSteps DEF Rx!Slots
  <2>2. IsRfd(rx[(rx_to_clean + k) % Rfds], m, d, k)
    BY <1>1 DEF RxRing
  <2>3. d <= m
    BY <1>1 DEF RxRing
  <2>4. CASE k = m
    <3>1. (rx_to_clean + m) % Rfds # (rx_to_clean + (m - 1)) % Rfds
      BY <1>2, <1>3, RingApart, RingsAssumption
    <3>2. rx'[(rx_to_clean + k) % Rfds] = Rx!BlankRfd
      BY <1>2, <1>4, <1>5, <2>1, <2>4, <3>1 DEF Rx!Refill, Rx!Linked, RxTypes, RfdType
    <3>3. Rx!BlankRfd.skb /\ Rx!BlankRfd.el /\ ~Rx!BlankRfd.complete
      BY DEF Rx!BlankRfd
    <3> QED BY <1>3, <2>3, <2>4, <3>2, <3>3 DEF IsRfd
  <2>5. CASE k # m
    <3>1. (rx_to_clean + k) % Rfds # rx_to_use
      BY <1>2, <1>3, <1>4, <2>5, RingApart
    <3>2. CASE k = m - 1
      <4>1. /\ rx'[(rx_to_clean + k) % Rfds].skb = rx[(rx_to_clean + k) % Rfds].skb
            /\ rx'[(rx_to_clean + k) % Rfds].complete = rx[(rx_to_clean + k) % Rfds].complete
            /\ ~rx'[(rx_to_clean + k) % Rfds].el
        BY <1>2, <1>5, <2>1, <3>1, <3>2 DEF Rx!Refill, Rx!Linked, RxTypes, RfdType
      <4> QED BY <1>3, <2>2, <3>2, <4>1 DEF IsRfd
    <3>3. CASE k # m - 1 /\ (rx_to_clean + k) % Rfds # (rx_to_clean + (m - 1)) % Rfds
      <4>1. rx'[(rx_to_clean + k) % Rfds] = rx[(rx_to_clean + k) % Rfds]
        BY <1>2, <1>5, <2>1, <3>1, <3>3 DEF Rx!Refill, Rx!Linked, RxTypes, RfdType
      <4> QED BY <1>3, <2>2, <2>5, <3>3, <4>1 DEF IsRfd
    <3>4. CASE k # m - 1 /\ (rx_to_clean + k) % Rfds = (rx_to_clean + (m - 1)) % Rfds
      <4>1. m = 0
        BY <1>2, <1>3, <3>4, RingApart
      <4>2. /\ rx'[(rx_to_clean + k) % Rfds].skb = rx[(rx_to_clean + k) % Rfds].skb
            /\ rx'[(rx_to_clean + k) % Rfds].complete = rx[(rx_to_clean + k) % Rfds].complete
            /\ ~rx'[(rx_to_clean + k) % Rfds].el
        BY <1>2, <1>5, <2>1, <3>1, <3>4 DEF Rx!Refill, Rx!Linked, RxTypes, RfdType
      <4> QED BY <2>2, <2>5, <4>1, <4>2 DEF IsRfd
    <3> QED BY <3>2, <3>3, <3>4
  <2> QED BY <2>4, <2>5
<1>8. RxRing(m + 1, d)'
  BY <1>1, <1>3, <1>5, <1>7 DEF Rx!Refill, RxRing
<1>9. RxPoll(d)'
  BY <1>1 DEF Rx!Refill, RxPoll
<1>10. m + 1 \in 0 .. Rfds
  BY <1>3
<1> QED BY <1>6, <1>8, <1>9, <1>10 DEF RxIInv

\* The steps that leave the RFDs alone.
LEMMA RxOther ==
    ASSUME RxIInv,
           \/ Rx!SwInterrupt \/ Rx!e100_intr \/ Rx!PollStart \/ Rx!IndicateEnd
           \/ Rx!RefillEnd \/ Rx!AckRnr \/ Rx!Start \/ Rx!PollEnd
    PROVE  RxIInv'
<1> USE RfdsInt
<1>1. PICK m \in 0 .. Rfds, d \in 0 .. Rfds : RxRing(m, d) /\ RxPoll(d)
  BY DEF RxIInv
<1>2. RxTypes /\ rx_to_clean \in 0 .. Rfds - 1
  BY DEF RxIInv, RxTypes, Rx!Slots
<1>3. IsRfd(rx[rx_to_clean], m, d, 0)
  BY <1>1, <1>2, RxFirst
<1> SUFFICES RxTypes' /\ RxRing(m, d)' /\ RxPoll(d)'
  BY DEF RxIInv
<1>4. CASE Rx!SwInterrupt
  BY <1>1, <1>2, <1>4 DEF Rx!SwInterrupt, RxTypes, RxRing, RxPoll
<1>5. CASE Rx!e100_intr
  <2>1. RxTypes'
    BY <1>2, <1>5, RxTypeFacts DEF Rx!e100_intr, Rx!Idle, RxTypes
  <2>2. RxRing(m, d)'
    BY <1>1, <1>2, <1>5 DEF Rx!e100_intr, RxTypes, RxRing, Rx!Suspends
  <2>3. RxPoll(d)'
    BY <1>1, <1>2, <1>5 DEF Rx!e100_intr, Rx!Idle, RxTypes, RxPoll
  <2> QED BY <2>1, <2>2, <2>3
<1>6. CASE Rx!PollStart
  <2>1. RxTypes'
    BY <1>2, <1>6, RxTypeFacts DEF Rx!PollStart, RxTypes
  <2>2. RxRing(m, d)'
    BY <1>1, <1>2, <1>6 DEF Rx!PollStart, RxTypes, RxRing
  <2>3. RxPoll(d)'
    BY <1>1, <1>2, <1>6 DEF Rx!PollStart, RxTypes, RxRing, RxPoll
  <2> QED BY <2>1, <2>2, <2>3
<1>7. CASE Rx!IndicateEnd
  <2>1. RxTypes'
    BY <1>2, <1>7 DEF Rx!IndicateEnd, RxTypes
  <2>2. RxRing(m, d)'
    BY <1>1, <1>2, <1>7 DEF Rx!IndicateEnd, RxTypes, RxRing
  <2>3. poll'.restart => d = 0
    <3>1. d # 0 => rx[rx_to_clean].skb /\ rx[rx_to_clean].complete
      BY <1>1, <1>3 DEF RxRing, IsRfd
    <3>2. poll.work < Quota \/ poll.work >= Quota
      BY <1>2, RingsAssumption DEF RxTypes, WorkType
    <3> DEFINE again == poll.restart /\ ~(rx[rx_to_clean].skb /\ poll.work >= Quota)
    <3>3. d # 0 => again = FALSE
      BY <1>7, <3>1, <3>2 DEF Rx!IndicateEnd
    <3>4. again \in BOOLEAN
      OBVIOUS
    <3>5. poll' = [poll EXCEPT !.pc = "refill", !.start = rx_to_clean, !.restart = again]
      BY <1>7 DEF Rx!IndicateEnd
    <3> HIDE DEF again
    <3>6. poll'.restart = again
      BY <1>2, <3>5 DEF RxTypes
    <3> QED BY <3>3, <3>6
  <2>4. RxPoll(d)'
    BY <1>1, <1>2, <1>7, <2>3 DEF Rx!IndicateEnd, RxTypes, RxPoll
  <2> QED BY <2>1, <2>2, <2>4
<1>8. CASE Rx!RefillEnd
  BY <1>1, <1>2, <1>8 DEF Rx!RefillEnd, RxTypes, RxRing, RxPoll
<1>9. CASE Rx!AckRnr
  BY <1>1, <1>2, <1>9 DEF Rx!AckRnr, RxTypes, RxRing, RxPoll
<1>10. CASE Rx!Start
  <2>1. poll.start = rx_to_clean /\ d = 0 /\ ~ru.on /\ "RNR" \notin stat_ack
    BY <1>1, <1>10 DEF Rx!Start, RxPoll
  <2>2. RxTypes'
    <3>1. ru' \in [on : BOOLEAN, at : Rx!Slots] /\ ru_running' \in {"RUNNING", "SUSPENDED"}
      <4>1. poll.start \in Rx!Slots /\ ru \in [on : BOOLEAN, at : Rx!Slots]
        BY <1>2 DEF RxTypes
      <4>2. [on |-> TRUE, at |-> poll.start] \in [on : BOOLEAN, at : Rx!Slots]
        BY <4>1
      <4>3. \/ ru' = [on |-> TRUE, at |-> poll.start] /\ ru_running' = "RUNNING"
            \/ ru' = ru /\ ru_running' \in {ru_running, "RUNNING"}
        BY <1>10 DEF Rx!Start
      <4>4. ru' \in [on : BOOLEAN, at : Rx!Slots]
        BY <4>1, <4>2, <4>3
      <4> QED BY <1>2, <4>3, <4>4 DEF RxTypes
    <3>2. poll' = [poll EXCEPT !.pc = "end", !.work = poll.work + 1]
          /\ poll.work + 1 \in WorkType
      BY <1>2, <1>10, RxTypeFacts DEF Rx!Start, RxTypes
    <3> QED BY <1>2, <1>10, <3>1, <3>2 DEF Rx!Start, RxTypes
  <2>3. (rx_to_clean + d) % Rfds = rx_to_clean
    BY <1>2, <2>1, ModSmall
  <2>4. RxRing(m, d)'
    BY <1>1, <1>2, <1>3, <1>10, <2>1, <2>3 DEF Rx!Start, RxTypes, RxRing, IsRfd
  <2>5. RxPoll(d)'
    BY <1>1, <1>2, <1>10 DEF Rx!Start, RxTypes, RxPoll
  <2> QED BY <2>2, <2>4, <2>5
<1>11. CASE Rx!PollEnd
  <2>1. RxTypes'
    <3>1. masked' \in BOOLEAN /\ poll' \in {Rx!Idle, [Rx!Idle EXCEPT !.pc = "scheduled"]}
      BY <1>2, <1>11 DEF Rx!PollEnd, RxTypes
    <3>2. poll' \in {[pc |-> "idle", work |-> 0, restart |-> FALSE, start |-> 0],
                     [pc |-> "scheduled", work |-> 0, restart |-> FALSE, start |-> 0]}
      BY <3>1 DEF Rx!Idle
    <3>3. \A x \in {"idle", "scheduled"} :
              [pc |-> x, work |-> 0, restart |-> FALSE, start |-> 0] \in
                 [pc : {"idle", "scheduled", "indicate", "refill", "ack", "start", "end"},
                  work : WorkType, restart : BOOLEAN, start : Rx!Slots]
      BY RxTypeFacts
    <3>4. poll'.work = 0
      BY <3>2
    <3> QED BY <1>2, <1>11, <3>1, <3>2, <3>3, <3>4, RxTypeFacts DEF Rx!PollEnd, RxTypes
  <2>2. RxRing(m, d)'
    BY <1>1, <1>2, <1>11 DEF Rx!PollEnd, RxTypes, RxRing
  <2>3. RxPoll(d)'
    BY <1>1, <1>2, <1>11 DEF Rx!PollEnd, Rx!Idle, RxTypes, RxPoll
  <2> QED BY <2>1, <2>2, <2>3
<1> QED BY <1>4, <1>5, <1>6, <1>7, <1>8, <1>9, <1>10, <1>11

LEMMA RxStep == RxIInv /\ (Rx!Next \/ UNCHANGED rxVars) => RxIInv'
<1>1. RxIInv /\ Rx!Next => RxIInv'
  BY RxFrameArrives, RxIndicate, RxRefill, RxOther DEF Rx!Next, Rx!Poll
<1>2. RxIInv /\ UNCHANGED rxVars => RxIInv'
  BY DEF rxVars, RxIInv, RxTypes, RxRing, RxPoll
<1> QED BY <1>1, <1>2

\* What the invariant says of the RU and of the frames that wait.
LEMMA RxSafe == RxIInv => Rx!Inv
<1> SUFFICES ASSUME RxIInv PROVE Rx!Inv
  OBVIOUS
<1> USE RfdsInt
<1>1. PICK m \in 0 .. Rfds, d \in 0 .. Rfds : RxRing(m, d) /\ RxPoll(d)
  BY DEF RxIInv
<1>2. RxTypes /\ rx_to_clean \in 0 .. Rfds - 1
  BY DEF RxIInv, RxTypes, Rx!Slots
<1>3. Rx!TypeOK
  BY <1>2, RingsAssumption DEF RxTypes, Rx!TypeOK, RfdType, WorkType
<1>4. Rx!RuOnBlankRfd
  <2>1. ru.on => IsRfd(rx[ru.at], m, d, d) /\ d < m
    BY <1>1 DEF RxRing
  <2> QED BY <1>1, <2>1 DEF Rx!RuOnBlankRfd, IsRfd
<1>5. Rx!NoGap
  <2> SUFFICES ASSUME NEW i \in Rx!Slots, rx[i].complete, i # rx_to_clean
               PROVE  rx[Rx!Prev(i)].complete
    BY DEF Rx!NoGap
  <2>1. PICK k \in 0 .. Rfds - 1 : i = (rx_to_clean + k) % Rfds /\ IsRfd(rx[i], m, d, k)
    BY <1>1, <1>2, RxAt
  <2>2. k # 0 /\ k < d
    BY <1>2, <2>1, ModSmall DEF IsRfd
  <2>3. Rx!Prev(i) = (rx_to_clean + (k - 1)) % Rfds
    BY <1>2, <2>1, RingSteps DEF Rx!Prev
  <2>4. IsRfd(rx[Rx!Prev(i)], m, d, k - 1)
    BY <1>1, <2>2, <2>3 DEF RxRing
  <2> QED BY <2>2, <2>4 DEF IsRfd
<1> QED BY <1>3, <1>4, <1>5 DEF Rx!Inv

-----------------------------------------------------------------------------
(* Transmission: each step keeps the invariant.                            *)

LEMMA CbsInt == Cbs \in Int /\ Cbs > 1 /\ Cbs > 0
BY RingsAssumption

LEMMA TxTypeFacts ==
    /\ \A i : i \in Tx!Slots <=> i \in 0 .. Cbs - 1
    /\ \A n : n \in AvailType <=> n \in 0 .. Cbs
    /\ 0 \in Tx!Slots /\ 1 \in Tx!Slots /\ 0 \in AvailType /\ Cbs - 1 \in AvailType
BY RingsAssumption DEF Tx!Slots, AvailType

\* The slot at a position, the one after and the one before.
LEMMA TxSteps ==
    ASSUME TxTypes, NEW k \in Int
    PROVE  LET i == (cb_to_clean + k) % Cbs
           IN  /\ i \in Tx!Slots
               /\ Tx!Nxt(i) = (cb_to_clean + (k + 1)) % Cbs
               /\ Tx!Prev(i) = (cb_to_clean + (k - 1)) % Cbs
<1>1. cb_to_clean \in Int
  BY TxTypeFacts DEF TxTypes
<1>2. /\ (cb_to_clean + k) % Cbs \in 0 .. Cbs - 1
      /\ (((cb_to_clean + k) % Cbs) + 1) % Cbs = (cb_to_clean + (k + 1)) % Cbs
      /\ (((cb_to_clean + k) % Cbs) + Cbs - 1) % Cbs = (cb_to_clean + (k - 1)) % Cbs
  BY <1>1, CbsInt, RingSteps
<1> QED BY <1>2, TxTypeFacts DEF Tx!Nxt, Tx!Prev

\* Positions of one round are different slots.
LEMMA TxApart ==
    ASSUME TxTypes, NEW k \in Int, NEW l \in Int, k - l < Cbs, l - k < Cbs,
           (cb_to_clean + k) % Cbs = (cb_to_clean + l) % Cbs
    PROVE  k = l
<1>1. cb_to_clean \in Int
  BY TxTypeFacts DEF TxTypes
<1> QED BY <1>1, CbsInt, RingApart

\* What the next step does with a ring in use.
LEMMA TxPick ==
    ASSUME TxIInv, phase \in {"up", "init"}
    PROVE  \E p \in 0 .. Cbs : /\ TxRing(p) /\ TxCu(p) /\ TxTypes
                               /\ Used \in 0 .. Cbs /\ Used \in Int /\ p <= Used
<1>1. PICK p \in 0 .. Cbs : TxRing(p) /\ TxCu(p)
  BY DEF TxIInv
<1>2. TxTypes
  BY DEF TxIInv
<1>3. Used \in 0 .. Cbs /\ Used \in Int
  BY <1>2, CbsInt, TxTypeFacts DEF TxTypes, Used
<1>4. p <= Used
  BY <1>1, <1>3 DEF TxRing
<1> QED BY <1>1, <1>2, <1>3, <1>4

\* The driver takes a CB: it is put in behind those queued.
LEMMA TxExecTake == ASSUME NEW kind \in {"tx", "other", "init"}, TxIInv, Tx!ExecTake(kind)
                    PROVE  TxIInv'
<1> USE CbsInt
<1>1. phase \in {"up", "init"} /\ phase' = phase
  BY DEF Tx!ExecTake, Tx!MayCall
<1>2. PICK p \in 0 .. Cbs :
          /\ TxRing(p) /\ TxCu(p) /\ TxTypes
          /\ Used \in 0 .. Cbs /\ Used \in Int /\ p <= Used
  BY <1>1, TxPick
<1> SUFFICES TxTypes' /\ TxRing(p)' /\ TxCu(p)'
  BY <1>1 DEF TxIInv
<1>3. CASE cbs_avail = 0
  <2>1. UNCHANGED <<cb, cb_to_use, cb_to_send, cb_to_clean, cbs_avail, cuc_cmd, scb, gen_ptr,
                    cu, hung, call, late, cleaned, stopped, task, phase>>
        /\ xmit' \in {xmit, "ENOMEM"}
    BY <1>3 DEF Tx!ExecTake, Tx!ring, Tx!hw
  <2> QED BY <1>2, <2>1 DEF TxTypes, TxRing, TxCu, Used
<1>4. CASE cbs_avail # 0
  <2> DEFINE tx == kind = "tx"
  <2>1. /\ cb' = [cb EXCEPT ![cb_to_use].skb = tx, ![cb_to_use].s = TRUE]
        /\ cb_to_use' = Tx!Nxt(cb_to_use) /\ cbs_avail' = cbs_avail - 1
        /\ call' = [pc |-> "link", kind |-> kind,
                    err |-> IF cbs_avail = 1 THEN "ENOSPC" ELSE "ok"]
        /\ call.pc = "none" /\ late' = TRUE
        /\ UNCHANGED <<cb_to_send, cb_to_clean, cuc_cmd, xmit, scb, gen_ptr, cu, hung,
                       cleaned, stopped, task, phase>>
    BY <1>4 DEF Tx!ExecTake, Tx!Prepared, Tx!hw
  <2>2. tx \in BOOLEAN
    OBVIOUS
  <2> HIDE DEF tx
  <2>3. /\ Used \in 0 .. Cbs - 1 /\ Used' = Used + 1 /\ cbs_avail' \in AvailType
        /\ Used' - 1 = Used /\ Used' - 2 = Used - 1
    <3>1. cbs_avail \in 1 .. Cbs
      BY <1>2, <1>4, TxTypeFacts DEF TxTypes
    <3>2. cbs_avail' \in 0 .. Cbs /\ cbs_avail' = cbs_avail - 1
      BY <2>1, <3>1
    <3>3. Used = Cbs - cbs_avail /\ Used' = Cbs - cbs_avail'
      BY DEF Used
    <3> QED BY <3>1, <3>2, <3>3, TxTypeFacts
  <2>4. cb_to_use = (cb_to_clean + Used) % Cbs /\ cb_to_use \in Tx!Slots
        /\ cb_to_use' = (cb_to_clean + (Used + 1)) % Cbs /\ cb_to_use' \in Tx!Slots
    <3>1. cb_to_use = (cb_to_clean + Used) % Cbs
      BY <1>2 DEF TxRing
    <3>2. Used + 1 \in Int
      BY <1>2
    <3> QED BY <1>2, <2>1, <3>1, <3>2, TxSteps
  <2>5. /\ cb' \in [Tx!Slots -> CbType]
        /\ cb'[cb_to_use].complete = cb[cb_to_use].complete /\ cb'[cb_to_use].s
        /\ \A i \in Tx!Slots \ {cb_to_use} : cb'[i] = cb[i]
    <3>1. cb \in [Tx!Slots -> CbType] /\ cb_to_use \in Tx!Slots
      BY <1>2, <2>4 DEF TxTypes
    <3>2. [cb[cb_to_use] EXCEPT !.skb = tx] \in CbType
      BY <2>2, <3>1 DEF CbType
    <3>3. \A c \in CbType : /\ [c EXCEPT !.s = TRUE] \in CbType
                            /\ [c EXCEPT !.s = TRUE].s
                            /\ [c EXCEPT !.s = TRUE].complete = c.complete
      BY DEF CbType
    <3>4. cb' = [cb EXCEPT ![cb_to_use] = [[cb[cb_to_use] EXCEPT !.skb = tx] EXCEPT !.s = TRUE]]
      BY <2>1, <3>1
    <3>5. [cb[cb_to_use] EXCEPT !.skb = tx].complete = cb[cb_to_use].complete
      BY <2>2, <3>1 DEF CbType
    <3> QED BY <3>1, <3>2, <3>3, <3>4, <3>5
  <2>6. TxTypes'
    <3>1. call' \in CallType
      BY <2>1 DEF CallType
    <3> QED BY <1>2, <2>1, <2>3, <2>4, <2>5, <3>1 DEF TxTypes
  <2>7. \A k \in 0 .. Cbs - 1 :
            /\ cb'[(cb_to_clean + k) % Cbs].complete <=> k < p
            /\ cb'[(cb_to_clean + k) % Cbs].skb => k < Used + 1
    <3> TAKE k \in 0 .. Cbs - 1
    <3>1. /\ cb[(cb_to_clean + k) % Cbs].complete <=> k < p
          /\ cb[(cb_to_clean + k) % Cbs].skb => k < Used
      BY <1>2 DEF TxRing
    <3>2. (cb_to_clean + k) % Cbs \in Tx!Slots
      BY <1>2, TxSteps
    <3>3. (cb_to_clean + k) % Cbs = cb_to_use => k = Used
      BY <1>2, <2>3, <2>4, TxApart
    <3>4. CASE (cb_to_clean + k) % Cbs = cb_to_use
      BY <1>2, <2>3, <2>5, <3>1, <3>3, <3>4
    <3>5. CASE (cb_to_clean + k) % Cbs # cb_to_use
      BY <1>2, <2>3, <2>5, <3>1, <3>2, <3>5
    <3> QED BY <3>4, <3>5
  <2>8. \A i \in Tx!Slots : cb'[i].s =>
            i = (cb_to_clean + Used) % Cbs \/ i = (cb_to_clean + (Used - 1)) % Cbs
    BY <1>2, <2>1, <2>4, <2>5 DEF TxRing
  <2>9. TxRing(p)'
    <3>1. cb'[(cb_to_clean + Used) % Cbs].s /\ p \in 0 .. Used + 1
      BY <1>2, <2>3, <2>4, <2>5 DEF TxRing
    <3>2. call'.pc = "link"
      BY <2>1
    <3> QED BY <2>1, <2>3, <2>4, <2>7, <2>8, <3>1, <3>2 DEF TxRing
  <2>10. TxCu(p)'
    <3>1. call'.pc = "link"
      BY <2>1
    <3> QED BY <1>2, <2>1, <2>3, <3>1 DEF TxCu
  <2> QED BY <2>6, <2>9, <2>10
<1> QED BY <1>3, <1>4

\* The S bit of the CB before it is cleared.
LEMMA TxExecLink == TxIInv /\ Tx!ExecLink => TxIInv'
<1> SUFFICES ASSUME TxIInv, Tx!ExecLink PROVE TxIInv'
  OBVIOUS
<1> USE CbsInt
<1>1. /\ call.pc = "link" /\ call' = [call EXCEPT !.pc = "send"]
      /\ cb' = [cb EXCEPT ![Tx!Prev(Tx!Prev(cb_to_use))].s = FALSE]
      /\ UNCHANGED <<cb_to_use, cb_to_send, cb_to_clean, cbs_avail, cuc_cmd, scb, gen_ptr,
                     cu, hung, late, xmit, cleaned, stopped, task, phase>>
  BY DEF Tx!ExecLink, Tx!hw, Tx!net
<1>2. phase \in {"up", "init"}
  BY <1>1 DEF TxIInv, TxDown, TxTypes
<1>3. PICK p \in 0 .. Cbs :
          /\ TxRing(p) /\ TxCu(p) /\ TxTypes
          /\ Used \in 0 .. Cbs /\ Used \in Int /\ p <= Used
  BY <1>2, TxPick
<1>4. cb_to_use = (cb_to_clean + Used) % Cbs /\ Used \in Int
  BY <1>3 DEF TxRing
<1>5. Tx!Prev(cb_to_use) = (cb_to_clean + (Used - 1)) % Cbs
  BY <1>3, <1>4, TxSteps
<1>6. Tx!Prev(Tx!Prev(cb_to_use)) = (cb_to_clean + ((Used - 1) - 1)) % Cbs
  <2>1. Used - 1 \in Int
    BY <1>4
  <2> QED BY <1>3, <1>5, <2>1, TxSteps
<1>7. /\ (Used - 1) - 1 = Used - 2
      /\ Tx!Prev(Tx!Prev(cb_to_use)) = (cb_to_clean + (Used - 2)) % Cbs
      /\ (cb_to_clean + (Used - 2)) % Cbs \in Tx!Slots
      /\ (cb_to_clean + (Used - 1)) % Cbs \in Tx!Slots
      /\ (cb_to_clean + (Used - 2)) % Cbs # (cb_to_clean + (Used - 1)) % Cbs
  <2>1. (Used - 1) - 1 = Used - 2 /\ Used - 1 \in Int /\ Used - 2 \in Int
    BY <1>4
  <2>2. (Used - 1) - (Used - 2) < Cbs /\ (Used - 2) - (Used - 1) < Cbs /\ Used - 2 # Used - 1
    BY <1>4
  <2> QED BY <1>3, <1>6, <2>1, <2>2, TxSteps, TxApart
<1>8. /\ cb' \in [Tx!Slots -> CbType]
      /\ \A i \in Tx!Slots : /\ cb'[i].complete = cb[i].complete
                             /\ cb'[i].s = IF i = (cb_to_clean + (Used - 2)) % Cbs THEN FALSE ELSE cb[i].s
                             /\ cb'[i].skb = cb[i].skb
  BY <1>1, <1>3, <1>7 DEF TxTypes, CbType
<1>9. TxTypes' /\ Used' = Used /\ call'.pc = "send"
  <2>1. call' \in CallType /\ call'.pc = "send"
    BY <1>1, <1>3 DEF TxTypes, CallType
  <2>2. TxTypes'
    BY <1>1, <1>3, <1>8, <2>1 DEF TxTypes
  <2> QED BY <1>1, <2>1, <2>2 DEF Used
<1>10. \A k \in 0 .. Cbs - 1 :
           /\ cb'[(cb_to_clean + k) % Cbs].complete <=> k < p
           /\ cb'[(cb_to_clean + k) % Cbs].skb => k < Used
  <2> TAKE k \in 0 .. Cbs - 1
  <2>1. (cb_to_clean + k) % Cbs \in Tx!Slots
    BY <1>3, TxSteps
  <2> QED BY <1>3, <1>8, <2>1 DEF TxRing
<1>11. \A i \in Tx!Slots : cb'[i].s => i = (cb_to_clean + (Used - 1)) % Cbs
  BY <1>3, <1>8 DEF TxRing
<1>12. cb'[(cb_to_clean + (Used - 1)) % Cbs].s
  BY <1>3, <1>7, <1>8 DEF TxRing
<1>13. TxRing(p)'
  BY <1>1, <1>3, <1>4, <1>9, <1>10, <1>11, <1>12 DEF TxRing
<1>14. TxCu(p)'
  BY <1>1, <1>3, <1>9 DEF TxCu
<1> QED BY <1>1, <1>2, <1>9, <1>13, <1>14 DEF TxIInv

\* The CU gets a command.
LEMMA TxExecSend == TxIInv /\ Tx!ExecSend => TxIInv'
<1> SUFFICES ASSUME TxIInv, Tx!ExecSend PROVE TxIInv'
  OBVIOUS
<1> USE CbsInt
<1>1. /\ call.pc = "send" /\ scb = "clear" /\ scb' = cuc_cmd
      /\ gen_ptr' = (IF cuc_cmd = "resume" THEN gen_ptr ELSE cb_to_send)
      /\ late' = FALSE /\ cuc_cmd' = "resume" /\ cb_to_send' = Tx!Nxt(cb_to_send)
      /\ UNCHANGED <<cb, cb_to_use, cb_to_clean, cbs_avail, cu, hung, call, xmit, cleaned,
                     stopped, task, phase>>
  BY DEF Tx!ExecSend, Tx!net
<1>2. phase \in {"up", "init"}
  BY <1>1 DEF TxIInv, TxDown, TxTypes
<1>3. PICK p \in 0 .. Cbs :
          /\ TxRing(p) /\ TxCu(p) /\ TxTypes
          /\ Used \in 0 .. Cbs /\ Used \in Int /\ p <= Used
  BY <1>2, TxPick
<1>4. cb_to_send' \in Tx!Slots
  <2>1. cb_to_send + 1 \in Int
    BY <1>3, TxTypeFacts DEF TxTypes
  <2>2. (cb_to_send + 1) % Cbs \in 0 .. Cbs - 1
    BY <2>1, DivMod
  <2> QED BY <1>1, <2>2, TxTypeFacts DEF Tx!Nxt
<1>5. TxTypes' /\ Used' = Used
  BY <1>1, <1>3, <1>4 DEF TxTypes, Used
<1>6. TxRing(p)'
  BY <1>1, <1>3, <1>5 DEF TxRing
<1>7. TxCu(p)'
  <2>1. CASE cuc_cmd = "start"
    BY <1>1, <1>3, <1>5, <2>1 DEF TxCu
  <2>2. CASE cuc_cmd = "resume"
    BY <1>1, <1>3, <1>5, <2>2 DEF TxCu
  <2> QED BY <1>3, <2>1, <2>2 DEF TxTypes
<1> QED BY <1>1, <1>2, <1>5, <1>6, <1>7 DEF TxIInv

\* The CBs that e100_tx_clean takes back: those before the first that is not
\* complete.
LEMMA CompletedAre ==
    ASSUME NEW p \in 0 .. Used, Used \in 0 .. Cbs, TxRing(p)
    PROVE  Tx!Completed = p
<1> DEFINE P(n) == /\ \A k \in 0 .. n - 1 : cb[(cb_to_clean + k) % Cbs].complete
                   /\ n = Cbs \/ ~cb[(cb_to_clean + n) % Cbs].complete
<1>1. \A k \in 0 .. Cbs - 1 : cb[(cb_to_clean + k) % Cbs].complete <=> k < p
  BY DEF TxRing
<1>2. p \in 0 .. Cbs /\ Cbs \in Int
  BY CbsInt
<1>3. \A k \in 0 .. p - 1 : cb[(cb_to_clean + k) % Cbs].complete
  BY <1>1, <1>2
<1>4. p = Cbs \/ ~cb[(cb_to_clean + p) % Cbs].complete
  <2>1. p = Cbs \/ p \in 0 .. Cbs - 1
    BY <1>2
  <2> QED BY <1>1, <1>2, <2>1
<1>5. P(p)
  BY <1>3, <1>4
<1>6. ASSUME NEW n \in 0 .. Cbs, P(n) PROVE n = p
  <2>1. CASE n < p
    <3>1. n \in 0 .. Cbs - 1
      BY <1>2, <2>1
    <3> QED BY <1>1, <1>2, <1>6, <2>1, <3>1
  <2>2. CASE n > p
    <3>1. p \in 0 .. n - 1 /\ p \in 0 .. Cbs - 1
      BY <1>2, <2>2
    <3>2. cb[(cb_to_clean + p) % Cbs].complete
      BY <1>6, <3>1
    <3>3. cb[(cb_to_clean + p) % Cbs].complete <=> p < p
      BY <1>1, <3>1
    <3> QED BY <1>2, <3>2, <3>3
  <2> QED BY <1>2, <2>1, <2>2
<1>7. Tx!Completed = CHOOSE n \in 0 .. Cbs : P(n)
  BY DEF Tx!Completed
<1> HIDE DEF P
<1> QED BY <1>2, <1>5, <1>6, <1>7

\* Slots are taken back one after the other: the ring begins p later.
LEMMA TxTxClean == TxIInv /\ Tx!TxClean => TxIInv'
<1> SUFFICES ASSUME TxIInv, Tx!TxClean PROVE TxIInv'
  OBVIOUS
<1> USE CbsInt
<1>1. phase \in {"up", "init"}
  BY DEF Tx!TxClean
<1>2. PICK p \in 0 .. Cbs :
          /\ TxRing(p) /\ TxCu(p) /\ TxTypes
          /\ Used \in 0 .. Cbs /\ Used \in Int /\ p <= Used
  BY <1>1, TxPick
<1>3. Tx!Completed = p
  BY <1>2, CompletedAre
<1> DEFINE done == {i \in Tx!Slots : Tx!Dist(cb_to_clean, i) < p}
<1>4. /\ call.pc = "none" /\ p > 0
      /\ cb' = [i \in Tx!Slots |-> IF i \in done THEN Tx!Cleaned(cb[i]) ELSE cb[i]]
      /\ cb_to_clean' = (cb_to_clean + p) % Cbs
      /\ cbs_avail' = cbs_avail + p
      /\ cleaned' = (\E i \in done : cb[i].skb)
      /\ UNCHANGED <<cb_to_use, cb_to_send, cuc_cmd, scb, gen_ptr, cu, hung, call, late, xmit,
                     stopped, task, phase>>
  BY <1>3 DEF Tx!TxClean, Tx!hw
<1>5. cb_to_clean \in 0 .. Cbs - 1 /\ cb_to_clean \in Int
  BY <1>2, TxTypeFacts DEF TxTypes
<1>6. \A k \in 0 .. Cbs - 1 : LET i == (cb_to_clean + k) % Cbs
                              IN  i \in Tx!Slots /\ (i \in done <=> k < p)
  <2> TAKE k \in 0 .. Cbs - 1
  <2>1. (cb_to_clean + k) % Cbs \in Tx!Slots
    BY <1>2, TxSteps
  <2>2. Tx!Dist(cb_to_clean, (cb_to_clean + k) % Cbs) = k
    BY <1>5, RingDist DEF Tx!Dist
  <2> QED BY <2>1, <2>2
<1> HIDE DEF done
<1>7. \A c \in CbType : /\ Tx!Cleaned(c) \in CbType /\ Tx!Cleaned(c).s = c.s
                        /\ ~Tx!Cleaned(c).skb /\ ~Tx!Cleaned(c).complete
  BY DEF CbType, Tx!Cleaned
<1>8. \A i \in Tx!Slots : /\ cb'[i] \in CbType /\ cb'[i].s = cb[i].s
                          /\ i \in done => ~cb'[i].skb /\ ~cb'[i].complete
                          /\ i \notin done => cb'[i] = cb[i]
  <2> TAKE i \in Tx!Slots
  <2>1. cb[i] \in CbType
    BY <1>2 DEF TxTypes
  <2>2. cb'[i] = IF i \in done THEN Tx!Cleaned(cb[i]) ELSE cb[i]
    BY <1>4
  <2> QED BY <1>7, <2>1, <2>2
<1>9. cb' \in [Tx!Slots -> CbType]
  BY <1>4, <1>8
<1>10. cleaned' \in BOOLEAN
  BY <1>4
<1>11. Used' = Used - p /\ cbs_avail' \in AvailType /\ Used' \in 0 .. Cbs /\ Used' \in Int
  <2>1. cbs_avail \in 0 .. Cbs /\ Used = Cbs - cbs_avail /\ Used' = Cbs - cbs_avail'
    BY <1>2, TxTypeFacts DEF Used, TxTypes
  <2>2. cbs_avail' \in 0 .. Cbs
    BY <1>2, <1>4, <2>1
  <2> QED BY <1>2, <1>4, <2>1, <2>2, TxTypeFacts
<1>12. cb_to_clean' \in Tx!Slots
  BY <1>2, <1>4, TxSteps
<1>13. TxTypes'
  BY <1>2, <1>4, <1>9, <1>10, <1>11, <1>12 DEF TxTypes
<1>14. \A k \in Int : (cb_to_clean' + k) % Cbs = (cb_to_clean + (p + k)) % Cbs
  <2> TAKE k \in Int
  <2>1. cb_to_clean + p \in Int /\ (cb_to_clean + p) + k = cb_to_clean + (p + k)
    BY <1>2, <1>5
  <2>2. (((cb_to_clean + p) % Cbs) + k) % Cbs = ((cb_to_clean + p) + k) % Cbs
    BY <2>1, ModAdd
  <2> QED BY <1>4, <2>1, <2>2
<1>15. \A k \in 0 .. Cbs - 1 :
           /\ ~cb'[(cb_to_clean' + k) % Cbs].complete
           /\ cb'[(cb_to_clean' + k) % Cbs].skb => k < Used'
  <2> TAKE k \in 0 .. Cbs - 1
  <2>1. (cb_to_clean' + k) % Cbs = (cb_to_clean + (p + k)) % Cbs
    BY <1>14
  <2>2. CASE p + k < Cbs
    <3>1. p + k \in 0 .. Cbs - 1 /\ ~(p + k < p)
      BY <1>2, <2>2
    <3>2. (cb_to_clean + (p + k)) % Cbs \in Tx!Slots
          /\ (cb_to_clean + (p + k)) % Cbs \notin done
      BY <1>6, <3>1
    <3>3. cb'[(cb_to_clean' + k) % Cbs] = cb[(cb_to_clean + (p + k)) % Cbs]
      BY <1>8, <2>1, <3>2
    <3>4. /\ cb[(cb_to_clean + (p + k)) % Cbs].complete <=> p + k < p
          /\ cb[(cb_to_clean + (p + k)) % Cbs].skb => p + k < Used
      BY <1>2, <3>1 DEF TxRing
    <3> QED BY <1>2, <1>11, <3>1, <3>3, <3>4
  <2>3. CASE p + k >= Cbs
    <3> DEFINE l == p + k - Cbs
    <3>1. l \in 0 .. Cbs - 1 /\ l < p /\ cb_to_clean + l \in Int
          /\ (cb_to_clean + l) + Cbs = cb_to_clean + (p + k)
      BY <1>2, <1>5, <2>3
    <3> HIDE DEF l
    <3>2. (cb_to_clean + (p + k)) % Cbs = (cb_to_clean + l) % Cbs
      BY <3>1, ModRound
    <3>3. (cb_to_clean + l) % Cbs \in Tx!Slots /\ (cb_to_clean + l) % Cbs \in done
      BY <1>6, <3>1
    <3> QED BY <1>8, <2>1, <3>2, <3>3
  <2> QED BY <1>2, <2>2, <2>3
<1>16. /\ (cb_to_clean' + (Used' - 1)) % Cbs = (cb_to_clean + (Used - 1)) % Cbs
       /\ (cb_to_clean' + Used') % Cbs = (cb_to_clean + Used) % Cbs
       /\ (cb_to_clean' + 0) % Cbs = (cb_to_clean + p) % Cbs
       /\ (cb_to_clean' + (0 - 1)) % Cbs = (cb_to_clean + (p - 1)) % Cbs
  <2>1. /\ Used' - 1 \in Int /\ 0 - 1 \in Int /\ p + (Used' - 1) = Used - 1
        /\ p + Used' = Used /\ p + 0 = p /\ p + (0 - 1) = p - 1
    BY <1>2, <1>11
  <2> QED BY <1>11, <1>14, <2>1
<1>17. (cb_to_clean + (Used - 1)) % Cbs \in Tx!Slots
  <2>1. Used - 1 \in Int
    BY <1>2
  <2> QED BY <1>2, <2>1, TxSteps
<1>18. TxRing(0)'
  <2>1. cb_to_use' = (cb_to_clean' + Used') % Cbs
    BY <1>2, <1>4, <1>16 DEF TxRing
  <2>2. cb'[(cb_to_clean' + (Used' - 1)) % Cbs].s
    BY <1>2, <1>8, <1>16, <1>17 DEF TxRing
  <2>3. \A i \in Tx!Slots : cb'[i].s => i = (cb_to_clean' + (Used' - 1)) % Cbs
    BY <1>2, <1>4, <1>8, <1>16 DEF TxRing
  <2>4. 0 \in 0 .. Used' /\ \A k \in 0 .. Cbs - 1 : ~(k < 0)
    BY <1>11
  <2> QED BY <1>15, <2>1, <2>2, <2>3, <2>4 DEF TxRing
<1>19. TxCu(0)'
  <2>1. cbs_avail = 0 <=> Used = Cbs
    BY <1>2, TxTypeFacts DEF Used, TxTypes
  <2>2. (p < Used <=> 0 < Used') /\ (p = Used <=> 0 = Used')
    BY <1>2, <1>11
  <2>3. cu.state = "suspended" => p = Used \/ late \/ scb = "resume"
    BY <1>2, <1>4 DEF TxCu
  <2> QED BY <1>2, <1>4, <1>16, <2>2, <2>3 DEF TxCu
<1>20. 0 \in 0 .. Cbs
  OBVIOUS
<1> QED BY <1>1, <1>4, <1>13, <1>18, <1>19, <1>20 DEF TxIInv

\* The steps after which there is no ring, or a fresh one.
LEMMA TxReset == TxIInv /\ (Tx!e100_down \/ Tx!UpAlloc \/ Tx!UpFail) => TxIInv'
<1> SUFFICES ASSUME TxIInv, Tx!e100_down \/ Tx!UpAlloc \/ Tx!UpFail PROVE TxIInv'
  OBVIOUS
<1> USE CbsInt
<1>1. TxTypes
  BY DEF TxIInv
<1>2. Tx!BlankCb \in CbType /\ ~Tx!BlankCb.skb /\ ~Tx!BlankCb.s /\ ~Tx!BlankCb.complete
  BY DEF Tx!BlankCb, CbType
<1>3. CASE Tx!e100_down
  <2>1. cb' \in [Tx!Slots -> CbType]
    BY <1>2, <1>3 DEF Tx!e100_down, Tx!NoRing
  <2>2. cu' \in CuType /\ cu'.state = "idle"
    BY <1>3, TxTypeFacts DEF Tx!e100_down, Tx!NoRing, CuType
  <2>3. TxTypes'
    BY <1>1, <1>3, <2>1, <2>2, TxTypeFacts DEF Tx!e100_down, Tx!NoRing, TxTypes
  <2>4. TxDown' /\ phase' = "down"
    BY <1>3, <2>2 DEF Tx!e100_down, Tx!NoRing, TxDown
  <2> QED BY <2>3, <2>4 DEF TxIInv
<1>4. CASE Tx!UpAlloc
  <2>1. TxDown /\ phase' = "init"
        /\ UNCHANGED <<scb, gen_ptr, cu, hung, call, late, xmit, cleaned, stopped, task>>
        /\ cb_to_use' = 1 /\ cb_to_send' = 1 /\ cb_to_clean' = 0 /\ cbs_avail' = Cbs - 1
        /\ cuc_cmd' = "start"
    BY <1>4 DEF Tx!UpAlloc, TxIInv, Tx!FreshRing, Tx!hw
  <2> DEFINE Fresh(b) == [Tx!BlankCb EXCEPT !.complete = b, !.s = b]
  <2>2. cb' = [i \in Tx!Slots |-> Fresh(i = 0)]
    BY <1>4 DEF Tx!UpAlloc, Tx!FreshRing
  <2>3. \A b \in BOOLEAN : /\ Fresh(b) \in CbType
                           /\ Fresh(b).s = b /\ Fresh(b).complete = b /\ ~Fresh(b).skb
    BY DEF Tx!BlankCb, CbType
  <2> HIDE DEF Fresh
  <2>4. \A i \in Tx!Slots : /\ cb'[i] \in CbType /\ ~cb'[i].skb
                            /\ (cb'[i].s <=> i = 0) /\ (cb'[i].complete <=> i = 0)
    <3> TAKE i \in Tx!Slots
    <3>1. (i = 0) \in BOOLEAN
      OBVIOUS
    <3>2. /\ Fresh(i = 0) \in CbType
          /\ Fresh(i = 0).s = (i = 0) /\ Fresh(i = 0).complete = (i = 0) /\ ~Fresh(i = 0).skb
      BY <2>3, <3>1, Zenon
    <3>3. cb'[i] = Fresh(i = 0)
      BY <2>2
    <3> QED BY <3>2, <3>3
  <2>5. cb' \in [Tx!Slots -> CbType]
    BY <2>2, <2>4
  <2>6. TxTypes'
    BY <1>1, <2>1, <2>5, TxTypeFacts DEF TxTypes
  <2>7. Used' = 1
    BY <2>1 DEF Used
  <2>8. \A k \in 0 .. Cbs - 1 : (0 + k) % Cbs = k /\ k \in Tx!Slots
    BY ModSmall, TxTypeFacts
  <2>9. 0 \in 0 .. Cbs - 1 /\ 1 \in 0 .. Cbs - 1
    OBVIOUS
  <2>10. (0 + 0) % Cbs = 0 /\ (0 + 1) % Cbs = 1
    BY <2>8, <2>9
  <2>11. TxRing(1)'
    <3>1. \A k \in 0 .. Cbs - 1 : /\ cb'[(cb_to_clean' + k) % Cbs].complete <=> k < 1
                                  /\ ~cb'[(cb_to_clean' + k) % Cbs].skb
      BY <2>1, <2>4, <2>8
    <3>2. (cb_to_clean' + (Used' - 1)) % Cbs = 0
      BY <2>1, <2>7, <2>10
    <3>3. cb_to_use' = (cb_to_clean' + Used') % Cbs
      BY <2>1, <2>7, <2>10
    <3>4. 1 \in 0 .. Used'
      BY <2>7
    <3> QED BY <2>4, <3>1, <3>2, <3>3, <3>4, TxTypeFacts DEF TxRing
  <2>12. TxCu(1)'
    BY <2>1, <2>7, <2>10 DEF TxCu, TxDown
  <2> QED BY <2>1, <2>6, <2>9, <2>11, <2>12 DEF TxIInv
<1>5. CASE Tx!UpFail
  <2>1. cb' \in [Tx!Slots -> CbType]
    BY <1>2, <1>5 DEF Tx!UpFail, Tx!NoRing
  <2>2. TxTypes' /\ phase' = "dead" /\ call'.pc = "none"
    BY <1>1, <1>5, <2>1, TxTypeFacts DEF Tx!UpFail, Tx!NoRing, Tx!hw, TxTypes
  <2> QED BY <2>2 DEF TxIInv
<1> QED BY <1>3, <1>4, <1>5

\* The lock is given up.
LEMMA TxExecEnd == TxIInv /\ (Tx!ExecTimeout \/ Tx!ExecDone) => TxIInv'
<1> SUFFICES ASSUME TxIInv, Tx!ExecTimeout \/ Tx!ExecDone PROVE TxIInv'
  OBVIOUS
<1> USE CbsInt
<1>1. /\ call.pc = "send" /\ call' = Tx!NoCall
      /\ xmit' = (IF call.kind = "tx" THEN call.err ELSE xmit)
      /\ scb # "clear" \/ cb_to_send = cb_to_use
      /\ task' \in {task, TRUE, (task \/ call.err = "ENOSPC")}
      /\ UNCHANGED <<cb, cb_to_use, cb_to_send, cb_to_clean, cbs_avail, cuc_cmd, scb, gen_ptr,
                     cu, hung, late, cleaned, stopped, phase>>
  BY DEF Tx!ExecTimeout, Tx!ExecDone, Tx!Unlock, Tx!ring, Tx!hw
<1>2. phase \in {"up", "init"}
  BY <1>1 DEF TxIInv, TxDown, TxTypes
<1>3. PICK p \in 0 .. Cbs :
          /\ TxRing(p) /\ TxCu(p) /\ TxTypes
          /\ Used \in 0 .. Cbs /\ Used \in Int /\ p <= Used
  BY <1>2, TxPick
<1>4. Tx!NoCall \in CallType /\ Tx!NoCall.pc = "none"
  BY DEF Tx!NoCall, CallType
<1>5. call.err \in {"ok", "ENOSPC"}
  BY <1>3 DEF TxTypes, CallType
<1>6. TxTypes'
  <2>1. task' \in BOOLEAN
    BY <1>1, <1>3 DEF TxTypes
  <2>2. xmit' \in {"none", "ok", "ENOSPC", "ENOMEM"}
    BY <1>1, <1>3, <1>5 DEF TxTypes
  <2> QED BY <1>1, <1>3, <1>4, <2>1, <2>2 DEF TxTypes
<1>7. Used' = Used
  BY <1>1 DEF Used
<1>8. TxRing(p)'
  BY <1>1, <1>3, <1>7 DEF TxRing
<1>9. cuc_cmd # "start"
  <2> SUFFICES ASSUME cuc_cmd = "start" PROVE FALSE
    OBVIOUS
  <2>1. scb = "clear" /\ cb_to_send = (cb_to_clean + p) % Cbs /\ Used = p + 1
    BY <1>1, <1>3 DEF TxCu
  <2>2. (cb_to_clean + p) % Cbs = (cb_to_clean + Used) % Cbs
    BY <1>1, <1>3, <2>1 DEF TxRing
  <2> QED BY <1>3, <2>1, <2>2, TxApart
<1>10. TxCu(p)'
  BY <1>1, <1>3, <1>4, <1>7, <1>9 DEF TxCu
<1> QED BY <1>1, <1>2, <1>6, <1>8, <1>10 DEF TxIInv

\* The steps that leave the ring and the CU alone.
LEMMA TxOther ==
    ASSUME TxIInv,
           \/ Tx!XmitReturn \/ Tx!TxWake \/ Tx!e100_tx_timeout \/ Tx!UpDone \/ Tx!HwHang
    PROVE  TxIInv'
<1>1. /\ UNCHANGED <<cb, cb_to_use, cb_to_send, cb_to_clean, cbs_avail, cuc_cmd, scb, gen_ptr,
                     cu, call, late>>
      /\ phase' = phase \/ (phase = "init" /\ phase' = "up")
  BY DEF Tx!XmitReturn, Tx!TxWake, Tx!e100_tx_timeout, Tx!UpDone, Tx!HwHang, Tx!ring, Tx!hw,
         Tx!net
<1>2. TxTypes
  BY DEF TxIInv
<1>3. TxTypes'
  <2>1. xmit' = xmit \/ xmit' = "none"
    BY DEF Tx!XmitReturn, Tx!TxWake, Tx!e100_tx_timeout, Tx!UpDone, Tx!HwHang, Tx!ring, Tx!hw, Tx!net
  <2>2. (hung' = hung \/ hung' = TRUE) /\ (cleaned' = cleaned \/ cleaned' = FALSE)
    BY DEF Tx!XmitReturn, Tx!TxWake, Tx!e100_tx_timeout, Tx!UpDone, Tx!HwHang, Tx!hw, Tx!net
  <2>3. task' = task \/ task' = TRUE
    BY DEF Tx!XmitReturn, Tx!TxWake, Tx!e100_tx_timeout, Tx!UpDone, Tx!HwHang, Tx!net
  <2>4. stopped' \in BOOLEAN
    <3> DEFINE full == (stopped \/ xmit \in {"ENOSPC", "ENOMEM"})
    <3>1. stopped' = stopped \/ stopped' = FALSE \/ stopped' = full
      BY DEF Tx!XmitReturn, Tx!TxWake, Tx!e100_tx_timeout, Tx!UpDone, Tx!HwHang, Tx!net
    <3>2. full \in BOOLEAN
      OBVIOUS
    <3> HIDE DEF full
    <3>3. stopped \in BOOLEAN /\ FALSE \in BOOLEAN
      BY <1>2 DEF TxTypes
    <3> QED BY <3>1, <3>2, <3>3
  <2>5. hung' \in BOOLEAN /\ cleaned' \in BOOLEAN /\ task' \in BOOLEAN
    BY <1>2, <2>2, <2>3 DEF TxTypes
  <2>6. xmit' \in {"none", "ok", "ENOSPC", "ENOMEM"} /\ phase' \in {"up", "init", "down", "dead"}
    BY <1>1, <1>2, <2>1 DEF TxTypes
  <2> QED BY <1>1, <1>2, <2>4, <2>5, <2>6 DEF TxTypes
<1>4. CASE phase = "down"
  <2>1. TxDown' /\ phase' = "down"
    BY <1>1, <1>4 DEF TxIInv, TxDown
  <2> QED BY <1>3, <2>1 DEF TxIInv
<1>6. CASE phase = "dead"
  <2>1. call'.pc = "none" /\ phase' = "dead"
    BY <1>1, <1>6 DEF TxIInv
  <2> QED BY <1>3, <2>1 DEF TxIInv
<1>5. CASE phase \in {"up", "init"}
  <2>1. PICK p \in 0 .. Cbs : TxRing(p) /\ TxCu(p)
    BY <1>5 DEF TxIInv
  <2>2. Used' = Used
    BY <1>1 DEF Used
  <2>3. TxRing(p)' /\ TxCu(p)'
    BY <1>1, <2>1, <2>2 DEF TxRing, TxCu
  <2>4. phase' \in {"up", "init"}
    BY <1>1, <1>5
  <2> QED BY <1>3, <2>3, <2>4 DEF TxIInv
<1> QED BY <1>2, <1>4, <1>5, <1>6 DEF TxTypes

\* The controller takes a command.
LEMMA TxHwAccept == TxIInv /\ Tx!HwAccept => TxIInv'
<1> SUFFICES ASSUME TxIInv, Tx!HwAccept PROVE TxIInv'
  OBVIOUS
<1> USE CbsInt
<1>1. /\ scb # "clear" /\ scb' = "clear" /\ phase # "dead"
      /\ cu' = (CASE scb = "start" -> [state |-> "active", at |-> gen_ptr]
                  [] scb = "resume" /\ cu.state = "suspended" /\ ~cb[cu.at].s ->
                        [state |-> "active", at |-> Tx!Nxt(cu.at)]
                  [] OTHER -> cu)
      /\ UNCHANGED <<cb, cb_to_use, cb_to_send, cb_to_clean, cbs_avail, cuc_cmd, gen_ptr, hung,
                     call, late, xmit, cleaned, stopped, task, phase>>
  BY DEF Tx!HwAccept, Tx!ring, Tx!net
<1>2. phase \in {"up", "init"}
  BY <1>1 DEF TxIInv, TxDown, TxTypes
<1>3. PICK p \in 0 .. Cbs :
          /\ TxRing(p) /\ TxCu(p) /\ TxTypes
          /\ Used \in 0 .. Cbs /\ Used \in Int /\ p <= Used
  BY <1>2, TxPick
<1>4. Used' = Used
  BY <1>1 DEF Used
<1>5. TxRing(p)'
  BY <1>1, <1>3, <1>4 DEF TxRing
<1> SUFFICES TxTypes' /\ TxCu(p)'
  BY <1>1, <1>2, <1>5 DEF TxIInv
<1>6. \A i \in Tx!Slots : LET c == [state |-> "active", at |-> i]
                          IN  c \in CuType /\ c.state = "active" /\ c.at = i
  BY DEF CuType
<1>7. cuc_cmd # "start"
  BY <1>1, <1>3 DEF TxCu
<1>8. p - 1 \in Int /\ Used - 1 \in Int /\ (p - 1) + 1 = p
  BY <1>3
<1>9. CASE scb = "start"
  <2>1. cu' = [state |-> "active", at |-> gen_ptr] /\ gen_ptr \in Tx!Slots
    BY <1>1, <1>3, <1>9 DEF TxTypes
  <2>2. cu' \in CuType /\ cu'.state = "active" /\ cu'.at = gen_ptr
    BY <1>6, <2>1
  <2>3. TxTypes'
    BY <1>1, <1>3, <2>2 DEF TxTypes
  <2>4. TxCu(p)'
    BY <1>1, <1>3, <1>4, <1>7, <1>9, <2>2 DEF TxCu
  <2> QED BY <2>3, <2>4
<1>10. CASE scb = "resume" /\ cu.state = "suspended" /\ ~cb[cu.at].s
  <2>1. cu.at = (cb_to_clean + (p - 1)) % Cbs
    BY <1>3, <1>10 DEF TxCu
  <2>2. Tx!Nxt(cu.at) = (cb_to_clean + p) % Cbs /\ (cb_to_clean + p) % Cbs \in Tx!Slots
    BY <1>3, <1>8, <2>1, TxSteps
  <2>3. p < Used
    BY <1>3, <1>10, <2>1 DEF TxRing
  <2>4. cu' = [state |-> "active", at |-> (cb_to_clean + p) % Cbs]
    BY <1>1, <1>10, <2>2
  <2>5. cu' \in CuType /\ cu'.state = "active" /\ cu'.at = (cb_to_clean + p) % Cbs
    BY <1>6, <2>2, <2>4
  <2>6. TxTypes'
    BY <1>1, <1>3, <2>5 DEF TxTypes
  <2>7. TxCu(p)'
    BY <1>1, <1>3, <1>4, <1>7, <2>3, <2>5 DEF TxCu
  <2> QED BY <2>6, <2>7
<1>11. CASE scb = "resume" /\ ~(cu.state = "suspended" /\ ~cb[cu.at].s)
  <2>1. cu' = cu
    BY <1>1, <1>11
  <2>2. TxTypes'
    BY <1>1, <1>3, <2>1 DEF TxTypes
  <2>3. cu.state = "suspended" => p = Used \/ late \/ (p = 0 /\ cbs_avail = 0)
    <3> SUFFICES ASSUME cu.state = "suspended", p # Used, ~late
                 PROVE  p = 0 /\ cbs_avail = 0
      OBVIOUS
    <3>1. cb[cu.at].s /\ cu.at = (cb_to_clean + (p - 1)) % Cbs /\ call.pc # "link"
      BY <1>3, <1>11 DEF TxCu
    <3>2. cu.at \in Tx!Slots
      BY <1>3, <1>8, <3>1, TxSteps
    <3>3. (cb_to_clean + (p - 1)) % Cbs = (cb_to_clean + (Used - 1)) % Cbs
      BY <1>3, <3>1, <3>2 DEF TxRing
    <3>4. ~((Used - 1) - (p - 1) < Cbs)
      <4>1. (p - 1) - (Used - 1) < Cbs /\ p - 1 # Used - 1
        BY <1>3
      <4> QED BY <1>3, <1>8, <3>3, <4>1, TxApart
    <3>5. p = 0 /\ Used = Cbs
      BY <1>3, <3>4
    <3> QED BY <1>3, <3>5, TxTypeFacts DEF Used, TxTypes
  <2>4. TxCu(p)'
    BY <1>1, <1>3, <1>4, <1>7, <1>11, <2>1, <2>3 DEF TxCu
  <2> QED BY <2>2, <2>4
<1> QED BY <1>1, <1>3, <1>9, <1>10, <1>11 DEF TxTypes

\* The CU completes the CB it is at.
LEMMA TxCuExecute == TxIInv /\ Tx!CuExecute => TxIInv'
<1> SUFFICES ASSUME TxIInv, Tx!CuExecute PROVE TxIInv'
  OBVIOUS
<1> USE CbsInt
<1>1. /\ cu.state = "active" /\ phase # "dead"
      /\ cb' = [cb EXCEPT ![cu.at].complete = TRUE]
      /\ cu' = (IF cb[cu.at].s THEN [cu EXCEPT !.state = "suspended"]
                               ELSE [cu EXCEPT !.at = Tx!Nxt(cu.at)])
      /\ UNCHANGED <<cb_to_use, cb_to_send, cb_to_clean, cbs_avail, cuc_cmd, scb, gen_ptr, hung,
                     call, late, xmit, cleaned, stopped, task, phase>>
  BY DEF Tx!CuExecute, Tx!net
<1>2. phase \in {"up", "init"}
  BY <1>1 DEF TxIInv, TxDown, TxTypes
<1>3. PICK p \in 0 .. Cbs :
          /\ TxRing(p) /\ TxCu(p) /\ TxTypes
          /\ Used \in 0 .. Cbs /\ Used \in Int /\ p <= Used
  BY <1>2, TxPick
<1>4. Used' = Used
  BY <1>1 DEF Used
<1>5. cu.at = (cb_to_clean + p) % Cbs /\ p < Used /\ cu.at \in Tx!Slots
      /\ scb # "start" /\ cuc_cmd # "start"
      /\ Tx!Nxt(cu.at) = (cb_to_clean + (p + 1)) % Cbs /\ Tx!Nxt(cu.at) \in Tx!Slots
  <2>1. cu.at = (cb_to_clean + p) % Cbs /\ p < Used /\ scb # "start" /\ cuc_cmd # "start"
    BY <1>1, <1>3 DEF TxCu
  <2>2. p + 1 \in Int /\ p \in Int
    OBVIOUS
  <2> QED BY <1>3, <2>1, <2>2, TxSteps
<1>6. /\ cb' \in [Tx!Slots -> CbType] /\ cb'[cu.at].complete
      /\ cb'[cu.at].s = cb[cu.at].s /\ cb'[cu.at].skb = cb[cu.at].skb
      /\ \A i \in Tx!Slots \ {cu.at} : cb'[i] = cb[i]
  <2>1. cb \in [Tx!Slots -> CbType]
    BY <1>3 DEF TxTypes
  <2> QED BY <1>1, <1>5, <2>1 DEF CbType
<1>7. /\ cu' \in CuType
      /\ cb[cu.at].s => cu'.state = "suspended" /\ cu'.at = cu.at
      /\ ~cb[cu.at].s => cu'.state = "active" /\ cu'.at = Tx!Nxt(cu.at)
  BY <1>1, <1>3, <1>5 DEF TxTypes, CuType
<1>8. TxTypes'
  BY <1>1, <1>3, <1>6, <1>7 DEF TxTypes
<1>9. TxRing(p + 1)'
  <2>1. \A k \in 0 .. Cbs - 1 :
            /\ cb'[(cb_to_clean + k) % Cbs].complete <=> k < p + 1
            /\ cb'[(cb_to_clean + k) % Cbs].skb => k < Used
    <3> TAKE k \in 0 .. Cbs - 1
    <3>1. /\ cb[(cb_to_clean + k) % Cbs].complete <=> k < p
          /\ cb[(cb_to_clean + k) % Cbs].skb => k < Used
      BY <1>3 DEF TxRing
    <3>2. (cb_to_clean + k) % Cbs \in Tx!Slots
      BY <1>3, TxSteps
    <3>3. (cb_to_clean + k) % Cbs = cu.at <=> k = p
      BY <1>3, <1>5, TxApart
    <3>4. CASE k = p
      BY <1>5, <1>6, <3>1, <3>4
    <3>5. CASE k # p
      BY <1>3, <1>6, <3>1, <3>2, <3>3, <3>5
    <3> QED BY <3>4, <3>5
  <2>2. \A i \in Tx!Slots : cb'[i].s = cb[i].s
    BY <1>6
  <2>3. (cb_to_clean + (Used - 1)) % Cbs \in Tx!Slots
    <3>1. Used - 1 \in Int
      BY <1>3
    <3> QED BY <1>3, <3>1, TxSteps
  <2>4. p + 1 \in 0 .. Used
    BY <1>3, <1>5
  <2>5. cb'[(cb_to_clean + (Used - 1)) % Cbs].s
    BY <1>3, <2>2, <2>3 DEF TxRing
  <2>6. \A i \in Tx!Slots : cb'[i].s =>
            \/ i = (cb_to_clean + (Used - 1)) % Cbs
            \/ call.pc = "link" /\ i = (cb_to_clean + (Used - 2)) % Cbs
    BY <1>3, <2>2 DEF TxRing
  <2> QED BY <1>1, <1>3, <1>4, <2>1, <2>4, <2>5, <2>6 DEF TxRing
<1>10. TxCu(p + 1)'
  <2>1. CASE cb[cu.at].s
    <3>1. p + 1 = Used \/ late
      <4>1. cu.at = (cb_to_clean + (Used - 1)) % Cbs => p = Used - 1
        <5>1. Used - 1 \in Int /\ p \in Int /\ p - (Used - 1) < Cbs /\ (Used - 1) - p < Cbs
          BY <1>3
        <5> QED BY <1>3, <1>5, <5>1, TxApart
      <4>2. cu.at = (cb_to_clean + (Used - 1)) % Cbs \/ call.pc = "link"
        BY <1>3, <1>5, <2>1 DEF TxRing
      <4> QED BY <1>3, <4>1, <4>2 DEF TxCu
    <3>2. (p + 1) - 1 = p
      OBVIOUS
    <3> QED BY <1>1, <1>3, <1>4, <1>5, <1>7, <2>1, <3>1, <3>2 DEF TxCu
  <2>2. CASE ~cb[cu.at].s
    <3>1. p + 1 < Used
      <4>1. p + 1 # Used
        <5>1. p + 1 = Used => Used - 1 = p
          BY <1>3
        <5> QED BY <1>3, <1>5, <2>2, <5>1 DEF TxRing
      <4> QED BY <1>3, <1>5, <4>1
    <3> QED BY <1>1, <1>3, <1>4, <1>5, <1>7, <2>2, <3>1 DEF TxCu
  <2> QED BY <2>1, <2>2
<1>11. p + 1 \in 0 .. Cbs
  BY <1>3, <1>5
<1> QED BY <1>1, <1>2, <1>8, <1>9, <1>10, <1>11 DEF TxIInv

LEMMA TxInit == Tx!Init => TxIInv
<1> SUFFICES ASSUME Tx!Init PROVE TxIInv
  OBVIOUS
<1>1. Tx!BlankCb \in CbType
  BY DEF Tx!BlankCb, CbType
<1>2. cb \in [Tx!Slots -> CbType]
  BY <1>1 DEF Tx!Init
<1>3. cu \in CuType /\ cu.state = "idle" /\ call \in CallType /\ call.pc = "none"
  BY TxTypeFacts DEF Tx!Init, CuType, CallType, Tx!NoCall
<1>4. TxTypes
  BY <1>2, <1>3, TxTypeFacts DEF Tx!Init, TxTypes
<1> QED BY <1>3, <1>4 DEF Tx!Init, TxIInv, TxDown

LEMMA TxStep == TxIInv /\ (Tx!Next \/ UNCHANGED txVars) => TxIInv'
<1>1. TxIInv /\ Tx!Next => TxIInv'
  BY TxExecTake, TxExecLink, TxExecSend, TxExecEnd, TxTxClean, TxReset, TxOther, TxHwAccept,
     TxCuExecute
  DEF Tx!Next, Tx!ExecCb, Tx!Reset
<1>2. TxIInv /\ UNCHANGED txVars => TxIInv'
  <2> SUFFICES ASSUME TxIInv, UNCHANGED txVars PROVE TxIInv'
    OBVIOUS
  <2>1. TxTypes' /\ Used' = Used /\ phase' = phase /\ (phase = "down" => TxDown')
        /\ (phase = "dead" => call'.pc = "none")
    BY DEF txVars, TxIInv, TxTypes, Used, TxDown
  <2>2. ASSUME NEW p \in 0 .. Cbs, TxRing(p), TxCu(p) PROVE TxRing(p)' /\ TxCu(p)'
    BY <2>1, <2>2 DEF txVars, TxRing, TxCu
  <2> QED BY <2>1, <2>2 DEF TxIInv
<1> QED BY <1>1, <1>2

\* What the invariant says of the counter, the pointers and the CU.
LEMMA TxSafe == TxIInv => Tx!Inv
<1> SUFFICES ASSUME TxIInv PROVE Tx!Inv
  OBVIOUS
<1> USE CbsInt
<1>1. TxTypes
  BY DEF TxIInv
<1>2. Tx!TypeOK
  BY <1>1 DEF TxTypes, Tx!TypeOK, CbType, AvailType, CuType, CallType
<1>3. CASE phase = "down"
  <2>1. cu.state = "idle"
    BY <1>3 DEF TxIInv, TxDown
  <2> QED BY <1>2, <1>3, <2>1
          DEF Tx!Inv, Tx!CountMatchesRing, Tx!CuOnQueuedOnly, Tx!SentIsExecuted
<1>4. CASE phase \in {"up", "init"}
  <2>1. PICK p \in 0 .. Cbs :
            /\ TxRing(p) /\ TxCu(p) /\ TxTypes
            /\ Used \in 0 .. Cbs /\ Used \in Int /\ p <= Used
    BY <1>4, TxPick
  <2>2. cb_to_clean \in 0 .. Cbs - 1 /\ cb_to_clean \in Int /\ cbs_avail \in 0 .. Cbs
    BY <1>1, TxTypeFacts DEF TxTypes
  <2>3. \A i \in Tx!Slots : \E k \in 0 .. Cbs - 1 :
            i = (cb_to_clean + k) % Cbs /\ (i \in Tx!Queued <=> k < Used)
    <3> TAKE i \in Tx!Slots
    <3>1. PICK k \in 0 .. Cbs - 1 : i = (cb_to_clean + k) % Cbs
      BY <2>2, TxTypeFacts, RingCover
    <3>2. Tx!Dist(cb_to_clean, i) = k
      BY <2>2, <3>1, RingDist DEF Tx!Dist
    <3> QED BY <3>1, <3>2 DEF Tx!Queued, Used
  <2>4. (cb_to_clean + Cbs - cbs_avail) % Cbs = cb_to_use
    <3>1. cb_to_clean + Cbs - cbs_avail = cb_to_clean + Used
      BY <2>2 DEF Used
    <3> QED BY <2>1, <3>1 DEF TxRing
  <2>5. \A i \in Tx!Slots : cb[i].skb \/ cb[i].complete => i \in Tx!Queued
    <3> TAKE i \in Tx!Slots
    <3>1. PICK k \in 0 .. Cbs - 1 :
              i = (cb_to_clean + k) % Cbs /\ (i \in Tx!Queued <=> k < Used)
      BY <2>3
    <3>2. (cb[i].complete <=> k < p) /\ (cb[i].skb => k < Used)
      BY <2>1, <3>1 DEF TxRing
    <3> QED BY <2>1, <3>1, <3>2
  <2>6. Tx!CuOnQueuedOnly
    <3> SUFFICES ASSUME cu.state = "active" PROVE cu.at \in Tx!Queued /\ ~cb[cu.at].complete
      BY DEF Tx!CuOnQueuedOnly
    <3>1. cu.at = (cb_to_clean + p) % Cbs /\ p < Used /\ p \in 0 .. Cbs - 1
      BY <2>1 DEF TxCu
    <3>2. cu.at \in Tx!Slots
      BY <2>1, <3>1, TxSteps
    <3>3. PICK k \in 0 .. Cbs - 1 :
              cu.at = (cb_to_clean + k) % Cbs /\ (cu.at \in Tx!Queued <=> k < Used)
      BY <2>3, <3>2
    <3>4. k = p
      BY <1>1, <3>1, <3>3, TxApart
    <3>5. cb[cu.at].complete <=> p < p
      BY <2>1, <3>1 DEF TxRing
    <3> QED BY <3>1, <3>3, <3>4, <3>5
  <2>7. Tx!SentIsExecuted
    <3> SUFFICES ASSUME cu.state = "suspended", scb = "clear", ~late, cbs_avail # 0,
                        NEW i \in Tx!Queued
                 PROVE  cb[i].complete
      BY DEF Tx!SentIsExecuted
    <3>1. p = Used
      BY <2>1 DEF TxCu
    <3>2. PICK k \in 0 .. Cbs - 1 :
              i = (cb_to_clean + k) % Cbs /\ (i \in Tx!Queued <=> k < Used)
      BY <2>3 DEF Tx!Queued
    <3>3. k < p
      BY <3>1, <3>2
    <3> QED BY <2>1, <3>2, <3>3 DEF TxRing
  <2> QED BY <1>2, <2>4, <2>5, <2>6, <2>7 DEF Tx!Inv, Tx!CountMatchesRing
<1>5. CASE phase = "dead"
  BY <1>2, <1>5 DEF Tx!Inv, Tx!CountMatchesRing, Tx!CuOnQueuedOnly, Tx!SentIsExecuted
<1> QED BY <1>1, <1>3, <1>4, <1>5 DEF TxTypes

-----------------------------------------------------------------------------
(* The life of the interface.  What each thread has still to do is one of  *)
(* these lists.                                                            *)

T(o, x) == Life!Turn(o, x)

\* rtnl before it has the poll bit; then with it, and with the interface whole,
\* gone, and whole again.
CloseWait == {<<T("close", "poll_disable"), T("close", "down")>>}
CloseDown == {<<T("close", "down")>>}
BusyWait == {<<T("ringparam", "poll_disable"), T("ringparam", "down"), T("ringparam", "up"),
               T("ringparam", "poll_enable")>>,
             <<T("diag", "poll_disable"), T("diag", "down"), T("diag", "loopback"),
               T("diag", "loopback"), T("diag", "up"), T("diag", "poll_enable")>>}
BusyDown == {<<T("ringparam", "down"), T("ringparam", "up"), T("ringparam", "poll_enable")>>,
             <<T("diag", "down"), T("diag", "loopback"), T("diag", "loopback"), T("diag", "up"),
               T("diag", "poll_enable")>>}
BusyLoop == {<<T("diag", "loopback"), T("diag", "loopback"), T("diag", "up"),
               T("diag", "poll_enable")>>,
             <<T("diag", "loopback"), T("diag", "up"), T("diag", "poll_enable")>>}
BusyOff == {<<T(o, "up"), T(o, "poll_enable")>> : o \in {"ringparam", "diag"}}
BusyOn == {<<T(o, "poll_enable")>> : o \in {"ringparam", "diag"}}

\* rtnl opens the interface, or tests one that is closed.
OpenOff == {<<T("open", "up"), T("open", "poll_enable")>>}
OpenOn == {<<T("open", "poll_enable")>>}
Loops == {<<T("diag", "loopback"), T("diag", "loopback")>>, <<T("diag", "loopback")>>}

\* The work.
WorkWait == {<<T("timeout", "poll_disable"), T("timeout", "down"), T("timeout", "up"),
               T("timeout", "poll_enable")>>}
WorkDown == {<<T("timeout", "down"), T("timeout", "up"), T("timeout", "poll_enable")>>}
WorkOff == {<<T("timeout", "up"), T("timeout", "poll_enable")>>}
WorkOn == {<<T("timeout", "poll_enable")>>}

\* The PCI error callback, e100_resume, e100_io_resume and e100_suspend.
ErrWait == {<<T("error", "poll_disable"), T("error", "down"), T("error", "poll_enable")>>}
ErrDown == {<<T("error", "down"), T("error", "poll_enable")>>}
ErrOff == {<<T("error", "poll_enable")>>}
WakeOff == {<<T("resume", "up"), T("resume", "poll_enable")>>}
WakeOn == {<<T("resume", "poll_enable")>>}
RecOff == {<<T("io_resume", "up"), T("io_resume", "poll_enable"), T("io_resume", "mod_timer")>>}
RecOn == {<<T("io_resume", "poll_enable"), T("io_resume", "mod_timer")>>}
RecEnd == {<<T("io_resume", "mod_timer")>>}
SusWait == {<<T("suspend", "poll_disable"), T("suspend", "free_irq")>>}
SusFree == {<<T("suspend", "free_irq")>>}

Rtnl == todo["rtnl"]
Work == todo["work"]
Pm == todo["pm"]

Whole == rings /\ irq /\ watchdog
Gone == ~rings /\ ~irq /\ ~watchdog

\* What whoever takes the interface down finds: all of it, or what a recovery that
\* has failed has left.
Up == Whole \/ failed

\* There is no work, or it cannot get in because the poll bit is taken.
Quiet == Work = <<>> /\ ~reset
Barred == Quiet \/ ((Work = <<>> \/ Work \in WorkWait) /\ pollBit)

\* rtnl and pm leave an interface that is up alone.
RtnlOut == Rtnl \in CloseWait \/ Rtnl \in BusyWait \/ (Rtnl = <<>> /\ running)
PmOut == (Pm = <<>> /\ away = "no") \/ Pm \in SusWait

RtnlPart ==
    \/ Rtnl = <<>>
    \/ Rtnl \in CloseWait /\ ~running
    \/ Rtnl \in BusyWait /\ running
    \/ Rtnl \in CloseDown /\ ~running /\ pollBit /\ Up /\ Barred
    \/ Rtnl \in BusyDown /\ running /\ pollBit /\ Up /\ Barred
    \/ (Rtnl \in BusyLoop \/ Rtnl \in BusyOff) /\ running /\ pollBit /\ Gone /\ Barred
    \/ Rtnl \in BusyOn /\ running /\ pollBit /\ Whole /\ Barred
    \/ Rtnl \in OpenOff /\ running /\ Gone /\ Barred
    \/ Rtnl \in OpenOn /\ running /\ Whole /\ Barred
    \/ Rtnl \in Loops /\ ~running /\ Gone /\ Barred

WorkPart ==
    \/ Work = <<>>
    \/ Work \in WorkWait
    \/ /\ pollBit /\ RtnlOut /\ PmOut
       /\ (Work \in WorkDown /\ Up) \/ (Work \in WorkOff /\ Gone) \/ (Work \in WorkOn /\ Whole)

\* The device has been suspended, is away after an error, or is being brought
\* back.
Asleep ==
    /\ away = "suspend" /\ Rtnl = <<>>
    /\ \/ Pm = <<>> /\ Barred /\ ~irq /\ ~watchdog /\ (running => pollBit) /\ (rings => running)
       \/ Pm \in SusWait /\ running
       \/ Pm \in SusFree /\ Barred /\ (IF running THEN pollBit /\ Up ELSE Gone)
Broken ==
    /\ away = "error" /\ Rtnl = <<>> /\ Quiet
    /\ \/ Pm = <<>> /\ Gone /\ ~pollBit
       \/ Pm \in ErrWait /\ (IF pollBit \/ ~running THEN Gone ELSE Up)
       \/ Pm \in ErrDown /\ pollBit /\ (Up \/ (~running /\ Gone))
       \/ Pm \in ErrOff /\ pollBit /\ Gone
Back ==
    /\ away = "no" /\ Rtnl = <<>> /\ running /\ Barred
    /\ \/ Pm \in WakeOff /\ pollBit /\ ~irq /\ ~watchdog
       \/ Pm \in WakeOn /\ pollBit /\ Whole
       \/ Pm \in RecOff /\ ~pollBit /\ Gone
       \/ Pm \in RecOn /\ ~pollBit /\ Whole
       \/ Pm \in RecEnd /\ ~pollBit /\ Up
PmPart == (Pm = <<>> /\ away = "no") \/ Asleep \/ Broken \/ Back

\* When nobody is inside, the poll bit is taken just when e100_up has failed.  A
\* closed interface has nothing.
LinePart ==
    (Work = <<>> \/ Work \in WorkWait) /\ RtnlOut /\ PmOut
      => IF pollBit THEN Gone ELSE Up
ClosedPart == Rtnl = <<>> /\ ~running => Gone /\ Barred

LifeTypes ==
    /\ running \in BOOLEAN /\ pollBit \in BOOLEAN /\ rings \in BOOLEAN /\ irq \in BOOLEAN
    /\ watchdog \in BOOLEAN /\ reset \in BOOLEAN /\ failed \in BOOLEAN
    /\ away \in {"no", "suspend", "error"}
    /\ held = {} \/ held = Life!Resources
    /\ DOMAIN todo = Life!Threads /\ todo = [t \in Life!Threads |-> todo[t]]

LifeIInv ==
    /\ LifeTypes
    /\ RtnlPart /\ WorkPart /\ PmPart /\ LinePart /\ ClosedPart
    /\ failed => ~rings /\ ~irq

\* What a list is about to do, and what is left of it afterwards.
IsFirst(q, x) == q # <<>> /\ Head(q).step = x
IsTurn(q, o, x, rest) == IsFirst(q, x) /\ Head(q).op = o /\ Tail(q) = rest

LEMMA Turn1 == \A o, u : IsTurn(<<T(o, u)>>, o, u, <<>>)
  BY DEF IsTurn, IsFirst, T, Life!Turn
LEMMA Turn2 == \A o, u, v : IsTurn(<<T(o, u), T(o, v)>>, o, u, <<T(o, v)>>)
  BY DEF IsTurn, IsFirst, T, Life!Turn
LEMMA Turn3 == \A o, u, v, w : IsTurn(<<T(o, u), T(o, v), T(o, w)>>, o, u, <<T(o, v), T(o, w)>>)
  BY DEF IsTurn, IsFirst, T, Life!Turn
LEMMA Turn4 == \A o, u, v, w, x :
          IsTurn(<<T(o, u), T(o, v), T(o, w), T(o, x)>>, o, u,
                 <<T(o, v), T(o, w), T(o, x)>>)
  BY DEF IsTurn, IsFirst, T, Life!Turn
LEMMA Turn5 == \A o, u, v, w, x, y :
          IsTurn(<<T(o, u), T(o, v), T(o, w), T(o, x), T(o, y)>>, o, u,
                 <<T(o, v), T(o, w), T(o, x), T(o, y)>>)
  BY DEF IsTurn, IsFirst, T, Life!Turn
LEMMA Turn6 == \A o, u, v, w, x, y, z :
          IsTurn(<<T(o, u), T(o, v), T(o, w), T(o, x), T(o, y), T(o, z)>>, o, u,
                 <<T(o, v), T(o, w), T(o, x), T(o, y), T(o, z)>>)
  BY DEF IsTurn, IsFirst, T, Life!Turn

LEMMA RtnlTurns ==
    /\ \A q \in CloseWait : IsFirst(q, "poll_disable") /\ Tail(q) \in CloseDown
    /\ \A q \in CloseDown : IsFirst(q, "down") /\ Tail(q) = <<>>
    /\ \A q \in BusyWait : IsFirst(q, "poll_disable") /\ Tail(q) \in BusyDown
    /\ \A q \in BusyDown : IsFirst(q, "down") /\ (Tail(q) \in BusyLoop \/ Tail(q) \in BusyOff)
    /\ \A q \in BusyLoop : /\ IsFirst(q, "loopback")
                           /\ Tail(q) \in BusyLoop \/ Tail(q) \in BusyOff
    /\ \A q \in BusyOff : /\ IsFirst(q, "up") /\ Head(q).op \in {"ringparam", "diag"}
                          /\ Tail(q) \in BusyOn
    /\ \A q \in BusyOn : IsFirst(q, "poll_enable") /\ Tail(q) = <<>>
    /\ \A q \in OpenOff : IsFirst(q, "up") /\ Head(q).op = "open" /\ Tail(q) \in OpenOn
    /\ \A q \in OpenOn : IsFirst(q, "poll_enable") /\ Tail(q) = <<>>
    /\ \A q \in Loops : IsFirst(q, "loopback") /\ (Tail(q) \in Loops \/ Tail(q) = <<>>)
<1>1. \A q \in CloseWait : IsFirst(q, "poll_disable") /\ Tail(q) \in CloseDown
  BY Turn2, Zenon DEF IsTurn, CloseWait, CloseDown
<1>2. \A q \in CloseDown : IsFirst(q, "down") /\ Tail(q) = <<>>
  BY Turn1, Zenon DEF IsTurn, CloseDown
<1>3. \A q \in BusyWait : IsFirst(q, "poll_disable") /\ Tail(q) \in BusyDown
  <2>1. IsTurn(<<T("ringparam", "poll_disable"), T("ringparam", "down"), T("ringparam", "up"), T("ringparam", "poll_enable")>>,
               "ringparam", "poll_disable",
               <<T("ringparam", "down"), T("ringparam", "up"), T("ringparam", "poll_enable")>>)
    BY Turn4
  <2>2. IsTurn(<<T("diag", "poll_disable"), T("diag", "down"), T("diag", "loopback"), T("diag", "loopback"), T("diag", "up"), T("diag", "poll_enable")>>,
               "diag", "poll_disable",
               <<T("diag", "down"), T("diag", "loopback"), T("diag", "loopback"), T("diag", "up"), T("diag", "poll_enable")>>)
    BY Turn6
  <2> QED BY <2>1, <2>2, Zenon DEF IsTurn, BusyWait, BusyDown
<1>4. \A q \in BusyDown : IsFirst(q, "down") /\ (Tail(q) \in BusyLoop \/ Tail(q) \in BusyOff)
  <2>1. IsTurn(<<T("ringparam", "down"), T("ringparam", "up"), T("ringparam", "poll_enable")>>,
               "ringparam", "down",
               <<T("ringparam", "up"), T("ringparam", "poll_enable")>>)
    BY Turn3
  <2>2. IsTurn(<<T("diag", "down"), T("diag", "loopback"), T("diag", "loopback"), T("diag", "up"), T("diag", "poll_enable")>>,
               "diag", "down",
               <<T("diag", "loopback"), T("diag", "loopback"), T("diag", "up"), T("diag", "poll_enable")>>)
    BY Turn5
  <2> QED BY <2>1, <2>2, Zenon DEF IsTurn, BusyDown, BusyLoop, BusyOff
<1>5. \A q \in BusyLoop : /\ IsFirst(q, "loopback")
                          /\ Tail(q) \in BusyLoop \/ Tail(q) \in BusyOff
  <2>1. IsTurn(<<T("diag", "loopback"), T("diag", "loopback"), T("diag", "up"), T("diag", "poll_enable")>>,
               "diag", "loopback",
               <<T("diag", "loopback"), T("diag", "up"), T("diag", "poll_enable")>>)
    BY Turn4
  <2>2. IsTurn(<<T("diag", "loopback"), T("diag", "up"), T("diag", "poll_enable")>>,
               "diag", "loopback",
               <<T("diag", "up"), T("diag", "poll_enable")>>)
    BY Turn3
  <2> QED BY <2>1, <2>2, Zenon DEF IsTurn, BusyLoop, BusyOff
<1>6. \A q \in BusyOff : /\ IsFirst(q, "up") /\ Head(q).op \in {"ringparam", "diag"}
                         /\ Tail(q) \in BusyOn
  <2>1. \A o : IsTurn(<<T(o, "up"), T(o, "poll_enable")>>, o, "up", <<T(o, "poll_enable")>>)
    BY Turn2
  <2> QED BY <2>1, Zenon DEF IsTurn, BusyOff, BusyOn
<1>7. \A q \in BusyOn : IsFirst(q, "poll_enable") /\ Tail(q) = <<>>
  BY Turn1, Zenon DEF IsTurn, BusyOn
<1>8. \A q \in OpenOff : IsFirst(q, "up") /\ Head(q).op = "open" /\ Tail(q) \in OpenOn
  BY Turn2, Zenon DEF IsTurn, OpenOff, OpenOn
<1>9. \A q \in OpenOn : IsFirst(q, "poll_enable") /\ Tail(q) = <<>>
  BY Turn1, Zenon DEF IsTurn, OpenOn
<1>10. \A q \in Loops : IsFirst(q, "loopback") /\ (Tail(q) \in Loops \/ Tail(q) = <<>>)
  BY Turn2, Turn1, Zenon DEF IsTurn, Loops
<1> QED BY <1>1, <1>2, <1>3, <1>4, <1>5, <1>6, <1>7, <1>8, <1>9, <1>10

LEMMA OtherTurns ==
    /\ \A q \in WorkWait : IsFirst(q, "poll_disable") /\ Tail(q) \in WorkDown
    /\ \A q \in WorkDown : IsFirst(q, "down") /\ Tail(q) \in WorkOff
    /\ \A q \in WorkOff : IsFirst(q, "up") /\ Head(q).op = "timeout" /\ Tail(q) \in WorkOn
    /\ \A q \in WorkOn : IsFirst(q, "poll_enable") /\ Tail(q) = <<>>
    /\ \A q \in ErrWait : IsFirst(q, "poll_disable") /\ Tail(q) \in ErrDown
    /\ \A q \in ErrDown : IsFirst(q, "down") /\ Head(q).op = "error" /\ Tail(q) \in ErrOff
    /\ \A q \in ErrOff : IsFirst(q, "poll_enable") /\ Tail(q) = <<>>
    /\ \A q \in WakeOff : IsFirst(q, "up") /\ Head(q).op = "resume" /\ Tail(q) \in WakeOn
    /\ \A q \in WakeOn : IsFirst(q, "poll_enable") /\ Tail(q) = <<>>
    /\ \A q \in RecOff : IsFirst(q, "up") /\ Head(q).op = "io_resume" /\ Tail(q) \in RecOn
    /\ \A q \in RecOn : IsFirst(q, "poll_enable") /\ Tail(q) \in RecEnd
    /\ \A q \in RecEnd : IsFirst(q, "mod_timer") /\ Tail(q) = <<>>
    /\ \A q \in SusWait : IsFirst(q, "poll_disable") /\ Tail(q) \in SusFree
    /\ \A q \in SusFree : IsFirst(q, "free_irq") /\ Tail(q) = <<>>
<1>1. \A q \in WorkWait : IsFirst(q, "poll_disable") /\ Tail(q) \in WorkDown
  <2>1. IsTurn(<<T("timeout", "poll_disable"), T("timeout", "down"), T("timeout", "up"), T("timeout", "poll_enable")>>,
               "timeout", "poll_disable",
               <<T("timeout", "down"), T("timeout", "up"), T("timeout", "poll_enable")>>)
    BY Turn4
  <2> QED BY <2>1, Zenon DEF IsTurn, WorkWait, WorkDown
<1>2. \A q \in WorkDown : IsFirst(q, "down") /\ Tail(q) \in WorkOff
  BY Turn3, Zenon DEF IsTurn, WorkDown, WorkOff
<1>3. \A q \in WorkOff : IsFirst(q, "up") /\ Head(q).op = "timeout" /\ Tail(q) \in WorkOn
  BY Turn2, Zenon DEF IsTurn, WorkOff, WorkOn
<1>4. \A q \in WorkOn : IsFirst(q, "poll_enable") /\ Tail(q) = <<>>
  BY Turn1, Zenon DEF IsTurn, WorkOn
<1>5. \A q \in ErrWait : IsFirst(q, "poll_disable") /\ Tail(q) \in ErrDown
  BY Turn3, Zenon DEF IsTurn, ErrWait, ErrDown
<1>6. \A q \in ErrDown : IsFirst(q, "down") /\ Head(q).op = "error" /\ Tail(q) \in ErrOff
  BY Turn2, Zenon DEF IsTurn, ErrDown, ErrOff
<1>7. \A q \in ErrOff : IsFirst(q, "poll_enable") /\ Tail(q) = <<>>
  BY Turn1, Zenon DEF IsTurn, ErrOff
<1>8. \A q \in WakeOff : IsFirst(q, "up") /\ Head(q).op = "resume" /\ Tail(q) \in WakeOn
  BY Turn2, Zenon DEF IsTurn, WakeOff, WakeOn
<1>9. \A q \in WakeOn : IsFirst(q, "poll_enable") /\ Tail(q) = <<>>
  BY Turn1, Zenon DEF IsTurn, WakeOn
<1>10. \A q \in SusWait : IsFirst(q, "poll_disable") /\ Tail(q) \in SusFree
  BY Turn2, Zenon DEF IsTurn, SusWait, SusFree
<1>11. \A q \in SusFree : IsFirst(q, "free_irq") /\ Tail(q) = <<>>
  BY Turn1, Zenon DEF IsTurn, SusFree
<1>12. \A q \in RecOff : IsFirst(q, "up") /\ Head(q).op = "io_resume" /\ Tail(q) \in RecOn
  <2>1. IsTurn(<<T("io_resume", "up"), T("io_resume", "poll_enable"), T("io_resume", "mod_timer")>>,
               "io_resume", "up",
               <<T("io_resume", "poll_enable"), T("io_resume", "mod_timer")>>)
    BY Turn3
  <2> QED BY <2>1, Zenon DEF IsTurn, RecOff, RecOn
<1>13. \A q \in RecOn : IsFirst(q, "poll_enable") /\ Tail(q) \in RecEnd
  BY Turn2, Zenon DEF IsTurn, RecOn, RecEnd
<1>14. \A q \in RecEnd : IsFirst(q, "mod_timer") /\ Tail(q) = <<>>
  BY Turn1, Zenon DEF IsTurn, RecEnd
<1> QED BY <1>1, <1>2, <1>3, <1>4, <1>5, <1>6, <1>7, <1>8, <1>9, <1>10, <1>11, <1>12, <1>13, <1>14

LEMMA OneFirst ==
    /\ \A x : ~IsFirst(<<>>, x)
    /\ \A q, x, y : IsFirst(q, x) /\ IsFirst(q, y) => x = y
BY DEF IsFirst

LEMMA AtFirst == \A t, x : Life!At(t, x) <=> IsFirst(todo[t], x)
BY DEF Life!At, IsFirst

\* What the list of a thread is when it has a given step to do.
LEMMA RtnlAt ==
    ASSUME LifeIInv, NEW x, Life!At("rtnl", x)
    PROVE  /\ x = "poll_disable" => Rtnl \in CloseWait \/ Rtnl \in BusyWait
           /\ x = "down" => Rtnl \in CloseDown \/ Rtnl \in BusyDown
           /\ x = "loopback" => Rtnl \in BusyLoop \/ Rtnl \in Loops
           /\ x = "up" => Rtnl \in BusyOff \/ Rtnl \in OpenOff
           /\ x = "poll_enable" => Rtnl \in BusyOn \/ Rtnl \in OpenOn
           /\ x # "free_irq" /\ x # "mod_timer"
BY RtnlTurns, OneFirst, AtFirst DEF LifeIInv, RtnlPart, Rtnl

LEMMA WorkAt ==
    ASSUME LifeIInv, NEW x, Life!At("work", x)
    PROVE  /\ x = "poll_disable" => Work \in WorkWait
           /\ x = "down" => Work \in WorkDown
           /\ x = "up" => Work \in WorkOff
           /\ x = "poll_enable" => Work \in WorkOn
           /\ x # "free_irq" /\ x # "loopback" /\ x # "mod_timer"
BY OtherTurns, OneFirst, AtFirst DEF LifeIInv, WorkPart, Work

LEMMA PmAt ==
    ASSUME LifeIInv, NEW x, Life!At("pm", x)
    PROVE  /\ x = "poll_disable" => Pm \in ErrWait \/ Pm \in SusWait
           /\ x = "down" => Pm \in ErrDown
           /\ x = "up" => Pm \in WakeOff \/ Pm \in RecOff
           /\ x = "poll_enable" => Pm \in ErrOff \/ Pm \in WakeOn \/ Pm \in RecOn
           /\ x = "mod_timer" => Pm \in RecEnd
           /\ x = "free_irq" => Pm \in SusFree
           /\ x # "loopback"
BY OtherTurns, OneFirst, AtFirst DEF LifeIInv, PmPart, Asleep, Broken, Back, Pm

LEMMA Advanced ==
    ASSUME LifeTypes, NEW t \in Life!Threads, NEW q, todo' = [todo EXCEPT ![t] = q]
    PROVE  /\ todo' = [u \in Life!Threads |-> todo'[u]] /\ DOMAIN todo' = Life!Threads
           /\ t = "rtnl" => Rtnl' = q /\ Work' = Work /\ Pm' = Pm
           /\ t = "work" => Work' = q /\ Rtnl' = Rtnl /\ Pm' = Pm
           /\ t = "pm" => Pm' = q /\ Work' = Work /\ Rtnl' = Rtnl
BY DEF LifeTypes, Life!Threads, Rtnl, Work, Pm

\* A step of each thread.
LEMMA RtnlPollDisable ==
    ASSUME LifeIInv, Life!PollDisable("rtnl")
    PROVE  LifeIInv'
<1>1. Rtnl \in CloseWait \/ Rtnl \in BusyWait
  BY RtnlAt DEF Life!PollDisable
<1>2. /\ Rtnl' = Tail(Rtnl) /\ Work' = Work /\ Pm' = Pm
      /\ LifeTypes'
  BY Advanced DEF Life!PollDisable, Life!Advance, LifeIInv, LifeTypes, Life!Threads, Rtnl
<1>3. (Rtnl' \in CloseDown \/ Rtnl' \in BusyDown) /\ ~RtnlOut' /\ Rtnl' # <<>>
  BY <1>1, <1>2, RtnlTurns, OneFirst DEF RtnlOut
<1> USE RtnlTurns, OtherTurns, OneFirst
    DEF Life!PollDisable, Life!PollFree, LifeIInv, RtnlPart, WorkPart, PmPart, Asleep, Broken, Back, LinePart, ClosedPart,
              Barred, Quiet, RtnlOut, PmOut, Whole, Gone, Up
<1>4. RtnlPart'
  BY <1>1, <1>2, <1>3
<1>5. WorkPart'
  BY <1>1, <1>2, <1>3
<1>6. PmPart'
  BY <1>1, <1>2, <1>3
<1>7. LinePart'
  BY <1>1, <1>2, <1>3
<1>8. ClosedPart'
  BY <1>1, <1>2, <1>3
<1>9. (failed => ~rings /\ ~irq)'
  BY <1>1, <1>2, <1>3
<1> QED BY <1>2, <1>4, <1>5, <1>6, <1>7, <1>8, <1>9

LEMMA WorkPollDisable ==
    ASSUME LifeIInv, Life!PollDisable("work")
    PROVE  LifeIInv'
<1>1. Work \in WorkWait
  BY WorkAt DEF Life!PollDisable
<1>2. /\ Work' = Tail(Work) /\ Rtnl' = Rtnl /\ Pm' = Pm
      /\ LifeTypes'
  BY Advanced DEF Life!PollDisable, Life!Advance, LifeIInv, LifeTypes, Life!Threads, Work
<1>3. Work' \in WorkDown /\ Work' # <<>> /\ Work' \notin WorkWait
  BY <1>1, <1>2, OtherTurns, OneFirst DEF PmOut
<1> USE RtnlTurns, OtherTurns, OneFirst
    DEF Life!PollDisable, Life!PollFree, LifeIInv, RtnlPart, WorkPart, PmPart, Asleep, Broken, Back, LinePart, ClosedPart,
              Barred, Quiet, RtnlOut, PmOut, Whole, Gone, Up
<1>4. RtnlPart'
  BY <1>1, <1>2, <1>3
<1>5. WorkPart'
  BY <1>1, <1>2, <1>3
<1>6. PmPart'
  BY <1>1, <1>2, <1>3
<1>7. LinePart'
  BY <1>1, <1>2, <1>3
<1>8. ClosedPart'
  BY <1>1, <1>2, <1>3
<1>9. (failed => ~rings /\ ~irq)'
  BY <1>1, <1>2, <1>3
<1> QED BY <1>2, <1>4, <1>5, <1>6, <1>7, <1>8, <1>9

LEMMA PmPollDisable ==
    ASSUME LifeIInv, Life!PollDisable("pm")
    PROVE  LifeIInv'
<1>1. Pm \in ErrWait \/ Pm \in SusWait
  BY PmAt DEF Life!PollDisable
<1>2. /\ Pm' = Tail(Pm) /\ Rtnl' = Rtnl /\ Work' = Work
      /\ LifeTypes'
  BY Advanced DEF Life!PollDisable, Life!Advance, LifeIInv, LifeTypes, Life!Threads, Pm
<1>3. (Pm' \in ErrDown \/ Pm' \in SusFree) /\ ~PmOut' /\ Pm' # <<>>
  BY <1>1, <1>2, OtherTurns, OneFirst DEF PmOut
<1> USE RtnlTurns, OtherTurns, OneFirst
    DEF Life!PollDisable, Life!PollFree, LifeIInv, RtnlPart, WorkPart, PmPart, Asleep, Broken, Back, LinePart, ClosedPart,
              Barred, Quiet, RtnlOut, PmOut, Whole, Gone, Up
<1>4. RtnlPart'
  BY <1>1, <1>2, <1>3
<1>5. WorkPart'
  BY <1>1, <1>2, <1>3
<1>6. PmPart'
  BY <1>1, <1>2, <1>3
<1>7. LinePart'
  BY <1>1, <1>2, <1>3
<1>8. ClosedPart'
  BY <1>1, <1>2, <1>3
<1>9. (failed => ~rings /\ ~irq)'
  BY <1>1, <1>2, <1>3
<1> QED BY <1>2, <1>4, <1>5, <1>6, <1>7, <1>8, <1>9

LEMMA RtnlDown ==
    ASSUME LifeIInv, Life!Down("rtnl")
    PROVE  LifeIInv'
<1>1. Rtnl \in CloseDown \/ Rtnl \in BusyDown
  BY RtnlAt DEF Life!Down
<1>2. /\ Rtnl' = Tail(Rtnl) /\ Work' = Work /\ Pm' = Pm
      /\ LifeTypes'
  BY Advanced DEF Life!Down, Life!Advance, LifeIInv, LifeTypes, Life!Threads, Rtnl
<1>3. (Rtnl' = <<>> \/ Rtnl' \in BusyLoop \/ Rtnl' \in BusyOff) /\ Rtnl' \notin CloseWait /\ Rtnl' \notin BusyWait
  BY <1>1, <1>2, RtnlTurns, OneFirst DEF RtnlOut
<1> USE RtnlTurns, OtherTurns, OneFirst
    DEF Life!Down, LifeIInv, RtnlPart, WorkPart, PmPart, Asleep, Broken, Back, LinePart, ClosedPart,
              Barred, Quiet, RtnlOut, PmOut, Whole, Gone, Up
<1>4. RtnlPart'
  BY <1>1, <1>2, <1>3
<1>5. WorkPart'
  BY <1>1, <1>2, <1>3
<1>6. PmPart'
  BY <1>1, <1>2, <1>3
<1>7. LinePart'
  BY <1>1, <1>2, <1>3
<1>8. ClosedPart'
  BY <1>1, <1>2, <1>3
<1>9. (failed => ~rings /\ ~irq)'
  BY <1>1, <1>2, <1>3
<1> QED BY <1>2, <1>4, <1>5, <1>6, <1>7, <1>8, <1>9

LEMMA WorkGoesDown ==
    ASSUME LifeIInv, Life!Down("work")
    PROVE  LifeIInv'
<1>1. Work \in WorkDown
  BY WorkAt DEF Life!Down
<1>2. /\ Work' = Tail(Work) /\ Rtnl' = Rtnl /\ Pm' = Pm
      /\ LifeTypes'
  BY Advanced DEF Life!Down, Life!Advance, LifeIInv, LifeTypes, Life!Threads, Work
<1>3. Work' \in WorkOff /\ Work' # <<>> /\ Work' \notin WorkWait
  BY <1>1, <1>2, OtherTurns, OneFirst DEF PmOut
<1> USE RtnlTurns, OtherTurns, OneFirst
    DEF Life!Down, LifeIInv, RtnlPart, WorkPart, PmPart, Asleep, Broken, Back, LinePart, ClosedPart,
              Barred, Quiet, RtnlOut, PmOut, Whole, Gone, Up
<1>4. RtnlPart'
  BY <1>1, <1>2, <1>3
<1>5. WorkPart'
  BY <1>1, <1>2, <1>3
<1>6. PmPart'
  BY <1>1, <1>2, <1>3
<1>7. LinePart'
  BY <1>1, <1>2, <1>3
<1>8. ClosedPart'
  BY <1>1, <1>2, <1>3
<1>9. (failed => ~rings /\ ~irq)'
  BY <1>1, <1>2, <1>3
<1> QED BY <1>2, <1>4, <1>5, <1>6, <1>7, <1>8, <1>9

LEMMA PmDown ==
    ASSUME LifeIInv, Life!Down("pm")
    PROVE  LifeIInv'
<1>1. Pm \in ErrDown
  BY PmAt DEF Life!Down
<1>2. /\ Pm' = Tail(Pm) /\ Rtnl' = Rtnl /\ Work' = Work
      /\ LifeTypes'
  BY Advanced DEF Life!Down, Life!Advance, LifeIInv, LifeTypes, Life!Threads, Pm
<1>3. Pm' \in ErrOff /\ Pm' # <<>> /\ ~PmOut'
  BY <1>1, <1>2, OtherTurns, OneFirst DEF PmOut
<1> USE RtnlTurns, OtherTurns, OneFirst
    DEF Life!Down, LifeIInv, RtnlPart, WorkPart, PmPart, Asleep, Broken, Back, LinePart, ClosedPart,
              Barred, Quiet, RtnlOut, PmOut, Whole, Gone, Up
<1>4. RtnlPart'
  BY <1>1, <1>2, <1>3
<1>5. WorkPart'
  BY <1>1, <1>2, <1>3
<1>6. PmPart'
  BY <1>1, <1>2, <1>3
<1>7. LinePart'
  BY <1>1, <1>2, <1>3
<1>8. ClosedPart'
  BY <1>1, <1>2, <1>3
<1>9. (failed => ~rings /\ ~irq)'
  BY <1>1, <1>2, <1>3
<1> QED BY <1>2, <1>4, <1>5, <1>6, <1>7, <1>8, <1>9

LEMMA RtnlPollEnable ==
    ASSUME LifeIInv, Life!PollEnable("rtnl")
    PROVE  LifeIInv'
<1>1. Rtnl \in BusyOn \/ Rtnl \in OpenOn
  BY RtnlAt DEF Life!PollEnable
<1>2. /\ Rtnl' = Tail(Rtnl) /\ Work' = Work /\ Pm' = Pm
      /\ LifeTypes'
  BY Advanced DEF Life!PollEnable, Life!Advance, LifeIInv, LifeTypes, Life!Threads, Rtnl
<1>3. Rtnl' = <<>>
  BY <1>1, <1>2, RtnlTurns, OneFirst DEF RtnlOut
<1> USE RtnlTurns, OtherTurns, OneFirst
    DEF Life!PollEnable, LifeIInv, RtnlPart, WorkPart, PmPart, Asleep, Broken, Back, LinePart, ClosedPart,
              Barred, Quiet, RtnlOut, PmOut, Whole, Gone, Up
<1>4. RtnlPart'
  BY <1>1, <1>2, <1>3
<1>5. WorkPart'
  BY <1>1, <1>2, <1>3
<1>6. PmPart'
  BY <1>1, <1>2, <1>3
<1>7. LinePart'
  BY <1>1, <1>2, <1>3
<1>8. ClosedPart'
  BY <1>1, <1>2, <1>3
<1>9. (failed => ~rings /\ ~irq)'
  BY <1>1, <1>2, <1>3
<1> QED BY <1>2, <1>4, <1>5, <1>6, <1>7, <1>8, <1>9

LEMMA WorkPollEnable ==
    ASSUME LifeIInv, Life!PollEnable("work")
    PROVE  LifeIInv'
<1>1. Work \in WorkOn
  BY WorkAt DEF Life!PollEnable
<1>2. /\ Work' = Tail(Work) /\ Rtnl' = Rtnl /\ Pm' = Pm
      /\ LifeTypes'
  BY Advanced DEF Life!PollEnable, Life!Advance, LifeIInv, LifeTypes, Life!Threads, Work
<1>3. Work' = <<>>
  BY <1>1, <1>2, OtherTurns, OneFirst DEF PmOut
<1> USE RtnlTurns, OtherTurns, OneFirst
    DEF Life!PollEnable, LifeIInv, RtnlPart, WorkPart, PmPart, Asleep, Broken, Back, LinePart, ClosedPart,
              Barred, Quiet, RtnlOut, PmOut, Whole, Gone, Up
<1>4. RtnlPart'
  BY <1>1, <1>2, <1>3
<1>5. WorkPart'
  BY <1>1, <1>2, <1>3
<1>6. PmPart'
  BY <1>1, <1>2, <1>3
<1>7. LinePart'
  BY <1>1, <1>2, <1>3
<1>8. ClosedPart'
  BY <1>1, <1>2, <1>3
<1>9. (failed => ~rings /\ ~irq)'
  BY <1>1, <1>2, <1>3
<1> QED BY <1>2, <1>4, <1>5, <1>6, <1>7, <1>8, <1>9

LEMMA PmPollEnable ==
    ASSUME LifeIInv, Life!PollEnable("pm")
    PROVE  LifeIInv'
<1>1. Pm \in ErrOff \/ Pm \in WakeOn \/ Pm \in RecOn
  BY PmAt DEF Life!PollEnable
<1>2. /\ Pm' = Tail(Pm) /\ Rtnl' = Rtnl /\ Work' = Work
      /\ LifeTypes'
  BY Advanced DEF Life!PollEnable, Life!Advance, LifeIInv, LifeTypes, Life!Threads, Pm
<1>3. (Pm' = <<>> \/ Pm' \in RecEnd) /\ Pm' \notin SusWait
  BY <1>1, <1>2, OtherTurns, OneFirst DEF PmOut
<1> USE RtnlTurns, OtherTurns, OneFirst
    DEF Life!PollEnable, LifeIInv, RtnlPart, WorkPart, PmPart, Asleep, Broken, Back, LinePart, ClosedPart,
              Barred, Quiet, RtnlOut, PmOut, Whole, Gone, Up
<1>4. RtnlPart'
  BY <1>1, <1>2, <1>3
<1>5. WorkPart'
  BY <1>1, <1>2, <1>3
<1>6. PmPart'
  BY <1>1, <1>2, <1>3
<1>7. LinePart'
  BY <1>1, <1>2, <1>3
<1>8. ClosedPart'
  BY <1>1, <1>2, <1>3
<1>9. (failed => ~rings /\ ~irq)'
  BY <1>1, <1>2, <1>3
<1> QED BY <1>2, <1>4, <1>5, <1>6, <1>7, <1>8, <1>9

LEMMA RtnlLoopback ==
    ASSUME LifeIInv, Life!Loopback("rtnl")
    PROVE  LifeIInv'
<1>1. Rtnl \in BusyLoop \/ Rtnl \in Loops
  BY RtnlAt DEF Life!Loopback
<1>2. /\ Rtnl' = Tail(Rtnl) /\ Work' = Work /\ Pm' = Pm
      /\ LifeTypes'
  BY Advanced DEF Life!Loopback, Life!Advance, LifeIInv, LifeTypes, Life!Threads, Rtnl
<1>3. (Rtnl' = <<>> \/ Rtnl' \in BusyLoop \/ Rtnl' \in BusyOff \/ Rtnl' \in Loops) /\ Rtnl' \notin CloseWait /\ Rtnl' \notin BusyWait
  BY <1>1, <1>2, RtnlTurns, OneFirst DEF RtnlOut
<1> USE RtnlTurns, OtherTurns, OneFirst
    DEF Life!Loopback, LifeIInv, RtnlPart, WorkPart, PmPart, Asleep, Broken, Back, LinePart, ClosedPart,
              Barred, Quiet, RtnlOut, PmOut, Whole, Gone, Up
<1>4. RtnlPart'
  BY <1>1, <1>2, <1>3
<1>5. WorkPart'
  BY <1>1, <1>2, <1>3
<1>6. PmPart'
  BY <1>1, <1>2, <1>3
<1>7. LinePart'
  BY <1>1, <1>2, <1>3
<1>8. ClosedPart'
  BY <1>1, <1>2, <1>3
<1>9. (failed => ~rings /\ ~irq)'
  BY <1>1, <1>2, <1>3
<1> QED BY <1>2, <1>4, <1>5, <1>6, <1>7, <1>8, <1>9

LEMMA PmModTimer ==
    ASSUME LifeIInv, Life!ModTimer("pm")
    PROVE  LifeIInv'
<1>1. Pm \in RecEnd
  BY PmAt DEF Life!ModTimer
<1>2. /\ Pm' = Tail(Pm) /\ Rtnl' = Rtnl /\ Work' = Work
      /\ LifeTypes'
  BY Advanced DEF Life!ModTimer, Life!Advance, LifeIInv, LifeTypes, Life!Threads, Pm
<1>3. Pm' = <<>>
  BY <1>1, <1>2, OtherTurns, OneFirst DEF PmOut
<1> USE RtnlTurns, OtherTurns, OneFirst
    DEF Life!ModTimer, LifeIInv, RtnlPart, WorkPart, PmPart, Asleep, Broken, Back, LinePart, ClosedPart,
              Barred, Quiet, RtnlOut, PmOut, Whole, Gone, Up
<1>4. RtnlPart'
  BY <1>1, <1>2, <1>3
<1>5. WorkPart'
  BY <1>1, <1>2, <1>3
<1>6. PmPart'
  BY <1>1, <1>2, <1>3
<1>7. LinePart'
  BY <1>1, <1>2, <1>3
<1>8. ClosedPart'
  BY <1>1, <1>2, <1>3
<1>9. (failed => ~rings /\ ~irq)'
  BY <1>1, <1>2, <1>3
<1> QED BY <1>2, <1>4, <1>5, <1>6, <1>7, <1>8, <1>9

LEMMA PmFreeIrq ==
    ASSUME LifeIInv, Life!FreeIrq("pm")
    PROVE  LifeIInv'
<1>1. Pm \in SusFree
  BY PmAt DEF Life!FreeIrq
<1>2. /\ Pm' = Tail(Pm) /\ Rtnl' = Rtnl /\ Work' = Work
      /\ LifeTypes'
  BY Advanced DEF Life!FreeIrq, Life!Advance, LifeIInv, LifeTypes, Life!Threads, Pm
<1>3. Pm' = <<>> /\ Pm' \notin SusWait
  BY <1>1, <1>2, OtherTurns, OneFirst DEF PmOut
<1> USE RtnlTurns, OtherTurns, OneFirst
    DEF Life!FreeIrq, LifeIInv, RtnlPart, WorkPart, PmPart, Asleep, Broken, Back, LinePart, ClosedPart,
              Barred, Quiet, RtnlOut, PmOut, Whole, Gone, Up
<1>4. RtnlPart'
  BY <1>1, <1>2, <1>3
<1>5. WorkPart'
  BY <1>1, <1>2, <1>3
<1>6. PmPart'
  BY <1>1, <1>2, <1>3
<1>7. LinePart'
  BY <1>1, <1>2, <1>3
<1>8. ClosedPart'
  BY <1>1, <1>2, <1>3
<1>9. (failed => ~rings /\ ~irq)'
  BY <1>1, <1>2, <1>3
<1> QED BY <1>2, <1>4, <1>5, <1>6, <1>7, <1>8, <1>9

LEMMA RtnlUp ==
    ASSUME LifeIInv, Life!Up("rtnl")
    PROVE  LifeIInv'
<1>1. Rtnl \in BusyOff \/ Rtnl \in OpenOff
  BY RtnlAt DEF Life!Up
<1>2. LifeTypes /\ Rtnl = todo["rtnl"]
      /\ UNCHANGED <<held, away, pollBit, reset>>
  BY DEF Life!Up, LifeIInv, Rtnl
<1>3. CASE /\ rings' = TRUE /\ irq' = TRUE /\ watchdog' = TRUE /\ failed' = FALSE
           /\ Life!Advance("rtnl") /\ UNCHANGED running
  <2>1. /\ Rtnl' = Tail(Rtnl) /\ Work' = Work /\ Pm' = Pm
        /\ LifeTypes'
    BY <1>2, <1>3, Advanced DEF Life!Advance, LifeTypes, Life!Threads, Rtnl
  <2>2. (Rtnl' \in BusyOn \/ Rtnl' \in OpenOn) /\ ~RtnlOut' /\ Rtnl' # <<>>
    BY <1>1, <2>1, RtnlTurns, OtherTurns, OneFirst DEF RtnlOut
  <2> USE RtnlTurns, OtherTurns, OneFirst
      DEF LifeIInv, RtnlPart, WorkPart, PmPart, Asleep, Broken, Back, LinePart, ClosedPart,
              Barred, Quiet, RtnlOut, PmOut, Whole, Gone, Up
  <2>3. RtnlPart'
    BY <1>1, <1>2, <1>3, <2>1, <2>2
  <2>4. WorkPart'
    BY <1>1, <1>2, <1>3, <2>1, <2>2
  <2>5. PmPart'
    BY <1>1, <1>2, <1>3, <2>1, <2>2
  <2>6. LinePart'
    BY <1>1, <1>2, <1>3, <2>1, <2>2
  <2>7. ClosedPart'
    BY <1>1, <1>2, <1>3, <2>1, <2>2
  <2>8. (failed => ~rings /\ ~irq)'
    BY <1>1, <1>2, <1>3, <2>1, <2>2
  <2> QED BY <2>1, <2>3, <2>4, <2>5, <2>6, <2>7, <2>8
<1>4. CASE /\ rings' = FALSE /\ watchdog' = FALSE /\ UNCHANGED irq
           /\ todo' = [todo EXCEPT !["rtnl"] = Life!AfterFailure(Head(Rtnl).op)]
           /\ running' = (running /\ Head(Rtnl).op # "open")
           /\ failed' = (Head(Rtnl).op = "io_resume")
  <2>1. /\ Rtnl' = Life!AfterFailure(Head(Rtnl).op) /\ Work' = Work /\ Pm' = Pm
        /\ todo' = [u \in Life!Threads |-> todo'[u]] /\ DOMAIN todo' = Life!Threads
    BY <1>2, <1>4, Advanced DEF Life!Threads, Rtnl
  <2>2. /\ running' \in BOOLEAN /\ (running' <=> running /\ Head(Rtnl).op # "open")
        /\ failed' \in BOOLEAN /\ (failed' <=> Head(Rtnl).op = "io_resume")
    BY <1>4
  <2>3. LifeTypes'
    BY <1>2, <1>4, <2>1, <2>2 DEF LifeTypes
  <2>4. /\ Rtnl' = <<>> /\ ~failed'
        /\ Rtnl \in OpenOff => ~running'
        /\ Rtnl \in BusyOff => running' = running
    BY <1>1, <1>2, <2>1, <2>2, RtnlTurns, OtherTurns, OneFirst
    DEF Life!AfterFailure, T, Life!Turn, RecEnd, LifeTypes
  <2> USE RtnlTurns, OtherTurns, OneFirst
      DEF LifeIInv, RtnlPart, WorkPart, PmPart, Asleep, Broken, Back, LinePart, ClosedPart,
              Barred, Quiet, RtnlOut, PmOut, Whole, Gone, Up
  <2>5. RtnlPart'
    BY <1>1, <1>2, <1>4, <2>1, <2>4
  <2>6. WorkPart'
    BY <1>1, <1>2, <1>4, <2>1, <2>4
  <2>7. PmPart'
    BY <1>1, <1>2, <1>4, <2>1, <2>4
  <2>8. LinePart'
    BY <1>1, <1>2, <1>4, <2>1, <2>4
  <2>9. ClosedPart'
    BY <1>1, <1>2, <1>4, <2>1, <2>4
  <2>10. (failed => ~rings /\ ~irq)'
    BY <1>1, <1>2, <1>4, <2>1, <2>4
  <2> QED BY <2>3, <2>5, <2>6, <2>7, <2>8, <2>9, <2>10
<1> QED BY <1>2, <1>3, <1>4 DEF Life!Up

LEMMA WorkUp ==
    ASSUME LifeIInv, Life!Up("work")
    PROVE  LifeIInv'
<1>1. Work \in WorkOff
  BY WorkAt DEF Life!Up
<1>2. LifeTypes /\ Work = todo["work"]
      /\ UNCHANGED <<held, away, pollBit, reset>>
  BY DEF Life!Up, LifeIInv, Work
<1>3. CASE /\ rings' = TRUE /\ irq' = TRUE /\ watchdog' = TRUE /\ failed' = FALSE
           /\ Life!Advance("work") /\ UNCHANGED running
  <2>1. /\ Work' = Tail(Work) /\ Rtnl' = Rtnl /\ Pm' = Pm
        /\ LifeTypes'
    BY <1>2, <1>3, Advanced DEF Life!Advance, LifeTypes, Life!Threads, Work
  <2>2. Work' \in WorkOn /\ Work' # <<>> /\ Work' \notin WorkWait
    BY <1>1, <2>1, RtnlTurns, OtherTurns, OneFirst DEF RtnlOut
  <2> USE RtnlTurns, OtherTurns, OneFirst
      DEF LifeIInv, RtnlPart, WorkPart, PmPart, Asleep, Broken, Back, LinePart, ClosedPart,
              Barred, Quiet, RtnlOut, PmOut, Whole, Gone, Up
  <2>3. RtnlPart'
    BY <1>1, <1>2, <1>3, <2>1, <2>2
  <2>4. WorkPart'
    BY <1>1, <1>2, <1>3, <2>1, <2>2
  <2>5. PmPart'
    BY <1>1, <1>2, <1>3, <2>1, <2>2
  <2>6. LinePart'
    BY <1>1, <1>2, <1>3, <2>1, <2>2
  <2>7. ClosedPart'
    BY <1>1, <1>2, <1>3, <2>1, <2>2
  <2>8. (failed => ~rings /\ ~irq)'
    BY <1>1, <1>2, <1>3, <2>1, <2>2
  <2> QED BY <2>1, <2>3, <2>4, <2>5, <2>6, <2>7, <2>8
<1>4. CASE /\ rings' = FALSE /\ watchdog' = FALSE /\ UNCHANGED irq
           /\ todo' = [todo EXCEPT !["work"] = Life!AfterFailure(Head(Work).op)]
           /\ running' = (running /\ Head(Work).op # "open")
           /\ failed' = (Head(Work).op = "io_resume")
  <2>1. /\ Work' = Life!AfterFailure(Head(Work).op) /\ Rtnl' = Rtnl /\ Pm' = Pm
        /\ todo' = [u \in Life!Threads |-> todo'[u]] /\ DOMAIN todo' = Life!Threads
    BY <1>2, <1>4, Advanced DEF Life!Threads, Work
  <2>2. /\ running' \in BOOLEAN /\ (running' <=> running /\ Head(Work).op # "open")
        /\ failed' \in BOOLEAN /\ (failed' <=> Head(Work).op = "io_resume")
    BY <1>4
  <2>3. LifeTypes'
    BY <1>2, <1>4, <2>1, <2>2 DEF LifeTypes
  <2>4. Work' = <<>> /\ ~failed' /\ running' = running
    BY <1>1, <1>2, <2>1, <2>2, RtnlTurns, OtherTurns, OneFirst
    DEF Life!AfterFailure, T, Life!Turn, RecEnd, LifeTypes
  <2> USE RtnlTurns, OtherTurns, OneFirst
      DEF LifeIInv, RtnlPart, WorkPart, PmPart, Asleep, Broken, Back, LinePart, ClosedPart,
              Barred, Quiet, RtnlOut, PmOut, Whole, Gone, Up
  <2>5. RtnlPart'
    BY <1>1, <1>2, <1>4, <2>1, <2>4
  <2>6. WorkPart'
    BY <1>1, <1>2, <1>4, <2>1, <2>4
  <2>7. PmPart'
    BY <1>1, <1>2, <1>4, <2>1, <2>4
  <2>8. LinePart'
    BY <1>1, <1>2, <1>4, <2>1, <2>4
  <2>9. ClosedPart'
    BY <1>1, <1>2, <1>4, <2>1, <2>4
  <2>10. (failed => ~rings /\ ~irq)'
    BY <1>1, <1>2, <1>4, <2>1, <2>4
  <2> QED BY <2>3, <2>5, <2>6, <2>7, <2>8, <2>9, <2>10
<1> QED BY <1>2, <1>3, <1>4 DEF Life!Up

LEMMA PmUp ==
    ASSUME LifeIInv, Life!Up("pm")
    PROVE  LifeIInv'
<1>1. Pm \in WakeOff \/ Pm \in RecOff
  BY PmAt DEF Life!Up
<1>2. LifeTypes /\ Pm = todo["pm"]
      /\ UNCHANGED <<held, away, pollBit, reset>>
  BY DEF Life!Up, LifeIInv, Pm
<1>3. CASE /\ rings' = TRUE /\ irq' = TRUE /\ watchdog' = TRUE /\ failed' = FALSE
           /\ Life!Advance("pm") /\ UNCHANGED running
  <2>1. /\ Pm' = Tail(Pm) /\ Rtnl' = Rtnl /\ Work' = Work
        /\ LifeTypes'
    BY <1>2, <1>3, Advanced DEF Life!Advance, LifeTypes, Life!Threads, Pm
  <2>2. (Pm' \in WakeOn \/ Pm' \in RecOn) /\ Pm' # <<>> /\ Pm' \notin SusWait
    BY <1>1, <2>1, RtnlTurns, OtherTurns, OneFirst DEF RtnlOut
  <2> USE RtnlTurns, OtherTurns, OneFirst
      DEF LifeIInv, RtnlPart, WorkPart, PmPart, Asleep, Broken, Back, LinePart, ClosedPart,
              Barred, Quiet, RtnlOut, PmOut, Whole, Gone, Up
  <2>3. RtnlPart'
    BY <1>1, <1>2, <1>3, <2>1, <2>2
  <2>4. WorkPart'
    BY <1>1, <1>2, <1>3, <2>1, <2>2
  <2>5. PmPart'
    BY <1>1, <1>2, <1>3, <2>1, <2>2
  <2>6. LinePart'
    BY <1>1, <1>2, <1>3, <2>1, <2>2
  <2>7. ClosedPart'
    BY <1>1, <1>2, <1>3, <2>1, <2>2
  <2>8. (failed => ~rings /\ ~irq)'
    BY <1>1, <1>2, <1>3, <2>1, <2>2
  <2> QED BY <2>1, <2>3, <2>4, <2>5, <2>6, <2>7, <2>8
<1>4. CASE /\ rings' = FALSE /\ watchdog' = FALSE /\ UNCHANGED irq
           /\ todo' = [todo EXCEPT !["pm"] = Life!AfterFailure(Head(Pm).op)]
           /\ running' = (running /\ Head(Pm).op # "open")
           /\ failed' = (Head(Pm).op = "io_resume")
  <2>1. /\ Pm' = Life!AfterFailure(Head(Pm).op) /\ Rtnl' = Rtnl /\ Work' = Work
        /\ todo' = [u \in Life!Threads |-> todo'[u]] /\ DOMAIN todo' = Life!Threads
    BY <1>2, <1>4, Advanced DEF Life!Threads, Pm
  <2>2. /\ running' \in BOOLEAN /\ (running' <=> running /\ Head(Pm).op # "open")
        /\ failed' \in BOOLEAN /\ (failed' <=> Head(Pm).op = "io_resume")
    BY <1>4
  <2>3. LifeTypes'
    BY <1>2, <1>4, <2>1, <2>2 DEF LifeTypes
  <2>4. /\ running' = running
        /\ Pm \in WakeOff => Pm' = <<>> /\ ~failed'
        /\ Pm \in RecOff => Pm' \in RecEnd /\ failed' /\ Pm' # <<>> /\ Pm' \notin SusWait
    BY <1>1, <1>2, <2>1, <2>2, RtnlTurns, OtherTurns, OneFirst
    DEF Life!AfterFailure, T, Life!Turn, RecEnd, LifeTypes
  <2> USE RtnlTurns, OtherTurns, OneFirst
      DEF LifeIInv, RtnlPart, WorkPart, PmPart, Asleep, Broken, Back, LinePart, ClosedPart,
              Barred, Quiet, RtnlOut, PmOut, Whole, Gone, Up
  <2>5. RtnlPart'
    BY <1>1, <1>2, <1>4, <2>1, <2>4
  <2>6. WorkPart'
    BY <1>1, <1>2, <1>4, <2>1, <2>4
  <2>7. PmPart'
    BY <1>1, <1>2, <1>4, <2>1, <2>4
  <2>8. LinePart'
    BY <1>1, <1>2, <1>4, <2>1, <2>4
  <2>9. ClosedPart'
    BY <1>1, <1>2, <1>4, <2>1, <2>4
  <2>10. (failed => ~rings /\ ~irq)'
    BY <1>1, <1>2, <1>4, <2>1, <2>4
  <2> QED BY <2>3, <2>5, <2>6, <2>7, <2>8, <2>9, <2>10
<1> QED BY <1>2, <1>3, <1>4 DEF Life!Up

\* The list an operation starts with.
LEMMA StepsOf ==
    /\ Life!Steps("open") \in OpenOff
    /\ Life!Steps("close") \in CloseWait
    /\ Life!Steps("error") \in ErrWait
    /\ Life!Steps("timeout") \in WorkWait
    /\ \A o \in {"ringparam", "diag"} : running => Life!Steps(o) \in BusyWait
    /\ ~running => Life!Steps("ringparam") = <<>> /\ Life!Steps("diag") \in Loops
    /\ running => Life!Steps("suspend") \in SusWait
    /\ ~running => Life!Steps("suspend") \in SusFree
    /\ running => Life!Steps("resume") \in WakeOff /\ Life!Steps("io_resume") \in RecOff
    /\ ~running => Life!Steps("resume") = <<>> /\ Life!Steps("io_resume") = <<>>
<1> USE DEF Life!Steps, T
<1>1. Life!Steps("open") \in OpenOff
  BY Zenon DEF OpenOff
<1>2. Life!Steps("close") \in CloseWait
  BY Zenon DEF CloseWait
<1>3. Life!Steps("error") \in ErrWait
  BY Zenon DEF ErrWait
<1>4. Life!Steps("timeout") \in WorkWait
  BY DEF WorkWait, Life!DownUp
<1>5. ASSUME running PROVE Life!Steps("ringparam") \in BusyWait /\ Life!Steps("diag") \in BusyWait
  BY <1>5 DEF BusyWait, Life!DownUp
<1>6. ASSUME ~running PROVE Life!Steps("ringparam") = <<>> /\ Life!Steps("diag") \in Loops
  BY <1>6 DEF Loops
<1>7. ASSUME running PROVE Life!Steps("suspend") \in SusWait
  BY <1>7 DEF SusWait
<1>8. ASSUME ~running PROVE Life!Steps("suspend") \in SusFree
  BY <1>8 DEF SusFree
<1>9. ASSUME running PROVE Life!Steps("resume") \in WakeOff /\ Life!Steps("io_resume") \in RecOff
  BY <1>9 DEF WakeOff, RecOff
<1>10. ASSUME ~running PROVE Life!Steps("resume") = <<>> /\ Life!Steps("io_resume") = <<>>
  BY <1>10
<1> HIDE DEF Life!Steps
<1> QED BY <1>1, <1>2, <1>3, <1>4, <1>5, <1>6, <1>7, <1>8, <1>9, <1>10

LEMMA Started ==
    ASSUME LifeTypes, NEW o, Life!Start(o)
    PROVE  /\ o = "open" => running' = TRUE
           /\ o = "close" => running' = FALSE
           /\ o \notin {"open", "close"} => running' = running
           /\ o \in {"suspend", "error"} => away' = o
           /\ o \in {"resume", "io_resume"} => away' = "no"
           /\ o \notin {"suspend", "error", "resume", "io_resume"} => away' = away
           /\ o = "timeout" => reset' = FALSE
           /\ o # "timeout" => reset' = reset
           /\ UNCHANGED <<held, pollBit, rings, irq, watchdog, failed>>
BY DEF Life!Start, LifeTypes

LEMMA StartTypes ==
    ASSUME LifeTypes, NEW o, Life!Start(o), Life!ThreadOf(o) \in Life!Threads
    PROVE  /\ LifeTypes'
           /\ Life!ThreadOf(o) = "rtnl" => Rtnl' = Life!Steps(o) /\ Work' = Work /\ Pm' = Pm
           /\ Life!ThreadOf(o) = "work" => Work' = Life!Steps(o) /\ Rtnl' = Rtnl /\ Pm' = Pm
           /\ Life!ThreadOf(o) = "pm" => Pm' = Life!Steps(o) /\ Rtnl' = Rtnl /\ Work' = Work
           /\ todo[Life!ThreadOf(o)] = <<>>
<1>1. todo' = [todo EXCEPT ![Life!ThreadOf(o)] = Life!Steps(o)] /\ todo[Life!ThreadOf(o)] = <<>>
  BY DEF Life!Start
<1>2. running' \in BOOLEAN /\ away' \in {"no", "suspend", "error"} /\ reset' \in BOOLEAN
      /\ UNCHANGED <<held, pollBit, rings, irq, watchdog, failed>>
  BY Started DEF LifeTypes
<1> QED BY <1>1, <1>2, Advanced DEF LifeTypes

LEMMA Start_open ==
    ASSUME LifeIInv, Life!Start("open")
    PROVE  LifeIInv'
<1> USE RtnlTurns, OtherTurns, OneFirst
    DEF LifeIInv, RtnlPart, WorkPart, PmPart, Asleep, Broken, Back, LinePart, ClosedPart,
              Barred, Quiet, RtnlOut, PmOut, Whole, Gone, Up
<1>1. LifeTypes /\ Life!ThreadOf("open") = "rtnl" /\ "rtnl" \in Life!Threads
  BY DEF Life!ThreadOf, Life!Threads
<1>2. /\ LifeTypes' /\ Rtnl = <<>>
      /\ Rtnl' = Life!Steps("open") /\ Work' = Work /\ Pm' = Pm
  BY <1>1, StartTypes DEF Rtnl
<1>3. Rtnl' \in OpenOff /\ away = "no" /\ ~running /\ Pm = <<>>
  BY <1>1, <1>2, StepsOf DEF Life!Start, Life!MayStart, Rtnl, Work, Pm
<1>4. /\ running' = TRUE /\ away' = away /\ reset' = reset
      /\ UNCHANGED <<held, pollBit, rings, irq, watchdog, failed>>
  BY <1>1 DEF Life!Start, LifeTypes
<1>5. RtnlPart'
  BY <1>2, <1>3, <1>4
<1>6. WorkPart'
  BY <1>2, <1>3, <1>4
<1>7. PmPart'
  BY <1>2, <1>3, <1>4
<1>8. LinePart'
  BY <1>2, <1>3, <1>4
<1>9. ClosedPart'
  BY <1>2, <1>3, <1>4
<1>10. (failed => ~rings /\ ~irq)'
  BY <1>2, <1>3, <1>4
<1> QED BY <1>2, <1>5, <1>6, <1>7, <1>8, <1>9, <1>10

LEMMA Start_close ==
    ASSUME LifeIInv, Life!Start("close")
    PROVE  LifeIInv'
<1> USE RtnlTurns, OtherTurns, OneFirst
    DEF LifeIInv, RtnlPart, WorkPart, PmPart, Asleep, Broken, Back, LinePart, ClosedPart,
              Barred, Quiet, RtnlOut, PmOut, Whole, Gone, Up
<1>1. LifeTypes /\ Life!ThreadOf("close") = "rtnl" /\ "rtnl" \in Life!Threads
  BY DEF Life!ThreadOf, Life!Threads
<1>2. /\ LifeTypes' /\ Rtnl = <<>>
      /\ Rtnl' = Life!Steps("close") /\ Work' = Work /\ Pm' = Pm
  BY <1>1, StartTypes DEF Rtnl
<1>3. Rtnl' \in CloseWait /\ away = "no" /\ running /\ Pm = <<>>
  BY <1>1, <1>2, StepsOf DEF Life!Start, Life!MayStart, Rtnl, Work, Pm
<1>4. /\ running' = FALSE /\ away' = away /\ reset' = reset
      /\ UNCHANGED <<held, pollBit, rings, irq, watchdog, failed>>
  BY <1>1 DEF Life!Start, LifeTypes
<1>5. RtnlPart'
  BY <1>2, <1>3, <1>4
<1>6. WorkPart'
  BY <1>2, <1>3, <1>4
<1>7. PmPart'
  BY <1>2, <1>3, <1>4
<1>8. LinePart'
  BY <1>2, <1>3, <1>4
<1>9. ClosedPart'
  BY <1>2, <1>3, <1>4
<1>10. (failed => ~rings /\ ~irq)'
  BY <1>2, <1>3, <1>4
<1> QED BY <1>2, <1>5, <1>6, <1>7, <1>8, <1>9, <1>10

LEMMA Start_ringparam ==
    ASSUME LifeIInv, Life!Start("ringparam")
    PROVE  LifeIInv'
<1> USE RtnlTurns, OtherTurns, OneFirst
    DEF LifeIInv, RtnlPart, WorkPart, PmPart, Asleep, Broken, Back, LinePart, ClosedPart,
              Barred, Quiet, RtnlOut, PmOut, Whole, Gone, Up
<1>1. LifeTypes /\ Life!ThreadOf("ringparam") = "rtnl" /\ "rtnl" \in Life!Threads
  BY DEF Life!ThreadOf, Life!Threads
<1>2. /\ LifeTypes' /\ Rtnl = <<>>
      /\ Rtnl' = Life!Steps("ringparam") /\ Work' = Work /\ Pm' = Pm
  BY <1>1, StartTypes DEF Rtnl
<1>3. /\ IF running THEN Rtnl' \in BusyWait ELSE Rtnl' = <<>>
      /\ away = "no" /\ Pm = <<>>
  BY <1>1, <1>2, StepsOf DEF Life!Start, Life!MayStart, Rtnl, Work, Pm
<1>4. /\ running' = running /\ away' = away /\ reset' = reset
      /\ UNCHANGED <<held, pollBit, rings, irq, watchdog, failed>>
  BY <1>1 DEF Life!Start, LifeTypes
<1>5. RtnlPart'
  BY <1>2, <1>3, <1>4
<1>6. WorkPart'
  BY <1>2, <1>3, <1>4
<1>7. PmPart'
  BY <1>2, <1>3, <1>4
<1>8. LinePart'
  BY <1>2, <1>3, <1>4
<1>9. ClosedPart'
  BY <1>2, <1>3, <1>4
<1>10. (failed => ~rings /\ ~irq)'
  BY <1>2, <1>3, <1>4
<1> QED BY <1>2, <1>5, <1>6, <1>7, <1>8, <1>9, <1>10

LEMMA Start_diag ==
    ASSUME LifeIInv, Life!Start("diag")
    PROVE  LifeIInv'
<1> USE RtnlTurns, OtherTurns, OneFirst
    DEF LifeIInv, RtnlPart, WorkPart, PmPart, Asleep, Broken, Back, LinePart, ClosedPart,
              Barred, Quiet, RtnlOut, PmOut, Whole, Gone, Up
<1>1. LifeTypes /\ Life!ThreadOf("diag") = "rtnl" /\ "rtnl" \in Life!Threads
  BY DEF Life!ThreadOf, Life!Threads
<1>2. /\ LifeTypes' /\ Rtnl = <<>>
      /\ Rtnl' = Life!Steps("diag") /\ Work' = Work /\ Pm' = Pm
  BY <1>1, StartTypes DEF Rtnl
<1>3. /\ IF running THEN Rtnl' \in BusyWait ELSE Rtnl' \in Loops
      /\ away = "no" /\ Pm = <<>>
  BY <1>1, <1>2, StepsOf DEF Life!Start, Life!MayStart, Rtnl, Work, Pm
<1>4. /\ running' = running /\ away' = away /\ reset' = reset
      /\ UNCHANGED <<held, pollBit, rings, irq, watchdog, failed>>
  BY <1>1 DEF Life!Start, LifeTypes
<1>5. RtnlPart'
  BY <1>2, <1>3, <1>4
<1>6. WorkPart'
  BY <1>2, <1>3, <1>4
<1>7. PmPart'
  BY <1>2, <1>3, <1>4
<1>8. LinePart'
  BY <1>2, <1>3, <1>4
<1>9. ClosedPart'
  BY <1>2, <1>3, <1>4
<1>10. (failed => ~rings /\ ~irq)'
  BY <1>2, <1>3, <1>4
<1> QED BY <1>2, <1>5, <1>6, <1>7, <1>8, <1>9, <1>10

LEMMA Start_timeout ==
    ASSUME LifeIInv, Life!Start("timeout")
    PROVE  LifeIInv'
<1> USE RtnlTurns, OtherTurns, OneFirst
    DEF LifeIInv, RtnlPart, WorkPart, PmPart, Asleep, Broken, Back, LinePart, ClosedPart,
              Barred, Quiet, RtnlOut, PmOut, Whole, Gone, Up
<1>1. LifeTypes /\ Life!ThreadOf("timeout") = "work" /\ "work" \in Life!Threads
  BY DEF Life!ThreadOf, Life!Threads
<1>2. /\ LifeTypes' /\ Work = <<>>
      /\ Work' = Life!Steps("timeout") /\ Rtnl' = Rtnl /\ Pm' = Pm
  BY <1>1, StartTypes DEF Work
<1>3. Work' \in WorkWait /\ reset
  BY <1>1, <1>2, StepsOf DEF Life!Start, Life!MayStart, Rtnl, Work, Pm
<1>4. /\ running' = running /\ away' = away /\ reset' = FALSE
      /\ UNCHANGED <<held, pollBit, rings, irq, watchdog, failed>>
  BY <1>1 DEF Life!Start, LifeTypes
<1>5. RtnlPart'
  BY <1>2, <1>3, <1>4
<1>6. WorkPart'
  BY <1>2, <1>3, <1>4
<1>7. PmPart'
  BY <1>2, <1>3, <1>4
<1>8. LinePart'
  BY <1>2, <1>3, <1>4
<1>9. ClosedPart'
  BY <1>2, <1>3, <1>4
<1>10. (failed => ~rings /\ ~irq)'
  BY <1>2, <1>3, <1>4
<1> QED BY <1>2, <1>5, <1>6, <1>7, <1>8, <1>9, <1>10

LEMMA Start_error ==
    ASSUME LifeIInv, Life!Start("error")
    PROVE  LifeIInv'
<1> USE RtnlTurns, OtherTurns, OneFirst
    DEF LifeIInv, RtnlPart, WorkPart, PmPart, Asleep, Broken, Back, LinePart, ClosedPart,
              Barred, Quiet, RtnlOut, PmOut, Whole, Gone, Up
<1>1. LifeTypes /\ Life!ThreadOf("error") = "pm" /\ "pm" \in Life!Threads
  BY DEF Life!ThreadOf, Life!Threads
<1>2. /\ LifeTypes' /\ Pm = <<>>
      /\ Pm' = Life!Steps("error") /\ Rtnl' = Rtnl /\ Work' = Work
  BY <1>1, StartTypes DEF Pm
<1>3. Pm' \in ErrWait /\ away = "no" /\ Rtnl = <<>> /\ Quiet
  BY <1>1, <1>2, StepsOf DEF Life!Start, Life!MayStart, Rtnl, Work, Pm
<1>4. /\ running' = running /\ away' = "error" /\ reset' = reset
      /\ UNCHANGED <<held, pollBit, rings, irq, watchdog, failed>>
  BY <1>1 DEF Life!Start, LifeTypes
<1>5. RtnlPart'
  BY <1>2, <1>3, <1>4
<1>6. WorkPart'
  BY <1>2, <1>3, <1>4
<1>7. PmPart'
  BY <1>2, <1>3, <1>4
<1>8. LinePart'
  BY <1>2, <1>3, <1>4
<1>9. ClosedPart'
  BY <1>2, <1>3, <1>4
<1>10. (failed => ~rings /\ ~irq)'
  BY <1>2, <1>3, <1>4
<1> QED BY <1>2, <1>5, <1>6, <1>7, <1>8, <1>9, <1>10

LEMMA Start_suspend ==
    ASSUME LifeIInv, Life!Start("suspend")
    PROVE  LifeIInv'
<1> USE RtnlTurns, OtherTurns, OneFirst
    DEF LifeIInv, RtnlPart, WorkPart, PmPart, Asleep, Broken, Back, LinePart, ClosedPart,
              Barred, Quiet, RtnlOut, PmOut, Whole, Gone, Up
<1>1. LifeTypes /\ Life!ThreadOf("suspend") = "pm" /\ "pm" \in Life!Threads
  BY DEF Life!ThreadOf, Life!Threads
<1>2. /\ LifeTypes' /\ Pm = <<>>
      /\ Pm' = Life!Steps("suspend") /\ Rtnl' = Rtnl /\ Work' = Work
  BY <1>1, StartTypes DEF Pm
<1>3. /\ IF running THEN Pm' \in SusWait ELSE Pm' \in SusFree
      /\ away = "no" /\ Rtnl = <<>>
  BY <1>1, <1>2, StepsOf DEF Life!Start, Life!MayStart, Rtnl, Work, Pm
<1>4. /\ running' = running /\ away' = "suspend" /\ reset' = reset
      /\ UNCHANGED <<held, pollBit, rings, irq, watchdog, failed>>
  BY <1>1 DEF Life!Start, LifeTypes
<1>5. RtnlPart'
  BY <1>2, <1>3, <1>4
<1>6. WorkPart'
  BY <1>2, <1>3, <1>4
<1>7. PmPart'
  BY <1>2, <1>3, <1>4
<1>8. LinePart'
  BY <1>2, <1>3, <1>4
<1>9. ClosedPart'
  BY <1>2, <1>3, <1>4
<1>10. (failed => ~rings /\ ~irq)'
  BY <1>2, <1>3, <1>4
<1> QED BY <1>2, <1>5, <1>6, <1>7, <1>8, <1>9, <1>10

LEMMA Start_resume ==
    ASSUME LifeIInv, Life!Start("resume")
    PROVE  LifeIInv'
<1> USE RtnlTurns, OtherTurns, OneFirst
    DEF LifeIInv, RtnlPart, WorkPart, PmPart, Asleep, Broken, Back, LinePart, ClosedPart,
              Barred, Quiet, RtnlOut, PmOut, Whole, Gone, Up
<1>1. LifeTypes /\ Life!ThreadOf("resume") = "pm" /\ "pm" \in Life!Threads
  BY DEF Life!ThreadOf, Life!Threads
<1>2. /\ LifeTypes' /\ Pm = <<>>
      /\ Pm' = Life!Steps("resume") /\ Rtnl' = Rtnl /\ Work' = Work
  BY <1>1, StartTypes DEF Pm
<1>3. /\ IF running THEN Pm' \in WakeOff ELSE Pm' = <<>>
      /\ away = "suspend"
  BY <1>1, <1>2, StepsOf DEF Life!Start, Life!MayStart, Rtnl, Work, Pm
<1>4. /\ running' = running /\ away' = "no" /\ reset' = reset
      /\ UNCHANGED <<held, pollBit, rings, irq, watchdog, failed>>
  BY <1>1 DEF Life!Start, LifeTypes
<1>5. RtnlPart'
  BY <1>2, <1>3, <1>4
<1>6. WorkPart'
  BY <1>2, <1>3, <1>4
<1>7. PmPart'
  BY <1>2, <1>3, <1>4
<1>8. LinePart'
  BY <1>2, <1>3, <1>4
<1>9. ClosedPart'
  BY <1>2, <1>3, <1>4
<1>10. (failed => ~rings /\ ~irq)'
  BY <1>2, <1>3, <1>4
<1> QED BY <1>2, <1>5, <1>6, <1>7, <1>8, <1>9, <1>10

LEMMA Start_io_resume ==
    ASSUME LifeIInv, Life!Start("io_resume")
    PROVE  LifeIInv'
<1> USE RtnlTurns, OtherTurns, OneFirst
    DEF LifeIInv, RtnlPart, WorkPart, PmPart, Asleep, Broken, Back, LinePart, ClosedPart,
              Barred, Quiet, RtnlOut, PmOut, Whole, Gone, Up
<1>1. LifeTypes /\ Life!ThreadOf("io_resume") = "pm" /\ "pm" \in Life!Threads
  BY DEF Life!ThreadOf, Life!Threads
<1>2. /\ LifeTypes' /\ Pm = <<>>
      /\ Pm' = Life!Steps("io_resume") /\ Rtnl' = Rtnl /\ Work' = Work
  BY <1>1, StartTypes DEF Pm
<1>3. /\ IF running THEN Pm' \in RecOff ELSE Pm' = <<>>
      /\ away = "error"
  BY <1>1, <1>2, StepsOf DEF Life!Start, Life!MayStart, Rtnl, Work, Pm
<1>4. /\ running' = running /\ away' = "no" /\ reset' = reset
      /\ UNCHANGED <<held, pollBit, rings, irq, watchdog, failed>>
  BY <1>1 DEF Life!Start, LifeTypes
<1>5. RtnlPart'
  BY <1>2, <1>3, <1>4
<1>6. WorkPart'
  BY <1>2, <1>3, <1>4
<1>7. PmPart'
  BY <1>2, <1>3, <1>4
<1>8. LinePart'
  BY <1>2, <1>3, <1>4
<1>9. ClosedPart'
  BY <1>2, <1>3, <1>4
<1>10. (failed => ~rings /\ ~irq)'
  BY <1>2, <1>3, <1>4
<1> QED BY <1>2, <1>5, <1>6, <1>7, <1>8, <1>9, <1>10

LEMMA Probed ==
    /\ Life!Resources = {"netdev", "pdev", "regions", "csr", "mem"}
    /\ Life!Taken(Len(Life!ProbeSteps)) = Life!Resources
    /\ \A k \in DOMAIN Life!ProbeSteps :
          Life!Taken(k - 1) \ {Life!Undone[j] : j \in 1 .. Life!ProbeSteps[k].undo} = {}
<1>1. Len(Life!ProbeSteps) = 8 /\ DOMAIN Life!ProbeSteps = 1 .. 8
  BY DEF Life!ProbeSteps
<1>2. /\ Life!ProbeSteps[1].takes = {"netdev"} /\ Life!ProbeSteps[1].undo = 0
      /\ Life!ProbeSteps[2].takes = {"pdev"} /\ Life!ProbeSteps[2].undo = 1
      /\ Life!ProbeSteps[3].takes = {} /\ Life!ProbeSteps[3].undo = 2
      /\ Life!ProbeSteps[4].takes = {"regions"} /\ Life!ProbeSteps[4].undo = 2
      /\ Life!ProbeSteps[5].takes = {} /\ Life!ProbeSteps[5].undo = 3
      /\ Life!ProbeSteps[6].takes = {"csr"} /\ Life!ProbeSteps[6].undo = 3
      /\ Life!ProbeSteps[7].takes = {"mem"} /\ Life!ProbeSteps[7].undo = 4
      /\ Life!ProbeSteps[8].takes = {} /\ Life!ProbeSteps[8].undo = 5
  BY DEF Life!ProbeSteps
<1>3. /\ Life!Undone[1] = "netdev" /\ Life!Undone[2] = "pdev" /\ Life!Undone[3] = "regions"
      /\ Life!Undone[4] = "csr" /\ Life!Undone[5] = "mem" /\ DOMAIN Life!Undone = 1 .. 5
  BY DEF Life!Undone
<1>4. Life!Resources = {"netdev", "pdev", "regions", "csr", "mem"}
  BY <1>3 DEF Life!Resources
<1>5. Life!Taken(8) = Life!Resources
  <2>1. ASSUME NEW k \in 1 .. 8 PROVE Life!ProbeSteps[k].takes \subseteq Life!Resources
    BY <1>2, <1>4
  <2>2. \A x \in Life!Resources : \E k \in 1 .. 8 : x \in Life!ProbeSteps[k].takes
    BY <1>2, <1>4
  <2> QED BY <2>1, <2>2 DEF Life!Taken
<1>6. ASSUME NEW k \in 1 .. 8, NEW i \in 1 .. k - 1, NEW x \in Life!ProbeSteps[i].takes
      PROVE  \E j \in 1 .. Life!ProbeSteps[k].undo : x = Life!Undone[j]
  BY <1>2, <1>3
<1>7. ASSUME NEW k \in 1 .. 8
      PROVE  Life!Taken(k - 1) \ {Life!Undone[j] : j \in 1 .. Life!ProbeSteps[k].undo} = {}
  BY <1>6 DEF Life!Taken
<1> QED BY <1>1, <1>4, <1>5, <1>7

LEMMA LifeProbe ==
    ASSUME LifeIInv, Life!e100_probe \/ Life!e100_remove \/ Life!Schedule
    PROVE  LifeIInv'
<1> USE RtnlTurns, OtherTurns, OneFirst
    DEF LifeIInv, RtnlPart, WorkPart, PmPart, Asleep, Broken, Back, LinePart, ClosedPart,
              Barred, Quiet, RtnlOut, PmOut, Whole, Gone, Up
<1>1. Rtnl' = Rtnl /\ Work' = Work /\ Pm' = Pm
  BY DEF Life!e100_probe, Life!e100_remove, Life!Schedule, Rtnl, Work, Pm
<1>2. CASE Life!e100_probe
  <2>1. held' = {} \/ held' = Life!Resources
    BY <1>2, Probed DEF Life!e100_probe
  <2>2. LifeTypes'
    BY <1>2, <2>1 DEF Life!e100_probe, LifeTypes
  <2>3. RtnlPart'
    BY <1>1, <1>2 DEF Life!e100_probe
  <2>4. WorkPart'
    BY <1>1, <1>2 DEF Life!e100_probe
  <2>5. PmPart'
    BY <1>1, <1>2 DEF Life!e100_probe
  <2>6. LinePart'
    BY <1>1, <1>2 DEF Life!e100_probe
  <2>7. ClosedPart'
    BY <1>1, <1>2 DEF Life!e100_probe
  <2>8. (failed => ~rings /\ ~irq)'
    BY <1>1, <1>2 DEF Life!e100_probe
  <2> QED BY <2>2, <2>3, <2>4, <2>5, <2>6, <2>7, <2>8
<1>3. CASE Life!e100_remove
  <2>1. /\ Rtnl = <<>> /\ Work = <<>> /\ Pm = <<>> /\ away = "no" /\ ~running /\ Quiet
    BY <1>3 DEF Life!e100_remove, Rtnl, Work, Pm, Life!Threads
  <2>2. LifeTypes'
    <3>1. LifeTypes /\ held' = {} /\ pollBit' = FALSE
      /\ UNCHANGED <<running, away, rings, irq, watchdog, reset, todo, failed>>
      BY <1>3 DEF Life!e100_remove
    <3> QED BY <3>1, Zenon DEF LifeTypes
  <2>3. RtnlPart'
    BY <1>1, <1>3, <2>1 DEF Life!e100_remove
  <2>4. WorkPart'
    BY <1>1, <1>3, <2>1 DEF Life!e100_remove
  <2>5. PmPart'
    BY <1>1, <1>3, <2>1 DEF Life!e100_remove
  <2>6. LinePart'
    BY <1>1, <1>3, <2>1 DEF Life!e100_remove
  <2>7. ClosedPart'
    BY <1>1, <1>3, <2>1 DEF Life!e100_remove
  <2>8. (failed => ~rings /\ ~irq)'
    BY <1>1, <1>3, <2>1 DEF Life!e100_remove
  <2> QED BY <2>2, <2>3, <2>4, <2>5, <2>6, <2>7, <2>8
<1>4. CASE Life!Schedule
  <2>1. /\ \A x \in {"poll_enable", "mod_timer"} :
              ~IsFirst(Rtnl, x) /\ ~IsFirst(Work, x) /\ ~IsFirst(Pm, x)
        /\ running /\ away = "no" /\ (watchdog \/ pollBit) /\ reset' = TRUE
        /\ UNCHANGED <<held, running, away, pollBit, rings, irq, watchdog, failed>>
    BY <1>4, AtFirst DEF Life!Schedule, Rtnl, Work, Pm, Life!Threads
  <2>2. LifeTypes'
    BY <1>4 DEF Life!Schedule, LifeTypes
  <2>3. RtnlPart'
    BY <1>1, <2>1
  <2>4. WorkPart'
    BY <1>1, <2>1
  <2>5. PmPart'
    BY <1>1, <2>1
  <2>6. LinePart'
    BY <1>1, <2>1
  <2>7. ClosedPart'
    BY <1>1, <2>1
  <2>8. (failed => ~rings /\ ~irq)'
    BY <1>1, <2>1
  <2> QED BY <2>2, <2>3, <2>4, <2>5, <2>6, <2>7, <2>8
<1> QED BY <1>2, <1>3, <1>4

LEMMA LifeInit == Life!Init => LifeIInv
<1> SUFFICES ASSUME Life!Init PROVE LifeIInv
  OBVIOUS
<1> USE RtnlTurns, OneFirst
    DEF LifeIInv, RtnlPart, WorkPart, PmPart, Asleep, Broken, Back, LinePart, ClosedPart,
              Barred, Quiet, RtnlOut, PmOut, Whole, Gone, Up
<1>1. Rtnl = <<>> /\ Work = <<>> /\ Pm = <<>>
  BY DEF Life!Init, Rtnl, Work, Pm, Life!Threads
<1>2. todo = [t \in Life!Threads |-> todo[t]] /\ DOMAIN todo = Life!Threads
  BY DEF Life!Init
<1>3. /\ running = FALSE /\ away = "no" /\ pollBit = FALSE /\ rings = FALSE /\ irq = FALSE
      /\ watchdog = FALSE /\ reset = FALSE /\ failed = FALSE /\ held = {}
  BY DEF Life!Init
<1>4. LifeTypes
  BY <1>2, <1>3 DEF LifeTypes
<1> QED BY <1>1, <1>3, <1>4

LEMMA LifeStep == LifeIInv /\ (Life!Next \/ UNCHANGED lifeVars) => LifeIInv'
<1>1. ASSUME LifeIInv, NEW t \in Life!Threads, Life!Step(t) PROVE LifeIInv'
  <2>1. CASE t = "rtnl"
    <3>1. ~Life!FreeIrq(t) /\ ~Life!ModTimer(t)
      BY <1>1, <2>1, RtnlAt DEF Life!FreeIrq, Life!ModTimer
    <3> QED BY <1>1, <2>1, <3>1, RtnlPollDisable, RtnlDown, RtnlUp, RtnlPollEnable, RtnlLoopback
            DEF Life!Step
  <2>2. CASE t = "work"
    <3>1. ~Life!FreeIrq(t) /\ ~Life!Loopback(t) /\ ~Life!ModTimer(t)
      BY <1>1, <2>2, WorkAt DEF Life!FreeIrq, Life!Loopback, Life!ModTimer
    <3> QED BY <1>1, <2>2, <3>1, WorkPollDisable, WorkGoesDown, WorkUp, WorkPollEnable
            DEF Life!Step
  <2>3. CASE t = "pm"
    <3>1. ~Life!Loopback(t)
      BY <1>1, <2>3, PmAt DEF Life!Loopback
    <3> QED BY <1>1, <2>3, <3>1, PmPollDisable, PmDown, PmUp, PmPollEnable, PmModTimer, PmFreeIrq
            DEF Life!Step
  <2> QED BY <1>1, <2>1, <2>2, <2>3 DEF Life!Threads
<1>2. ASSUME LifeIInv, NEW o \in Ops \ {"probe"}, Life!Start(o) PROVE LifeIInv'
  BY <1>2, LifeAssumption, Start_open, Start_close, Start_ringparam, Start_diag, Start_timeout,
     Start_error, Start_suspend, Start_resume, Start_io_resume
<1>3. ASSUME LifeIInv, UNCHANGED lifeVars PROVE LifeIInv'
  <2>1. Rtnl' = Rtnl /\ Work' = Work /\ Pm' = Pm
    BY <1>3 DEF lifeVars, Rtnl, Work, Pm
  <2> QED BY <1>3, <2>1 DEF lifeVars, LifeTypes, LifeIInv, RtnlPart, WorkPart, PmPart, Asleep, Broken, Back, LinePart, ClosedPart,
              Barred, Quiet, RtnlOut, PmOut, Whole, Gone, Up
<1> QED BY <1>1, <1>2, <1>3, LifeProbe DEF Life!Next

\* What the invariant says of an interface.
LEMMA ListLengths ==
    /\ \A a : Len(<<a>>) <= 6
    /\ \A a, b : Len(<<a, b>>) <= 6
    /\ \A a, b, c : Len(<<a, b, c>>) <= 6
    /\ \A a, b, c, d : Len(<<a, b, c, d>>) <= 6
    /\ \A a, b, c, d, e : Len(<<a, b, c, d, e>>) <= 6
    /\ \A a, b, c, d, e, f : Len(<<a, b, c, d, e, f>>) <= 6
OBVIOUS

LEMMA LifeSafe == LifeIInv => Life!Inv
<1> SUFFICES ASSUME LifeIInv PROVE Life!Inv
  OBVIOUS
<1>1. Len(Rtnl) <= 6
  <2>1. \A q \in CloseWait \cup CloseDown \cup OpenOff \cup OpenOn \cup Loops : Len(q) <= 6
    BY ListLengths, Zenon DEF CloseWait, CloseDown, OpenOff, OpenOn, Loops
  <2>2. \A q \in BusyWait \cup BusyDown \cup BusyLoop : Len(q) <= 6
    BY ListLengths, Zenon DEF BusyWait, BusyDown, BusyLoop
  <2>3. \A q \in BusyOff \cup BusyOn : Len(q) <= 6
    BY ListLengths, Zenon DEF BusyOff, BusyOn
  <2>4. CASE Rtnl = <<>>
    BY <2>4
  <2>5. CASE Rtnl # <<>>
    BY <2>1, <2>2, <2>3, <2>5, Zenon DEF LifeIInv, RtnlPart
  <2> QED BY <2>4, <2>5
<1>2. Len(Work) <= 6
  <2>1. \A q \in WorkWait \cup WorkDown \cup WorkOff \cup WorkOn : Len(q) <= 6
    BY ListLengths, Zenon DEF WorkWait, WorkDown, WorkOff, WorkOn
  <2>4. CASE Work = <<>>
    BY <2>4
  <2>5. CASE Work # <<>>
    BY <2>1, <2>5, Zenon DEF LifeIInv, WorkPart
  <2> QED BY <2>4, <2>5
<1>3. Len(Pm) <= 6
  <2>1. \A q \in ErrWait \cup ErrDown \cup ErrOff \cup SusWait \cup SusFree : Len(q) <= 6
    BY ListLengths, Zenon DEF ErrWait, ErrDown, ErrOff, SusWait, SusFree
  <2>2. \A q \in WakeOff \cup WakeOn \cup RecOff \cup RecOn \cup RecEnd : Len(q) <= 6
    BY ListLengths, Zenon DEF WakeOff, WakeOn, RecOff, RecOn, RecEnd
  <2>4. CASE Pm = <<>>
    BY <2>4
  <2>5. CASE Pm # <<>>
    BY <2>1, <2>2, <2>5, Zenon DEF LifeIInv, PmPart, Asleep, Broken, Back
  <2> QED BY <2>4, <2>5
<1>4. Life!TypeOK
  <2>1. \A t \in Life!Threads : Len(todo[t]) <= 6
    BY <1>1, <1>2, <1>3 DEF Rtnl, Work, Pm, Life!Threads
  <2>2. held \subseteq Life!Resources
    BY DEF LifeIInv, LifeTypes
  <2>3. /\ {running, pollBit, rings, irq, watchdog, reset, failed} \subseteq BOOLEAN
        /\ away \in {"no", "suspend", "error"}
    BY DEF LifeIInv, LifeTypes
  <2> QED BY <2>1, <2>2, <2>3 DEF Life!TypeOK
<1>5. Life!DownFindsAll
  <2>1. ASSUME Life!At("rtnl", "down") PROVE Whole \/ failed
    BY <2>1, RtnlAt, RtnlTurns, OneFirst DEF LifeIInv, RtnlPart, Up, Whole
  <2>2. ASSUME Life!At("work", "down") PROVE Whole \/ failed
    BY <2>2, WorkAt, OtherTurns, OneFirst DEF LifeIInv, WorkPart, Up, Whole
  <2>3. ASSUME Life!At("pm", "down")
        PROVE  Whole \/ failed \/ (Head(Pm).op = "error" /\ ~running)
    BY <2>3, PmAt, OtherTurns, OneFirst DEF LifeIInv, PmPart, Asleep, Broken, Back, Up, Whole
  <2> QED BY <2>1, <2>2, <2>3, Zenon DEF Life!DownFindsAll, Life!Threads, Life!Whole, Whole, Pm
<1>6. Life!UpFindsNone
  <2>1. /\ Life!At("rtnl", "up") => Gone
        /\ Life!At("rtnl", "loopback") => Gone
    BY RtnlAt, RtnlTurns, OneFirst DEF LifeIInv, RtnlPart, Gone
  <2>2. /\ Life!At("work", "up") => Gone
        /\ ~Life!At("work", "loopback")
    BY WorkAt, OtherTurns, OneFirst DEF LifeIInv, WorkPart, Gone
  <2>3. /\ Life!At("pm", "up") => Gone \/ (Head(Pm).op = "resume" /\ ~irq /\ ~watchdog)
        /\ ~Life!At("pm", "loopback")
    BY PmAt, OtherTurns, OneFirst DEF LifeIInv, PmPart, Asleep, Broken, Back, Gone
  <2> QED BY <2>1, <2>2, <2>3, Zenon DEF Life!UpFindsNone, Life!Threads, Life!Gone, Gone, Pm
<1>7. Life!UpTogether
  BY RtnlTurns, OtherTurns, OneFirst
  DEF LifeTypes, LifeIInv, RtnlPart, WorkPart, PmPart, Asleep, Broken, Back, LinePart, ClosedPart,
              Barred, Quiet, RtnlOut, PmOut, Whole, Gone, Up,
      Life!UpTogether, Life!Whole, Life!Gone
<1> QED BY <1>4, <1>5, <1>6, <1>7 DEF LifeIInv, LifeTypes, Life!Inv, Life!ProbeAllOrNothing

-----------------------------------------------------------------------------
(* The adapter.  The sum of the words of the EEPROM is a number, and the   *)
(* last word is not in it.                                                 *)

IsTotal(f, w, m) == f = [n \in 0 .. m |-> IF n = 0 THEN 0 ELSE f[n - 1] + w[n - 1]]
Words == [Config!Word -> Int]

LEMMA WcInt == WC \in Int /\ WC >= 2 /\ WC \in Nat /\ M \in Int /\ M >= 1 /\ M \in Nat
BY ConfigAssumption

LEMMA TotalExists ==
    ASSUME NEW w \in Words
    PROVE  \E f : IsTotal(f, w, WC - 1)
<1> USE WcInt
<1> DEFINE Has(m) == \E f \in [0 .. m -> Int] : IsTotal(f, w, m)
           S == {m \in 0 .. WC - 1 : ~Has(m)}
<1>1. ASSUME S # {} PROVE FALSE
  <2>0. S \subseteq Nat
    OBVIOUS
  <2> HIDE DEF S
  <2>1. PICK m \in S : \A y \in S : m <= y
    BY <1>1, <2>0, LeastExists
  <2> USE DEF S
  <2>2. m # 0
    <3>1. IsTotal([n \in 0 .. 0 |-> 0], w, 0)
      BY DEF IsTotal
    <3>2. [n \in 0 .. 0 |-> 0] \in [0 .. 0 -> Int]
      OBVIOUS
    <3> QED BY <3>1, <3>2
  <2>3. m \in 1 .. WC - 1 /\ m \in Int /\ m - 1 \in 0 .. WC - 1 /\ m - 1 \notin S
    <3>1. m \in 0 .. WC - 1
      BY <2>1
    <3>2. m \in 1 .. WC - 1 /\ m \in Int /\ m - 1 \in 0 .. WC - 1 /\ ~(m <= m - 1)
      BY <2>2, <3>1
    <3> HIDE DEF S
    <3> QED BY <2>1, <3>2
  <2>4. PICK g \in [0 .. m - 1 -> Int] : IsTotal(g, w, m - 1)
    BY <2>3
  <2> DEFINE f == [n \in 0 .. m |-> IF n = m THEN g[m - 1] + w[m - 1] ELSE g[n]]
  <2>5. w[m - 1] \in Int
    BY <2>3 DEF Words, Config!Word
  <2>6. f \in [0 .. m -> Int]
    BY <2>3, <2>4, <2>5
  <2>7. ASSUME NEW n \in 0 .. m PROVE f[n] = IF n = 0 THEN 0 ELSE f[n - 1] + w[n - 1]
    <3>1. CASE n = m
      <4>1. f[n - 1] = g[m - 1] /\ f[n] = g[m - 1] + w[m - 1]
        BY <2>3, <3>1
      <4> QED BY <2>3, <3>1, <4>1
    <3>2. CASE n # m
      <4>1. n \in 0 .. m - 1 /\ f[n] = g[n] /\ (n # 0 => n - 1 \in 0 .. m - 1 /\ f[n - 1] = g[n - 1])
        BY <2>3, <2>7, <3>2
      <4>2. g[n] = IF n = 0 THEN 0 ELSE g[n - 1] + w[n - 1]
        BY <2>4, <4>1 DEF IsTotal
      <4> QED BY <4>1, <4>2
    <3> QED BY <3>1, <3>2
  <2>8. IsTotal(f, w, m)
    BY <2>7 DEF IsTotal
  <2> QED BY <2>1, <2>6, <2>8
<1>2. WC - 1 \in 0 .. WC - 1
  OBVIOUS
<1> QED BY <1>1, <1>2

LEMMA TotalInt ==
    ASSUME NEW w \in Words, NEW f, IsTotal(f, w, WC - 1)
    PROVE  \A n \in 0 .. WC - 1 : f[n] \in Int
<1> USE WcInt
<1> DEFINE S == {m \in 0 .. WC - 1 : f[m] \notin Int}
<1>1. ASSUME S # {} PROVE FALSE
  <2>0. S \subseteq Nat
    OBVIOUS
  <2> HIDE DEF S
  <2>1. PICK m \in S : \A y \in S : m <= y
    BY <1>1, <2>0, LeastExists
  <2> USE DEF S
  <2>2. f[m] = IF m = 0 THEN 0 ELSE f[m - 1] + w[m - 1]
    BY <2>1 DEF IsTotal
  <2>3. m # 0
    BY <2>1, <2>2
  <2>4. m - 1 \in 0 .. WC - 1 /\ m - 1 \notin S
    BY <2>1, <2>3
  <2>5. f[m - 1] \in Int /\ w[m - 1] \in Int
    BY <2>4 DEF Words, Config!Word
  <2> QED BY <2>1, <2>2, <2>3, <2>5
<1> QED BY <1>1

LEMMA TotalSame ==
    ASSUME NEW u, NEW w, NEW f, NEW g, IsTotal(f, u, WC - 1), IsTotal(g, w, WC - 1),
           \A k \in 0 .. WC - 2 : u[k] = w[k]
    PROVE  f[WC - 1] = g[WC - 1]
<1> USE WcInt
<1> DEFINE S == {m \in 0 .. WC - 1 : f[m] # g[m]}
<1>1. ASSUME S # {} PROVE FALSE
  <2>0. S \subseteq Nat
    OBVIOUS
  <2> HIDE DEF S
  <2>1. PICK m \in S : \A y \in S : m <= y
    BY <1>1, <2>0, LeastExists
  <2> USE DEF S
  <2>2. f[m] = (IF m = 0 THEN 0 ELSE f[m - 1] + u[m - 1]) /\ g[m] = (IF m = 0 THEN 0 ELSE g[m - 1] + w[m - 1])
    BY <2>1 DEF IsTotal
  <2>3. m # 0
    BY <2>1, <2>2
  <2>4. m - 1 \in 0 .. WC - 1 /\ m - 1 \notin S /\ m - 1 \in 0 .. WC - 2
    BY <2>1, <2>3
  <2>5. f[m - 1] = g[m - 1] /\ u[m - 1] = w[m - 1]
    BY <2>4
  <2> QED BY <2>1, <2>2, <2>3, <2>5
<1>2. WC - 1 \in 0 .. WC - 1
  OBVIOUS
<1> QED BY <1>1, <1>2

LEMMA SumTotal ==
    ASSUME NEW w \in Words
    PROVE  \E f : IsTotal(f, w, WC - 1) /\ Config!Sum(w) = f[WC - 1]
<1> DEFINE total == CHOOSE f : IsTotal(f, w, WC - 1)
<1>1. IsTotal(total, w, WC - 1)
  BY TotalExists
<1>2. Config!Sum(w) = total[WC - 1]
  BY DEF Config!Sum, IsTotal
<1> QED BY <1>1, <1>2

LEMMA RightIsWord ==
    ASSUME NEW w \in Words
    PROVE  Config!Right(w) \in 0 .. M - 1
<1>1. PICK f : IsTotal(f, w, WC - 1) /\ Config!Sum(w) = f[WC - 1]
  BY SumTotal
<1>2. Config!Sum(w) \in Int
  BY <1>1, TotalInt, WcInt
<1>3. WC * M \in Int
  BY WcInt
<1> HIDE DEF Config!Sum
<1>4. Config!Baba + WC * M - Config!Sum(w) \in Int
  BY <1>2, <1>3 DEF Config!Baba
<1> QED BY <1>4, WcInt DEF Config!Right

LEMMA RightSame ==
    ASSUME NEW u \in Words, NEW w \in Words, \A k \in 0 .. WC - 2 : u[k] = w[k]
    PROVE  Config!Right(u) = Config!Right(w)
<1>1. PICK f : IsTotal(f, u, WC - 1) /\ Config!Sum(u) = f[WC - 1]
  BY SumTotal
<1>2. PICK g : IsTotal(g, w, WC - 1) /\ Config!Sum(w) = g[WC - 1]
  BY SumTotal
<1> QED BY <1>1, <1>2, TotalSame DEF Config!Right

LEMMA ConfigInit == Config!Init => Config!Inv
<1> SUFFICES ASSUME Config!Init PROVE Config!Inv
  OBVIOUS
<1>1. Config!TypeOK
  BY DEF Config!Init, Config!TypeOK
<1>2. Config!ChecksumRight
  BY DEF Config!Init, Config!ChecksumRight
<1>3. Config!OnePhy
  BY DEF Config!Init, Config!OnePhy
<1> QED BY <1>1, <1>2, <1>3 DEF Config!Inv

\* The bytes of a write lie in the words that are saved.
LEMMA TouchedSaved ==
    ASSUME NEW offset \in Nat, NEW len \in Nat \ {0}
    PROVE  Config!Touched(offset, len)
             \subseteq (offset \div 2) .. (offset \div 2) + Config!CountOf(offset, len) - 1
<1>1. ASSUME NEW b \in offset .. offset + len - 1
      PROVE  b \div 2 \in (offset \div 2) .. (offset \div 2) + len \div 2
  BY <1>1
<1>2. (offset \div 2) \in Int /\ len \div 2 \in Int
  OBVIOUS
<1>3. (offset \div 2) + (len \div 2 + 1) - 1 = (offset \div 2) + len \div 2
  BY <1>2
<1> QED BY <1>1, <1>3 DEF Config!Touched, Config!CountOf

LEMMA ConfigSet ==
    ASSUME Config!Inv, Config!e100_set_eeprom
    PROVE  Config!Inv'
<1> USE WcInt
<1>1. PICK offset \in 0 .. 2 * WC - 1, len \in 1 .. MaxLen :
         LET words == Config!Touched(offset, len)
             start == offset \div 2
             count == Config!CountOf(offset, len)
             left == stale \ ((start .. start + count - 1) \cup {WC - 1})
         IN  /\ offset + len <= 2 * WC
             /\ \E new \in [words -> 0 .. M - 1] :
                 LET w == [k \in Config!Word |-> IF k \in words THEN new[k] ELSE cache[k]]
                 IN  IF start + count >= WC
                     THEN /\ cache' = w /\ stale' = stale \cup words
                          /\ UNCHANGED <<dev, wrong>>
                     ELSE /\ cache' = Config!Saved(w, start, count).cache
                          /\ dev' = Config!Saved(w, start, count).dev
                          /\ stale' = left /\ wrong' = (left # {})
             /\ UNCHANGED <<phys, phyId>>
  BY DEF Config!e100_set_eeprom
<1> DEFINE words == Config!Touched(offset, len)
           start == offset \div 2
           count == Config!CountOf(offset, len)
           left == stale \ ((start .. start + count - 1) \cup {WC - 1})
<1>2. PICK new \in [words -> 0 .. M - 1] :
          LET w == [k \in Config!Word |-> IF k \in words THEN new[k] ELSE cache[k]]
          IN  IF start + count >= WC
              THEN /\ cache' = w /\ stale' = stale \cup words
                   /\ UNCHANGED <<dev, wrong>>
              ELSE /\ cache' = Config!Saved(w, start, count).cache
                   /\ dev' = Config!Saved(w, start, count).dev
                   /\ stale' = left /\ wrong' = (left # {})
  BY <1>1
<1> DEFINE w == [k \in Config!Word |-> IF k \in words THEN new[k] ELSE cache[k]]
<1>3. /\ dev \in [Config!Word -> 0 .. M - 1] /\ cache \in [Config!Word -> 0 .. M - 1]
      /\ stale \subseteq Config!Word /\ wrong \in BOOLEAN
      /\ \A k \in Config!Word \ stale : cache[k] = dev[k]
      /\ ~wrong => dev[WC - 1] = Config!Right(dev)
  BY DEF Config!Inv, Config!TypeOK, Config!ChecksumRight
<1>4. words \subseteq start .. start + count - 1 /\ start \in Nat /\ count \in Nat
  <2>1. offset \in Nat /\ len \in Nat \ {0}
    BY ConfigAssumption
  <2>2. start \in Nat /\ count \in Nat
    BY <2>1 DEF Config!CountOf
  <2> QED BY <2>1, <2>2, TouchedSaved
<1>10. words \subseteq Config!Word
  <2>1. ASSUME NEW b \in offset .. offset + len - 1 PROVE b \div 2 \in 0 .. WC - 1
    <3>1. b \in 0 .. 2 * WC - 1
      BY <1>1, <2>1, ConfigAssumption
    <3> QED BY <3>1
  <2> QED BY <2>1 DEF Config!Touched, Config!Word
<1> HIDE DEF words, start, count
<1>5. w \in [Config!Word -> 0 .. M - 1]
  BY <1>2, <1>3
<1>6. w \in Words
  BY <1>5 DEF Words
<1>7. phys' = phys /\ phyId' = phyId
  BY <1>1
<1>8. CASE start + count >= WC
  <2>1. cache' = w /\ stale' = stale \cup words /\ dev' = dev /\ wrong' = wrong
    BY <1>2, <1>8
  <2>2. \A k \in Config!Word \ stale' : cache'[k] = dev'[k]
    BY <1>3, <2>1
  <2> HIDE DEF w
  <2>3. Config!TypeOK'
    BY <1>3, <1>5, <1>7, <1>10, <2>1 DEF Config!Inv, Config!TypeOK
  <2>4. ~wrong' => dev'[WC - 1] = Config!Right(dev')
    BY <1>3, <2>1
  <2> QED BY <1>7, <2>2, <2>3, <2>4 DEF Config!Inv, Config!ChecksumRight, Config!OnePhy
<1>9. CASE ~(start + count >= WC)
  <2>1. /\ cache' = Config!Saved(w, start, count).cache
        /\ dev' = Config!Saved(w, start, count).dev
        /\ stale' = left /\ wrong' = (left # {})
    BY <1>2, <1>9
  <2>2. cache' = [w EXCEPT ![WC - 1] = Config!Right(w)]
    BY <2>1 DEF Config!Saved
  <2>3. dev' = [k \in Config!Word |-> CASE k = WC - 1 -> Config!Right(w)
                                       [] k \in start .. start + count - 1 -> w[k]
                                       [] OTHER -> dev[k]]
    BY <2>1 DEF Config!Saved
  <2>4. Config!Right(w) \in 0 .. M - 1
    BY <1>6, RightIsWord
  <2>5. cache' \in [Config!Word -> 0 .. M - 1]
    BY <1>5, <2>2, <2>4
  <2>6. ASSUME NEW k \in Config!Word \ left PROVE dev'[k] = cache'[k]
    <3>1. CASE k = WC - 1
      <4>1. cache'[k] = Config!Right(w)
        BY <1>5, <2>2, <3>1
      <4>2. dev'[k] = Config!Right(w)
        <5> HIDE DEF w
        <5>1. dev'[k] = CASE k = WC - 1 -> Config!Right(w)
                          [] k \in start .. start + count - 1 -> w[k]
                          [] OTHER -> dev[k]
          BY <2>3, Zenon
        <5>2. k \notin start .. start + count - 1
          BY <1>4, <1>9, <3>1
        <5> QED BY <3>1, <5>1, <5>2
      <4> QED BY <4>1, <4>2
    <3>2. CASE k # WC - 1
      <4>1. cache'[k] = w[k]
        BY <1>5, <2>2, <3>2
      <4>2. k \notin start .. start + count - 1 => w[k] = dev[k]
        BY <1>3, <1>4, <3>2
      <4>3. dev'[k] = IF k \in start .. start + count - 1 THEN w[k] ELSE dev[k]
        BY <2>3, <3>2
      <4> QED BY <4>1, <4>2, <4>3
    <3> QED BY <3>1, <3>2
  <2>7. dev' \in [Config!Word -> 0 .. M - 1]
    <3> HIDE DEF w
    <3> QED BY <1>3, <1>5, <2>3, <2>4
  <2>8. ASSUME ~wrong' PROVE dev'[WC - 1] = Config!Right(dev')
    <3>1. left = {}
      BY <2>1, <2>8
    <3>2. \A k \in Config!Word : dev'[k] = cache'[k]
      BY <2>6, <3>1
    <3>3. dev' \in Words
      BY <2>7 DEF Words
    <3>4. \A k \in 0 .. WC - 2 : dev'[k] = w[k]
      <4> HIDE DEF w
      <4> QED BY <1>5, <2>2, <3>2 DEF Config!Word
    <3>5. Config!Right(dev') = Config!Right(w)
      BY <1>6, <3>3, <3>4, RightSame
    <3>6. dev'[WC - 1] = Config!Right(w)
      <4> HIDE DEF w
      <4> QED BY <1>5, <2>2, <3>2 DEF Config!Word
    <3> QED BY <3>5, <3>6
  <2>9. stale' \subseteq Config!Word /\ wrong' \in BOOLEAN
    BY <1>3, <2>1
  <2>10. Config!TypeOK'
    BY <1>7, <2>5, <2>7, <2>9 DEF Config!Inv, Config!TypeOK
  <2>11. Config!ChecksumRight'
    BY <2>1, <2>6, <2>8 DEF Config!ChecksumRight
  <2> QED BY <1>7, <2>10, <2>11 DEF Config!Inv, Config!OnePhy
<1> QED BY <1>8, <1>9

LEMMA PhyChosen ==
    ASSUME NEW found, found \subseteq Addrs, found # {}
    PROVE  (CHOOSE a \in found : \A b \in found : Config!Rank(a) <= Config!Rank(b)) \in found
<1>1. \A a \in found : Config!Rank(a) \in Nat
  BY ConfigAssumption DEF Config!Rank
<1> DEFINE S == {Config!Rank(a) : a \in found}
<1>2. S \subseteq Nat /\ S # {}
  BY <1>1
<1>3. \E x \in S : \A y \in S : x <= y
  <2> HIDE DEF S
  <2> QED BY <1>2, LeastExists
<1>4. \E a \in found : \A b \in found : Config!Rank(a) <= Config!Rank(b)
  BY <1>3
<1> QED BY <1>4

LEMMA ConfigPhy ==
    ASSUME Config!Inv, Config!e100_phy_init \/ Config!SlotReset
    PROVE  Config!Inv'
<1>1. CASE Config!e100_phy_init
  <2> DEFINE found == {a \in Addrs : phys[a] # "absent"}
  <2>1. phyId' \in found
    BY <1>1, PhyChosen DEF Config!e100_phy_init
  <2>2. phys' = [a \in Addrs |-> CASE phys[a] = "absent" -> "absent"
                                   [] a = phyId' -> "on"
                                   [] OTHER -> "isolated"]
    BY <1>1 DEF Config!e100_phy_init, Config!PhySelected
  <2>3. dev' = dev /\ cache' = cache /\ stale' = stale /\ wrong' = wrong
    BY <1>1 DEF Config!e100_phy_init
  <2>4. Config!TypeOK'
    BY <2>1, <2>2, <2>3 DEF Config!Inv, Config!TypeOK
  <2>5. Config!OnePhy'
    BY <2>1, <2>2 DEF Config!OnePhy
  <2> QED BY <2>3, <2>4, <2>5 DEF Config!Inv, Config!ChecksumRight
<1>2. CASE Config!SlotReset
  <2>1. phyId' = 32 /\ dev' = dev /\ cache' = cache /\ stale' = stale /\ wrong' = wrong
    BY <1>2 DEF Config!SlotReset
  <2>2. PICK p \in [Addrs -> {"on", "isolated"}] :
            phys' = [a \in Addrs |-> IF phys[a] = "absent" THEN "absent" ELSE p[a]]
    BY <1>2 DEF Config!SlotReset
  <2>3. Config!TypeOK'
    BY <2>1, <2>2 DEF Config!Inv, Config!TypeOK
  <2> QED BY <2>1, <2>3 DEF Config!Inv, Config!ChecksumRight, Config!OnePhy
<1> QED BY <1>1, <1>2

LEMMA ConfigStep == Config!Inv /\ (Config!Next \/ UNCHANGED configVars) => Config!Inv'
<1>1. ASSUME Config!Inv, Config!e100_eeprom_load PROVE Config!Inv'
  BY <1>1 DEF Config!e100_eeprom_load, Config!Inv, Config!TypeOK, Config!ChecksumRight,
              Config!OnePhy
<1>2. ASSUME Config!Inv, UNCHANGED configVars PROVE Config!Inv'
  BY <1>2 DEF configVars, Config!Inv, Config!TypeOK, Config!ChecksumRight, Config!OnePhy
<1> QED BY <1>1, <1>2, ConfigSet, ConfigPhy DEF Config!Next, Config!Eeprom, Config!Phys

-----------------------------------------------------------------------------
(* The theorems: every part keeps its invariant while it runs, and nobody  *)
(* touches it while another does.                                          *)

\* Transmission and reception: the CU is on queued CBs only, the driver's
\* counter and pointers agree with the ring, one command is enough for all CBs
\* before it; the RU writes to blank RFDs only and leaves no gap (e100_exec_cb,
\* e100_tx_clean, e100_rx_clean, e100_start_receiver and the hardware).
THEOREM RingsStaySound == MCSpec => []RingsInv
<1>1. MCInit => TxIInv /\ RxIInv
  BY TxInit, RxInit DEF MCInit
<1>2. TxIInv /\ RxIInv /\ [MCNext]_all => TxIInv' /\ RxIInv'
  <2> SUFFICES ASSUME TxIInv, RxIInv, [MCNext]_all PROVE TxIInv' /\ RxIInv'
    OBVIOUS
  <2>1. (Tx!Next \/ UNCHANGED txVars) /\ (Rx!Next \/ UNCHANGED rxVars)
    BY DEF MCNext, all
  <2> QED BY <2>1, TxStep, RxStep
<1>3. TxIInv /\ RxIInv => RingsInv
  BY TxSafe, RxSafe DEF RingsInv
<1> QED BY <1>1, <1>2, <1>3, PTL DEF MCSpec

\* The life of the interface and the adapter: e100_probe takes all or nothing;
\* whatever open, close, ethtool, the work of tx_timeout_task and the PM and PCI
\* callbacks do to each other, and wherever e100_up fails, who takes the interface
\* down finds it whole, who brings it up finds nothing, and the timer, the line
\* and the lists come and go together, but for the error handler on an interface
\* that is down, for e100_resume and after a failed e100_io_resume; the EEPROM
\* is as it was written and one PHY drives the medium.
THEOREM InterfaceStaysSound == MCSpec => []InterfaceInv
<1>1. MCInit => LifeIInv /\ Config!Inv
  BY LifeInit, ConfigInit DEF MCInit
<1>2. LifeIInv /\ Config!Inv /\ [MCNext]_all => LifeIInv' /\ Config!Inv'
  <2> SUFFICES ASSUME LifeIInv, Config!Inv, [MCNext]_all PROVE LifeIInv' /\ Config!Inv'
    OBVIOUS
  <2>1. (Life!Next \/ UNCHANGED lifeVars) /\ (Config!Next \/ UNCHANGED configVars)
    BY DEF MCNext, all, Config!Next
  <2> QED BY <2>1, LifeStep, ConfigStep
<1>3. LifeIInv /\ Config!Inv => InterfaceInv
  BY LifeSafe DEF InterfaceInv
<1> QED BY <1>1, <1>2, <1>3, PTL DEF MCSpec
=============================================================================
