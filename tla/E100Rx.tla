-------------------------------- MODULE E100Rx --------------------------------
(***************************************************************************)
(* The receive side of e100.c: a ring of receive frame descriptors (RFDs)  *)
(* filled by the receive unit (RU) of the controller, the interrupt routine*)
(* e100_intr, and e100_poll with e100_rx_clean, which indicates frames,    *)
(* refills the ring and restarts an RU that ran out of RFDs.               *)
(*                                                                         *)
(* The RU is external: it fills the RFD it is at and follows the link, or  *)
(* stops if the RFD has its EL bit; a frame that finds it stopped is lost  *)
(* and raises RNR.  The interrupt line is shared, so that e100_intr may be *)
(* called with the controller's own interrupts masked.                     *)
(***************************************************************************)
EXTENDS Naturals

CONSTANTS
    N,          \* params.rfds.count, 16 to 256 in the code
    Quota,      \* frames one call of e100_poll may indicate, 16 in the code
    RnrRace     \* a frame may come between the ack of RNR and the restart

Slots == 0 .. N - 1
Nxt(i) == (i + 1) % N
Prev(i) == (i + N - 1) % N

VARIABLES
    rx,             \* of each RFD: whether it has an skb, EL, complete
    rx_to_use, rx_to_clean,
    ru_running,     \* what the driver thinks of the RU
    ru,             \* the RU: on or off, and the RFD it is at
    stat_ack,       \* interrupt causes
    masked,         \* irq_mask_all
    poll            \* e100_poll: pc, work_done, restart_required, rx_to_start

vars == <<rx, rx_to_use, rx_to_clean, ru_running, ru, stat_ack, masked, poll>>

NoSkb == [skb |-> FALSE, el |-> FALSE, complete |-> FALSE]
BlankRfd == [skb |-> TRUE, el |-> TRUE, complete |-> FALSE]
Idle == [pc |-> "idle", work |-> 0, restart |-> FALSE, start |-> 0]

\* After e100_rx_alloc_list and e100_start_receiver in e100_up: every RFD has
\* cleared the EL bit of the one before, the first one that of none.
Init ==
    /\ rx = [i \in Slots |-> [BlankRfd EXCEPT !.el = i = N - 1]]
    /\ rx_to_use = 0 /\ rx_to_clean = 0
    /\ ru_running = "RUNNING"
    /\ ru = [on |-> TRUE, at |-> 0]
    /\ stat_ack = {}
    /\ masked = FALSE
    /\ poll = Idle

-----------------------------------------------------------------------------
(* The controller.                                                         *)

FrameArrives ==
    IF ru.on
    THEN /\ rx' = [rx EXCEPT ![ru.at].complete = TRUE]
         /\ ru' = IF rx[ru.at].el THEN [ru EXCEPT !.on = FALSE]
                                  ELSE [ru EXCEPT !.at = Nxt(@)]
         /\ stat_ack' = stat_ack \cup {"FR"}
         /\ UNCHANGED <<rx_to_use, rx_to_clean, ru_running, masked, poll>>
    ELSE /\ RnrRace \/ poll.pc # "start"
         /\ stat_ack' = stat_ack \cup {"RNR"}
         /\ UNCHANGED <<rx, rx_to_use, rx_to_clean, ru_running, ru, masked, poll>>

\* e100_watchdog raises a software interrupt.
SwInterrupt ==
    /\ stat_ack' = stat_ack \cup {"SWI"}
    /\ UNCHANGED <<rx, rx_to_use, rx_to_clean, ru_running, ru, masked, poll>>

-----------------------------------------------------------------------------
\* Mutant: RNR is left to the next look at the RFDs.
Suspends_Never(stat) == FALSE

\* "We hit Receive No Resource (RNR); restart RU after cleaning".
Suspends(stat) == "RNR" \in stat

e100_intr ==
    /\ stat_ack # {}
    /\ ru_running' = IF Suspends(stat_ack) THEN "SUSPENDED" ELSE ru_running
    /\ stat_ack' = {}
    /\ IF poll.pc = "idle"                    \* netif_rx_schedule_prep
       THEN /\ poll' = [Idle EXCEPT !.pc = "scheduled"]
            /\ masked' = TRUE
       ELSE UNCHANGED <<poll, masked>>
    /\ UNCHANGED <<rx, rx_to_use, rx_to_clean, ru>>

-----------------------------------------------------------------------------
(* e100_poll.                                                              *)

PollStart ==
    /\ poll.pc = "scheduled"
    /\ poll' = [poll EXCEPT !.pc = "indicate", !.work = 0,
                            !.restart = ru_running = "SUSPENDED"]
    /\ UNCHANGED <<rx, rx_to_use, rx_to_clean, ru_running, ru, stat_ack, masked>>

\* e100_rx_indicate of a completed RFD: its skb goes to the stack, or, with an
\* error or too long, is freed and not counted as work.
Indicate ==
    LET r == rx[rx_to_clean]
    IN  /\ poll.pc = "indicate"
        /\ r.skb /\ r.complete /\ poll.work < Quota
        /\ rx' = [rx EXCEPT ![rx_to_clean] = NoSkb]
        /\ ru_running' = IF r.el THEN "SUSPENDED" ELSE ru_running
        /\ rx_to_clean' = Nxt(rx_to_clean)
        /\ \E good \in {0, 1} : poll' = [poll EXCEPT !.work = @ + good]
        /\ UNCHANGED <<rx_to_use, ru, stat_ack, masked>>

\* The loop ends at an RFD without skb, with the quota used up (no restart
\* then), or at an RFD that is not complete.
IndicateEnd ==
    LET r == rx[rx_to_clean]
    IN  /\ poll.pc = "indicate"
        /\ ~(r.skb /\ r.complete /\ poll.work < Quota)
        /\ poll' = [poll EXCEPT !.pc = "refill", !.start = rx_to_clean,
                        !.restart = @ /\ ~(r.skb /\ poll.work >= Quota)]
        /\ UNCHANGED <<rx, rx_to_use, rx_to_clean, ru_running, ru, stat_ack, masked>>

\* The ring with a new RFD at rx_to_use, linked to the one before.
Linked == [rx EXCEPT ![rx_to_use] = BlankRfd, ![Prev(rx_to_use)].el = FALSE]

\* e100_rx_alloc_skb.
Refill ==
    /\ poll.pc = "refill"
    /\ ~rx[rx_to_use].skb
    /\ rx' = Linked
    /\ rx_to_use' = Nxt(rx_to_use)
    /\ UNCHANGED <<rx_to_clean, ru_running, ru, stat_ack, masked, poll>>

\* The ring is full again, or there is no memory.
RefillEnd ==
    /\ poll.pc = "refill"
    /\ poll' = [poll EXCEPT !.pc = IF poll.restart THEN "ack" ELSE "end"]
    /\ UNCHANGED <<rx, rx_to_use, rx_to_clean, ru_running, ru, stat_ack, masked>>

AckRnr ==
    /\ poll.pc = "ack"
    /\ stat_ack' = stat_ack \ {"RNR"}
    /\ poll' = [poll EXCEPT !.pc = "start"]
    /\ UNCHANGED <<rx, rx_to_use, rx_to_clean, ru_running, ru, masked>>

\* e100_start_receiver.  The result of e100_exec_cmd is not looked at: the
\* command may have found the controller busy.
Start ==
    /\ poll.pc = "start"
    /\ IF rx[poll.start].skb
       THEN /\ ru' \in {[on |-> TRUE, at |-> poll.start], ru}
            /\ ru_running' = "RUNNING"
       ELSE UNCHANGED <<ru, ru_running>>
    /\ poll' = [poll EXCEPT !.pc = "end", !.work = @ + 1]
    /\ UNCHANGED <<rx, rx_to_use, rx_to_clean, stat_ack, masked>>

\* Polling mode is left when there was nothing to do.
PollEnd ==
    /\ poll.pc = "end"
    /\ IF poll.work = 0 THEN poll' = Idle /\ masked' = FALSE
                        ELSE poll' = [Idle EXCEPT !.pc = "scheduled"] /\ UNCHANGED masked
    /\ UNCHANGED <<rx, rx_to_use, rx_to_clean, ru_running, ru, stat_ack>>

-----------------------------------------------------------------------------
Poll == PollStart \/ Indicate \/ IndicateEnd \/ RefillEnd \/ AckRnr \/ Start \/ PollEnd

Next == FrameArrives \/ SwInterrupt \/ e100_intr \/ Refill \/ Poll

\* The interrupt is served when it is not masked, polling goes on, and the
\* watchdog is armed every two seconds; memory and the command register are to
\* be had again and again, and frames keep coming.
Fairness ==
    /\ WF_vars(~masked /\ e100_intr) /\ WF_vars(Poll) /\ WF_vars(SwInterrupt)
    /\ WF_vars(FrameArrives) /\ SF_vars(Refill) /\ SF_vars(Start /\ ru'.on)

Spec == Init /\ [][Next]_vars /\ Fairness

-----------------------------------------------------------------------------
TypeOK ==
    /\ rx \in [Slots -> [skb : BOOLEAN, el : BOOLEAN, complete : BOOLEAN]]
    /\ {rx_to_use, rx_to_clean, ru.at, poll.start} \subseteq Slots
    /\ ru_running \in {"RUNNING", "SUSPENDED"} /\ ru.on \in BOOLEAN
    /\ stat_ack \subseteq {"FR", "RNR", "SWI"} /\ masked \in BOOLEAN
    /\ poll.pc \in {"idle", "scheduled", "indicate", "refill", "ack", "start", "end"}
    /\ poll.work \in 0 .. Quota + 1 /\ poll.restart \in BOOLEAN

\* The RU only writes to RFDs the driver has put there, and to none a second
\* time before its frame has been indicated.
RuOnBlankRfd == ru.on => rx[ru.at].skb /\ ~rx[ru.at].complete

\* "this ensures that the state machine progression never allows a start with
\* a partially cleaned list" (e100_rx_clean): completed frames lie without a
\* gap from rx_to_clean on, so that none is left behind or overtaken.
NoGap ==
    \A i \in Slots : rx[i].complete /\ i # rx_to_clean => rx[Prev(i)].complete

\* The two together, with the types.
Inv == TypeOK /\ RuOnBlankRfd /\ NoGap

\* An RU that had no RFD for a frame is restarted, whatever order RNR, the
\* EL bits and the refill come in; the watchdog helps when e100_intr takes RNR
\* just as e100_poll leaves polling mode.
RuRestarts == ("RNR" \in stat_ack) ~> ru.on
=============================================================================
