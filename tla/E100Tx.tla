-------------------------------- MODULE E100Tx --------------------------------
(***************************************************************************)
(* The transmit side of e100.c: the ring of command blocks (CBs) between   *)
(* the driver and the command unit (CU) of the controller.  e100_exec_cb   *)
(* queues a CB under cb_lock and starts or resumes the CU, e100_tx_clean   *)
(* takes back completed CBs, and tx_timeout_task resets the device.        *)
(*                                                                         *)
(* The CU is external: it completes the CB it is at and goes on to the next*)
(* one unless the CB has its S bit; a resume makes it look at the S bit of *)
(* the CB it stopped at again.                                             *)
(*                                                                         *)
(* e100_clean_cbs does not take cb_lock.  The reset is modelled between two*)
(* calls of e100_exec_cb; nothing in the code makes sure of that.          *)
(***************************************************************************)
EXTENDS Naturals, FiniteSets

CONSTANTS
    N,          \* params.cbs.count, 64 to 256 in the code
    InitCbs     \* CBs that e100_up queues after the microcode, 4 in the code

Slots == 0 .. N - 1
Nxt(i) == (i + 1) % N
Prev(i) == (i + N - 1) % N
Dist(i, j) == (j + N - i) % N

VARIABLES
    cb,             \* of each CB: its skb, S bit, completion
    cb_to_use, cb_to_send, cb_to_clean,
    cbs_avail,
    cuc_cmd,        \* the next command for the CU: start or resume
    scb,            \* the command register: clear, or a command not yet taken
    gen_ptr,
    cu,             \* the CU and the CB it is at
    hung,           \* the controller takes no command any more
    call,           \* who has cb_lock in e100_exec_cb, where, and err
    late,           \* the last call queued a CB and issued no command
    xmit,           \* result e100_xmit_frame has from e100_exec_cb
    cleaned,        \* e100_tx_clean has given up the lock with tx_cleaned set
    stopped,        \* the transmit queue of the net device
    task,           \* tx_timeout_task is scheduled
    phase           \* up, init (in e100_up), down, or dead (e100_up has failed)

ring == <<cb, cb_to_use, cb_to_send, cb_to_clean, cbs_avail, cuc_cmd>>
hw == <<scb, gen_ptr, cu, hung>>
net == <<xmit, cleaned, stopped, task, phase>>
vars == <<ring, hw, call, late, net>>

BlankCb == [skb |-> FALSE, s |-> FALSE, complete |-> FALSE]
NoCall == [pc |-> "none", kind |-> "none", err |-> "ok"]

\* Where e100_alloc_cbs and the microcode CB of e100_hw_init leave the ring:
\* the CB has ended, with its EL bit, and the CU has to be started again.
FreshRing ==
    /\ cb' = [i \in Slots |-> [BlankCb EXCEPT !.complete = i = 0, !.s = i = 0]]
    /\ cb_to_use' = 1 /\ cb_to_send' = 1 /\ cb_to_clean' = 0
    /\ cbs_avail' = N - 1
    /\ cuc_cmd' = "start"

\* What e100_clean_cbs leaves.
NoRing ==
    /\ cb' = [i \in Slots |-> BlankCb]
    /\ cb_to_use' = 0 /\ cb_to_send' = 0 /\ cb_to_clean' = 0
    /\ cbs_avail' = 0
    /\ cuc_cmd' = "start"

Init ==
    /\ cb = [i \in Slots |-> BlankCb]
    /\ cb_to_use = 0 /\ cb_to_send = 0 /\ cb_to_clean = 0
    /\ cbs_avail = 0
    /\ cuc_cmd = "start"
    /\ scb = "clear" /\ gen_ptr = 0
    /\ cu = [state |-> "idle", at |-> 0]
    /\ hung = FALSE
    /\ call = NoCall /\ late = FALSE
    /\ xmit = "none" /\ cleaned = FALSE
    /\ stopped = TRUE /\ task = FALSE
    /\ phase = "down"

-----------------------------------------------------------------------------
(* e100_exec_cb.                                                           *)

\* Who calls it: the stack with a frame while the queue runs, other commands
\* (multicast list, settings, watchdog), and e100_up.
MayCall(kind) ==
    CASE kind = "tx" -> phase = "up" /\ ~stopped /\ xmit = "none"
      [] kind = "other" -> phase = "up"
      [] kind = "init" -> phase = "init" /\ Dist(0, cb_to_use) < 1 + InitCbs

Unlock(err) ==
    /\ call' = NoCall
    /\ xmit' = IF call.kind = "tx" THEN err ELSE xmit

\* Mutant: the S bit is set after that of the previous CB has been cleared.
Prepared_ClearFirst(kind) ==
    [cb EXCEPT ![cb_to_use].skb = (kind = "tx"), ![Prev(cb_to_use)].s = FALSE]

\* cb_prepare, and the S bit.
Prepared(kind) == [cb EXCEPT ![cb_to_use].skb = (kind = "tx"), ![cb_to_use].s = TRUE]

\* cb_lock is taken and a CB prepared.
ExecTake(kind) ==
    /\ call.pc = "none"
    /\ MayCall(kind)
    /\ \/ /\ cbs_avail = 0
          /\ xmit' = IF kind = "tx" THEN "ENOMEM" ELSE xmit
          /\ UNCHANGED <<ring, call, late>>
       \/ /\ cbs_avail # 0
          /\ cb' = Prepared(kind)
          /\ cb_to_use' = Nxt(cb_to_use)
          /\ cbs_avail' = cbs_avail - 1
          /\ call' = [pc |-> "link", kind |-> kind,
                      err |-> IF cbs_avail = 1 THEN "ENOSPC" ELSE "ok"]
          /\ UNCHANGED <<cb_to_send, cb_to_clean, cuc_cmd, xmit>>
          /\ late' = TRUE
    /\ UNCHANGED <<hw, cleaned, stopped, task, phase>>

\* The S bit of the previous CB is cleared after that.
ExecLink ==
    /\ call.pc = "link"
    /\ cb' = [cb EXCEPT ![Prev(Prev(cb_to_use))].s = FALSE]
    /\ call' = [call EXCEPT !.pc = "send"]
    /\ UNCHANGED <<cb_to_use, cb_to_send, cb_to_clean, cbs_avail, cuc_cmd, hw, late, net>>

\* A turn of the loop in which e100_exec_cmd finds the register clear.
ExecSend ==
    /\ call.pc = "send"
    /\ cb_to_send # cb_to_use
    /\ scb = "clear"
    /\ scb' = cuc_cmd
    /\ gen_ptr' = IF cuc_cmd = "resume" THEN gen_ptr ELSE cb_to_send
    /\ late' = FALSE
    /\ cuc_cmd' = "resume"
    /\ cb_to_send' = Nxt(cb_to_send)
    /\ UNCHANGED <<cb, cb_to_use, cb_to_clean, cbs_avail, cu, hung, call, net>>

\* A turn in which it does not: the CB stays queued, and a reset is asked for
\* if it was the last one.
ExecTimeout ==
    /\ call.pc = "send"
    /\ cb_to_send # cb_to_use
    /\ scb # "clear"
    /\ task' = (task \/ call.err = "ENOSPC")
    /\ Unlock(call.err)
    /\ UNCHANGED <<ring, hw, late, cleaned, stopped, phase>>

\* Nothing left to send; with a full ring of CBs none of which has been sent
\* the loop ends here too.
ExecDone ==
    /\ call.pc = "send"
    /\ cb_to_send = cb_to_use
    /\ Unlock(call.err)
    /\ UNCHANGED <<ring, hw, late, cleaned, stopped, task, phase>>

\* The end of e100_xmit_frame, with the lock given up.
XmitReturn ==
    /\ xmit # "none"
    /\ stopped' = (stopped \/ xmit \in {"ENOSPC", "ENOMEM"})
    /\ xmit' = "none"
    /\ UNCHANGED <<ring, hw, call, late, cleaned, task, phase>>

-----------------------------------------------------------------------------
(* e100_tx_clean.                                                          *)

\* The CBs the loop comes to before one that is not complete: it clears the
\* status of those it leaves.
Completed ==
    CHOOSE n \in 0 .. N :
        /\ \A k \in 0 .. n - 1 : cb[(cb_to_clean + k) % N].complete
        /\ n = N \/ ~cb[(cb_to_clean + n) % N].complete

Cleaned(c) == [c EXCEPT !.skb = FALSE, !.complete = FALSE]

TxClean ==
    LET n == Completed
        done == {i \in Slots : Dist(cb_to_clean, i) < n}
    IN  /\ phase = "up" /\ ~cleaned
        /\ call.pc = "none"
        /\ n > 0
        /\ cb' = [i \in Slots |-> IF i \in done THEN Cleaned(cb[i]) ELSE cb[i]]
        /\ cb_to_clean' = (cb_to_clean + n) % N
        /\ cbs_avail' = cbs_avail + n
        /\ cleaned' = \E i \in done : cb[i].skb
        /\ UNCHANGED <<cb_to_use, cb_to_send, cuc_cmd, hw, call, late, xmit, stopped,
                       task, phase>>

TxWake ==
    /\ cleaned
    /\ cleaned' = FALSE
    /\ stopped' = FALSE
    /\ UNCHANGED <<ring, hw, call, late, xmit, task, phase>>

-----------------------------------------------------------------------------
(* e100_tx_timeout and tx_timeout_task.                                    *)

\* Mutant: a queue stopped with free CBs is not the driver's business.
e100_tx_timeout_IfFull ==
    /\ phase = "up" /\ stopped /\ cbs_avail = 0
    /\ task' = TRUE
    /\ UNCHANGED <<ring, hw, call, late, xmit, cleaned, stopped, phase>>

\* The stack calls it when the queue has been stopped for watchdog_timeo.
e100_tx_timeout ==
    /\ phase = "up" /\ stopped
    /\ task' = TRUE
    /\ UNCHANGED <<ring, hw, call, late, xmit, cleaned, stopped, phase>>

\* e100_down waits for e100_poll, resets the controller and frees the CBs,
\* with the skbs that are left.
e100_down ==
    /\ task /\ phase = "up"
    /\ call.pc = "none" /\ ~cleaned
    /\ task' = FALSE
    /\ phase' = "down"
    /\ stopped' = TRUE
    /\ scb' = "clear" /\ cu' = [state |-> "idle", at |-> 0] /\ hung' = FALSE
    /\ NoRing
    /\ UNCHANGED <<gen_ptr, call, late, xmit, cleaned>>

\* e100_up: e100_alloc_cbs and the first part of e100_hw_init.
UpAlloc ==
    /\ phase = "down"
    /\ FreshRing
    /\ phase' = "init"
    /\ UNCHANGED <<hw, call, late, xmit, cleaned, stopped, task>>

\* The CBs of e100_hw_init and e100_set_multicast_list have been queued.
UpDone ==
    /\ phase = "init" /\ call.pc = "none"
    /\ Dist(0, cb_to_use) = 1 + InitCbs
    /\ phase' = "up"
    /\ stopped' = FALSE
    /\ UNCHANGED <<ring, hw, call, late, xmit, cleaned, task>>

\* e100_up fails: no memory for one of the lists, a step of e100_hw_init, or no
\* interrupt line.  The CBs are freed; nobody looks at the result, and nothing
\* takes the queue further (the next e100_down waits for the poll bit).
UpFail ==
    /\ phase \in {"down", "init"} /\ call.pc = "none"
    /\ NoRing
    /\ phase' = "dead"
    /\ UNCHANGED <<hw, call, late, xmit, cleaned, stopped, task>>

-----------------------------------------------------------------------------
(* The controller, as long as the CBs are there: a failing e100_up does not*)
(* stop it, and what it does with the memory is not followed.              *)

HwAccept ==
    /\ scb # "clear" /\ ~hung /\ phase # "dead"
    /\ cu' = CASE scb = "start" -> [state |-> "active", at |-> gen_ptr]
               [] scb = "resume" /\ cu.state = "suspended" /\ ~cb[cu.at].s ->
                     [state |-> "active", at |-> Nxt(cu.at)]
               [] OTHER -> cu
    /\ scb' = "clear"
    /\ UNCHANGED <<ring, gen_ptr, hung, call, late, net>>

CuExecute ==
    /\ cu.state = "active" /\ ~hung /\ phase # "dead"
    /\ cb' = [cb EXCEPT ![cu.at].complete = TRUE]
    /\ cu' = IF cb[cu.at].s THEN [cu EXCEPT !.state = "suspended"]
                            ELSE [cu EXCEPT !.at = Nxt(@)]
    /\ UNCHANGED <<cb_to_use, cb_to_send, cb_to_clean, cbs_avail, cuc_cmd, scb,
                   gen_ptr, hung, call, late, net>>

HwHang ==
    /\ phase = "up" /\ ~hung
    /\ hung' = TRUE
    /\ UNCHANGED <<ring, scb, gen_ptr, cu, call, late, net>>

-----------------------------------------------------------------------------
ExecCb == ExecLink \/ ExecSend \/ ExecTimeout \/ ExecDone
Reset == e100_down \/ UpAlloc \/ ExecTake("init") \/ UpDone \/ UpFail

Next ==
    \/ \E kind \in {"tx", "other"} : ExecTake(kind)
    \/ ExecCb \/ XmitReturn
    \/ TxClean \/ TxWake
    \/ e100_tx_timeout \/ Reset
    \/ HwAccept \/ CuExecute \/ HwHang

\* A thread that is in the driver goes on; the watchdog's software interrupt
\* has e100_poll called every two seconds; work that is scheduled is done, and
\* gets the lock; the controller works until it hangs.
Fairness ==
    /\ WF_vars(ExecCb) /\ WF_vars(XmitReturn)
    /\ WF_vars(TxClean) /\ WF_vars(TxWake)
    /\ WF_vars(e100_tx_timeout) /\ SF_vars(Reset)
    /\ WF_vars(HwAccept) /\ WF_vars(CuExecute)

Spec == Init /\ [][Next]_vars /\ Fairness

-----------------------------------------------------------------------------
\* CBs in the hands of the CU or completed: those from cb_to_clean on.
Queued == {i \in Slots : Dist(cb_to_clean, i) < N - cbs_avail}

TypeOK ==
    /\ cb \in [Slots -> [skb : BOOLEAN, s : BOOLEAN, complete : BOOLEAN]]
    /\ {cb_to_use, cb_to_send, cb_to_clean, gen_ptr, cu.at} \subseteq Slots
    /\ cbs_avail \in 0 .. N
    /\ cuc_cmd \in {"start", "resume"} /\ scb \in {"clear", "start", "resume"}
    /\ cu.state \in {"idle", "active", "suspended"}
    /\ call.pc \in {"none", "link", "send"} /\ call.kind \in {"none", "tx", "other", "init"}
    /\ xmit \in {"none", "ok", "ENOSPC", "ENOMEM"}
    /\ {hung, late, cleaned, stopped, task} \subseteq BOOLEAN
    /\ phase \in {"up", "init", "down", "dead"}

\* cbs_avail and the three pointers tell the same story: every CB between
\* cb_to_clean and cb_to_use is counted as used, only such CBs have an skb or
\* are complete, and an skb not yet given back is never lost.
CountMatchesRing ==
    phase \in {"up", "init"} =>
        /\ (cb_to_clean + N - cbs_avail) % N = cb_to_use
        /\ \A i \in Slots : cb[i].skb \/ cb[i].complete => i \in Queued

\* "Order is important otherwise we'll be in a race with h/w" (e100_exec_cb):
\* the CU never executes a CB that has not been queued, nor one a second time,
\* as long as the driver has CBs: a failing e100_up frees them under the CU.
CuOnQueuedOnly ==
    phase # "dead" /\ cu.state = "active" => cu.at \in Queued /\ ~cb[cu.at].complete

\* One command is enough for all CBs queued before it: once the CU has stopped
\* and no command is on its way, every CB is complete, unless the last call of
\* e100_exec_cb could not issue one, or the ring is full (then the CB the CU
\* stopped at is queued again and has its S bit back; tx_timeout_task helps).
SentIsExecuted ==
    phase # "dead" /\ cu.state = "suspended" /\ scb = "clear" /\ call.pc = "none"
        /\ ~late /\ cbs_avail # 0 => \A i \in Queued : cb[i].complete

\* The three together, with the types.
Inv == TypeOK /\ CountMatchesRing /\ CuOnQueuedOnly /\ SentIsExecuted

\* "check for tx-no-resources/stop Q races with tx clean/wake Q" (TODO list of
\* the driver): a queue that has been stopped is started again, also when the
\* CBs were taken back before it was stopped, and when the controller hangs,
\* unless the e100_up of a reset fails.
StoppedQueueWakes == stopped ~> ~stopped \/ phase = "dead"
=============================================================================
