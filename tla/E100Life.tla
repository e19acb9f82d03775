------------------------------- MODULE E100Life -------------------------------
(***************************************************************************)
(* The life of an e100 interface (e100.c): probe and removal, open and     *)
(* close, the operations that take a running interface down and up again   *)
(* (set_ringparam, diag_test, tx_timeout_task), power management and the   *)
(* recovery from PCI errors.                                               *)
(*                                                                         *)
(* The kernel runs open, close and ethtool operations one at a time (rtnl);*)
(* the work of tx_timeout_task and the PM and PCI callbacks come in beside *)
(* them.  e100_down sets the device's poll bit and e100_up clears it.      *)
(***************************************************************************)
EXTENDS Naturals, Sequences, FiniteSets

CONSTANTS
    Ops,        \* operations that may happen
    UpFails     \* operations in which e100_up may fail

Threads == {"rtnl", "work", "pm"}
ThreadOf(o) == CASE o = "timeout" -> "work"
                 [] o \in {"suspend", "resume", "error", "io_resume"} -> "pm"
                 [] OTHER -> "rtnl"

VARIABLES
    held,       \* what e100_probe has acquired
    running,    \* netif_running
    away,       \* the device has been detached: "no", "suspend" or "error"
    poll,       \* the poll bit: taken by netif_poll_disable
    rings,      \* lists allocated by e100_up: RFDs and CBs
    irq,        \* the interrupt line has been requested
    watchdog,   \* the timer is armed
    task,       \* tx_timeout_task is scheduled
    todo,       \* what each thread has still to do
    failed      \* the e100_up of a recovery has failed, and nothing was said

vars == <<held, running, away, poll, rings, irq, watchdog, task, todo, failed>>

Init ==
    /\ held = {}
    /\ running = FALSE /\ away = "no"
    /\ poll = FALSE /\ rings = FALSE /\ irq = FALSE /\ watchdog = FALSE
    /\ task = FALSE
    /\ todo = [t \in Threads |-> <<>>]
    /\ failed = FALSE

-----------------------------------------------------------------------------
(* e100_probe and e100_remove.                                             *)

\* What the labels err_out_free_dev .. err_out_free give back, from the last.
Undone == <<"netdev", "pdev", "regions", "csr", "mem">>
Resources == {Undone[k] : k \in DOMAIN Undone}

\* The steps of e100_probe that can fail, in their order, with what each
\* acquires and how many of the labels its error exit runs through:
\* alloc_etherdev, pci_enable_device, the test of BAR 0, pci_request_regions,
\* pci_set_dma_mask, ioremap, e100_alloc, and then the EEPROM, the MAC address
\* and register_netdev.
ProbeSteps == <<
    [takes |-> {"netdev"},  undo |-> 0], [takes |-> {"pdev"}, undo |-> 1],
    [takes |-> {},          undo |-> 2], [takes |-> {"regions"}, undo |-> 2],
    [takes |-> {},          undo |-> 3], [takes |-> {"csr"}, undo |-> 3],
    [takes |-> {"mem"},     undo |-> 4], [takes |-> {}, undo |-> 5] >>

Taken(n) == UNION {ProbeSteps[k].takes : k \in 1 .. n}

e100_probe ==
    /\ "probe" \in Ops /\ held = {}
    /\ \/ held' = Taken(Len(ProbeSteps))
       \/ \E k \in DOMAIN ProbeSteps :      \* step k fails
             held' = Taken(k - 1) \ {Undone[j] : j \in 1 .. ProbeSteps[k].undo}
    /\ UNCHANGED <<running, away, poll, rings, irq, watchdog, task, todo, failed>>

\* unregister_netdev has closed the interface.  The work is not waited for, and
\* a device that is away is not removed in the model; see the README.
e100_remove ==
    /\ held = Resources /\ ~running /\ ~task /\ away = "no"
    /\ \A t \in Threads : todo[t] = <<>>
    /\ held' = {}
    /\ poll' = FALSE                         \* with the next device
    /\ UNCHANGED <<running, away, rings, irq, watchdog, task, todo, failed>>

-----------------------------------------------------------------------------
(* The operations, as the steps of e100_down and e100_up they take.        *)

Turn(o, x) == [op |-> o, step |-> x]

DownUp(o) == <<Turn(o, "poll_disable"), Turn(o, "down"), Turn(o, "up"), Turn(o, "poll_enable")>>

At(t, step) == todo[t] # <<>> /\ Head(todo[t]).step = step
Advance(t) == todo' = [todo EXCEPT ![t] = Tail(@)]

\* What an operation does with an interface that is up, or is not.  The error
\* handler calls netdev->stop, e100_close, for every interface.
Steps(o) ==
    CASE o = "open" -> <<Turn(o, "up"), Turn(o, "poll_enable")>>
      [] o = "close" -> <<Turn(o, "poll_disable"), Turn(o, "down")>>
      [] o = "error" -> <<Turn(o, "poll_disable"), Turn(o, "down"), Turn(o, "poll_enable")>>
      [] o = "ringparam" -> IF running THEN DownUp(o) ELSE <<>>
      [] o = "diag" -> IF running
            THEN <<Turn(o, "poll_disable"), Turn(o, "down"), Turn(o, "loopback"),
                   Turn(o, "loopback"), Turn(o, "up"), Turn(o, "poll_enable")>>
            ELSE <<Turn(o, "loopback"), Turn(o, "loopback")>>
      [] o = "timeout" -> DownUp(o)
      [] o = "suspend" -> IF running THEN <<Turn(o, "poll_disable"), Turn(o, "free_irq")>>
                                     ELSE <<Turn(o, "free_irq")>>
      [] o = "resume" -> IF running THEN <<Turn(o, "up"), Turn(o, "poll_enable")>> ELSE <<>>
      [] o = "io_resume" -> IF running
            THEN <<Turn(o, "up"), Turn(o, "poll_enable"), Turn(o, "mod_timer")>> ELSE <<>>

\* What is left of an operation whose e100_up has failed: e100_io_resume arms
\* the timer all the same.
AfterFailure(o) == IF o = "io_resume" THEN <<Turn(o, "mod_timer")>> ELSE <<>>

\* When the kernel calls it.  User space stands still while the PM and the
\* PCI callbacks run.  Assumed: an error is not reported during a reset or an
\* operation of user space, and the interface is not closed before the recovery
\* has ended.
MayStart(o) ==
    /\ held = Resources
    /\ o \in Ops
    /\ CASE o = "open" -> away = "no" /\ ~running
         [] o = "close" -> away = "no" /\ running
         [] o = "timeout" -> task
         [] o = "error" -> /\ away = "no" /\ todo["rtnl"] = <<>>
                           /\ ~task /\ todo["work"] = <<>>
         [] o = "suspend" -> away = "no" /\ todo["rtnl"] = <<>>
         [] o = "resume" -> away = "suspend"
         [] o = "io_resume" -> away = "error"
         [] OTHER -> away = "no"
    /\ ThreadOf(o) = "rtnl" => todo["pm"] = <<>>

Start(o) ==
    LET t == ThreadOf(o)
    IN  /\ todo[t] = <<>>
        /\ MayStart(o)
        /\ todo' = [todo EXCEPT ![t] = Steps(o)]
        /\ running' = CASE o = "open" -> TRUE [] o = "close" -> FALSE [] OTHER -> running
        /\ away' = CASE o \in {"suspend", "error"} -> o
                     [] o \in {"resume", "io_resume"} -> "no" [] OTHER -> away
        /\ task' = IF o = "timeout" THEN FALSE ELSE task
        /\ UNCHANGED <<held, poll, rings, irq, watchdog, failed>>

\* e100_tx_timeout schedules the work when the queue has been stopped for
\* E100_WATCHDOG_PERIOD with a carrier, so not in the short time of the last steps
\* of e100_up and e100_io_resume; the carrier is there once the driver's watchdog
\* has run, and may still be there while the poll bit is taken.
Schedule ==
    /\ "timeout" \in Ops
    /\ \A t \in Threads : ~At(t, "poll_enable") /\ ~At(t, "mod_timer")
    /\ running /\ away = "no" /\ (watchdog \/ poll)
    /\ task' = TRUE
    /\ UNCHANGED <<held, running, away, poll, rings, irq, watchdog, todo, failed>>

-----------------------------------------------------------------------------
(* The steps.                                                              *)

\* Mutant: "wait here for poll to complete" is left out.
PollFree_Always == TRUE

PollFree == ~poll

\* netif_poll_disable waits for the bit.
PollDisable(t) ==
    /\ At(t, "poll_disable")
    /\ PollFree
    /\ poll' = TRUE
    /\ Advance(t)
    /\ UNCHANGED <<held, running, away, rings, irq, watchdog, task, failed>>

\* The rest of e100_down: the controller is reset, the line freed, the timer
\* deleted and the lists given back.
Down(t) ==
    /\ At(t, "down")
    /\ rings' = FALSE /\ irq' = FALSE /\ watchdog' = FALSE
    /\ failed' = FALSE
    /\ Advance(t)
    /\ UNCHANGED <<held, running, away, poll, task>>

\* e100_up until the line has been requested; if it fails it gives everything
\* back, and the operation ends, the poll bit as it was.
Up(t) ==
    LET o == Head(todo[t]).op
    IN  /\ At(t, "up")
        /\ \/ /\ rings' = TRUE /\ irq' = TRUE /\ watchdog' = TRUE
              /\ failed' = FALSE
              /\ Advance(t)
              /\ UNCHANGED running
           \/ /\ o \in UpFails
              /\ rings' = FALSE /\ watchdog' = FALSE
              /\ todo' = [todo EXCEPT ![t] = AfterFailure(o)]
              /\ running' = (running /\ o # "open")
              /\ failed' = (o = "io_resume")
              /\ UNCHANGED irq
        /\ UNCHANGED <<held, away, poll, task>>

PollEnable(t) ==
    /\ At(t, "poll_enable")
    /\ poll' = FALSE
    /\ Advance(t)
    /\ UNCHANGED <<held, running, away, rings, irq, watchdog, task, failed>>

\* The end of e100_io_resume.
ModTimer(t) ==
    /\ At(t, "mod_timer")
    /\ watchdog' = TRUE
    /\ Advance(t)
    /\ UNCHANGED <<held, running, away, poll, rings, irq, task, failed>>

\* e100_loopback_test has lists of its own for the time of the test.
Loopback(t) ==
    /\ At(t, "loopback")
    /\ rings' = FALSE
    /\ Advance(t)
    /\ UNCHANGED <<held, running, away, poll, irq, watchdog, task, failed>>

\* The end of e100_suspend: the lists stay.
FreeIrq(t) ==
    /\ At(t, "free_irq")
    /\ irq' = FALSE /\ watchdog' = FALSE
    /\ Advance(t)
    /\ UNCHANGED <<held, running, away, poll, rings, task, failed>>

-----------------------------------------------------------------------------
Step(t) == PollDisable(t) \/ Down(t) \/ Up(t) \/ PollEnable(t) \/ ModTimer(t)
            \/ Loopback(t) \/ FreeIrq(t)

Next ==
    \/ e100_probe \/ e100_remove \/ Schedule
    \/ \E o \in Ops \ {"probe"} : Start(o)
    \/ \E t \in Threads : Step(t)

Spec == Init /\ [][Next]_vars

-----------------------------------------------------------------------------
TypeOK ==
    /\ {running, poll, rings, irq, watchdog, task, failed} \subseteq BOOLEAN
    /\ away \in {"no", "suspend", "error"}
    /\ held \subseteq Resources
    /\ \A t \in Threads : Len(todo[t]) <= 6

\* The error exits of e100_probe give back all they have acquired, and only
\* that.
ProbeAllOrNothing == held \in {{}, Resources}

Whole == rings /\ irq /\ watchdog
Gone == ~rings /\ ~irq /\ ~watchdog

\* Whoever takes the interface down finds it whole, so that no line is freed
\* twice: the poll bit keeps the work of tx_timeout_task and the operations that
\* take it down and up out of each other's way, whatever e100_up fails.  Only
\* the error handler also takes down an interface that is not running, and a
\* recovery may have failed and given back the poll bit; see the README.
DownFindsAll ==
    \A t \in Threads : At(t, "down") =>
        Whole \/ failed \/ (Head(todo[t]).op = "error" /\ ~running)

\* Whoever brings it up finds nothing, so that no list is allocated over one in
\* use and no line requested twice; but e100_resume finds the lists.  The test
\* of diag_test too has the lists to itself.
UpFindsNone ==
    \A t \in Threads :
        /\ At(t, "up") => Gone \/ (Head(todo[t]).op = "resume" /\ ~irq /\ ~watchdog)
        /\ At(t, "loopback") => Gone

\* The timer, the line and the lists come and go together, so that neither the
\* watchdog nor the interrupt finds the lists gone; a device that is away, or
\* whose poll bit is taken, may have the lists alone, and after a recovery that
\* has failed the timer runs alone.
UpTogether ==
    \/ Whole \/ Gone
    \/ rings /\ ~irq /\ ~watchdog /\ running /\ poll
    \/ failed /\ ~rings /\ ~irq

\* What holds in every state: the types, the exits of e100_probe and the
\* resources of an interface that is taken down and up.
Inv == TypeOK /\ ProbeAllOrNothing /\ DownFindsAll /\ UpFindsNone /\ UpTogether
=============================================================================
