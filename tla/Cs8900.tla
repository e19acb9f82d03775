------------------------------- MODULE Cs8900 -------------------------------
(***************************************************************************)
(* The CS8900A network driver (net_driver/cs8900.c), built for the         *)
(* S3C2410 board: one CPU, no EEPROM.                                      *)
(*                                                                         *)
(* The chip's registers are reached through two ports, an address and a    *)
(* datum.  cs8900_send_start disables interrupts around its accesses; the  *)
(* other functions do not, and the interrupt handler, which ends with the  *)
(* address of the ISQ, may come between the two halves of an access.       *)
(*                                                                         *)
(* The interrupt line is triggered by its rising edge, which the interrupt *)
(* controller keeps even while nobody has asked for it.  Counters are left *)
(* out but for the one the race on txlen is about.                         *)
(***************************************************************************)
EXTENDS Naturals, Sequences

CONSTANT MaxIsq         \* events the chip queues; more are merged into these

Events == {"rx", "rx_bad", "tx_ok", "tx_err", "underrun", "miss"}

\* The accesses of a function of process context: <<register, what is done>>.
\* "on" and "off" are cs8900_set and cs8900_clear of the mode, "zero" is
\* cs8900_write of 0, "cfg" sets the bits of cs8900_start.  The other registers,
\* and MulticastA, are set in the same way.
SetMode(on) == <<<<"RxCTL", "read">>, <<"RxCTL", IF on THEN "on" ELSE "off">>>>
StartProg == <<<<"RxCTL", "read">>, <<"RxCTL", "cfg">>, <<"BusCTL", "read">>, <<"BusCTL", "cfg">>>>
StopProg == <<<<"BusCTL", "zero">>, <<"RxCTL", "zero">>>>

VARIABLES
    dev,        \* "absent", "down", "up"; between them what is going on
    prog,       \* the accesses that are left
    half,       \* the register of the next access has been selected
    val,        \* what the last read of process context gave
    addr,       \* PP_Address
    regs,       \* RxCTL and BusCTL, as sets of bits
    isq,        \* events queued in the chip
    irq,        \* [line, edge, handler]: the line, a kept edge, request_irq
    queue,      \* "awake", "stopped"
    tx,         \* the chip's transmit buffer: "free", "busy"
    sender,     \* cs8900_send_start after the lock: "idle", "len"
    txlen,      \* priv->txlen
    mode,       \* IFF_PROMISC as the core wants it
    hit,        \* an interrupt came between the halves of an access
    region      \* request_mem_region

vars == <<dev, prog, half, val, addr, regs, isq, irq, queue, tx, sender, txlen, mode, hit, region>>
chip == <<addr, regs, isq, irq, tx>>

Init ==
    /\ dev = "absent" /\ prog = <<>> /\ half = FALSE /\ val = {} /\ addr = "ISQ"
    /\ regs = [RxCTL |-> {}, BusCTL |-> {}]
    /\ isq = <<>> /\ irq = [line |-> FALSE, edge |-> FALSE, handler |-> FALSE]
    /\ queue = "stopped" /\ tx = "free" /\ sender = "idle" /\ txlen = FALSE
    /\ mode = FALSE /\ hit = FALSE /\ region = FALSE

-----------------------------------------------------------------------------
(* The chip (external).                                                    *)

\* The line is up while an event waits and requests are enabled.
Line(q, r) == q # <<>> /\ "EnableRQ" \in r.BusCTL

Raised(q, r) == [irq EXCEPT !.line = Line(q, r), !.edge = @ \/ (Line(q, r) /\ ~irq.line)]

ChipEvent(e) ==
    /\ Len(isq) < MaxIsq
    /\ e \in {"rx", "rx_bad", "miss"} => "RxOKA" \in regs.RxCTL
    /\ e \in {"tx_ok", "tx_err", "underrun"} => tx = "busy"
    /\ tx' = IF e \in {"tx_ok", "tx_err", "underrun"} THEN "free" ELSE tx
    /\ isq' = Append(isq, e)
    /\ irq' = Raised(isq', regs)
    /\ UNCHANGED <<dev, prog, half, val, addr, regs, queue, sender, txlen, mode, hit, region>>

-----------------------------------------------------------------------------
(* The interrupt handler.                                                  *)

\* Mutant: one event for each interrupt.
Left_Tail(q) == Tail(q)

\* The ISQ is read until it is empty.
Left(q) == <<>>

Handled == {isq[i] : i \in 1 .. Len(isq) - Len(Left(isq))}

\* TxOK and an underrun wake the queue; another transmit error is left to the
\* watchdog.  cs8900_receive touches the chip only.
cs8900_interrupt ==
    /\ irq.edge /\ irq.handler /\ isq # <<>>
    /\ isq' = Left(isq)
    /\ irq' = [irq EXCEPT !.edge = FALSE, !.line = Line(isq', regs)]
    /\ queue' = IF Handled \cap {"tx_ok", "underrun"} # {} THEN "awake" ELSE queue
    /\ txlen' = (txlen /\ Handled \cap {"tx_ok", "underrun"} = {})
    /\ addr' = "ISQ"
    /\ hit' = (hit \/ half)
    /\ UNCHANGED <<dev, prog, half, val, regs, tx, sender, mode, region>>

-----------------------------------------------------------------------------
(* Transmission.                                                           *)

\* cs8900_send_start under the lock: the queue is stopped whatever happens; a
\* bid that fails leaves it so.  The core's xmit_lock keeps it apart from
\* cs8900_set_receive_mode.
cs8900_send_start ==
    /\ dev = "up" /\ queue = "awake" /\ sender = "idle" /\ prog = <<>>
    /\ queue' = "stopped" /\ addr' = "BusST"
    /\ \/ tx = "free" /\ tx' = "busy" /\ sender' = "len" /\ txlen' = txlen
       \/ txlen' = FALSE /\ UNCHANGED <<tx, sender>>        \* TxBidErr, or not Rdy4TxNOW
    /\ UNCHANGED <<dev, prog, half, val, regs, isq, irq, mode, hit, region>>

\* Its last assignment, after the lock: the interrupt may have come and gone.
SetTxlen ==
    /\ sender = "len"
    /\ sender' = "idle" /\ txlen' = TRUE
    /\ UNCHANGED <<dev, prog, half, val, addr, regs, isq, irq, queue, tx, mode, hit, region>>

cs8900_transmit_timeout ==
    /\ dev = "up" /\ queue = "stopped" /\ sender = "idle"
    /\ queue' = "awake" /\ txlen' = FALSE
    /\ UNCHANGED <<dev, prog, half, val, addr, regs, isq, irq, tx, sender, mode, hit, region>>

-----------------------------------------------------------------------------
(* Process context, one port at a time.                                    *)

\* outw (reg, PP_Address).
Select ==
    /\ prog # <<>> /\ ~half /\ sender = "idle"
    /\ addr' = Head(prog)[1] /\ half' = TRUE
    /\ UNCHANGED <<dev, prog, val, regs, isq, irq, queue, tx, sender, txlen, mode, hit, region>>

Written(op) ==
    CASE op = "on" -> val \cup {"PromiscuousA"}
      [] op = "off" -> val \ {"PromiscuousA"}
      [] op = "zero" -> {}
      [] op = "cfg" -> val \cup (IF Head(prog)[1] = "RxCTL" THEN {"RxOKA"} ELSE {"EnableRQ"})

\* inw or outw of PP_Data, whatever register the address is at by now.
Access ==
    /\ half
    /\ IF Head(prog)[2] = "read"
       THEN /\ val' = IF addr \in DOMAIN regs THEN regs[addr] ELSE {}
            /\ UNCHANGED <<regs, irq>>
       ELSE /\ regs' = IF addr \in DOMAIN regs THEN [regs EXCEPT ![addr] = Written(Head(prog)[2])]
                       ELSE regs
            /\ irq' = Raised(isq, regs')
            /\ val' = {}
    /\ prog' = Tail(prog) /\ half' = FALSE
    /\ UNCHANGED <<dev, addr, isq, queue, tx, sender, txlen, mode, hit, region>>

\* cs8900_set_receive_mode, called by the core when the flags change.
cs8900_set_receive_mode(on) ==
    /\ dev = "up" /\ prog = <<>> /\ sender = "idle" /\ on # mode
    /\ mode' = on /\ prog' = SetMode(on)
    /\ UNCHANGED <<dev, half, val, addr, regs, isq, irq, queue, tx, sender, txlen, hit, region>>

\* cs8900_start: the chip first, then the handler, then the queue.
cs8900_start ==
    /\ dev = "down" /\ dev' = "starting" /\ prog' = StartProg
    /\ UNCHANGED <<half, val, addr, regs, isq, irq, queue, tx, sender, txlen, mode, hit, region>>

Started ==
    /\ dev = "starting" /\ prog = <<>>
    /\ \/ dev' = "up" /\ queue' = "awake" /\ irq' = [irq EXCEPT !.handler = TRUE]
       \/ dev' = "down" /\ UNCHANGED <<queue, irq>>         \* request_irq fails
    /\ UNCHANGED <<prog, half, val, addr, regs, isq, tx, sender, txlen, mode, hit, region>>

\* cs8900_stop: the core has stopped the senders.
cs8900_stop ==
    /\ dev = "up" /\ prog = <<>> /\ sender = "idle"
    /\ dev' = "stopping" /\ prog' = StopProg
    /\ UNCHANGED <<half, val, addr, regs, isq, irq, queue, tx, sender, txlen, mode, hit, region>>

\* netif_stop_queue, after free_irq.
Stopped == "stopped"

StopEnds ==
    /\ dev = "stopping" /\ prog = <<>>
    /\ dev' = "down" /\ irq' = [irq EXCEPT !.handler = FALSE] /\ queue' = Stopped
    /\ mode' = FALSE
    /\ UNCHANGED <<prog, half, val, addr, regs, isq, tx, sender, txlen, hit, region>>

-----------------------------------------------------------------------------
(* Loading and unloading.                                                  *)

\* cs8900_init with cs8900_probe: what fails after request_mem_region leaves the
\* region taken, and the next attempt fails on it.
cs8900_init ==
    /\ dev = "absent" /\ ~region
    /\ region' = TRUE
    /\ dev' \in {"down", "absent"}
    /\ UNCHANGED <<prog, half, val, addr, regs, isq, irq, queue, tx, sender, txlen, mode, hit>>

cs8900_cleanup ==
    /\ dev = "down"
    /\ dev' = "absent" /\ region' = FALSE
    /\ UNCHANGED <<prog, half, val, addr, regs, isq, irq, queue, tx, sender, txlen, mode, hit>>

Next ==
    \/ \E e \in Events : ChipEvent(e)
    \/ cs8900_interrupt
    \/ cs8900_send_start \/ SetTxlen \/ cs8900_transmit_timeout
    \/ Select \/ Access
    \/ \E on \in BOOLEAN : cs8900_set_receive_mode(on)
    \/ cs8900_start \/ Started \/ cs8900_stop \/ StopEnds
    \/ cs8900_init \/ cs8900_cleanup

Process == Select \/ Access \/ SetTxlen \/ Started \/ StopEnds

\* The interrupt is taken, functions go on, the watchdog runs.
Fairness ==
    /\ WF_vars(cs8900_interrupt)
    /\ WF_vars(Process)
    /\ WF_vars(cs8900_transmit_timeout)

Spec == Init /\ [][Next]_vars /\ Fairness

-----------------------------------------------------------------------------
TypeOK ==
    /\ dev \in {"absent", "down", "starting", "up", "stopping"} /\ queue \in {"awake", "stopped"}
    /\ Len(isq) <= MaxIsq /\ tx \in {"free", "busy"} /\ txlen \in BOOLEAN

\* As long as no interrupt has come between the halves of an access, an interface
\* that is up receives, and in the mode the core asked for.
ModeIsSet ==
    dev = "up" /\ prog = <<>> /\ ~hit =>
        /\ "RxOKA" \in regs.RxCTL /\ "EnableRQ" \in regs.BusCTL
        /\ mode <=> "PromiscuousA" \in regs.RxCTL

\* No interrupt wakes the queue of an interface that is down.
QueueOffWhenDown == dev \in {"absent", "down"} => queue = "stopped" /\ ~irq.handler

\* An interface that is up has an edge to come for the events that wait: none is
\* left behind by a handler that returned.
NoEventStuck == dev = "up" /\ irq.line => irq.edge

\* All of them.
Inv == TypeOK /\ ModeIsSet /\ QueueOffWhenDown /\ NoEventStuck

\* Whatever the chip reports, or fails to, a stopped queue wakes up.
QueueWakes == dev = "up" /\ queue = "stopped" ~> queue = "awake" \/ dev # "up"
=============================================================================
