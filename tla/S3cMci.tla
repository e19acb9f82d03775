------------------------------- MODULE S3cMci -------------------------------
(***************************************************************************)
(* The SD/MMC host driver (mci/s3cmci.c) in the mode it probes into,       *)
(* programmed I/O: the interrupt handler, the tasklet that moves words     *)
(* between the FIFO and the request's buffers, the end of a request with   *)
(* its stop command, and probe and removal.                                *)
(*                                                                         *)
(* One CPU: the interrupt handler may come between two steps of the        *)
(* tasklet, and the next request while the tasklet is scheduled.  The      *)
(* controller and the card are external.  A status that is set and not     *)
(* masked interrupts until it is cleared.                                  *)
(***************************************************************************)
EXTENDS Integers, Sequences, FiniteSetsExt

CONSTANTS
    Segments, SegWords, \* sg_len, and the words of a segment
    FIFO,               \* the words the FIFO holds
    Clocks,             \* the clocks asked for, 0 included
    clk_rate, MaxPsc    \* of the controller, and the largest prescaler

Total == Segments * SegWords
NONE == "none"
NoReq == [data |-> "null", rsp |-> FALSE, stop |-> FALSE]

\* Commands without and with a response, reads and writes of one or several
\* blocks (these end with a stop command), and the SD_SWITCH that is suppressed.
Requests ==
    [data : {NONE}, rsp : BOOLEAN, stop : {FALSE}]
        \cup [data : {"read", "write"}, rsp : {TRUE}, stop : BOOLEAN]
        \cup [data : {"switch"}, rsp : {TRUE}, stop : {FALSE}]

VARIABLES
    host,       \* struct s3cmci_host, with the errors of the request
    hw,         \* the registers and the state of the card
    irq_off,    \* depth of disable_irq
    tasklet,    \* pio_tasklet: scheduled, and where it is
    core,       \* the MMC core: the request it waits for, what it got
    held,       \* what probe has taken
    oops        \* a NULL pointer followed

vars == <<host, hw, irq_off, tasklet, core, held, oops>>

Steps == <<"host", "mem", "base", "irq", "irq_cd", "dma", "clk", "clk_on", "added">>

Host0 ==
    [mrq |-> NoReq, cmd_is_stop |-> FALSE, complete_what |-> NONE, pio_active |-> NONE,
     pio_words |-> 0, pio_sgptr |-> 0, pio_count |-> 0, cmd_err |-> FALSE, data_err |-> FALSE,
     prescaler |-> 0]

Init ==
    /\ host = Host0
    /\ hw = [csta |-> {}, dsta |-> {}, fifo |-> 0, imsk |-> {}, cmd |-> NONE, data |-> NONE,
             bus |-> 0, pre |-> 0, cut |-> FALSE]
    /\ irq_off = 1
    /\ tasklet = [sched |-> FALSE, pc |-> "idle", mask |-> {}]
    /\ core = [busy |-> FALSE, ok |-> TRUE, whole |-> TRUE, fault |-> FALSE]
    /\ held = {} /\ oops = FALSE

Up == "added" \in held /\ ~oops

-----------------------------------------------------------------------------
(* The FIFO.                                                               *)

\* Words for which get_data_buffer still has a place.
Buffers(h) ==
    IF h.pio_active = NONE \/ h.mrq.data \notin {"read", "write"} THEN 0
    ELSE (Segments - h.pio_sgptr) * SegWords

Taken(h, n) == [h EXCEPT !.pio_count = @ + n]

\* Mutant: the tasklet is done with the FIFO when it is empty.
do_pio_read_Once(h, n) ==
    [Taken(h, Min({n, h.pio_words + Buffers(h)})) EXCEPT
        !.pio_active = NONE, !.complete_what = "FINALIZE", !.pio_words = 0]

\* do_pio_read with n words in the FIFO: a buffer that is full is replaced at
\* once, and without another one the request is done.
do_pio_read(h, n) ==
    LET rest == h.pio_words + Buffers(h) - n
    IN  IF rest <= 0
        THEN [Taken(h, n + rest) EXCEPT !.pio_active = NONE, !.complete_what = "FINALIZE",
                                        !.pio_words = 0, !.pio_sgptr = Segments]
        ELSE [Taken(h, n) EXCEPT
                !.pio_words = IF Buffers(h) = 0 THEN rest ELSE ((rest - 1) % SegWords) + 1,
                !.pio_sgptr = IF Buffers(h) = 0 THEN @ ELSE Segments - (rest - 1) \div SegWords]

\* do_pio_write with room for n words; the next buffer is fetched when the FIFO
\* has room again.
do_pio_write(h, n) ==
    LET rest == h.pio_words + Buffers(h) - n
    IN  IF rest < 0
        THEN [Taken(h, n + rest) EXCEPT !.pio_active = NONE, !.pio_words = 0,
                                        !.pio_sgptr = Segments]
        ELSE [Taken(h, n) EXCEPT
                !.pio_words = IF Buffers(h) = 0 THEN rest ELSE rest % SegWords,
                !.pio_sgptr = IF Buffers(h) = 0 THEN @ ELSE Segments - rest \div SegWords]

-----------------------------------------------------------------------------
(* Starting a request.                                                     *)

\* What the ISR waits for (s3cmci_send_command).
Awaited(cmd) ==
    IF cmd.data # NONE THEN "XFERFINISH_RSPFIN" ELSE IF cmd.rsp THEN "RSPFIN" ELSE "CMDSENT"

\* s3cmci_send_request without data: all status bits are cleared.
SendCommand(h, w, cmd) ==
    /\ host' = [h EXCEPT !.complete_what = Awaited(cmd)]
    /\ hw' = [w EXCEPT !.csta = {}, !.dsta = {}, !.imsk = @ \cup {"cmd"}, !.cmd = "start"]
    /\ irq_off' = irq_off - 1

StopCmd == [data |-> NONE, rsp |-> TRUE, stop |-> FALSE]

\* s3cmci_prepare_pio, with s3cmci_setup_data: a write fills the FIFO first, a
\* read runs with a slow clock.
SendData(h, cmd) ==
    LET ready == [h EXCEPT !.pio_sgptr = 0, !.pio_words = 0, !.pio_count = 0,
                           !.pio_active = cmd.data]
        started == [hw EXCEPT !.data = cmd.data, !.bus = 0, !.cut = FALSE,
                              !.imsk = @ \cup {"data", IF cmd.data = "read" THEN "rx" ELSE "tx"}]
    IN  IF cmd.data = "read"
        THEN SendCommand(ready, [started EXCEPT !.pre = MaxPsc], cmd)
        ELSE LET filled == do_pio_write(ready, FIFO - hw.fifo)
             IN  SendCommand(filled, [started EXCEPT !.fifo = @ + filled.pio_count], cmd)

Finished(ok, whole) == core' = [core EXCEPT !.busy = FALSE, !.ok = ok, !.whole = whole]

Asked == [host EXCEPT !.cmd_is_stop = FALSE, !.cmd_err = FALSE, !.data_err = FALSE]

\* s3cmci_request.
s3cmci_request(r) ==
    /\ Up /\ ~core.busy /\ tasklet.pc = "idle"
    /\ IF r.data = NONE THEN SendCommand([Asked EXCEPT !.mrq = r], hw, r)
       ELSE r.data # "switch" /\ SendData([Asked EXCEPT !.mrq = r], r)
    /\ core' = [core EXCEPT !.busy = TRUE, !.fault = FALSE]
    /\ UNCHANGED <<tasklet, held, oops>>

\* The two ways it ends at once: the suppressed SD_SWITCH, and a transfer that
\* is still going on after s3cmci_setup_data has reset the controller four times.
RequestOver(r) ==
    /\ Up /\ ~core.busy /\ tasklet.pc = "idle"
    /\ r.data = "switch" \/ (r.data \in {"read", "write"} /\ hw.cut)
    /\ host' = [Asked EXCEPT !.mrq = r, !.data_err = r.data # "switch",
                             !.cmd_err = r.data # "switch"]
    /\ hw' = IF r.data = "switch" THEN hw ELSE [hw EXCEPT !.csta = {}, !.dsta = {}, !.data = NONE]
    /\ core' = [core EXCEPT !.ok = r.data = "switch", !.whole = r.data = "switch",
                            !.fault = r.data # "switch"]
    /\ UNCHANGED <<irq_off, tasklet, held, oops>>

\* s3cmci_set_ios: the smallest prescaler that is slow enough.
Prescaler(clock) ==
    LET slow == {p \in 0 .. MaxPsc - 1 : clk_rate \div (2 * (p + 1)) <= clock}
    IN  IF slow = {} THEN MaxPsc ELSE Min(slow)

s3cmci_set_ios(clock) ==
    /\ Up /\ ~core.busy
    /\ host' = [host EXCEPT !.prescaler = Prescaler(clock)]
    /\ hw' = [hw EXCEPT !.pre = Prescaler(clock), !.fifo = IF clock = 0 THEN 0 ELSE @]
    /\ UNCHANGED <<irq_off, tasklet, core, held, oops>>

-----------------------------------------------------------------------------
(* s3cmci_irq.                                                             *)

Cmd == IF host.cmd_is_stop THEN StopCmd ELSE host.mrq

Asserted ==
    \/ "cmd" \in hw.imsk /\ hw.csta # {}
    \/ "data" \in hw.imsk /\ hw.dsta # {}
    \/ "tx" \in hw.imsk /\ hw.fifo <= FIFO \div 2
    \/ "rx" \in hw.imsk /\ (hw.fifo > FIFO \div 2 \/ (hw.bus = Total /\ hw.fifo > 0))

Irq == Up /\ irq_off = 0 /\ Asserted /\ UNCHANGED <<irq_off, core, held, oops>>
Expected == host.complete_what \notin {NONE, "FINALIZE"} /\ host.mrq # NoReq
Timeout == "CMDTIMEOUT" \in hw.csta

\* The response is in: what is still awaited.
Noted ==
    IF "RSPFIN" \in hw.csta /\ host.complete_what = "XFERFINISH_RSPFIN"
    THEN "XFERFINISH" ELSE host.complete_what

CmdOver ==
    \/ "CMDSENT" \in hw.csta /\ host.complete_what = "CMDSENT"
    \/ "RSPFIN" \in hw.csta /\ host.complete_what = "RSPFIN"

DataFault == Cmd.data # NONE /\ "fault" \in hw.dsta
DataOver == Cmd.data # NONE /\ "XFERFINISH" \in hw.dsta /\ Noted = "XFERFINISH"

Scheduled == tasklet' = [tasklet EXCEPT !.sched = TRUE]

\* "nothing to complete", "no active mrq".
IrqNothing ==
    /\ Irq /\ ~Expected
    /\ hw' = [hw EXCEPT !.imsk = {}]
    /\ UNCHANGED <<host, tasklet>>

\* fail_transfer.
IrqFail ==
    /\ Irq /\ Expected
    /\ Timeout \/ (~CmdOver /\ DataFault)
    /\ host' = [host EXCEPT !.cmd_err = @ \/ Timeout, !.data_err = @ \/ (~Timeout /\ DataFault),
                            !.pio_active = NONE, !.complete_what = "FINALIZE"]
    /\ hw' = [hw EXCEPT !.imsk = {}]
    /\ Scheduled

\* close_transfer.
IrqClose ==
    /\ Irq /\ Expected /\ ~Timeout
    /\ CmdOver \/ (~DataFault /\ DataOver)
    /\ host' = [host EXCEPT !.complete_what = "FINALIZE"]
    /\ hw' = [hw EXCEPT !.imsk = {}]
    /\ Scheduled

Pio == \/ host.pio_active = "write" /\ hw.fifo < FIFO
       \/ host.pio_active = "read" /\ hw.fifo > 0

\* The data has ended before the response: only that is awaited still.
StillAwaited ==
    IF Cmd.data # NONE /\ "XFERFINISH" \in hw.dsta /\ Noted = "XFERFINISH_RSPFIN"
    THEN "RSPFIN" ELSE Noted

\* clear_status_bits, after the FIFO's turn.
IrqNote ==
    /\ Irq /\ Expected /\ ~Timeout /\ ~CmdOver /\ ~DataFault /\ ~DataOver
    /\ host' = [host EXCEPT !.complete_what = StillAwaited]
    /\ hw' = [hw EXCEPT !.imsk = @ \ (IF ~Pio THEN {}
                                      ELSE IF host.pio_active = "write" THEN {"tx"} ELSE {"rx"}),
                        !.csta = @ \ {"CMDSENT", "RSPFIN"},
                        !.dsta = IF Cmd.data # NONE THEN @ \ {"XFERFINISH"} ELSE @]
    /\ tasklet' = [tasklet EXCEPT !.sched = @ \/ Pio]

-----------------------------------------------------------------------------
(* pio_tasklet.                                                            *)

At(pc) == tasklet' = [sched |-> FALSE, pc |-> pc, mask |-> hw.imsk]

TaskletRead ==
    /\ ~oops /\ tasklet.sched /\ tasklet.pc = "idle" /\ host.pio_active = "read"
    /\ LET h == do_pio_read(host, hw.fifo)
       IN  /\ host' = h
           /\ hw' = [hw EXCEPT !.fifo = @ - (h.pio_count - host.pio_count), !.pre = host.prescaler]
           /\ At(IF h.pio_active = NONE THEN "check" ELSE "rx")
    /\ UNCHANGED <<irq_off, core, held, oops>>

TaskletWrite ==
    /\ ~oops /\ tasklet.sched /\ tasklet.pc = "idle" /\ host.pio_active = "write"
    /\ LET h == do_pio_write(host, FIFO - hw.fifo)
       IN  /\ host' = h
           /\ hw' = [hw EXCEPT !.fifo = @ + (h.pio_count - host.pio_count)]
           /\ At(IF h.pio_active = NONE THEN "check" ELSE "tx")
    /\ UNCHANGED <<irq_off, core, held, oops>>

TaskletNoPio ==
    /\ ~oops /\ tasklet.sched /\ tasklet.pc = "idle" /\ host.pio_active = NONE
    /\ At("check")
    /\ UNCHANGED <<host, hw, irq_off, core, held, oops>>

\* Mutant: the FIFO's interrupt stays masked.
enable_imask_Not == {}

\* The bit enable_imask adds.
enable_imask == {tasklet.pc}

\* The second half of enable_imask: the mask that was read, and the bit.
TaskletMask ==
    /\ tasklet.pc \in {"rx", "tx"}
    /\ hw' = [hw EXCEPT !.imsk = tasklet.mask \cup enable_imask]
    /\ tasklet' = [tasklet EXCEPT !.pc = "check"]
    /\ UNCHANGED <<host, irq_off, core, held, oops>>

TaskletEnd ==
    /\ tasklet.pc = "check" /\ host.complete_what # "FINALIZE"
    /\ tasklet' = [tasklet EXCEPT !.pc = "idle"]
    /\ UNCHANGED <<host, hw, irq_off, core, held, oops>>

\* "unfinished": the words that have not been moved make the request fail.
Unfinished == host.pio_active # NONE

Cleaned(w) == [w EXCEPT !.imsk = {}, !.cmd = NONE, !.data = NONE, !.pre = host.prescaler,
                        !.cut = @ \/ w.data # NONE]

\* finalize_request, with the tasklet's disable_irq.
Finalize ==
    /\ tasklet.pc = "check" /\ host.complete_what = "FINALIZE"
    /\ ~(Unfinished /\ host.mrq.data \notin {"read", "write"})
    /\ LET data == Cmd.data # NONE
           h == [host EXCEPT !.data_err = @ \/ Unfinished \/ (data /\ host.cmd_err)]
           has_data == host.mrq.data # NONE
       IN  IF data /\ host.mrq.stop
           THEN /\ LET w == Cleaned(hw)
                   IN  /\ host' = [h EXCEPT !.cmd_is_stop = TRUE, !.complete_what = "RSPFIN",
                                            !.cmd_err = FALSE]
                       /\ hw' = [w EXCEPT !.csta = {}, !.dsta = {}, !.imsk = {"cmd"},
                                          !.cmd = "start"]
                /\ UNCHANGED <<irq_off, core>>
           ELSE /\ host' = [h EXCEPT !.complete_what = NONE, !.mrq = NoReq]
                /\ hw' = [Cleaned(hw) EXCEPT !.fifo = IF has_data /\ h.data_err THEN 0 ELSE @]
                /\ irq_off' = irq_off + 1
                /\ Finished(~h.data_err /\ ~h.cmd_err,
                            has_data => h.data_err \/ (h.pio_count = Total /\ hw.bus = Total))
    /\ tasklet' = [tasklet EXCEPT !.pc = "idle"]
    /\ UNCHANGED <<held, oops>>

\* The same, when the FIFO's turn left over from an earlier request has no data
\* to blame: mrq->data is followed though it is NULL.
FinalizeNull ==
    /\ tasklet.pc = "check" /\ host.complete_what = "FINALIZE"
    /\ Unfinished /\ host.mrq.data \notin {"read", "write"}
    /\ oops' = TRUE
    /\ UNCHANGED <<host, hw, irq_off, tasklet, core, held>>

-----------------------------------------------------------------------------
(* Probe and removal.                                                      *)

\* The order of the labels, and the one to which a failing step goes.
Unwind == <<"clk_on", "clk", "dma", "irq_cd", "irq", "base", "mem", "host">>
Label == [host |-> 9, mem |-> 8, base |-> 7, irq |-> 6, irq_cd |-> 5, dma |-> 4, clk |-> 3,
          clk_on |-> 2, added |-> 1]

s3cmci_probe ==
    /\ held = {} /\ ~oops /\ ~tasklet.sched /\ tasklet.pc = "idle"
    /\ \/ /\ held' = {Steps[i] : i \in DOMAIN Steps}
          /\ host' = [Host0 EXCEPT !.prescaler = Prescaler(0)]     \* mmc_add_host powers off
          /\ hw' = [hw EXCEPT !.pre = Prescaler(0)]
       \/ /\ \E i \in DOMAIN Steps :
               held' = {Steps[j] : j \in 1 .. i - 1}
                           \ {Unwind[j] : j \in Label[Steps[i]] .. Len(Unwind)}
          /\ UNCHANGED <<host, hw>>
    /\ UNCHANGED <<irq_off, tasklet, core, oops>>

\* Nothing waits for the tasklet; that it is not scheduled is an assumption.
s3cmci_remove ==
    /\ Up /\ ~core.busy /\ ~tasklet.sched /\ tasklet.pc = "idle"
    /\ held' = {}
    /\ UNCHANGED <<host, hw, irq_off, tasklet, core, oops>>

-----------------------------------------------------------------------------
(* The controller and the card.                                            *)

Hardware == ~oops /\ UNCHANGED <<host, irq_off, tasklet, held, oops>>

HwCmd ==
    /\ Hardware /\ hw.cmd \in {"start", "wait"}
    /\ hw' = IF hw.cmd = "start"
             THEN [hw EXCEPT !.csta = @ \cup {"CMDSENT"}, !.cmd = IF Cmd.rsp THEN "wait" ELSE NONE]
             ELSE [hw EXCEPT !.csta = @ \cup {"RSPFIN"}, !.cmd = "over"]
    /\ UNCHANGED core

HwTimeout ==
    /\ Hardware /\ hw.cmd = "wait"
    /\ hw' = [hw EXCEPT !.csta = @ \cup {"CMDTIMEOUT"}, !.cmd = "dead"]
    /\ core' = [core EXCEPT !.fault = TRUE]

\* A read begins after the command, a write after the response.
HwData ==
    /\ Hardware /\ UNCHANGED core
    /\ \/ /\ hw.data = "read" /\ hw.cmd \in {"wait", "over"} /\ hw.fifo < FIFO /\ hw.bus < Total
          /\ hw' = [hw EXCEPT !.fifo = @ + 1, !.bus = @ + 1]
       \/ /\ hw.data = "write" /\ hw.cmd = "over" /\ hw.fifo > 0 /\ hw.bus < Total
          /\ hw' = [hw EXCEPT !.fifo = @ - 1, !.bus = @ + 1]
       \/ /\ hw.data # NONE /\ hw.bus = Total
          /\ hw' = [hw EXCEPT !.dsta = @ \cup {"XFERFINISH"}, !.data = NONE]

\* CRC, FIFO failure, data timeout.
HwFault ==
    /\ Hardware /\ hw.data # NONE /\ hw.cmd \in {"wait", "over"}
    /\ hw' = [hw EXCEPT !.dsta = @ \cup {"fault"}, !.data = NONE]
    /\ core' = [core EXCEPT !.fault = TRUE]

Tasklet == TaskletRead \/ TaskletWrite \/ TaskletNoPio \/ TaskletMask \/ TaskletEnd \/ Finalize
               \/ FinalizeNull
IrqAny == IrqNothing \/ IrqFail \/ IrqClose \/ IrqNote

Next ==
    \/ \E r \in Requests : s3cmci_request(r) \/ RequestOver(r)
    \/ \E c \in Clocks : s3cmci_set_ios(c)
    \/ IrqNothing \/ IrqFail \/ IrqClose \/ IrqNote
    \/ Tasklet
    \/ s3cmci_probe \/ s3cmci_remove
    \/ HwCmd \/ HwTimeout \/ HwData \/ HwFault

\* The interrupt is taken, the tasklet runs, and the card goes on if it can.
Fairness == WF_vars(IrqAny) /\ WF_vars(Tasklet) /\ WF_vars(HwCmd) /\ WF_vars(HwData)
Spec == Init /\ [][Next]_vars /\ Fairness

-----------------------------------------------------------------------------
TypeOK ==
    /\ hw.fifo \in 0 .. FIFO /\ hw.bus \in 0 .. Total /\ irq_off \in 0 .. 1
    /\ host.pio_words \in 0 .. SegWords /\ host.pio_sgptr \in 0 .. Segments
    /\ host.pio_count \in 0 .. Total

\* A request that is reported without an error was moved to its last word.
SuccessIsWhole == core.ok => core.whole

\* The interrupt is enabled exactly while a command is on its way, however often
\* the tasklet was scheduled.
IrqBalanced ==
    /\ ~core.busy => irq_off = 1
    /\ core.busy => irq_off = 0 /\ host.mrq # NoReq /\ host.complete_what # NONE

\* The slow clock of a read never outlives it.
ClockRestored == hw.pre # host.prescaler => core.busy /\ host.mrq.data = "read"

\* A probe that fails has given everything back.
ProbeCleansUp == held # {} => "added" \in held

\* All of them.
Inv == TypeOK /\ SuccessIsWhole /\ IrqBalanced /\ ClockRestored /\ ProbeCleansUp

\* A request that was accepted ends, although nothing but interrupts, masked and
\* unmasked on three paths, drives it.
RequestEnds == core.busy ~> ~core.busy \/ oops

\* "->error"-fields "are only set, when an error contition comes up": a request
\* fails only if the card or the controller reported something.
OnlyFaultsFail == ~core.busy /\ ~core.ok => core.fault
=============================================================================
