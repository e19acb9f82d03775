-------------------------------- MODULE MCE100 --------------------------------
(***************************************************************************)
(* The e100 driver in one run: transmission, reception, the life of the    *)
(* interface and what is kept in the adapter.  The two rings have their own*)
(* state and locks, and an interface that goes down and comes up begins    *)
(* with fresh ones; so a behaviour is of one part, chosen at the start, and*)
(* the others stay as they are; what is kept in the adapter is two parts,  *)
(* the EEPROM and the PHYs.                                                *)
(***************************************************************************)
EXTENDS Naturals

CONSTANTS Cbs, InitCbs, Rfds, Quota, Ops, UpFails, WC, M, MaxLen, Addrs

\* The rings have at least two entries (params.cbs.min and params.rfds.min are
\* 64 and 16).
ASSUME RingsAssumption ==
    /\ Cbs \in Nat \ {0, 1} /\ Rfds \in Nat \ {0, 1}
    /\ InitCbs \in Nat /\ Quota \in Nat

\* The EEPROM has a word for the checksum and one that it sums up, and 32 is no
\* address on the MDIO bus.
ASSUME ConfigAssumption ==
    /\ WC \in Nat \ {0, 1} /\ M \in Nat \ {0} /\ MaxLen \in Nat
    /\ Addrs \subseteq 0 .. 31

ASSUME LifeAssumption ==
    Ops \subseteq {"probe", "open", "close", "ringparam", "diag", "timeout", "error", "io_resume",
                   "suspend", "resume"}

VARIABLES
    part,
    cb, cb_to_use, cb_to_send, cb_to_clean, cbs_avail, cuc_cmd, scb, gen_ptr,
    cu, hung, call, late, xmit, cleaned, stopped, task, phase,
    rx, rx_to_use, rx_to_clean, ru_running, ru, stat_ack, masked, poll,
    held, running, away, pollBit, rings, irq, watchdog, reset, todo, failed,
    dev, cache, stale, wrong, phys, phyId

Tx == INSTANCE E100Tx WITH N <- Cbs
Rx == INSTANCE E100Rx WITH N <- Rfds, RnrRace <- FALSE
Life == INSTANCE E100Life WITH poll <- pollBit, task <- reset
Config == INSTANCE E100Config

txVars == <<cb, cb_to_use, cb_to_send, cb_to_clean, cbs_avail, cuc_cmd, scb, gen_ptr,
            cu, hung, call, late, xmit, cleaned, stopped, task, phase>>
rxVars == <<rx, rx_to_use, rx_to_clean, ru_running, ru, stat_ack, masked, poll>>
lifeVars == <<held, running, away, pollBit, rings, irq, watchdog, reset, todo, failed>>
configVars == <<dev, cache, stale, wrong, phys, phyId>>

all == <<part, txVars, rxVars, lifeVars, configVars>>

MCInit ==
    /\ part \in {"tx", "rx", "life", "eeprom", "phys"}
    /\ Tx!Init /\ Rx!Init /\ Life!Init /\ Config!Init
    /\ part # "eeprom" => \A k \in 0 .. WC - 2 : dev[k] = 0
    /\ part # "phys" => \A a \in Addrs : phys[a] = "on"

MCNext ==
    /\ UNCHANGED part
    /\ \/ part = "tx" /\ Tx!Next /\ UNCHANGED <<rxVars, lifeVars, configVars>>
       \/ part = "rx" /\ Rx!Next /\ UNCHANGED <<txVars, lifeVars, configVars>>
       \/ part = "life" /\ Life!Next /\ UNCHANGED <<txVars, rxVars, configVars>>
       \/ part = "eeprom" /\ Config!Eeprom /\ UNCHANGED <<txVars, rxVars, lifeVars>>
       \/ part = "phys" /\ Config!Phys /\ UNCHANGED <<txVars, rxVars, lifeVars>>

\* The fairness of each part (see Fairness in E100Tx and E100Rx), for the
\* behaviours that are its own.
MCSpec ==
    /\ MCInit /\ [][MCNext]_all
    /\ WF_txVars(part = "tx" /\ Tx!ExecCb) /\ WF_txVars(part = "tx" /\ Tx!XmitReturn)
    /\ WF_txVars(part = "tx" /\ Tx!TxClean) /\ WF_txVars(part = "tx" /\ Tx!TxWake)
    /\ WF_txVars(part = "tx" /\ Tx!e100_tx_timeout) /\ SF_txVars(part = "tx" /\ Tx!Reset)
    /\ WF_txVars(part = "tx" /\ Tx!HwAccept) /\ WF_txVars(part = "tx" /\ Tx!CuExecute)
    /\ WF_rxVars(part = "rx" /\ ~masked /\ Rx!e100_intr) /\ WF_rxVars(part = "rx" /\ Rx!Poll)
    /\ WF_rxVars(part = "rx" /\ Rx!SwInterrupt) /\ WF_rxVars(part = "rx" /\ Rx!FrameArrives)
    /\ SF_rxVars(part = "rx" /\ Rx!Refill) /\ SF_rxVars(part = "rx" /\ Rx!Start /\ ru'.on)

-----------------------------------------------------------------------------
\* The rings: the CU is on queued CBs only, the driver's counter and pointers
\* agree and one command is enough for all CBs before it; the RU writes to blank
\* RFDs only, and leaves no gap.
RingsInv ==
    /\ part = "tx" => Tx!Inv
    /\ part = "rx" => Rx!Inv

\* The interface: probe takes all or nothing, who takes it down finds it whole
\* and who brings it up finds nothing, and the timer, the line and the lists come
\* and go together.  The EEPROM is as it was written, and one PHY is driven.
InterfaceInv ==
    /\ part = "life" => Life!Inv
    /\ part \in {"eeprom", "phys"} => Config!Inv

\* A transmit queue that has been stopped is started again, unless a reset
\* fails.
StoppedQueueWakes == (part = "tx" /\ stopped) ~> ~stopped \/ phase = "dead"

\* An RU that ran out of RFDs is restarted.
RuRestarts == Rx!RuRestarts
=============================================================================
