------------------------------- MODULE MCDma -------------------------------
(***************************************************************************)
(* One engine of each direction, in steady use under the fairness of       *)
(* DmaEngine (MCSpec), or the S2C engine alone, through the life of its    *)
(* driver (TxSpec): the S2C engine by the names of that module, the C2S    *)
(* engine with variables of its own and with its theorems.  They share no  *)
(* state in the code but DmaLock, which every action has to itself; so a   *)
(* behaviour is of one of them, chosen at the start, and the other stays   *)
(* as it is.                                                               *)
(***************************************************************************)
EXTENDS DmaEngine

CONSTANT RxMaxRxFrags    \* MaxRxFrags of the C2S engine

ASSUME RxMaxRxFragsAssumption == RxMaxRxFrags \in Nat \ {0}

VARIABLES
    part,
    rxRing, rxBd, rxRegs, rxSpace, rxState, rxFault, rxBufs, rxSeqNo,
    rxUpc, rxUlist, rxUsent, rxUpkts, rxUfree, rxHpc, rxHpkts, rxRxFrag, rxSession

Rx == INSTANCE DmaEngineProofs
    WITH IsRxChannel <- TRUE, MaxRxFrags <- RxMaxRxFrags,
         ring <- rxRing, bd <- rxBd, regs <- rxRegs, space <- rxSpace,
         EngineState <- rxState, memFault <- rxFault, bufs <- rxBufs,
         TxSeqNo <- rxSeqNo, upc <- rxUpc, ulist <- rxUlist, usent <- rxUsent,
         upkts <- rxUpkts, ufree <- rxUfree, hpc <- rxHpc, hpkts <- rxHpkts,
         rxFrag <- rxRxFrag, session <- rxSession

rxVars == <<rxRing, rxBd, rxRegs, rxSpace, rxState, rxFault, rxBufs, rxSeqNo,
            rxUpc, rxUlist, rxUsent, rxUpkts, rxUfree, rxHpc, rxHpkts, rxRxFrag,
            rxSession>>

MCInit ==
    /\ part \in {"tx", "rx"}
    /\ Init /\ Rx!Init

MCNext ==
    /\ UNCHANGED part
    /\ \/ part = "tx" /\ Next /\ UNCHANGED rxVars
       \/ part = "rx" /\ Rx!Next /\ UNCHANGED vars

\* The fairness of each engine, for the behaviours that are its own.
MCSpec ==
    /\ MCInit /\ [][MCNext]_<<part, vars, rxVars>>
    /\ \A h \in Handlers :
          /\ WF_vars(part = "tx" /\ Handler(h))
          /\ WF_rxVars(part = "rx" /\ Rx!Handler(h))
    /\ WF_vars(part = "tx" /\ UserCall) /\ WF_rxVars(part = "rx" /\ Rx!UserCall)
    /\ WF_vars(part = "tx" /\ HwTransmit)
    /\ \A i \in Rx!BdIndex : WF_rxVars(part = "rx" /\ Rx!HwUserWord(i))

\* The S2C engine alone, whatever its driver does.
TxInit == part = "tx" /\ Init /\ Rx!Init
TxSpec == TxInit /\ [][MCNext]_<<part, vars, rxVars>>

-----------------------------------------------------------------------------
(* What RingSound, SeqNosConsecutive and BuffersComeBack say of the S2C     *)
(* engine is checked by those names; of the C2S engine:                     *)

\* Its ring is sound, the user words of a received packet have arrived when it is
\* handed to the user driver, and driver, engine and pool agree on who holds what.
ReceiverSound == Rx!RingSound /\ Rx!UserInfoArrived /\ Rx!HoldersAgree

\* A received packet is delivered.
PacketsDelivered == Rx!ReceivedIsDelivered

\* The receive ring is filled again and again.
RingReplenished == Rx!RxRingReplenished
=============================================================================
