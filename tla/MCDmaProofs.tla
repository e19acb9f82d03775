---------------------------- MODULE MCDmaProofs ----------------------------
(***************************************************************************)
(* The receive engine of MCDma, with whatever rings, buffers and bounds:   *)
(* the theorems of DmaEngineProofs hold of it in every behaviour of the    *)
(* pair, for the steps of the other engine leave it as it is.              *)
(***************************************************************************)
EXTENDS MCDma, TLAPS

\* What DmaEngineProofs assumes of the constants.
USE NAssumption, ErrModAssumption, TotalNumAssumption, BdLimitAssumption, SeqModAssumption,
    MaxPktsAssumption, FragsAssumption, HwErrorsAssumption, NULLAssumption, SessionsAssumption,
    MayUnregisterAssumption, RxMaxRxFragsAssumption DEF Rx!BufIndex, BufIndex

\* The receive engine behaves as one alone.
LEMMA RxAlone == MCSpec => Rx!Spec
<1>1. MCInit => Rx!Init
  BY DEF MCInit
<1>2. [MCNext]_<<part, vars, rxVars>> => [Rx!Next]_(Rx!vars)
  <2>1. UNCHANGED rxVars => UNCHANGED Rx!vars
    BY DEF rxVars, Rx!vars, Rx!ringVars, Rx!userVars, Rx!hVars
  <2>2. CASE MCNext
    BY <2>1, <2>2 DEF MCNext
  <2>3. CASE UNCHANGED <<part, vars, rxVars>>
    BY <2>1, <2>3
  <2> QED BY <2>2, <2>3
<1> QED BY <1>1, <1>2, PTL DEF MCSpec, Rx!Spec

\* What driver, pool and ring of an engine that receives say of a buffer agrees,
\* the user words of a packet are there when PktHandler passes it on, and
\* DmaSetupRecvBuffers never fills the ring: as long as one context runs
\* PktHandler and the user driver is not unregistered.
THEOREM ReceiverStaysSound ==
    ASSUME Rx!OneHandler, Rx!KeepsItsRing
    PROVE  MCSpec => []ReceiverSound
<1>1. Rx!Spec => []Rx!RingSound
  BY Rx!RingStaysSound
<1>2. Rx!Spec => []Rx!UserInfoArrived
  BY Rx!UserWordsComeFirst
<1>3. Rx!Spec => []Rx!HoldersAgree
  BY Rx!HoldersStayAgreed
<1> QED BY <1>1, <1>2, <1>3, RxAlone, PTL DEF ReceiverSound
=============================================================================
