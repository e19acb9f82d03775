------------------------------ MODULE DmaEngine ------------------------------
(***************************************************************************)
(* One DMA engine of the xdma driver, with everything that touches it:     *)
(*                                                                         *)
(*   - the user thread, a raw data driver (sguser.c): it registers, queues *)
(*     packets on an S2C engine, and unregisters (xdma_user.c,             *)
(*     descriptor_init and descriptor_free of xdma_base.c);                *)
(*   - the packet handlers: poll_routine from its timer and, in a build    *)
(*     with TH_BH_ISR, the bottom half IntrBH; both run PktHandler;        *)
(*   - the engine hardware, which walks the BDs from NEXT_BD to SW_NEXT_BD.*)
(*                                                                         *)
(* What runs under one holding of DmaLock or RawLock is one action.  The   *)
(* packet pools that PktHandler and the others borrow are module PktPool's.*)
(***************************************************************************)
EXTENDS BdRing, RawBuffers

CONSTANTS
    Handlers,       \* contexts that run PktHandler for this engine
    BdLimit,        \* DMA_BD_CNT: limit of FromHw, length of a pool's array
    SeqMod,         \* modulus of TxSeqNo (2^16 in the code)
    MaxPkts,        \* bound: packets in one DmaSetupTransmit
    Frags,          \* fragments a packet may have (RawMaxPktSize / BUFSIZE)
    MaxSessions,    \* bound: times the user driver is loaded
    AllocFails,     \* sessions in which pci_alloc_consistent may fail
    MayUnregister,  \* whether the user driver is ever unloaded
    HwErrors,       \* error flags the hardware may set in a completed BD
    MaxRxFrags      \* bound: BDs of one received packet

ASSUME BdLimitAssumption == BdLimit \in Nat /\ BdLimit >= N - 2
ASSUME SeqModAssumption == SeqMod \in Nat \ {0}
ASSUME MaxPktsAssumption == MaxPkts \in Nat
ASSUME FragsAssumption == Frags \subseteq Nat \ {0}
ASSUME HwErrorsAssumption == HwErrors \subseteq {"ERROR", "SHORT"}
ASSUME NULLAssumption == NULL \notin BufIndex
ASSUME SessionsAssumption == MaxSessions \in Nat /\ AllocFails \subseteq Nat
ASSUME MayUnregisterAssumption == MayUnregister \in BOOLEAN
ASSUME MaxRxFragsAssumption == MaxRxFrags \in Nat \ {0}

VARIABLES
    ring,       \* eptr->BdRing
    bd,         \* memory of the BDs
    regs,       \* registers: NEXT_BD, SW_NEXT_BD, and the enable bit
    space,      \* descSpaceVA: "none" (0), "live", or "freed" memory
    EngineState,
    memFault,   \* TRUE once BD memory that is not live has been used
    bufs,       \* the user driver's buffer pool (TxBufs or RxBufs)
    TxSeqNo,
    upc,        \* where the user thread is
    ulist,      \* user thread: packet buffers it is sending
    usent,      \* user thread: what DmaSendPkt returned
    upkts,      \* user thread in descriptor_free: buffers to return
    ufree,      \* user thread in descriptor_free: the set of BDs to free
    hpc,        \* where each handler is
    hpkts,      \* the packets in the pool a handler is using
    rxFrag,     \* hardware: BDs filled of the packet being received
    session

ringVars == <<ring, bd, regs, space, EngineState, memFault>>
userVars == <<upc, ulist, usent, upkts, ufree, session>>
hVars    == <<hpc, hpkts>>
vars == <<ringVars, bufs, TxSeqNo, userVars, hVars, rxFrag>>

Init ==
    /\ ring = ClearedRing
    /\ bd = [i \in BdIndex |-> ClearedBd]
    /\ regs = [NEXT_BD |-> 0, SW_NEXT_BD |-> 0, enabled |-> FALSE]
    /\ space = "none"
    /\ EngineState = "INITIALIZED"
    /\ memFault = FALSE
    /\ bufs = InitBuffers
    /\ TxSeqNo = 0
    /\ upc = "unloaded"
    /\ ulist = <<>>
    /\ usent = 0
    /\ upkts = <<>>
    /\ ufree = [n |-> 0, set |-> 0]
    /\ hpc = [h \in Handlers |-> "idle"]
    /\ hpkts = [h \in Handlers |-> <<>>]
    /\ rxFrag = 0
    /\ session = 0

\* BDs are read or written only if some BD is at stake; using memory that is
\* not live is recorded.
Uses(n) == memFault' = (memFault \/ (n > 0 /\ space # "live"))

\* handle[] holds the engine from the return of DmaRegister on.
HandleSet == upc \notin {"unloaded", "registering"}

\* Position of BD i counted from BD p.
Offset(p, i) == IF i >= p THEN i - p ELSE i - p + N

-----------------------------------------------------------------------------
(* DmaSetupRecvBuffers: gets buffers from the user driver for all but two  *)
(* of the free BDs and gives them to the hardware.                         *)

\* Mutant: three are kept.
RecvCount_ThreeSpare(r) ==
    IF r.FreeCnt > 3 /\ HandleSet THEN AllocCount(bufs, r.FreeCnt - 3) ELSE 0

RecvCount(r) ==
    IF r.FreeCnt > 2 /\ HandleSet THEN AllocCount(bufs, r.FreeCnt - 2) ELSE 0

\* The BDs of the new set, filled from the buffers the pool hands out.
RecvFill(r, m, n) ==
    [i \in BdIndex |->
        IF Offset(r.FreeHead, i) < n
        THEN [m[i] EXCEPT !.SOP = FALSE, !.EOP = FALSE, !.len = 1, !.usr = {},
                 !.id = AllocBufs(bufs, n)[Offset(r.FreeHead, i) + 1]]
        ELSE m[i]]

\* From ring r and memory m, which may be those a part of the same handler
\* left behind.
DmaSetupRecvBuffers(r, m) ==
    \E n \in {RecvCount(r)} :
    \E a \in {Dma_BdRingAlloc(r, n)}, f \in {RecvFill(r, m, n)} :
        /\ ring' = Dma_BdRingToHw(a, f, n, r.FreeHead)
        /\ bd' = ToHwBds(a, f, n, r.FreeHead)
        /\ regs' = ToHwRegs(a, f, n, r.FreeHead, regs)
        /\ bufs' = AllocBuf(bufs, n)

-----------------------------------------------------------------------------
(* PktHandler, once for each context that runs it.                         *)

\* poll_routine and IntrBH look at the engine's state without a lock.
CheckEngine(h) ==
    /\ hpc[h] = "idle"
    /\ EngineState = "USER_ASSIGNED"
    /\ hpc' = [hpc EXCEPT ![h] = "entered"]
    /\ UNCHANGED <<ringVars, bufs, TxSeqNo, userVars, hpkts, rxFrag>>

\* The packets of n BDs from p on, as they are handed to UserPutPkt.
Packets(p, n) ==
    [j \in 1 .. n |->
        LET b == bd[Dma_mRingSeekahead(p, j-1)]
        IN  [buf |-> b.id, flags |-> b.status, usr |-> b.usr,
             SOP |-> b.SOP, EOP |-> b.EOP]]

ResetIds(m, p, n) ==
    [i \in BdIndex |-> IF i \in BdSet(p, n) THEN [m[i] EXCEPT !.id = NULL]
                                            ELSE m[i]]

\* First holding of DmaLock: nothing has come back from the hardware, so it
\* goes on to replenish a receive ring.
HandleNothing(h) ==
    /\ hpc[h] = "entered"
    /\ FromHwCount(ring, bd, BdLimit) = 0
    /\ \E r \in {Dma_BdRingFromHw(ring, bd, BdLimit)} :
        /\ IF IsRxChannel
           THEN DmaSetupRecvBuffers(r, bd)
           ELSE /\ ring' = r
                /\ UNCHANGED <<bd, regs, bufs>>
        /\ Uses(ring.HwCnt + IF IsRxChannel THEN RecvCount(r) ELSE 0)
    /\ hpc' = [hpc EXCEPT ![h] = "idle"]
    /\ UNCHANGED <<space, EngineState, TxSeqNo, userVars, hpkts, rxFrag>>

\* First holding of DmaLock: completed BDs are collected and freed.  If
\* Dma_BdRingFree refuses them the handler gives up.
HandleCompleted(h) ==
    /\ hpc[h] = "entered"
    /\ \E n \in {FromHwCount(ring, bd, BdLimit)} :
       \E r \in {Dma_BdRingFromHw(ring, bd, BdLimit)},
          m \in {ResetIds(bd, ring.HwHead, n)} :
        LET p == ring.HwHead
            ok == FreeResult(r, n, p) = "XST_SUCCESS"
        IN
        /\ n > 0
        /\ ring' = Dma_BdRingFree(r, n, p)
        /\ bd' = FreeBds(r, m, n, p)
        /\ hpkts' = [hpkts EXCEPT ![h] = IF ok THEN Packets(p, n) ELSE <<>>]
        /\ hpc' = [hpc EXCEPT ![h] = IF ok THEN "put" ELSE "idle"]
        /\ Uses(n)
    /\ UNCHANGED <<regs, space, EngineState, bufs, TxSeqNo, userVars, rxFrag>>

\* No lock but the user driver's own: UserPutPkt.
PutPkts(h) ==
    /\ hpc[h] = "put"
    /\ bufs' = FreeUsedBuf(bufs, Len(hpkts[h]))
    /\ hpkts' = [hpkts EXCEPT ![h] = <<>>]
    /\ hpc' = [hpc EXCEPT ![h] = "refill"]
    /\ UNCHANGED <<ringVars, TxSeqNo, userVars, rxFrag>>

\* Second holding of DmaLock.
Refill(h) ==
    /\ hpc[h] = "refill"
    /\ IF IsRxChannel
       THEN DmaSetupRecvBuffers(ring, bd) /\ Uses(RecvCount(ring))
       ELSE UNCHANGED <<ring, bd, regs, bufs, memFault>>
    /\ hpc' = [hpc EXCEPT ![h] = "idle"]
    /\ UNCHANGED <<space, EngineState, TxSeqNo, userVars, hpkts, rxFrag>>

-----------------------------------------------------------------------------
(* The user thread registers.  DmaRegister goes on when descriptor_init    *)
(* fails; the buffers of a receive ring come later, because the user       *)
(* driver does not know its handle yet.                                    *)

DmaRegister ==
    /\ upc = "unloaded"
    /\ session < MaxSessions
    /\ EngineState = "INITIALIZED"
    /\ \E ok \in IF session + 1 \in AllocFails THEN BOOLEAN ELSE {TRUE} :
        LET r == IF ok THEN Dma_BdRingCreate ELSE ring
        IN  /\ ring' = Dma_BdRingStart(r)
            /\ regs' = Dma_BdRingStartRegs(r, regs)
            /\ bd' = IF ok THEN [i \in BdIndex |-> ClearedBd] ELSE bd
            /\ space' = IF ok THEN "live" ELSE space
    /\ EngineState' = "USER_ASSIGNED"
    /\ bufs' = InitBuffers
    /\ TxSeqNo' = 0
    /\ rxFrag' = 0
    /\ upc' = "registering"
    /\ session' = session + 1
    /\ UNCHANGED <<memFault, ulist, usent, upkts, ufree, hVars>>

\* poll_routine of the user driver stores the handle.
StoreHandle ==
    /\ upc = "registering"
    /\ upc' = "running"
    /\ UNCHANGED <<ringVars, bufs, TxSeqNo, ulist, usent, upkts, ufree, session,
                   hVars, rxFrag>>

-----------------------------------------------------------------------------
(* The user thread sends: DmaSetupTransmit of sguser.c and DmaSendPkt.     *)

\* RawLock: as many packets of f fragments as the pool has buffers for, at
\* most n.  The buffers of a packet cut short go back within the same lock.
DmaSetupTransmit ==
    /\ upc = "running"
    /\ ~IsRxChannel
    /\ \E n \in 1 .. MaxPkts, f \in Frags :
        LET avail == (TotalNum - bufs.AllocNum) \div f
            k == IF n <= avail THEN n ELSE avail
        IN  /\ k > 0
            /\ ulist' = [j \in 1 .. k*f |->
                            [buf |-> AllocBufs(bufs, k*f)[j],
                             SOP |-> (j-1) % f = 0, EOP |-> j % f = 0,
                             seq |-> (TxSeqNo + (j-1) \div f) % SeqMod]]
            /\ bufs' = AllocBuf(bufs, k*f)
            /\ TxSeqNo' = (TxSeqNo + k) % SeqMod
    /\ upc' = "send"
    /\ usent' = 0
    /\ UNCHANGED <<ringVars, upkts, ufree, session, hVars, rxFrag>>

\* Mutant: no BD is kept free.
SendCount_NoSpare == IF Len(ulist) <= ring.FreeCnt THEN Len(ulist) ELSE ring.FreeCnt

\* The BDs DmaSendPkt can take, keeping two free.
SendCount == IF ring.FreeCnt <= 2
             THEN 0
             ELSE IF Len(ulist) <= ring.FreeCnt - 2 THEN Len(ulist)
                                                    ELSE ring.FreeCnt - 2

\* partialBDcount: buffers of the first n after the last end of packet.
PartialCount(n) ==
    n - Max({0} \cup {j \in 1 .. n : ulist[j].EOP})

SendFill(n) ==
    [i \in BdIndex |->
        IF Offset(ring.FreeHead, i) < n
        THEN LET u == ulist[Offset(ring.FreeHead, i) + 1]
             IN  [bd[i] EXCEPT !.SOP = u.SOP, !.EOP = u.EOP, !.len = 1,
                               !.seq = u.seq, !.id = u.buf]
        ELSE bd[i]]

\* DmaLock: BDs are allocated for as many buffers as fit and filled, whole
\* packets go to the hardware, and the BDs of a packet cut short are returned.
DmaSendPkt ==
    /\ upc = "send"
    /\ \E n \in {SendCount} :
       \E w \in {n - PartialCount(n)}, a \in {Dma_BdRingAlloc(ring, n)},
          f \in {SendFill(n)} :
        LET p == ring.FreeHead
            failed == ToHwResult(a, f, w, p) # "XST_SUCCESS"
            back == IF failed THEN n ELSE n - w
            from == IF failed THEN p ELSE Dma_mRingSeekahead(p, w)
        IN IF n = 0 \/ EngineState # "USER_ASSIGNED"
           THEN /\ usent' = 0
                /\ UNCHANGED <<ring, bd, regs, memFault>>
           ELSE /\ ring' = Dma_BdRingUnAlloc(Dma_BdRingToHw(a, f, w, p), back)
                /\ bd' = ResetIds(ToHwBds(a, f, w, p), from, back)
                /\ regs' = ToHwRegs(a, f, w, p, regs)
                /\ usent' = n - back
                /\ Uses(n)
    /\ upc' = "trim"
    /\ UNCHANGED <<space, EngineState, bufs, TxSeqNo, ulist, upkts, ufree,
                   session, hVars, rxFrag>>

\* Mutant: the sequence number is taken back to that of the last buffer sent.
TakeBack_LastSent ==
    /\ upc = "trim"
    /\ IF usent # Len(ulist)
       THEN /\ TxSeqNo' = ulist[IF usent = 0 THEN 1 ELSE usent].seq
            /\ bufs' = FreeUnusedBuf(bufs, Len(ulist) - usent)
       ELSE UNCHANGED <<TxSeqNo, bufs>>
    /\ ulist' = <<>>
    /\ usent' = 0
    /\ upc' = "running"
    /\ UNCHANGED <<ringVars, upkts, ufree, session, hVars, rxFrag>>

\* DmaSetupTransmit takes back what was not sent.
TakeBack ==
    /\ upc = "trim"
    /\ IF usent # Len(ulist)
       THEN /\ TxSeqNo' = ulist[usent + 1].seq
            /\ bufs' = FreeUnusedBuf(bufs, Len(ulist) - usent)
       ELSE UNCHANGED <<TxSeqNo, bufs>>
    /\ ulist' = <<>>
    /\ usent' = 0
    /\ upc' = "running"
    /\ UNCHANGED <<ringVars, upkts, ufree, session, hVars, rxFrag>>

-----------------------------------------------------------------------------
(* The user thread unregisters: DmaUnregister and descriptor_free.         *)

\* DmaLock: the engine is reset.
DmaUnregister ==
    /\ upc = "running"
    /\ MayUnregister
    /\ EngineState = "USER_ASSIGNED"
    /\ EngineState' = "UNREGISTERING"
    /\ ring' = [ring EXCEPT !.RunState = "STOPPED"]
    /\ regs' = [regs EXCEPT !.enabled = FALSE]
    /\ upc' = "reset"
    /\ UNCHANGED <<bd, space, memFault, bufs, TxSeqNo, ulist, usent, upkts,
                   ufree, session, hVars, rxFrag>>

\* DmaLock: every BD is taken from the hardware.
RecoverBds ==
    LET n == ForceFromHwCount(ring, BdLimit)
        p == ring.HwHead
    IN  /\ upc = "reset"
        /\ ring' = Dma_BdRingForceFromHw(ring, BdLimit)
        /\ bd' = ResetIds(bd, p, n)
        /\ upkts' = Packets(p, n)
        /\ ufree' = [n |-> n, set |-> p]
        /\ Uses(n)
        /\ upc' = IF n > 0 THEN "put" ELSE "release"
        /\ UNCHANGED <<regs, space, EngineState, bufs, TxSeqNo, ulist, usent,
                       session, hVars, rxFrag>>

\* No lock but the user driver's own: UserPutPkt, flagged PKT_UNUSED.
PutUnused ==
    /\ upc = "put"
    /\ bufs' = FreeUnusedBuf(bufs, Len(upkts))
    /\ upkts' = <<>>
    /\ upc' = "free"
    /\ UNCHANGED <<ringVars, TxSeqNo, ulist, usent, ufree, session, hVars, rxFrag>>

\* DmaLock again.
FreeRecovered ==
    /\ upc = "free"
    /\ ring' = Dma_BdRingFree(ring, ufree.n, ufree.set)
    /\ bd' = FreeBds(ring, bd, ufree.n, ufree.set)
    /\ Uses(ufree.n)
    /\ upc' = "release"
    /\ UNCHANGED <<regs, space, EngineState, bufs, TxSeqNo, ulist, usent, upkts,
                   ufree, session, hVars, rxFrag>>

\* Mutant: the BD space is freed before its BDs have been returned.
ReleaseSpace_TooEarly ==
    /\ upc \in {"reset", "release"}
    /\ space' = IF space = "none" THEN "none" ELSE "freed"
    /\ memFault' = (memFault \/ space = "freed")
    /\ upc' = IF upc = "reset" /\ space = "live" THEN "reset" ELSE "detach"
    /\ UNCHANGED <<ring, bd, regs, EngineState, bufs, TxSeqNo, ulist, usent,
                   upkts, ufree, session, hVars, rxFrag>>

\* pci_free_consistent, unless descSpaceVA is 0; it stays set afterwards.
ReleaseSpace ==
    /\ upc = "release"
    /\ space' = IF space = "none" THEN "none" ELSE "freed"
    /\ memFault' = (memFault \/ space = "freed")
    /\ upc' = "detach"
    /\ UNCHANGED <<ring, bd, regs, EngineState, bufs, TxSeqNo, ulist, usent,
                   upkts, ufree, session, hVars, rxFrag>>

Detach ==
    /\ upc = "detach"
    /\ EngineState' = "INITIALIZED"
    /\ upc' = "unregistered"
    /\ UNCHANGED <<ring, bd, regs, space, memFault, bufs, TxSeqNo, ulist, usent,
                   upkts, ufree, session, hVars, rxFrag>>

\* rawdata_cleanup waits a second, then frees the buffers; by then the
\* handlers that were under way have finished.
Unload ==
    /\ upc = "unregistered"
    /\ \A h \in Handlers : hpc[h] = "idle"
    /\ upc' = "unloaded"
    /\ UNCHANGED <<ringVars, bufs, TxSeqNo, ulist, usent, upkts, ufree, session,
                   hVars, rxFrag>>

-----------------------------------------------------------------------------
(* The hardware.                                                           *)

HwBusy == regs.enabled /\ regs.NEXT_BD # regs.SW_NEXT_BD

\* A buffer has been sent.
HwTransmit ==
    /\ HwBusy
    /\ ~IsRxChannel
    /\ \E errs \in SUBSET HwErrors :
        bd' = [bd EXCEPT ![regs.NEXT_BD].status = {"COMP"} \cup errs]
    /\ regs' = [regs EXCEPT !.NEXT_BD = Dma_mBdRingNext(@)]
    /\ UNCHANGED <<ring, space, EngineState, memFault, bufs, TxSeqNo, userVars,
                   hVars, rxFrag>>

\* A buffer has been filled; at the end of a packet the status says which
\* user words are zero.
HwReceive ==
    /\ HwBusy
    /\ IsRxChannel
    /\ \E errs \in SUBSET HwErrors, eop \in BOOLEAN,
          zero \in SUBSET {"USER_HIGH_ZERO", "USER_LOW_ZERO"} :
        /\ rxFrag + 1 = MaxRxFrags => eop
        /\ ~eop => zero = {}
        /\ bd' = [bd EXCEPT ![regs.NEXT_BD].status =
                    {"COMP"} \cup errs \cup zero \cup (IF eop THEN {"EOP"} ELSE {})]
        /\ rxFrag' = IF eop THEN 0 ELSE rxFrag + 1
    /\ regs' = [regs EXCEPT !.NEXT_BD = Dma_mBdRingNext(@)]
    /\ UNCHANGED <<ring, space, EngineState, memFault, bufs, TxSeqNo, userVars,
                   hVars>>

\* The non-zero user words of a received packet reach memory after its status.
HwUserWord(i) ==
    /\ regs.enabled
    /\ "EOP" \in bd[i].status
    /\ \/ /\ "USER_HIGH_ZERO" \notin bd[i].status
          /\ "HIGH" \notin bd[i].usr
          /\ bd' = [bd EXCEPT ![i].usr = @ \cup {"HIGH"}]
       \/ /\ "USER_LOW_ZERO" \notin bd[i].status
          /\ "LOW" \notin bd[i].usr
          /\ bd' = [bd EXCEPT ![i].usr = @ \cup {"LOW"}]
    /\ UNCHANGED <<ring, regs, space, EngineState, memFault, bufs, TxSeqNo,
                   userVars, hVars, rxFrag>>

-----------------------------------------------------------------------------
Handler(h) == CheckEngine(h) \/ HandleNothing(h) \/ HandleCompleted(h)
                \/ PutPkts(h) \/ Refill(h)

\* Steps a thread takes once it is inside a call.
UserCall == StoreHandle \/ DmaSendPkt \/ TakeBack \/ RecoverBds \/ PutUnused
                \/ FreeRecovered \/ ReleaseSpace \/ Detach

UserStart == DmaRegister \/ DmaSetupTransmit \/ DmaUnregister \/ Unload

Hardware == HwTransmit \/ HwReceive \/ \E i \in BdIndex : HwUserWord(i)

Next == (\E h \in Handlers : Handler(h)) \/ UserCall \/ UserStart \/ Hardware

\* Nothing arrives or is sent by necessity except what the hardware has: it
\* finishes transmitting and writing back, poll_timer re-arms itself, and a
\* call that has begun goes on.
Fairness ==
    /\ \A h \in Handlers : WF_vars(Handler(h))
    /\ WF_vars(UserCall)
    /\ WF_vars(HwTransmit)
    /\ \A i \in BdIndex : WF_vars(HwUserWord(i))

Spec == Init /\ [][Next]_vars
FairSpec == Spec /\ Fairness

-----------------------------------------------------------------------------
(* Properties.                                                             *)

HwGroup == BdSet(ring.HwHead, ring.HwCnt)

Completed(i) == "COMP" \in bd[i].status

\* The BDs that carry a buffer, while their memory is the ring's.
LoadedBds == {i \in BdIndex : space = "live" /\ bd[i].id # NULL}

\* The places at which the driver holds a buffer of the user driver's pool:
\* a BD, a packet a handler or descriptor_free is about to return, or a
\* packet on its way into or out of DmaSendPkt.
HeldBufs ==
    {bd[i].id : i \in LoadedBds}
    \cup (UNION {{hpkts[h][j].buf : j \in DOMAIN hpkts[h]} : h \in Handlers})
    \cup {upkts[j].buf : j \in DOMAIN upkts}
    \cup {ulist[j].buf : j \in usent+1 .. Len(ulist)}

HeldCount ==
    Cardinality(LoadedBds) + MapThenSumSet(LAMBDA h : Len(hpkts[h]), Handlers)
    + Len(upkts) + (Len(ulist) - usent)

RegsType == [NEXT_BD : BdIndex, SW_NEXT_BD : BdIndex, enabled : BOOLEAN]

PacketType ==
    [buf : BufIndex \cup {NULL}, flags : SUBSET StatusFlags,
     usr : SUBSET {"HIGH", "LOW"}, SOP : BOOLEAN, EOP : BOOLEAN]

SendType ==
    [buf : BufIndex, SOP : BOOLEAN, EOP : BOOLEAN, seq : 0 .. SeqMod-1]

BdType ==
    [SOP : BOOLEAN, EOP : BOOLEAN, len : {0, 1}, status : SUBSET StatusFlags,
     usr : SUBSET {"HIGH", "LOW"}, seq : 0 .. SeqMod-1, id : BufIndex \cup {NULL}]

\* Type invariant of the engine and of everything that touches it.
TypeOK ==
    /\ ring \in RingType
    /\ bd \in [BdIndex -> BdType]
    /\ regs \in RegsType
    /\ space \in {"none", "live", "freed"}
    /\ EngineState \in {"INITIALIZED", "USER_ASSIGNED", "UNREGISTERING"}
    /\ memFault \in BOOLEAN
    /\ bufs \in PoolType
    /\ TxSeqNo \in 0 .. SeqMod-1
    /\ upc \in {"unloaded", "registering", "running", "send", "trim", "reset",
                "put", "free", "release", "detach", "unregistered"}
    /\ ulist \in Seq(SendType)
    /\ usent \in 0 .. Len(ulist)
    /\ upkts \in Seq(PacketType)
    /\ ufree \in [n : 0 .. N, set : BdIndex]
    /\ hpc \in [Handlers -> {"idle", "entered", "put", "refill"}]
    /\ hpkts \in [Handlers -> Seq(PacketType)]
    /\ rxFrag \in 0 .. MaxRxFrags-1
    /\ session \in 0 .. MaxSessions

\* The four groups of the ring lie one after the other and fill it, whatever
\* the order in which the send path, the handlers and descriptor_free have
\* moved BDs between them; so no BD is in two groups and Dma_BdRingCheck
\* succeeds.
GroupsTile == Tiled(ring)

\* "Maintain a separation between start and end of BD ring": two BDs stay
\* free while any is in use, on the send path, on the receive path and while
\* descriptor_free has let go of DmaLock.
TwoBdsStayFree ==
    ring.PreCnt + ring.HwCnt + ring.PostCnt > 0 => ring.FreeCnt >= 2

\* The ring is sound, in every interleaving of DmaSendPkt, PktHandler,
\* DmaSetupRecvBuffers and descriptor_free: its pointers and counters are in
\* range, its groups tile it, and its tail cannot catch up with its head.
RingSound == TypeOK /\ GroupsTile /\ TwoBdsStayFree

\* The hardware owns exactly what the driver gave it: the BDs it has still to
\* walk, from NEXT_BD to SW_NEXT_BD, are the BDs of the work group that are
\* not completed.  It never writes a BD of another group, and it never stalls
\* with NEXT_BD = SW_NEXT_BD while it has work.
HwOwnsItsBds ==
    regs.enabled =>
        {i \in HwGroup : ~Completed(i)} =
            IF HwBusy
            THEN BdSet(regs.NEXT_BD, WalkLength(regs.NEXT_BD, regs.SW_NEXT_BD))
            ELSE {}

\* Buffers are returned in the order in which the user driver's pool needs
\* them back: what the pool counts as allocated, by its two pointers, is
\* what the driver really holds, and each buffer is held once.  (A buffer the
\* pool takes for free while the driver holds it would be handed out again.)
PoolMatchesHeld ==
    HandleSet =>
        /\ HeldBufs = Allocated(bufs)
        /\ HeldCount = bufs.AllocNum

\* BD memory is used only while it is allocated: no access before
\* descriptor_init or after descriptor_free, and no second free.
NoMemFault == ~memFault

\* The packets handed to the hardware carry consecutive sequence numbers:
\* taking TxSeqNo back after a short DmaSendPkt neither skips nor repeats one.
SeqNosConsecutive ==
    \A k \in 0 .. ring.HwCnt - 1 :
        LET b == bd[Dma_mRingSeekahead(ring.HwHead, k)]
            following == IF b.EOP THEN (b.seq + 1) % SeqMod ELSE b.seq
        IN  IF k < ring.HwCnt - 1
            THEN bd[Dma_mRingSeekahead(ring.HwHead, k+1)].seq = following
            ELSE upc = "running" => TxSeqNo = following

\* "If hardware has partially completed a packet spanning multiple BDs, then
\* none of the BDs for that packet will be included in the results" (comment
\* of Dma_BdRingFromHw): a handler returns whole packets.
PacketsWhole ==
    \A h \in Handlers : hpc[h] = "put" =>
        hpkts[h][1].SOP /\ hpkts[h][Len(hpkts[h])].EOP

\* The user words that come with a received packet have arrived when the
\* packet is handed to the user driver, although the hardware writes them
\* after the completion status and the BD has been used before.
UserInfoArrived ==
    \A h \in Handlers : \A j \in DOMAIN hpkts[h] :
        LET p == hpkts[h][j]
        IN  "EOP" \in p.flags =>
                /\ "USER_HIGH_ZERO" \in p.flags \/ "HIGH" \in p.usr
                /\ "USER_LOW_ZERO" \in p.flags \/ "LOW" \in p.usr

\* "Before returning to the caller, DmaUnregister() also returns all the
\* packet buffers that had been passed to it" (xdma_user.h).
UnregisterReturnsAll == upc = "unregistered" => bufs.AllocNum = 0

\* When the engine is unregistered no BD is left with a buffer; a handler may
\* still be about to return some.
RingLeftEmpty ==
    upc \in {"detach", "unregistered"} =>
        ring.FreeCnt = ring.AllCnt /\ \A i \in BdIndex : bd[i].id = NULL

\* Hardware, BD memory and user driver agree on who holds what, over the whole
\* life of the engine: registered, in use, unregistered and unloaded.
HoldersAgree == HwOwnsItsBds /\ PoolMatchesHeld /\ NoMemFault /\ RingLeftEmpty

\* Every buffer given to the hardware comes back to the user driver.
BuffersComeBack ==
    \A i \in BdIndex : (i \in LoadedBds) ~> (i \notin LoadedBds)

\* A received packet is delivered: the BD at its end is freed in the end.
ReceivedIsDelivered ==
    \A i \in BdIndex : ("EOP" \in bd[i].status) ~> ("EOP" \notin bd[i].status)

\* "The RX BD ring [...] will be entirely submitted for DMA" (xdma_user.h):
\* again and again, but for the two spare BDs, unless the user driver has no
\* buffer left or unregisters.
RxRingReplenished ==
    (upc = "running") ~> (ring.FreeCnt <= 2 \/ bufs.AllocNum = TotalNum
                            \/ upc # "running")

\* "Cannot create BD ring, will try again later" (DmaRegister): an engine
\* that stays assigned gets its ring.  The code does not keep it; see the
\* README.
AssignedEngineGetsRing ==
    (upc = "running") ~> (space = "live" \/ upc # "running")

\* Dma_BdRingStart answers "XST_DMA_SG_NO_LIST if the channel has no
\* initialized BD ring": an engine that is enabled has one.
EnabledEngineHasRing == regs.enabled => space = "live"
=============================================================================
