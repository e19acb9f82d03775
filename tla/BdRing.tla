------------------------------- MODULE BdRing -------------------------------
(***************************************************************************)
(* The buffer descriptor (BD) ring of one DMA engine: xdma_bdring.c, the   *)
(* ring macros of xdma_bdring.h and the BD accessors of xdma_bd.h.         *)
(*                                                                         *)
(* A BD address is its index in the ring, (addr - FirstBdAddr)/Separation, *)
(* so FirstBdAddr is 0, LastBdAddr is N-1, Separation 1 and Length N.  A   *)
(* ring is the record of the fields of Dma_BdRing that change, the memory  *)
(* of the BDs a function from indices to BD records, and the registers of  *)
(* the engine that the ring functions write a third record.  Every ring    *)
(* function runs under DmaLock, so each is an operator that maps the       *)
(* records before the call to the records after it; the modules that       *)
(* extend this one make them parts of actions.                             *)
(***************************************************************************)
EXTENDS Integers, FiniteSets, FiniteSetsExt

CONSTANTS
    N,            \* number of BDs in a created ring (BdCount, AllCnt)
    IsRxChannel,  \* TRUE for a C2S (receive) engine, FALSE for an S2C one
    NULL,         \* no buffer: the Id of a BD that carries none
    ErrMod        \* modulus of the u32 error counters (2^32 in the code)

ASSUME NAssumption == N \in Nat \ {0}
ASSUME IsRxAssumption == IsRxChannel \in BOOLEAN
ASSUME ErrModAssumption == ErrMod \in Nat \ {0}

BdIndex == 0 .. N-1

StatusFlags == {"COMP", "EOP", "ERROR", "SHORT",
                "USER_HIGH_ZERO", "USER_LOW_ZERO"}

-----------------------------------------------------------------------------
(* Traversal of the ring. *)

Dma_mBdRingNext(p) == IF p >= N-1 THEN 0 ELSE p + 1

Dma_mRingSeekahead(p, n) == IF p + n > N-1 THEN p + n - N ELSE p + n

Dma_mRingSeekback(p, n) == IF p - n < 0 THEN p - n + N ELSE p - n

\* The n BDs from p on.
BdSet(p, n) == {Dma_mRingSeekahead(p, i) : i \in 0 .. n-1}

\* How many steps of Dma_mBdRingNext lead from p to q, at least one: a walk
\* that stops when it reaches q goes all the way round if it starts there.
WalkLength(p, q) == IF q > p THEN q - p ELSE q - p + N

-----------------------------------------------------------------------------
(* A ring that Dma_Initialize has cleared, and one that has been created.  *)

ClearedRing == [RunState |-> "STOPPED", AllCnt |-> 0,
                FreeHead |-> 0, PreHead |-> 0, HwHead |-> 0, HwTail |-> 0,
                PostHead |-> 0, BdaRestart |-> 0,
                FreeCnt |-> 0, PreCnt |-> 0, HwCnt |-> 0, PostCnt |-> 0,
                BDerrs |-> 0, BDSerrs |-> 0]

Dma_BdRingCreate == [ClearedRing EXCEPT !.AllCnt = N, !.FreeCnt = N]

\* The memory Dma_BdRingCreate leaves: memset to zero, so no flag, no length,
\* no buffer, and user words that are zero.
ClearedBd == [SOP |-> FALSE, EOP |-> FALSE, len |-> 0, status |-> {},
              usr |-> {}, seq |-> 0, id |-> NULL]

-----------------------------------------------------------------------------
(* Starting the engine, and the registers it sets. *)

Dma_BdRingStart(r) ==
    IF r.AllCnt = 0 \/ r.RunState = "STARTED"
    THEN r
    ELSE [r EXCEPT !.RunState = "STARTED"]

Dma_BdRingStartRegs(r, g) ==
    IF r.AllCnt = 0 \/ r.RunState = "STARTED"
    THEN g
    ELSE [NEXT_BD |-> r.BdaRestart, enabled |-> TRUE,
          SW_NEXT_BD |-> IF r.HwCnt > 0 THEN r.HwTail ELSE r.BdaRestart]

-----------------------------------------------------------------------------
(* Free group to pre-work group, and back. *)

CanAlloc(r, n) == r.FreeCnt >= n

Dma_BdRingAlloc(r, n) ==
    IF CanAlloc(r, n)
    THEN [r EXCEPT !.FreeHead = Dma_mRingSeekahead(@, n),
                   !.FreeCnt = @ - n, !.PreCnt = @ + n]
    ELSE r

\* Mutant: the counters are undone but FreeHead is not moved back.
Dma_BdRingUnAlloc_NoSeekback(r, n) ==
    IF r.PreCnt < n THEN r ELSE [r EXCEPT !.FreeCnt = @ + n, !.PreCnt = @ - n]

Dma_BdRingUnAlloc(r, n) ==
    IF r.PreCnt < n
    THEN r
    ELSE [r EXCEPT !.FreeHead = Dma_mRingSeekback(@, n),
                   !.FreeCnt = @ + n, !.PreCnt = @ - n]

-----------------------------------------------------------------------------
(* Pre-work group to hardware.  The set is checked and its status words    *)
(* are cleared up to the first BD of zero length; a TX set whose last BD   *)
(* lacks EOP is only logged.                                               *)

ToHwResult(r, bd, n, set) ==
    CASE n = 0 -> "XST_SUCCESS"
      [] n # 0 /\ (r.PreCnt < n \/ r.PreHead # set) -> "XST_DMA_SG_LIST_ERROR"
      [] n # 0 /\ ~(r.PreCnt < n \/ r.PreHead # set) ->
            IF \/ ~IsRxChannel /\ ~bd[set].SOP
               \/ \E i \in BdSet(set, n) : bd[i].len = 0
            THEN "XST_FAILURE"
            ELSE "XST_SUCCESS"

Dma_BdRingToHw(r, bd, n, set) ==
    IF n # 0 /\ ToHwResult(r, bd, n, set) = "XST_SUCCESS"
    THEN [r EXCEPT !.PreHead = Dma_mRingSeekahead(@, n),
                   !.PreCnt = @ - n,
                   !.HwTail = Dma_mRingSeekahead(set, n),
                   !.HwCnt = @ + n]
    ELSE r

ToHwBds(r, bd, n, set) ==
    LET checked == {i \in 0 .. n-1 :
            \A j \in 0 .. i : bd[Dma_mRingSeekahead(set, j)].len # 0}
        cleared == {Dma_mRingSeekahead(set, i) : i \in checked}
    IN  IF \/ n = 0 \/ r.PreCnt < n \/ r.PreHead # set
           \/ ~IsRxChannel /\ ~bd[set].SOP
        THEN bd
        ELSE [i \in BdIndex |-> IF i \in cleared
                                THEN [bd[i] EXCEPT !.status = {}]
                                ELSE bd[i]]

\* The tail pointer register gets the first BD after the set.
ToHwRegs(r, bd, n, set, g) ==
    IF /\ n # 0
       /\ ToHwResult(r, bd, n, set) = "XST_SUCCESS"
       /\ r.RunState = "STARTED"
    THEN [g EXCEPT !.SW_NEXT_BD = Dma_mRingSeekahead(set, n)]
    ELSE g

-----------------------------------------------------------------------------
(* Hardware to post-work group. *)

\* "Is it really done? For RX EOP BDs, check the user info field also".
UserInfoPending(b) ==
    \/ "USER_HIGH_ZERO" \notin b.status /\ "HIGH" \notin b.usr
    \/ "USER_LOW_ZERO" \notin b.status /\ "LOW" \notin b.usr

\* Mutant: the user words are not looked at.
BdDone_StatusOnly(b) == "COMP" \in b.status

\* Mutant: the user words of every BD are waited for.
BdDone_UserInfoOfAll(b) ==
    "COMP" \in b.status /\ ~(IsRxChannel /\ UserInfoPending(b))

BdDone(b) ==
    /\ "COMP" \in b.status
    /\ ~(IsRxChannel /\ "EOP" \in b.status /\ UserInfoPending(b))

\* The BD ends a packet, or is treated as if it did.
EndsPacket(b) ==
    \/ IsRxChannel /\ "EOP" \in b.status
    \/ ~IsRxChannel /\ b.EOP
    \/ "ERROR" \in b.status

\* The BDs the scan passes: from HwHead, at most limit, up to HwTail, as long
\* as they are done.
BdScanned(r, bd, limit) ==
    Max({k \in 0 .. WalkLength(r.HwHead, r.HwTail) :
            /\ k <= limit
            /\ \A i \in BdSet(r.HwHead, k) : BdDone(bd[i])})

\* The BDs whose status the scan reads: those it passes and, unless it
\* stopped at HwTail or at the limit, the one it stopped at.
BdRead(r, bd, limit) ==
    LET k == BdScanned(r, bd, limit)
    IN  IF k < limit /\ k < WalkLength(r.HwHead, r.HwTail)
        THEN BdSet(r.HwHead, k + 1)
        ELSE BdSet(r.HwHead, k)

\* Mutant: partial packets are not subtracted.
FromHwCount_Partial(r, bd, limit) ==
    IF r.HwCnt = 0 THEN 0 ELSE BdScanned(r, bd, limit)

\* What Dma_BdRingFromHw returns: the BDs scanned less BdPartialCount, those
\* after the last one that ends a packet.
FromHwCount(r, bd, limit) ==
    IF r.HwCnt = 0
    THEN 0
    ELSE Max({k \in 0 .. BdScanned(r, bd, limit) :
                k # 0 => EndsPacket(bd[Dma_mRingSeekahead(r.HwHead, k-1)])})

Dma_BdRingFromHw(r, bd, limit) ==
    LET k == FromHwCount(r, bd, limit)
        read == BdRead(r, bd, limit)
        errs == {i \in read : "ERROR" \in bd[i].status}
        serrs == {i \in read : ~IsRxChannel /\ "SHORT" \in bd[i].status}
    IN  IF r.HwCnt = 0
        THEN r
        ELSE [r EXCEPT !.HwCnt = @ - k, !.PostCnt = @ + k,
                       !.HwHead = Dma_mRingSeekahead(@, k),
                       !.BDerrs = (@ + Cardinality(errs)) % ErrMod,
                       !.BDSerrs = (@ + Cardinality(serrs)) % ErrMod]

ForceFromHwCount(r, limit) ==
    IF r.HwCnt = 0
    THEN 0
    ELSE IF WalkLength(r.HwHead, r.HwTail) < limit
         THEN WalkLength(r.HwHead, r.HwTail)
         ELSE limit

Dma_BdRingForceFromHw(r, limit) ==
    LET k == ForceFromHwCount(r, limit)
    IN  [r EXCEPT !.HwCnt = @ - k, !.PostCnt = @ + k,
                  !.HwHead = Dma_mRingSeekahead(@, k)]

-----------------------------------------------------------------------------
(* Post-work group to free group. *)

FreeResult(r, n, set) ==
    IF n # 0 /\ (r.PostCnt < n \/ r.PostHead # set)
    THEN "XST_DMA_SG_LIST_ERROR"
    ELSE "XST_SUCCESS"

Dma_BdRingFree(r, n, set) ==
    IF n = 0 \/ FreeResult(r, n, set) # "XST_SUCCESS"
    THEN r
    ELSE [r EXCEPT !.FreeCnt = @ + n, !.PostCnt = @ - n,
                   !.PostHead = Dma_mRingSeekahead(@, n)]

\* Status and control words of the freed BDs are cleared; Id and the user
\* words are not.
FreeBds(r, bd, n, set) ==
    IF n = 0 \/ FreeResult(r, n, set) # "XST_SUCCESS"
    THEN bd
    ELSE [i \in BdIndex |-> IF i \in BdSet(set, n)
            THEN [bd[i] EXCEPT !.status = {}, !.SOP = FALSE, !.EOP = FALSE,
                               !.len = 0]
            ELSE bd[i]]

-----------------------------------------------------------------------------
(* The fields of a ring, and how its groups lie: free, post-work, hardware *)
(* and pre-work BDs follow one another and fill the ring.                  *)

RingType ==
    [RunState : {"STOPPED", "STARTED"}, AllCnt : {0, N},
     FreeHead : BdIndex, PreHead : BdIndex, HwHead : BdIndex,
     HwTail : BdIndex, PostHead : BdIndex, BdaRestart : BdIndex,
     FreeCnt : 0 .. N, PreCnt : 0 .. N, HwCnt : 0 .. N, PostCnt : 0 .. N,
     BDerrs : 0 .. ErrMod-1, BDSerrs : 0 .. ErrMod-1]

Tiled(r) ==
    /\ r.AllCnt = r.FreeCnt + r.PreCnt + r.HwCnt + r.PostCnt
    /\ r.HwHead = Dma_mRingSeekahead(r.PostHead, r.PostCnt)
    /\ r.PreHead = Dma_mRingSeekahead(r.HwHead, r.HwCnt)
    /\ r.HwTail = r.PreHead
    /\ r.FreeHead = Dma_mRingSeekahead(r.PreHead, r.PreCnt)

-----------------------------------------------------------------------------
(* What Dma_BdRingCheck verifies of a stopped ring: the pointers are in    *)
(* the ring and the counters add up (the links never change after          *)
(* Dma_BdRingCreate, no function writes DMA_BD_NDESC_OFFSET).              *)

Dma_BdRingCheck(r) ==
    /\ {r.FreeHead, r.PreHead, r.HwHead, r.HwTail, r.PostHead} \subseteq BdIndex
    /\ r.HwCnt + r.PreCnt + r.FreeCnt + r.PostCnt = r.AllCnt
=============================================================================
