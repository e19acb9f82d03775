------------------------- MODULE DmaEngineProofs --------------------------
(***************************************************************************)
(* For every size of the ring and of the buffer pool, any number of        *)
(* handlers, either direction and any bounds.  First the ring functions:   *)
(* each maps a ring whose groups tile it to another one.  Then the type    *)
(* invariant of the engine, the tiling of the ring and the two BDs that    *)
(* stay free, which are inductive together.  The rest depends on these:    *)
(* that the packets with the hardware are numbered consecutively; that the *)
(* packets returned to a sender are whole, and the user words of a         *)
(* received one have arrived; and that the pool's two pointers, the BDs of *)
(* the work group and the packets on their way agree on who holds which    *)
(* buffer, over the whole life of the engine.                              *)
(***************************************************************************)
EXTENDS DmaEngine, FiniteSetTheorems, SequenceTheorems, NatLemmas, TLAPS

USE NAssumption, ErrModAssumption

-----------------------------------------------------------------------------
(* The greatest element of a bounded set, which the scans are defined by.  *)

\* Max of a set of naturals that is not empty and has a bound is its
\* greatest element.
LEMMA MaxInSet ==
    ASSUME NEW n \in Nat, NEW S, S \subseteq 0 .. n, S # {}
    PROVE  Max(S) \in S /\ \A y \in S : y <= Max(S)
<1> DEFINE D == {n - s : s \in S}
<1>1. D \subseteq Nat
  OBVIOUS
<1>2. D # {}
  <2>1. PICK s \in S : TRUE
    OBVIOUS
  <2>2. n - s \in D
    BY <2>1
  <2> QED BY <2>2
<1>3. PICK d \in D : \A y \in D : d <= y
  BY <1>1, <1>2, LeastExists
<1>4. PICK m \in S : d = n - m
  OBVIOUS
<1>5. \A y \in S : y <= m
  <2>1. SUFFICES ASSUME NEW y \in S PROVE y <= m
    OBVIOUS
  <2>2. n - m <= n - y
    BY <1>3, <1>4
  <2>3. m \in 0 .. n /\ y \in 0 .. n
    OBVIOUS
  <2> QED BY <2>2, <2>3
<1> QED BY <1>5 DEF Max

-----------------------------------------------------------------------------
(* Arithmetic of the ring. *)

LEMMA SeekInRing ==
    ASSUME NEW p \in BdIndex, NEW n \in 0 .. N
    PROVE  /\ Dma_mRingSeekahead(p, n) \in BdIndex
           /\ Dma_mRingSeekback(p, n) \in BdIndex
BY DEF BdIndex, Dma_mRingSeekahead, Dma_mRingSeekback

LEMMA SeekAdds ==
    ASSUME NEW p \in BdIndex, NEW m \in 0 .. N, NEW n \in 0 .. N, m + n <= N
    PROVE  Dma_mRingSeekahead(Dma_mRingSeekahead(p, m), n)
                = Dma_mRingSeekahead(p, m + n)
BY DEF BdIndex, Dma_mRingSeekahead

LEMMA SeekUndoes ==
    ASSUME NEW p \in BdIndex, NEW m \in 0 .. N, NEW n \in 0 .. N, n <= m
    PROVE  Dma_mRingSeekback(Dma_mRingSeekahead(p, m), n)
                = Dma_mRingSeekahead(p, m - n)
BY DEF BdIndex, Dma_mRingSeekahead, Dma_mRingSeekback

\* A walk from the head of a group of n > 0 BDs to its end takes n steps.
LEMMA WalkIsCount ==
    ASSUME NEW p \in BdIndex, NEW n \in 1 .. N
    PROVE  WalkLength(p, Dma_mRingSeekahead(p, n)) = n
BY DEF BdIndex, Dma_mRingSeekahead, WalkLength

-----------------------------------------------------------------------------
(* How many BDs come back from the hardware. *)

LEMMA BdScannedBound ==
    ASSUME NEW r \in RingType, Tiled(r), r.HwCnt # 0,
           NEW mem, NEW limit \in Nat
    PROVE  BdScanned(r, mem, limit) \in 0 .. r.HwCnt
<1> DEFINE S == {k \in 0 .. WalkLength(r.HwHead, r.HwTail) :
                    /\ k <= limit
                    /\ \A i \in BdSet(r.HwHead, k) : BdDone(mem[i])}
<1>1. r.HwCnt \in 1 .. N /\ r.HwHead \in BdIndex
  BY DEF RingType
<1>2. WalkLength(r.HwHead, r.HwTail) = r.HwCnt
  BY <1>1, WalkIsCount DEF Tiled
<1>3. S \subseteq 0 .. r.HwCnt
  BY <1>2
<1>4. 0 \in S
  BY <1>1, <1>2 DEF BdSet
<1>5. Max(S) \in S
  BY <1>1, <1>3, <1>4, MaxInSet
<1> QED BY <1>3, <1>5 DEF BdScanned

LEMMA FromHwCountBound ==
    ASSUME NEW r \in RingType, Tiled(r), NEW mem, NEW limit \in Nat
    PROVE  FromHwCount(r, mem, limit) \in 0 .. r.HwCnt
<1> r.HwCnt \in 0 .. N
  BY DEF RingType
<1>1. CASE r.HwCnt = 0
  BY <1>1 DEF FromHwCount
<1>2. CASE r.HwCnt # 0
  <2> DEFINE S == {k \in 0 .. BdScanned(r, mem, limit) :
                k # 0 => EndsPacket(mem[Dma_mRingSeekahead(r.HwHead, k-1)])}
  <2>1. BdScanned(r, mem, limit) \in 0 .. r.HwCnt
    BY <1>2, BdScannedBound
  <2>2. S \subseteq 0 .. r.HwCnt /\ 0 \in S
    BY <2>1
  <2>3. Max(S) \in S
    BY <2>2, MaxInSet
  <2> QED BY <1>2, <2>2, <2>3 DEF FromHwCount
<1> QED BY <1>1, <1>2

LEMMA ForceFromHwCountBound ==
    ASSUME NEW r \in RingType, Tiled(r), NEW limit \in Nat
    PROVE  ForceFromHwCount(r, limit) \in 0 .. r.HwCnt
<1> r.HwCnt \in 0 .. N /\ r.HwHead \in BdIndex
  BY DEF RingType
<1>1. CASE r.HwCnt = 0
  BY <1>1 DEF ForceFromHwCount
<1>2. CASE r.HwCnt # 0
  <2>1. WalkLength(r.HwHead, r.HwTail) = r.HwCnt
    BY <1>2, WalkIsCount DEF Tiled
  <2> QED BY <1>2, <2>1 DEF ForceFromHwCount
<1> QED BY <1>1, <1>2
-----------------------------------------------------------------------------
(* Every ring function keeps the groups of a ring tiled, and says how many *)
(* BDs its free group gains or loses.                                      *)

LEMMA ClearedRingTiled ==
    /\ ClearedRing \in RingType
    /\ Tiled(ClearedRing)
    /\ Dma_BdRingCreate \in RingType
    /\ Tiled(Dma_BdRingCreate)
<1>1. ClearedRing \in RingType
  BY DEF ClearedRing, RingType, BdIndex
<1>2. Tiled(ClearedRing)
  BY DEF ClearedRing, Tiled, Dma_mRingSeekahead
<1>3. Dma_BdRingCreate = [ClearedRing EXCEPT !.AllCnt = N, !.FreeCnt = N]
  BY DEF Dma_BdRingCreate
<1>4. Dma_BdRingCreate \in RingType
  <2>1. N \in 0 .. N /\ N \in {0, N}
    OBVIOUS
  <2> QED BY <1>1, <1>3, <2>1, Zenon DEF RingType
<1>5. Tiled(Dma_BdRingCreate)
  BY <1>3 DEF ClearedRing, Tiled, Dma_mRingSeekahead
<1> QED BY <1>1, <1>2, <1>4, <1>5

LEMMA RingFields ==
    ASSUME NEW r \in RingType, Tiled(r)
    PROVE  /\ {r.FreeHead, r.PreHead, r.HwHead, r.HwTail, r.PostHead} \subseteq BdIndex
           /\ r.FreeCnt \in 0 .. N /\ r.PreCnt \in 0 .. N
           /\ r.HwCnt \in 0 .. N /\ r.PostCnt \in 0 .. N
           /\ r.FreeCnt + r.PreCnt + r.HwCnt + r.PostCnt <= N
           /\ r.AllCnt = 0 => r.FreeCnt + r.PreCnt + r.HwCnt + r.PostCnt = 0
BY DEF RingType, Tiled

LEMMA StartTiled ==
    ASSUME NEW r \in RingType, Tiled(r)
    PROVE  /\ Dma_BdRingStart(r) \in RingType
           /\ Tiled(Dma_BdRingStart(r))
           /\ Dma_BdRingStart(r).FreeCnt = r.FreeCnt
           /\ Dma_BdRingStart(r).AllCnt = r.AllCnt
BY DEF Dma_BdRingStart, RingType, Tiled

LEMMA AllocTiled ==
    ASSUME NEW r \in RingType, Tiled(r), NEW n \in 0 .. r.FreeCnt
    PROVE  /\ Dma_BdRingAlloc(r, n) \in RingType
           /\ Tiled(Dma_BdRingAlloc(r, n))
           /\ Dma_BdRingAlloc(r, n).AllCnt = r.AllCnt
           /\ Dma_BdRingAlloc(r, n).FreeCnt = r.FreeCnt - n
           /\ Dma_BdRingAlloc(r, n).PreCnt = r.PreCnt + n
<1> DEFINE q == Dma_BdRingAlloc(r, n)
           head == Dma_mRingSeekahead(r.FreeHead, n)
<1>1. /\ n \in 0 .. N /\ r.FreeCnt - n \in 0 .. N
      /\ r.PreCnt + n \in 0 .. N /\ r.PreCnt \in 0 .. N
      /\ r.FreeHead \in BdIndex /\ r.PreHead \in BdIndex
  BY RingFields
<1>2. head \in BdIndex
  BY <1>1, SeekInRing
<1>3. head = Dma_mRingSeekahead(r.PreHead, r.PreCnt + n)
  BY <1>1, SeekAdds DEF Tiled
<1> HIDE DEF head
<1>4. q = [r EXCEPT !.FreeHead = head, !.FreeCnt = @ - n, !.PreCnt = @ + n]
  BY <1>1 DEF Dma_BdRingAlloc, CanAlloc, head
<1> HIDE DEF q
<1>5. /\ q \in RingType /\ q.AllCnt = r.AllCnt
      /\ q.FreeCnt = r.FreeCnt - n /\ q.PreCnt = r.PreCnt + n
  BY <1>1, <1>2, <1>4 DEF RingType
<1>6. Tiled(q)
  BY <1>1, <1>3, <1>4 DEF RingType, Tiled
<1> QED BY <1>5, <1>6 DEF q

LEMMA UnAllocTiled ==
    ASSUME NEW r \in RingType, Tiled(r), NEW n \in 0 .. N
    PROVE  /\ Dma_BdRingUnAlloc(r, n) \in RingType
           /\ Tiled(Dma_BdRingUnAlloc(r, n))
           /\ Dma_BdRingUnAlloc(r, n).AllCnt = r.AllCnt
           /\ Dma_BdRingUnAlloc(r, n).FreeCnt >= r.FreeCnt
<1>1. CASE r.PreCnt < n
  BY <1>1, RingFields DEF Dma_BdRingUnAlloc
<1>2. CASE ~(r.PreCnt < n)
  <2> DEFINE q == Dma_BdRingUnAlloc(r, n)
             head == Dma_mRingSeekback(r.FreeHead, n)
  <2>1. /\ r.FreeCnt \in 0 .. N /\ r.FreeCnt + n \in 0 .. N
        /\ r.PreCnt - n \in 0 .. N /\ r.PreCnt \in 0 .. N /\ n <= r.PreCnt
        /\ r.FreeHead \in BdIndex /\ r.PreHead \in BdIndex
    BY <1>2, RingFields
  <2>2. head \in BdIndex
    BY <2>1, SeekInRing
  <2>3. head = Dma_mRingSeekahead(r.PreHead, r.PreCnt - n)
    BY <2>1, SeekUndoes DEF Tiled
  <2> HIDE DEF head
  <2>4. q = [r EXCEPT !.FreeHead = head, !.FreeCnt = @ + n, !.PreCnt = @ - n]
    BY <1>2 DEF Dma_BdRingUnAlloc, head
  <2> HIDE DEF q
  <2>5. q \in RingType
    BY <2>1, <2>2, <2>4 DEF RingType
  <2>6. q.FreeCnt = r.FreeCnt + n /\ q.AllCnt = r.AllCnt
    BY <2>4 DEF RingType
  <2>7. Tiled(q)
    BY <2>1, <2>3, <2>4 DEF RingType, Tiled
  <2> QED BY <2>1, <2>5, <2>6, <2>7 DEF q
<1> QED BY <1>1, <1>2

LEMMA ToHwTiled ==
    ASSUME NEW r \in RingType, Tiled(r), NEW n \in Nat, NEW mem, NEW set
    PROVE  /\ Dma_BdRingToHw(r, mem, n, set) \in RingType
           /\ Tiled(Dma_BdRingToHw(r, mem, n, set))
           /\ Dma_BdRingToHw(r, mem, n, set).AllCnt = r.AllCnt
           /\ Dma_BdRingToHw(r, mem, n, set).FreeCnt = r.FreeCnt
<1>1. CASE n # 0 /\ ToHwResult(r, mem, n, set) = "XST_SUCCESS"
  <2> DEFINE q == Dma_BdRingToHw(r, mem, n, set)
             head == Dma_mRingSeekahead(r.PreHead, n)
  <2>1. n <= r.PreCnt /\ r.PreHead = set
    BY <1>1, RingFields DEF ToHwResult
  <2>2. /\ n \in 0 .. N /\ r.PreCnt - n \in 0 .. N /\ n + (r.PreCnt - n) = r.PreCnt
        /\ r.HwCnt \in 0 .. N /\ r.HwCnt + n \in 0 .. N
        /\ r.HwHead \in BdIndex /\ r.PreHead \in BdIndex
    BY <2>1, RingFields
  <2>3. head \in BdIndex
    BY <2>2, SeekInRing
  <2>4. head = Dma_mRingSeekahead(r.HwHead, r.HwCnt + n)
    BY <2>2, SeekAdds DEF Tiled
  <2>5. r.FreeHead = Dma_mRingSeekahead(head, r.PreCnt - n)
    BY <2>2, SeekAdds, RingFields DEF Tiled
  <2> HIDE DEF head
  <2>6. q = [r EXCEPT !.PreHead = head, !.PreCnt = @ - n, !.HwTail = head,
                      !.HwCnt = @ + n]
    BY <1>1, <2>1 DEF Dma_BdRingToHw, head
  <2> HIDE DEF q
  <2>7. q \in RingType /\ q.FreeCnt = r.FreeCnt /\ q.AllCnt = r.AllCnt
    BY <2>2, <2>3, <2>6 DEF RingType
  <2>8. Tiled(q)
    BY <2>2, <2>4, <2>5, <2>6 DEF RingType, Tiled
  <2> QED BY <2>7, <2>8 DEF q
<1>2. CASE ~(n # 0 /\ ToHwResult(r, mem, n, set) = "XST_SUCCESS")
  BY <1>2 DEF Dma_BdRingToHw
<1> QED BY <1>1, <1>2

\* k BDs move from the head of the work group to the end of the post-work
\* group, and the error counters become e and se.
WorkToPost(r, k, e, se) ==
    [r EXCEPT !.HwCnt = @ - k, !.PostCnt = @ + k,
              !.HwHead = Dma_mRingSeekahead(@, k),
              !.BDerrs = e, !.BDSerrs = se]

LEMMA WorkToPostTiled ==
    ASSUME NEW r \in RingType, Tiled(r), NEW k \in 0 .. r.HwCnt,
           NEW e \in 0 .. ErrMod-1, NEW se \in 0 .. ErrMod-1
    PROVE  /\ WorkToPost(r, k, e, se) \in RingType
           /\ Tiled(WorkToPost(r, k, e, se))
           /\ WorkToPost(r, k, e, se).AllCnt = r.AllCnt
           /\ WorkToPost(r, k, e, se).FreeCnt = r.FreeCnt
<1> DEFINE q == WorkToPost(r, k, e, se)
           head == Dma_mRingSeekahead(r.HwHead, k)
<1>1. /\ k \in 0 .. N /\ r.HwCnt - k \in 0 .. N /\ k + (r.HwCnt - k) = r.HwCnt
      /\ r.PostCnt \in 0 .. N /\ r.PostCnt + k \in 0 .. N
      /\ r.HwHead \in BdIndex /\ r.PostHead \in BdIndex
      /\ r.HwCnt \in 0 .. N
  BY RingFields
<1>2. head \in BdIndex
  BY <1>1, SeekInRing
<1>3. head = Dma_mRingSeekahead(r.PostHead, r.PostCnt + k)
  BY <1>1, SeekAdds DEF Tiled
<1>4. r.PreHead = Dma_mRingSeekahead(head, r.HwCnt - k)
  BY <1>1, SeekAdds DEF Tiled
<1> HIDE DEF head
<1>5. q = [r EXCEPT !.HwCnt = @ - k, !.PostCnt = @ + k, !.HwHead = head,
                    !.BDerrs = e, !.BDSerrs = se]
  BY DEF WorkToPost, head
<1> HIDE DEF q
<1>6. q \in RingType
  BY <1>1, <1>2, <1>5 DEF RingType
<1>7. /\ q.FreeCnt = r.FreeCnt /\ q.PreCnt = r.PreCnt /\ q.AllCnt = r.AllCnt
      /\ q.HwCnt = r.HwCnt - k /\ q.PostCnt = r.PostCnt + k
      /\ q.HwHead = head /\ q.PostHead = r.PostHead /\ q.PreHead = r.PreHead
      /\ q.HwTail = r.HwTail /\ q.FreeHead = r.FreeHead
  BY <1>5 DEF RingType
<1>8. q.AllCnt = q.FreeCnt + q.PreCnt + q.HwCnt + q.PostCnt
  BY <1>1, <1>7, RingFields DEF Tiled
<1>9. Tiled(q)
  BY <1>3, <1>4, <1>7, <1>8 DEF Tiled
<1> QED BY <1>6, <1>7, <1>9 DEF q

\* The error counters wrap at ErrMod.
LEMMA FromHwTiled ==
    ASSUME NEW r \in RingType, Tiled(r), NEW mem, NEW limit \in Nat
    PROVE  /\ Dma_BdRingFromHw(r, mem, limit) \in RingType
           /\ Tiled(Dma_BdRingFromHw(r, mem, limit))
           /\ Dma_BdRingFromHw(r, mem, limit).AllCnt = r.AllCnt
           /\ Dma_BdRingFromHw(r, mem, limit).FreeCnt = r.FreeCnt
<1> DEFINE k == FromHwCount(r, mem, limit)
           read == BdRead(r, mem, limit)
           errs == {i \in read : "ERROR" \in mem[i].status}
           serrs == {i \in read : ~IsRxChannel /\ "SHORT" \in mem[i].status}
           e == (r.BDerrs + Cardinality(errs)) % ErrMod
           se == (r.BDSerrs + Cardinality(serrs)) % ErrMod
<1>1. k \in 0 .. r.HwCnt
  BY FromHwCountBound
<1>2. CASE r.HwCnt = 0
  BY <1>2 DEF Dma_BdRingFromHw
<1>3. CASE r.HwCnt # 0
  <2>1. r.HwHead \in BdIndex /\ r.HwCnt \in 1 .. N
    BY <1>3 DEF RingType
  <2>2. WalkLength(r.HwHead, r.HwTail) = r.HwCnt
    BY <2>1, WalkIsCount DEF Tiled
  <2>3. BdScanned(r, mem, limit) \in 0 .. r.HwCnt
    BY <1>3, BdScannedBound
  <2>4. read \subseteq 0 .. N-1
    <3>1. \A m \in 0 .. N : BdSet(r.HwHead, m) \subseteq 0 .. N-1
      BY <2>1, SeekInRing DEF BdSet, BdIndex
    <3>2. \/ read = BdSet(r.HwHead, BdScanned(r, mem, limit))
          \/ /\ read = BdSet(r.HwHead, BdScanned(r, mem, limit) + 1)
             /\ BdScanned(r, mem, limit) + 1 <= r.HwCnt
      BY <2>2, <2>3, <2>1 DEF BdRead
    <3> QED BY <2>1, <2>3, <3>1, <3>2
  <2>5. IsFiniteSet(errs) /\ IsFiniteSet(serrs)
    <3>1. IsFiniteSet(0 .. N-1)
      BY FS_Interval
    <3> QED BY <2>4, <3>1, FS_Subset
  <2>6. Cardinality(errs) \in Nat /\ Cardinality(serrs) \in Nat
    BY <2>5, FS_CardinalityType
  <2>7. e \in 0 .. ErrMod-1 /\ se \in 0 .. ErrMod-1
    <3>1. r.BDerrs \in Nat /\ r.BDSerrs \in Nat
      BY DEF RingType
    <3>2. \A a \in Nat, b \in Nat : (a + b) % ErrMod \in 0 .. ErrMod-1
      OBVIOUS
    <3> HIDE DEF errs, serrs
    <3> QED BY <2>6, <3>1, <3>2
  <2>8. Dma_BdRingFromHw(r, mem, limit) = WorkToPost(r, k, e, se)
    BY <1>3 DEF Dma_BdRingFromHw, WorkToPost
  <2> HIDE DEF k, e, se
  <2> QED BY <1>1, <2>7, <2>8, WorkToPostTiled
<1> QED BY <1>2, <1>3

LEMMA ForceFromHwTiled ==
    ASSUME NEW r \in RingType, Tiled(r), NEW limit \in Nat
    PROVE  /\ Dma_BdRingForceFromHw(r, limit) \in RingType
           /\ Tiled(Dma_BdRingForceFromHw(r, limit))
           /\ Dma_BdRingForceFromHw(r, limit).AllCnt = r.AllCnt
           /\ Dma_BdRingForceFromHw(r, limit).FreeCnt = r.FreeCnt
<1> DEFINE k == ForceFromHwCount(r, limit)
<1>1. k \in 0 .. r.HwCnt
  BY ForceFromHwCountBound
<1> HIDE DEF k
<1>2. Dma_BdRingForceFromHw(r, limit) = WorkToPost(r, k, r.BDerrs, r.BDSerrs)
  BY DEF Dma_BdRingForceFromHw, WorkToPost, RingType, k
<1>3. r.BDerrs \in 0 .. ErrMod-1 /\ r.BDSerrs \in 0 .. ErrMod-1
  BY DEF RingType
<1> QED BY <1>1, <1>2, <1>3, WorkToPostTiled

\* A set of BDs is accepted only from the head of the post-work group.
LEMMA FreeTiled ==
    ASSUME NEW r \in RingType, Tiled(r), NEW n \in Nat, NEW set
    PROVE  /\ Dma_BdRingFree(r, n, set) \in RingType
           /\ Tiled(Dma_BdRingFree(r, n, set))
           /\ Dma_BdRingFree(r, n, set).AllCnt = r.AllCnt
           /\ Dma_BdRingFree(r, n, set).FreeCnt >= r.FreeCnt
<1>1. CASE n = 0 \/ FreeResult(r, n, set) # "XST_SUCCESS"
  BY <1>1 DEF Dma_BdRingFree, RingType
<1>2. CASE ~(n = 0 \/ FreeResult(r, n, set) # "XST_SUCCESS")
  <2> DEFINE q == Dma_BdRingFree(r, n, set)
             head == Dma_mRingSeekahead(r.PostHead, n)
  <2>1. n <= r.PostCnt
    BY <1>2, RingFields DEF FreeResult
  <2>2. /\ n \in 0 .. N /\ r.PostCnt - n \in 0 .. N
        /\ n + (r.PostCnt - n) = r.PostCnt /\ r.PostCnt \in 0 .. N
        /\ r.FreeCnt + n \in 0 .. N /\ r.FreeCnt \in 0 .. N
        /\ r.PostHead \in BdIndex
    BY <2>1, RingFields
  <2>3. head \in BdIndex
    BY <2>2, SeekInRing
  <2>4. r.HwHead = Dma_mRingSeekahead(head, r.PostCnt - n)
    BY <2>2, SeekAdds DEF Tiled
  <2> HIDE DEF head
  <2>5. q = [r EXCEPT !.FreeCnt = @ + n, !.PostCnt = @ - n, !.PostHead = head]
    BY <1>2 DEF Dma_BdRingFree, head
  <2> HIDE DEF q
  <2>6. q \in RingType
    BY <2>2, <2>3, <2>5 DEF RingType
  <2>7. q.FreeCnt = r.FreeCnt + n /\ q.AllCnt = r.AllCnt
    BY <2>5 DEF RingType
  <2>8. Tiled(q)
    BY <2>2, <2>4, <2>5 DEF RingType, Tiled
  <2> QED BY <2>2, <2>6, <2>7, <2>8 DEF q
<1> QED BY <1>1, <1>2

-----------------------------------------------------------------------------
(* The buffer pool. *)

USE TotalNumAssumption, SeqModAssumption

LEMMA AllocCountBound ==
    ASSUME NEW b \in PoolType, NEW n \in Nat
    PROVE  /\ AllocCount(b, n) \in 0 .. n
           /\ AllocCount(b, n) <= TotalNum - b.AllocNum
           /\ \A k \in 0 .. AllocCount(b, n) : AllocCount(b, k) = k
BY DEF PoolType, AllocCount

LEMMA PointerInPool ==
    ASSUME NEW p \in BufIndex, NEW n \in Nat
    PROVE  Forward(p, n) \in BufIndex /\ Back(p, n) \in BufIndex
<1>1. \A a \in Int : a % TotalNum \in 0 .. TotalNum-1
  OBVIOUS
<1>2. p + n \in Int /\ p - n \in Int
  BY DEF BufIndex
<1> QED BY <1>1, <1>2 DEF BufIndex, Forward, Back

LEMMA AllocBufType ==
    ASSUME NEW b \in PoolType, NEW n \in Nat
    PROVE  AllocBuf(b, n) \in PoolType
<1> DEFINE k == AllocCount(b, n)
<1>1. k \in Nat /\ b.AllocNum + k \in 0 .. TotalNum
  BY AllocCountBound DEF PoolType
<1>2. Forward(b.FreePtr, k) \in BufIndex
  BY <1>1, PointerInPool DEF PoolType
<1> QED BY <1>1, <1>2 DEF AllocBuf, PoolType

LEMMA FreeCountBound ==
    ASSUME NEW b \in PoolType, NEW n \in Nat
    PROVE  FreeCount(b, n) \in 0 .. b.AllocNum
BY DEF PoolType, FreeCount

LEMMA FreeBufType ==
    ASSUME NEW b \in PoolType, NEW n \in Nat
    PROVE  /\ FreeUsedBuf(b, n) \in PoolType
           /\ FreeUnusedBuf(b, n) \in PoolType
<1> DEFINE k == FreeCount(b, n)
<1>1. k \in Nat /\ b.AllocNum - k \in 0 .. TotalNum
  BY FreeCountBound DEF PoolType
<1>2. Forward(b.AllocPtr, k) \in BufIndex /\ Back(b.FreePtr, k) \in BufIndex
  BY <1>1, PointerInPool DEF PoolType
<1> QED BY <1>1, <1>2 DEF FreeUsedBuf, FreeUnusedBuf, PoolType

-----------------------------------------------------------------------------
(* The memory and the registers that the ring functions leave. *)

LEMMA OffsetBound ==
    ASSUME NEW p \in BdIndex, NEW i \in BdIndex
    PROVE  Offset(p, i) \in BdIndex
BY DEF BdIndex, Offset

LEMMA MemoryType ==
    ASSUME NEW m \in [BdIndex -> BdType], NEW r, NEW n, NEW p
    PROVE  /\ ToHwBds(r, m, n, p) \in [BdIndex -> BdType]
           /\ ResetIds(m, p, n) \in [BdIndex -> BdType]
           /\ FreeBds(r, m, n, p) \in [BdIndex -> BdType]
<1>1. ToHwBds(r, m, n, p) \in [BdIndex -> BdType]
  BY DEF ToHwBds, BdType
<1>2. ResetIds(m, p, n) \in [BdIndex -> BdType]
  BY DEF ResetIds, BdType
<1>3. FreeBds(r, m, n, p) \in [BdIndex -> BdType]
  <2>1. ASSUME NEW i \in BdIndex
        PROVE  [m[i] EXCEPT !.status = {}, !.SOP = FALSE, !.EOP = FALSE,
                            !.len = 0] \in BdType
    BY DEF BdType
  <2> QED BY <2>1 DEF FreeBds
<1> QED BY <1>1, <1>2, <1>3

LEMMA RegistersType ==
    ASSUME NEW g \in RegsType, NEW r \in RingType, Tiled(r),
           NEW m, NEW n \in Nat, NEW p
    PROVE  ToHwRegs(r, m, n, p, g) \in RegsType
<1>1. CASE n # 0 /\ ToHwResult(r, m, n, p) = "XST_SUCCESS"
  <2>1. n \in 0 .. N /\ p \in BdIndex
    BY <1>1, RingFields DEF ToHwResult
  <2>2. Dma_mRingSeekahead(p, n) \in BdIndex
    BY <2>1, SeekInRing
  <2> QED BY <2>2 DEF ToHwRegs, RegsType
<1>2. CASE ~(n # 0 /\ ToHwResult(r, m, n, p) = "XST_SUCCESS")
  BY <1>2 DEF ToHwRegs
<1> QED BY <1>1, <1>2

-----------------------------------------------------------------------------
(* The two BDs that stay free, as a fact about any ring.                   *)

Spare(r) == r.PreCnt + r.HwCnt + r.PostCnt > 0 => r.FreeCnt >= 2

\* A ring with as many BDs and no fewer free ones keeps its spare BDs.
LEMMA SpareKept ==
    ASSUME NEW r \in RingType, Tiled(r), NEW q \in RingType, Tiled(q),
           q.AllCnt = r.AllCnt,
           q.FreeCnt >= 2 \/ (Spare(r) /\ q.FreeCnt >= r.FreeCnt)
    PROVE  Spare(q)
BY RingFields DEF Tiled, Spare

\* DmaSetupRecvBuffers leaves a tiled ring with its spare BDs.
LEMMA SetupRecvBuffersType ==
    ASSUME TypeOK, NEW r \in RingType, Tiled(r), Spare(r),
           NEW m \in [BdIndex -> BdType],
           DmaSetupRecvBuffers(r, m)
    PROVE  /\ ring' \in RingType /\ Tiled(ring') /\ Spare(ring')
           /\ bd' \in [BdIndex -> BdType]
           /\ regs' \in RegsType
           /\ bufs' \in PoolType
<1> DEFINE n == RecvCount(r)
           a == Dma_BdRingAlloc(r, n)
           f == RecvFill(r, m, n)
<1>1. /\ ring' = Dma_BdRingToHw(a, f, n, r.FreeHead)
      /\ bd' = ToHwBds(a, f, n, r.FreeHead)
      /\ regs' = ToHwRegs(a, f, n, r.FreeHead, regs)
      /\ bufs' = AllocBuf(bufs, n)
  BY DEF DmaSetupRecvBuffers
<1>2. /\ n \in 0 .. r.FreeCnt
      /\ n # 0 => n <= r.FreeCnt - 2
      /\ AllocCount(bufs, n) = n
  <2>1. r.FreeCnt \in Nat /\ bufs \in PoolType
    BY RingFields DEF TypeOK
  <2>2. CASE r.FreeCnt > 2 /\ HandleSet
    <3>1. r.FreeCnt - 2 \in Nat /\ n = AllocCount(bufs, r.FreeCnt - 2)
      BY <2>1, <2>2 DEF RecvCount
    <3>2. n \in 0 .. r.FreeCnt - 2 /\ AllocCount(bufs, n) = n
      BY <2>1, <3>1, AllocCountBound
    <3> QED BY <2>1, <3>2
  <2>3. CASE ~(r.FreeCnt > 2 /\ HandleSet)
    <3>1. n = 0
      BY <2>3 DEF RecvCount
    <3> QED BY <2>1, <3>1 DEF AllocCount, PoolType
  <2> QED BY <2>2, <2>3
<1> HIDE DEF n
<1>3. /\ a \in RingType /\ Tiled(a) /\ a.AllCnt = r.AllCnt
      /\ a.FreeCnt = r.FreeCnt - n
  BY <1>2, AllocTiled
<1>4. n \in Nat
  BY <1>2, RingFields
<1>5. /\ ring' \in RingType /\ Tiled(ring') /\ ring'.AllCnt = r.AllCnt
      /\ ring'.FreeCnt = r.FreeCnt - n
  BY <1>1, <1>3, <1>4, ToHwTiled
<1>6. Spare(ring')
  BY <1>2, <1>5, SpareKept, RingFields
<1>7. f \in [BdIndex -> BdType]
  <2>1. ASSUME NEW i \in BdIndex, Offset(r.FreeHead, i) < n
        PROVE  AllocBufs(bufs, n)[Offset(r.FreeHead, i) + 1] \in BufIndex
    <3>1. Offset(r.FreeHead, i) \in 0 .. n-1
      <4>1. Offset(r.FreeHead, i) \in BdIndex
        BY OffsetBound, RingFields
      <4> QED BY <2>1, <1>4, <4>1 DEF BdIndex
    <3> DEFINE j == Offset(r.FreeHead, i)
    <3>2. j + 1 \in 1 .. AllocCount(bufs, n) /\ (j + 1) - 1 \in Nat
      BY <3>1, <1>2, <1>4
    <3>3. Forward(bufs.FreePtr, (j + 1) - 1) \in BufIndex
      BY <3>2, PointerInPool DEF TypeOK, PoolType
    <3> HIDE DEF j
    <3>4. AllocBufs(bufs, n)[j + 1] = Forward(bufs.FreePtr, (j + 1) - 1)
      BY <3>2 DEF AllocBufs
    <3> QED BY <3>3, <3>4 DEF j
  <2>2. ASSUME NEW i \in BdIndex, NEW b \in BufIndex
        PROVE  [m[i] EXCEPT !.SOP = FALSE, !.EOP = FALSE, !.len = 1,
                            !.usr = {}, !.id = b] \in BdType
    BY DEF BdType
  <2> QED BY <2>1, <2>2 DEF RecvFill
<1>8. bd' \in [BdIndex -> BdType]
  BY <1>1, <1>7, MemoryType
<1>9. regs' \in RegsType
  BY <1>1, <1>3, <1>4, RegistersType DEF TypeOK
<1>10. bufs' \in PoolType
  BY <1>1, <1>4, AllocBufType DEF TypeOK
<1> QED BY <1>5, <1>6, <1>8, <1>9, <1>10

\* The packets of n BDs.
LEMMA PacketsType ==
    ASSUME TypeOK, NEW p \in BdIndex, NEW n \in 0 .. N
    PROVE  Packets(p, n) \in Seq(PacketType)
<1>1. ASSUME NEW j \in 1 .. n
      PROVE  bd[Dma_mRingSeekahead(p, j-1)] \in BdType
  <2>1. j - 1 \in 0 .. N
    OBVIOUS
  <2>2. Dma_mRingSeekahead(p, j-1) \in BdIndex
    BY <2>1, SeekInRing
  <2> QED BY <2>2 DEF TypeOK
<1>2. \A b \in BdType : [buf |-> b.id, flags |-> b.status, usr |-> b.usr,
                         SOP |-> b.SOP, EOP |-> b.EOP] \in PacketType
  BY DEF BdType, PacketType
<1>3. Packets(p, n) \in [1 .. n -> PacketType]
  BY <1>1, <1>2 DEF Packets
<1> QED BY <1>3, SeqDef

-----------------------------------------------------------------------------
(* The inductive invariant.  The spare BDs need the tiling, which bounds   *)
(* what comes back from the hardware by the work group; the tiling needs   *)
(* the types; and the type of a ring needs the tiling, by which the        *)
(* counters stay within the ring.                                          *)

IInv == TypeOK /\ GroupsTile /\ TwoBdsStayFree

LEMMA InvInit == Init => IInv
<1> SUFFICES ASSUME Init PROVE IInv
  OBVIOUS
<1>1. ring \in RingType /\ GroupsTile
  BY ClearedRingTiled DEF Init, GroupsTile
<1>2. TwoBdsStayFree
  BY DEF Init, TwoBdsStayFree, ClearedRing
<1>3. bd \in [BdIndex -> BdType]
  BY DEF Init, ClearedBd, BdType
<1>4. regs \in RegsType /\ ufree \in [n : 0 .. N, set : BdIndex]
  BY DEF Init, RegsType, BdIndex
<1>5. bufs \in PoolType
  BY DEF Init, InitBuffers, PoolType, BufIndex
<1>6. /\ ulist \in Seq(SendType) /\ usent \in 0 .. Len(ulist)
      /\ upkts \in Seq(PacketType) /\ hpkts \in [Handlers -> Seq(PacketType)]
  BY DEF Init
<1>7. rxFrag \in 0 .. MaxRxFrags-1 /\ session \in 0 .. MaxSessions
  BY MaxRxFragsAssumption, SessionsAssumption DEF Init
<1>8. /\ space \in {"none", "live", "freed"} /\ memFault \in BOOLEAN
      /\ EngineState \in {"INITIALIZED", "USER_ASSIGNED", "UNREGISTERING"}
      /\ upc = "unloaded" /\ hpc = [h \in Handlers |-> "idle"]
  BY DEF Init
<1>9. TxSeqNo \in 0 .. SeqMod-1
  BY DEF Init
<1>10. TypeOK
  BY <1>1, <1>3, <1>4, <1>5, <1>6, <1>7, <1>8, <1>9 DEF TypeOK
<1> QED BY <1>1, <1>2, <1>10 DEF IInv

\* What IInv says of the ring, in the terms of the lemmas.
LEMMA InvRing ==
    ASSUME IInv
    PROVE  ring \in RingType /\ Tiled(ring) /\ Spare(ring)
BY DEF IInv, TypeOK, GroupsTile, TwoBdsStayFree, Spare

\* The packet handler.
LEMMA HandlerKeepsInv ==
    ASSUME IInv, NEW h \in Handlers, Handler(h)
    PROVE  IInv'
<1> USE DEF ringVars, userVars
<1>0. ring \in RingType /\ Tiled(ring) /\ Spare(ring) /\ TypeOK
  BY InvRing DEF IInv
<1> DEFINE r == Dma_BdRingFromHw(ring, bd, BdLimit)
           n == FromHwCount(ring, bd, BdLimit)
           p == ring.HwHead
<1>r. /\ r \in RingType /\ Tiled(r) /\ Spare(r)
      /\ r.AllCnt = ring.AllCnt
  BY <1>0, BdLimitAssumption, FromHwTiled, SpareKept, RingFields
<1>1. CASE CheckEngine(h)
  BY <1>1 DEF CheckEngine, IInv, TypeOK, GroupsTile, TwoBdsStayFree, Tiled
<1>2. CASE HandleNothing(h)
  <2>1. /\ ring' \in RingType /\ Tiled(ring') /\ Spare(ring')
        /\ bd' \in [BdIndex -> BdType] /\ regs' \in RegsType
        /\ bufs' \in PoolType
    <3>1. CASE IsRxChannel
      <4>1. DmaSetupRecvBuffers(r, bd)
        BY <1>2, <3>1 DEF HandleNothing
      <4> HIDE DEF r
      <4> QED BY <1>0, <1>r, <4>1, SetupRecvBuffersType DEF TypeOK
    <3>2. CASE ~IsRxChannel
      <4>1. ring' = r /\ UNCHANGED <<bd, regs, bufs>>
        BY <1>2, <3>2 DEF HandleNothing
      <4> QED BY <1>0, <1>r, <4>1 DEF TypeOK
    <3> QED BY <3>1, <3>2
  <2>2. memFault' \in BOOLEAN
    BY <1>2 DEF HandleNothing, Uses
  <2>3. /\ hpc' = [hpc EXCEPT ![h] = "idle"]
        /\ UNCHANGED <<space, EngineState, TxSeqNo, userVars, hpkts, rxFrag>>
    BY <1>2 DEF HandleNothing
  <2> QED BY <1>0, <2>1, <2>2, <2>3
          DEF IInv, TypeOK, GroupsTile, TwoBdsStayFree, Spare
<1>3. CASE HandleCompleted(h)
  <2> DEFINE m == ResetIds(bd, p, n)
  <2>1. n \in 0 .. N /\ p \in BdIndex
    BY <1>0, FromHwCountBound, RingFields, BdLimitAssumption
  <2>2. /\ ring' = Dma_BdRingFree(r, n, p)
        /\ bd' = FreeBds(r, m, n, p)
        /\ \/ hpkts' = [hpkts EXCEPT ![h] = Packets(p, n)]
           \/ hpkts' = [hpkts EXCEPT ![h] = <<>>]
        /\ \/ hpc' = [hpc EXCEPT ![h] = "put"]
           \/ hpc' = [hpc EXCEPT ![h] = "idle"]
        /\ memFault' = (memFault \/ (n > 0 /\ space # "live"))
        /\ UNCHANGED <<regs, space, EngineState, bufs, TxSeqNo, userVars, rxFrag>>
    BY <1>3 DEF HandleCompleted, Uses
  <2> HIDE DEF r, n, p
  <2>3. /\ ring' \in RingType /\ Tiled(ring')
        /\ ring'.AllCnt = r.AllCnt /\ ring'.FreeCnt >= r.FreeCnt
    BY <1>r, <2>1, <2>2, FreeTiled
  <2>4. Spare(ring')
    BY <1>r, <2>3, SpareKept
  <2>5. bd' \in [BdIndex -> BdType]
    BY <1>0, <2>2, MemoryType DEF TypeOK
  <2>6. hpkts' \in [Handlers -> Seq(PacketType)]
    <3>1. Packets(p, n) \in Seq(PacketType) /\ <<>> \in Seq(PacketType)
      BY <1>0, <2>1, PacketsType
    <3> QED BY <1>0, <2>2, <3>1 DEF TypeOK
  <2> QED BY <1>0, <2>2, <2>3, <2>4, <2>5, <2>6
          DEF IInv, TypeOK, GroupsTile, TwoBdsStayFree, Spare
<1>4. CASE PutPkts(h)
  <2>1. bufs' \in PoolType
    <3>1. Len(hpkts[h]) \in Nat
      BY <1>0 DEF TypeOK
    <3> QED BY <1>0, <1>4, <3>1, FreeBufType DEF PutPkts, TypeOK
  <2>2. hpkts' \in [Handlers -> Seq(PacketType)]
    BY <1>0, <1>4 DEF PutPkts, TypeOK
  <2> QED BY <1>4, <2>1, <2>2
          DEF PutPkts, IInv, TypeOK, GroupsTile, TwoBdsStayFree, Tiled
<1>5. CASE Refill(h)
  <2>1. /\ ring' \in RingType /\ Tiled(ring') /\ Spare(ring')
        /\ bd' \in [BdIndex -> BdType] /\ regs' \in RegsType
        /\ bufs' \in PoolType /\ memFault' \in BOOLEAN
    <3>1. CASE IsRxChannel
      <4>1. DmaSetupRecvBuffers(ring, bd) /\ memFault' \in BOOLEAN
        BY <1>5, <3>1 DEF Refill, Uses
      <4> QED BY <1>0, <4>1, SetupRecvBuffersType DEF TypeOK
    <3>2. CASE ~IsRxChannel
      BY <1>0, <1>5, <3>2 DEF Refill, TypeOK
    <3> QED BY <3>1, <3>2
  <2>2. /\ hpc' = [hpc EXCEPT ![h] = "idle"]
        /\ UNCHANGED <<space, EngineState, TxSeqNo, userVars, hpkts, rxFrag>>
    BY <1>5 DEF Refill
  <2> QED BY <1>0, <2>1, <2>2
          DEF IInv, TypeOK, GroupsTile, TwoBdsStayFree, Spare
<1> QED BY <1>1, <1>2, <1>3, <1>4, <1>5 DEF Handler

-----------------------------------------------------------------------------
(* The user thread sends. *)

\* DmaSetupTransmit asks the pool for no more buffers than it has.
LEMMA WholePackets ==
    ASSUME NEW avail \in Nat, NEW f \in Nat \ {0}, NEW k \in 0 .. avail \div f
    PROVE  k * f \in 0 .. avail
<1>1. avail \div f \in Nat /\ (avail \div f) * f <= avail
  OBVIOUS
<1>2. k * f <= (avail \div f) * f
  BY <1>1
<1> QED BY <1>1, <1>2

LEMMA SetupTransmitType ==
    ASSUME TypeOK, DmaSetupTransmit
    PROVE  /\ ulist' \in Seq(SendType) /\ usent' \in 0 .. Len(ulist')
           /\ bufs' \in PoolType /\ TxSeqNo' \in 0 .. SeqMod-1
<1>1. PICK n \in 1 .. MaxPkts, f \in Frags :
        LET avail == (TotalNum - bufs.AllocNum) \div f
            k == IF n <= avail THEN n ELSE avail
        IN  /\ k > 0
            /\ ulist' = [j \in 1 .. k*f |->
                            [buf |-> AllocBufs(bufs, k*f)[j],
                             SOP |-> (j-1) % f = 0, EOP |-> j % f = 0,
                             seq |-> (TxSeqNo + (j-1) \div f) % SeqMod]]
            /\ bufs' = AllocBuf(bufs, k*f)
            /\ TxSeqNo' = (TxSeqNo + k) % SeqMod
  BY DEF DmaSetupTransmit
<1> DEFINE avail == (TotalNum - bufs.AllocNum) \div f
           k == IF n <= avail THEN n ELSE avail
           c == k * f
           Fragment(j) == [buf |-> AllocBufs(bufs, c)[j],
                           SOP |-> (j-1) % f = 0, EOP |-> j % f = 0,
                           seq |-> (TxSeqNo + (j-1) \div f) % SeqMod]
<1>2. f \in Nat \ {0} /\ TotalNum - bufs.AllocNum \in Nat
  BY FragsAssumption DEF TypeOK, PoolType
<1>3. avail \in Nat
  BY <1>2
<1>4. k \in 0 .. avail
  <2> HIDE DEF avail
  <2> QED BY <1>1, <1>3, MaxPktsAssumption
<1>5. c \in 0 .. TotalNum - bufs.AllocNum
  <2> HIDE DEF k
  <2> QED BY <1>2, <1>4, WholePackets
<1>6. /\ ulist' = [j \in 1 .. c |-> Fragment(j)]
      /\ bufs' = AllocBuf(bufs, c)
      /\ TxSeqNo' = (TxSeqNo + k) % SeqMod
  BY <1>1
<1> HIDE DEF c
<1>7. \A a \in Int : a % SeqMod \in 0 .. SeqMod-1
  OBVIOUS
<1>8. ASSUME NEW j \in 1 .. c PROVE Fragment(j) \in SendType
  <2>1. AllocBufs(bufs, c)[j] \in BufIndex
    <3>1. c \in Nat /\ AllocCount(bufs, c) = c
      BY <1>2, <1>5 DEF AllocCount
    <3>2. j - 1 \in Nat /\ bufs.FreePtr \in BufIndex
      BY <3>1 DEF TypeOK, PoolType
    <3> QED BY <3>1, <3>2, PointerInPool DEF AllocBufs
  <2>2. (TxSeqNo + (j-1) \div f) % SeqMod \in 0 .. SeqMod-1
    <3>1. (j-1) \div f \in Int /\ TxSeqNo \in Int
      BY <1>2, <1>5 DEF TypeOK
    <3> QED BY <1>7, <3>1
  <2> QED BY <2>1, <2>2 DEF SendType
<1>9. ulist' \in Seq(SendType)
  <2>1. ulist' \in [1 .. c -> SendType] /\ c \in Nat
    BY <1>2, <1>5, <1>6, <1>8
  <2> QED BY <2>1, SeqDef
<1>10. usent' \in 0 .. Len(ulist')
  <2>1. usent' = 0
    BY DEF DmaSetupTransmit
  <2> QED BY <1>9, <2>1
<1>11. bufs' \in PoolType
  BY <1>2, <1>5, <1>6, AllocBufType DEF TypeOK
<1>12. TxSeqNo' \in 0 .. SeqMod-1
  <2> HIDE DEF k
  <2>1. TxSeqNo + k \in Int
    BY <1>3, <1>4 DEF TypeOK
  <2> QED BY <1>6, <1>7, <2>1
<1> QED BY <1>9, <1>10, <1>11, <1>12

\* Whole packets are sent: a first part of the buffers there is room for.
LEMMA WholeIsPart ==
    ASSUME NEW n \in Nat
    PROVE  n - PartialCount(n) \in 0 .. n
<1> DEFINE S == {0} \cup {j \in 1 .. n : ulist[j].EOP}
<1>1. S \subseteq 0 .. n /\ S # {}
  OBVIOUS
<1>2. Max(S) \in 0 .. n
  BY <1>1, MaxInSet
<1>3. PartialCount(n) = n - Max(S)
  BY DEF PartialCount
<1> QED BY <1>2, <1>3

\* The memory DmaSendPkt fills.
LEMMA SendFillType ==
    ASSUME TypeOK, NEW n \in 0 .. Len(ulist)
    PROVE  SendFill(n) \in [BdIndex -> BdType]
<1>0. Len(ulist) \in Nat /\ ring.FreeHead \in BdIndex
  BY DEF TypeOK, RingType
<1>1. ASSUME NEW i \in BdIndex, Offset(ring.FreeHead, i) < n
      PROVE  ulist[Offset(ring.FreeHead, i) + 1] \in SendType
  <2>1. Offset(ring.FreeHead, i) \in BdIndex
    BY <1>0, OffsetBound
  <2>2. Offset(ring.FreeHead, i) + 1 \in 1 .. Len(ulist)
    BY <1>0, <1>1, <2>1 DEF BdIndex
  <2> QED BY <2>2 DEF TypeOK
<1>2. ASSUME NEW b \in BdType, NEW u \in SendType
      PROVE  [b EXCEPT !.SOP = u.SOP, !.EOP = u.EOP, !.len = 1,
                       !.seq = u.seq, !.id = u.buf] \in BdType
  BY DEF BdType, SendType
<1>3. \A i \in BdIndex : bd[i] \in BdType
  BY DEF TypeOK
<1> QED BY <1>1, <1>2, <1>3 DEF SendFill

\* DmaSendPkt leaves a tiled ring with its spare BDs, and sends a first part
\* of the list it is given.
LEMMA SendPktType ==
    ASSUME IInv, DmaSendPkt
    PROVE  /\ ring' \in RingType /\ Tiled(ring') /\ Spare(ring')
           /\ bd' \in [BdIndex -> BdType] /\ regs' \in RegsType
           /\ memFault' \in BOOLEAN
           /\ usent' \in 0 .. Len(ulist)
<1> DEFINE n == SendCount
           w == n - PartialCount(n)
           a == Dma_BdRingAlloc(ring, n)
           f == SendFill(n)
           p == ring.FreeHead
           t == Dma_BdRingToHw(a, f, w, p)
           back == IF ToHwResult(a, f, w, p) # "XST_SUCCESS" THEN n ELSE n - w
           from == IF ToHwResult(a, f, w, p) # "XST_SUCCESS"
                   THEN p ELSE Dma_mRingSeekahead(p, w)
<1>0. ring \in RingType /\ Tiled(ring) /\ Spare(ring) /\ TypeOK
  BY InvRing DEF IInv
<1>1. CASE n = 0 \/ EngineState # "USER_ASSIGNED"
  <2>1. usent' = 0 /\ UNCHANGED <<ring, bd, regs, memFault>>
    BY <1>1 DEF DmaSendPkt
  <2> QED BY <1>0, <2>1 DEF TypeOK
<1>2. CASE ~(n = 0 \/ EngineState # "USER_ASSIGNED")
  <2>1. /\ ring' = Dma_BdRingUnAlloc(t, back)
        /\ bd' = ResetIds(ToHwBds(a, f, w, p), from, back)
        /\ regs' = ToHwRegs(a, f, w, p, regs)
        /\ usent' = n - back
        /\ memFault' = (memFault \/ (n > 0 /\ space # "live"))
    BY <1>2 DEF DmaSendPkt, Uses
  <2>2. n \in 1 .. Len(ulist) /\ n <= ring.FreeCnt - 2
    <3>1. Len(ulist) \in Nat /\ ring.FreeCnt \in 0 .. N
      BY <1>0, RingFields DEF TypeOK
    <3> QED BY <1>2, <3>1 DEF SendCount
  <2>3. w \in 0 .. n
    <3> HIDE DEF n
    <3>1. n \in Nat
      BY <2>2
    <3> QED BY <3>1, WholeIsPart
  <2>4. back \in 0 .. n
    <3> HIDE DEF n, w
    <3> QED BY <2>2, <2>3
  <2>5. ring.FreeCnt \in 0 .. N /\ n \in 0 .. ring.FreeCnt /\ n \in 0 .. N
    BY <1>0, <2>2, RingFields
  <2> HIDE DEF n
  <2>6. /\ a \in RingType /\ Tiled(a) /\ a.AllCnt = ring.AllCnt
        /\ a.FreeCnt = ring.FreeCnt - n
    BY <1>0, <2>5, AllocTiled
  <2> HIDE DEF w, a, back
  <2>7. w \in Nat
    BY <2>3
  <2>8. /\ t \in RingType /\ Tiled(t) /\ t.AllCnt = ring.AllCnt
        /\ t.FreeCnt = ring.FreeCnt - n
    BY <2>6, <2>7, ToHwTiled
  <2> HIDE DEF t
  <2>9. /\ ring' \in RingType /\ Tiled(ring') /\ ring'.AllCnt = ring.AllCnt
        /\ ring'.FreeCnt >= t.FreeCnt
    <3>1. back \in 0 .. N
      BY <2>4, <2>5
    <3> QED BY <2>1, <2>8, <3>1, UnAllocTiled
  <2>10. Spare(ring')
    <3>1. ring'.FreeCnt >= 2
      BY <2>2, <2>5, <2>8, <2>9, RingFields
    <3> QED BY <3>1 DEF Spare
  <2>11. f \in [BdIndex -> BdType]
    <3>1. n \in 0 .. Len(ulist)
      BY <2>2
    <3> QED BY <1>0, <3>1, SendFillType
  <2>12. bd' \in [BdIndex -> BdType]
    BY <2>1, <2>11, MemoryType
  <2>13. regs' \in RegsType
    BY <1>0, <2>1, <2>6, <2>7, RegistersType DEF TypeOK
  <2>14. usent' \in 0 .. Len(ulist)
    BY <2>1, <2>2, <2>4
  <2>15. memFault' \in BOOLEAN
    BY <2>1
  <2> QED BY <2>9, <2>10, <2>12, <2>13, <2>14, <2>15
<1> QED BY <1>1, <1>2

\* The calls of the user thread that are under way.
LEMMA UserCallKeepsInv ==
    ASSUME IInv, UserCall
    PROVE  IInv'
<1> USE DEF ringVars, hVars
<1>0. ring \in RingType /\ Tiled(ring) /\ Spare(ring) /\ TypeOK
  BY InvRing DEF IInv
<1>1. CASE StoreHandle
  BY <1>1 DEF StoreHandle, IInv, TypeOK, GroupsTile, TwoBdsStayFree, Tiled
<1>2. CASE DmaSendPkt
  <2>1. /\ ring' \in RingType /\ Tiled(ring') /\ Spare(ring')
        /\ bd' \in [BdIndex -> BdType] /\ regs' \in RegsType
        /\ memFault' \in BOOLEAN /\ usent' \in 0 .. Len(ulist)
    BY <1>2, SendPktType
  <2>2. /\ upc' = "trim"
        /\ UNCHANGED <<space, EngineState, bufs, TxSeqNo, ulist, upkts, ufree,
                       session, hVars, rxFrag>>
    BY <1>2 DEF DmaSendPkt
  <2> QED BY <1>0, <2>1, <2>2
          DEF IInv, TypeOK, GroupsTile, TwoBdsStayFree, Spare
<1>3. CASE TakeBack
  <2>1. TxSeqNo' \in 0 .. SeqMod-1 /\ bufs' \in PoolType
    <3>1. CASE usent # Len(ulist)
      <4>1. usent + 1 \in 1 .. Len(ulist) /\ Len(ulist) - usent \in Nat
        BY <1>0, <3>1 DEF TypeOK
      <4>2. ulist[usent + 1].seq \in 0 .. SeqMod-1
        <5>1. ulist[usent + 1] \in SendType
          BY <1>0, <4>1 DEF TypeOK
        <5> QED BY <5>1 DEF SendType
      <4> QED BY <1>0, <1>3, <3>1, <4>1, <4>2, FreeBufType DEF TakeBack, TypeOK
    <3>2. CASE usent = Len(ulist)
      BY <1>0, <1>3, <3>2 DEF TakeBack, TypeOK
    <3> QED BY <3>1, <3>2
  <2>2. ulist' \in Seq(SendType) /\ usent' \in 0 .. Len(ulist')
    BY <1>3 DEF TakeBack
  <2> QED BY <1>3, <2>1, <2>2
          DEF TakeBack, IInv, TypeOK, GroupsTile, TwoBdsStayFree, Tiled
<1>4. CASE RecoverBds
  <2> DEFINE n == ForceFromHwCount(ring, BdLimit)
             p == ring.HwHead
  <2>1. n \in 0 .. N /\ p \in BdIndex
    BY <1>0, ForceFromHwCountBound, RingFields, BdLimitAssumption
  <2>2. /\ ring' = Dma_BdRingForceFromHw(ring, BdLimit)
        /\ bd' = ResetIds(bd, p, n)
        /\ upkts' = Packets(p, n)
        /\ ufree' = [n |-> n, set |-> p]
        /\ memFault' = (memFault \/ (n > 0 /\ space # "live"))
        /\ upc' = IF n > 0 THEN "put" ELSE "release"
        /\ UNCHANGED <<regs, space, EngineState, bufs, TxSeqNo, ulist, usent,
                       session, hVars, rxFrag>>
    BY <1>4 DEF RecoverBds, Uses
  <2> HIDE DEF n, p
  <2>3. /\ ring' \in RingType /\ Tiled(ring')
        /\ ring'.AllCnt = ring.AllCnt /\ ring'.FreeCnt = ring.FreeCnt
    BY <1>0, <2>2, ForceFromHwTiled, BdLimitAssumption
  <2>4. Spare(ring')
    BY <1>0, <2>3, SpareKept, RingFields
  <2>5. bd' \in [BdIndex -> BdType]
    BY <1>0, <2>2, MemoryType DEF TypeOK
  <2>6. upkts' \in Seq(PacketType)
    BY <1>0, <2>1, <2>2, PacketsType
  <2>7. ufree' \in [n : 0 .. N, set : BdIndex]
    BY <2>1, <2>2
  <2> QED BY <1>0, <2>2, <2>3, <2>4, <2>5, <2>6, <2>7
          DEF IInv, TypeOK, GroupsTile, TwoBdsStayFree, Spare
<1>5. CASE PutUnused
  <2>1. bufs' \in PoolType
    <3>1. Len(upkts) \in Nat
      BY <1>0 DEF TypeOK
    <3> QED BY <1>0, <1>5, <3>1, FreeBufType DEF PutUnused, TypeOK
  <2>2. upkts' \in Seq(PacketType)
    BY <1>5 DEF PutUnused
  <2> QED BY <1>5, <2>1, <2>2
          DEF PutUnused, IInv, TypeOK, GroupsTile, TwoBdsStayFree, Tiled
<1>6. CASE FreeRecovered
  <2>1. ufree.n \in Nat
    BY <1>0 DEF TypeOK
  <2>2. /\ ring' \in RingType /\ Tiled(ring')
        /\ ring'.AllCnt = ring.AllCnt /\ ring'.FreeCnt >= ring.FreeCnt
    BY <1>0, <1>6, <2>1, FreeTiled DEF FreeRecovered
  <2>3. Spare(ring')
    BY <1>0, <2>2, SpareKept
  <2>4. bd' \in [BdIndex -> BdType]
    BY <1>0, <1>6, MemoryType DEF FreeRecovered, TypeOK
  <2>5. /\ memFault' \in BOOLEAN /\ upc' = "release"
        /\ UNCHANGED <<regs, space, EngineState, bufs, TxSeqNo, ulist, usent,
                       upkts, ufree, session, hVars, rxFrag>>
    BY <1>6 DEF FreeRecovered, Uses
  <2> QED BY <1>0, <2>2, <2>3, <2>4, <2>5
          DEF IInv, TypeOK, GroupsTile, TwoBdsStayFree, Spare
<1>7. CASE ReleaseSpace
  BY <1>7 DEF ReleaseSpace, IInv, TypeOK, GroupsTile, TwoBdsStayFree, Tiled
<1>8. CASE Detach
  BY <1>8 DEF Detach, IInv, TypeOK, GroupsTile, TwoBdsStayFree, Tiled
<1> QED BY <1>1, <1>2, <1>3, <1>4, <1>5, <1>6, <1>7, <1>8 DEF UserCall

\* The calls the user thread begins.
LEMMA UserStartKeepsInv ==
    ASSUME IInv, UserStart
    PROVE  IInv'
<1> USE DEF ringVars, hVars
<1>0. ring \in RingType /\ Tiled(ring) /\ Spare(ring) /\ TypeOK
  BY InvRing DEF IInv
<1>1. CASE DmaRegister
  <2>1. PICK ok \in BOOLEAN :
          LET r == IF ok THEN Dma_BdRingCreate ELSE ring
          IN  /\ ring' = Dma_BdRingStart(r)
              /\ regs' = Dma_BdRingStartRegs(r, regs)
              /\ bd' = IF ok THEN [i \in BdIndex |-> ClearedBd] ELSE bd
              /\ space' = IF ok THEN "live" ELSE space
    BY <1>1 DEF DmaRegister
  <2> DEFINE r == IF ok THEN Dma_BdRingCreate ELSE ring
  <2>2. r \in RingType /\ Tiled(r)
    BY <1>0, ClearedRingTiled
  <2>3. Spare(r)
    BY <1>0 DEF Spare, Dma_BdRingCreate, ClearedRing
  <2>4. ring' = Dma_BdRingStart(r) /\ regs' = Dma_BdRingStartRegs(r, regs)
    BY <2>1
  <2> HIDE DEF r
  <2>5. ring' \in RingType /\ Tiled(ring') /\ Spare(ring')
    BY <2>2, <2>3, <2>4, StartTiled, SpareKept, RingFields
  <2>6. regs' \in RegsType
    BY <1>0, <2>2, <2>4 DEF Dma_BdRingStartRegs, TypeOK, RegsType, RingType
  <2>7. bd' \in [BdIndex -> BdType] /\ space' \in {"none", "live", "freed"}
    <3>1. ClearedBd \in BdType
      BY DEF ClearedBd, BdType
    <3> QED BY <1>0, <2>1, <3>1 DEF TypeOK
  <2>8. bufs' \in PoolType
    BY <1>1 DEF DmaRegister, InitBuffers, PoolType, BufIndex
  <2>9. /\ EngineState' = "USER_ASSIGNED" /\ TxSeqNo' = 0 /\ rxFrag' = 0
        /\ upc' = "registering" /\ session < MaxSessions /\ session' = session + 1
        /\ UNCHANGED <<memFault, ulist, usent, upkts, ufree, hVars>>
    BY <1>1 DEF DmaRegister
  <2>10. TxSeqNo' \in 0 .. SeqMod-1 /\ rxFrag' \in 0 .. MaxRxFrags-1
    BY <2>9, MaxRxFragsAssumption
  <2>11. session' \in 0 .. MaxSessions
    BY <1>0, <2>9, SessionsAssumption DEF TypeOK
  <2> QED BY <1>0, <2>5, <2>6, <2>7, <2>8, <2>9, <2>10, <2>11
          DEF IInv, TypeOK, GroupsTile, TwoBdsStayFree, Spare
<1>2. CASE DmaSetupTransmit
  <2>1. /\ upc' = "send"
        /\ UNCHANGED <<ringVars, upkts, ufree, session, hVars, rxFrag>>
    BY <1>2 DEF DmaSetupTransmit
  <2>2. /\ ulist' \in Seq(SendType) /\ usent' \in 0 .. Len(ulist')
        /\ bufs' \in PoolType /\ TxSeqNo' \in 0 .. SeqMod-1
    BY <1>0, <1>2, SetupTransmitType
  <2> QED BY <2>1, <2>2 DEF IInv, TypeOK, GroupsTile, TwoBdsStayFree, Tiled
<1>3. CASE DmaUnregister
  <2>1. ring' = [ring EXCEPT !.RunState = "STOPPED"]
    BY <1>3 DEF DmaUnregister
  <2>2. ring' \in RingType /\ Tiled(ring') /\ Spare(ring')
    BY <1>0, <2>1 DEF RingType, Tiled, Spare
  <2>3. regs' \in RegsType
    BY <1>0, <1>3 DEF DmaUnregister, TypeOK, RegsType
  <2>4. /\ EngineState' = "UNREGISTERING" /\ upc' = "reset"
        /\ UNCHANGED <<bd, space, memFault, bufs, TxSeqNo, ulist, usent, upkts,
                       ufree, session, hVars, rxFrag>>
    BY <1>3 DEF DmaUnregister
  <2> QED BY <1>0, <2>2, <2>3, <2>4
          DEF IInv, TypeOK, GroupsTile, TwoBdsStayFree, Spare
<1>4. CASE Unload
  BY <1>4 DEF Unload, IInv, TypeOK, GroupsTile, TwoBdsStayFree, Tiled
<1> QED BY <1>1, <1>2, <1>3, <1>4 DEF UserStart

-----------------------------------------------------------------------------
(* The hardware writes BDs and moves NEXT_BD, never the ring record.       *)

LEMMA NextBdInRing ==
    ASSUME NEW p \in BdIndex
    PROVE  Dma_mBdRingNext(p) \in BdIndex
BY DEF BdIndex, Dma_mBdRingNext

LEMMA HardwareKeepsInv ==
    ASSUME IInv, Hardware
    PROVE  IInv'
<1> USE DEF userVars, hVars
<1>0. TypeOK /\ regs.NEXT_BD \in BdIndex /\ bd \in [BdIndex -> BdType]
  BY DEF IInv, TypeOK, RegsType
<1>1. ASSUME bd' \in [BdIndex -> BdType],
             \/ regs' = [regs EXCEPT !.NEXT_BD = Dma_mBdRingNext(@)]
             \/ regs' = regs,
             rxFrag' \in 0 .. MaxRxFrags-1,
             UNCHANGED <<ring, space, EngineState, memFault, bufs, TxSeqNo,
                         userVars, hVars>>
      PROVE  IInv'
  <2>1. regs' \in RegsType
    BY <1>0, <1>1, NextBdInRing DEF TypeOK, RegsType
  <2> QED BY <1>1, <2>1 DEF IInv, TypeOK, GroupsTile, TwoBdsStayFree, Tiled
<1>2. CASE HwTransmit
  <2>1. PICK errs \in SUBSET HwErrors :
          bd' = [bd EXCEPT ![regs.NEXT_BD].status = {"COMP"} \cup errs]
    BY <1>2 DEF HwTransmit
  <2>2. {"COMP"} \cup errs \in SUBSET StatusFlags
    BY HwErrorsAssumption DEF StatusFlags
  <2>3. bd' \in [BdIndex -> BdType]
    BY <1>0, <2>1, <2>2 DEF BdType
  <2> QED BY <1>0, <1>1, <1>2, <2>3 DEF HwTransmit, TypeOK
<1>3. CASE HwReceive
  <2>1. PICK errs \in SUBSET HwErrors, eop \in BOOLEAN,
             zero \in SUBSET {"USER_HIGH_ZERO", "USER_LOW_ZERO"} :
          /\ rxFrag + 1 = MaxRxFrags => eop
          /\ bd' = [bd EXCEPT ![regs.NEXT_BD].status =
                    {"COMP"} \cup errs \cup zero \cup (IF eop THEN {"EOP"} ELSE {})]
          /\ rxFrag' = IF eop THEN 0 ELSE rxFrag + 1
    BY <1>3 DEF HwReceive
  <2> DEFINE st == {"COMP"} \cup errs \cup zero \cup (IF eop THEN {"EOP"} ELSE {})
  <2>2. st \in SUBSET StatusFlags
    BY HwErrorsAssumption DEF StatusFlags
  <2> HIDE DEF st
  <2>3. bd' \in [BdIndex -> BdType]
    <3>1. bd' = [bd EXCEPT ![regs.NEXT_BD].status = st]
      BY <2>1 DEF st
    <3> QED BY <1>0, <2>2, <3>1 DEF BdType
  <2>4. rxFrag' \in 0 .. MaxRxFrags-1
    BY <1>0, <2>1, MaxRxFragsAssumption DEF TypeOK
  <2> QED BY <1>1, <1>3, <2>3, <2>4 DEF HwReceive
<1>4. ASSUME NEW i \in BdIndex, HwUserWord(i) PROVE IInv'
  <2>1. PICK x \in {"HIGH", "LOW"} : bd' = [bd EXCEPT ![i].usr = @ \cup {x}]
    BY <1>4 DEF HwUserWord
  <2>2. bd' \in [BdIndex -> BdType]
    BY <1>0, <2>1 DEF BdType
  <2> QED BY <1>0, <1>1, <1>4, <2>2 DEF HwUserWord, TypeOK
<1> QED BY <1>2, <1>3, <1>4 DEF Hardware

-----------------------------------------------------------------------------
(* The theorems. *)

LEMMA InvStep == IInv /\ [Next]_vars => IInv'
<1> SUFFICES ASSUME IInv, [Next]_vars PROVE IInv'
  OBVIOUS
<1>1. CASE \E h \in Handlers : Handler(h)
  BY <1>1, HandlerKeepsInv
<1>2. CASE UserCall
  BY <1>2, UserCallKeepsInv
<1>3. CASE UserStart
  BY <1>3, UserStartKeepsInv
<1>4. CASE Hardware
  BY <1>4, HardwareKeepsInv
<1>5. CASE UNCHANGED vars
  BY <1>5 DEF vars, ringVars, userVars, hVars, IInv, TypeOK, GroupsTile,
              TwoBdsStayFree, Tiled
<1> QED BY <1>1, <1>2, <1>3, <1>4, <1>5 DEF Next

\* The invariant the theorems rest on holds in every reachable state.
THEOREM Invariance == Spec => []IInv
BY InvInit, InvStep, PTL DEF Spec

\* The fields of the ring, the registers, the pool and the lists the threads
\* pass on stay in their ranges: no ring pointer leaves the ring, no counter
\* or DmaSendPkt's result goes below zero or past its bound.
THEOREM TypeCorrect == Spec => []TypeOK
<1>1. IInv => TypeOK
  BY DEF IInv
<1> QED BY <1>1, Invariance, PTL

\* Whatever DmaSendPkt, PktHandler, DmaSetupRecvBuffers and descriptor_free do
\* and in whatever order, the groups of the ring tile it, so no BD is in two.
THEOREM Tiling == Spec => []GroupsTile
<1>1. IInv => GroupsTile
  BY DEF IInv
<1> QED BY <1>1, Invariance, PTL

\* The ring never fills: two BDs stay free while any is in use, so its tail
\* cannot catch up with its head.
THEOREM SpareBds == Spec => []TwoBdsStayFree
<1>1. IInv => TwoBdsStayFree
  BY DEF IInv
<1> QED BY <1>1, Invariance, PTL

\* The three together: the BD ring stays sound under every interleaving of the
\* operations of the base driver and of the user driver.
THEOREM RingStaysSound == Spec => []RingSound
<1>1. IInv => RingSound
  BY DEF IInv, RingSound
<1> QED BY <1>1, Invariance, PTL

-----------------------------------------------------------------------------
(* The sequence numbers.  Of a BD only its number and whether it ends a    *)
(* packet matter here; the packets with the hardware form a chain, and the *)
(* number expected next is that of the first buffer not yet sent or, when  *)
(* there is none, TxSeqNo.                                                 *)

Following(b) == IF b.EOP THEN (b.seq + 1) % SeqMod ELSE b.seq

HwBd(r, m, k) == m[Dma_mRingSeekahead(r.HwHead, k)]

Chained(r, m) ==
    \A k \in 0 .. r.HwCnt - 2 : HwBd(r, m, k + 1).seq = Following(HwBd(r, m, k))

EndsBefore(r, m, x) == r.HwCnt > 0 => x = Following(HwBd(r, m, r.HwCnt - 1))

Unsent == upc \in {"send", "trim"}

Expected == IF Unsent /\ usent < Len(ulist) THEN ulist[usent + 1].seq ELSE TxSeqNo

ListChained ==
    \A j \in 1 .. Len(ulist) :
        Following(ulist[j]) = IF j < Len(ulist) THEN ulist[j + 1].seq ELSE TxSeqNo

TxSeqInv ==
    /\ Chained(ring, bd)
    /\ upc = "running" \/ Unsent => EndsBefore(ring, bd, Expected)
    /\ Unsent => ListChained /\ Len(ulist) > 0
    /\ upc = "send" => usent = 0
    /\ upc = "running" \/ Unsent \/ upc = "reset" \/ ring.HwCnt = 0

\* A C2S engine numbers nothing.
Unnumbered(m) == \A i \in BdIndex : m[i].seq = 0 /\ ~m[i].EOP
RxSeqInv == Unnumbered(bd) /\ TxSeqNo = 0 /\ ~Unsent

SeqInv == IF IsRxChannel THEN RxSeqInv ELSE TxSeqInv

\* What is said of the BDs of a set depends on their numbers and ends only.
Alike(m, q, S) == \A i \in S : m[i].seq = q[i].seq /\ m[i].EOP = q[i].EOP

\* The first n BDs leave the work group.
LEMMA ChainShrinks ==
    ASSUME NEW r \in RingType, Tiled(r), NEW m, NEW n \in 0 .. r.HwCnt,
           NEW q \in RingType, q.HwHead = Dma_mRingSeekahead(r.HwHead, n), q.HwCnt = r.HwCnt - n,
           NEW mq, Alike(m, mq, {Dma_mRingSeekahead(r.HwHead, k) : k \in n .. r.HwCnt - 1})
    PROVE  /\ Chained(r, m) => Chained(q, mq)
           /\ \A x : EndsBefore(r, m, x) => EndsBefore(q, mq, x)
<1>1. r.HwHead \in BdIndex /\ r.HwCnt \in 0 .. N /\ n \in 0 .. N /\ n \in Int /\ r.HwCnt \in Int
  BY RingFields
<1>2. ASSUME NEW k \in 0 .. q.HwCnt - 1
      PROVE  /\ Dma_mRingSeekahead(q.HwHead, k) = Dma_mRingSeekahead(r.HwHead, n + k)
             /\ n + k \in n .. r.HwCnt - 1
             /\ HwBd(r, m, n + k).seq = HwBd(q, mq, k).seq
             /\ HwBd(r, m, n + k).EOP = HwBd(q, mq, k).EOP
             /\ Following(HwBd(r, m, n + k)) = Following(HwBd(q, mq, k))
  <2>1. n + k \in n .. r.HwCnt - 1 /\ k \in 0 .. N /\ n + k <= N
    BY <1>1
  <2>2. Dma_mRingSeekahead(q.HwHead, k) = Dma_mRingSeekahead(r.HwHead, n + k)
    BY <1>1, <2>1, SeekAdds
  <2>3. /\ HwBd(r, m, n + k).seq = HwBd(q, mq, k).seq
        /\ HwBd(r, m, n + k).EOP = HwBd(q, mq, k).EOP
    BY <2>1, <2>2 DEF HwBd, Alike
  <2> QED BY <2>1, <2>2, <2>3 DEF Following
<1>3. ASSUME Chained(r, m), NEW k \in 0 .. q.HwCnt - 2
      PROVE  HwBd(q, mq, k + 1).seq = Following(HwBd(q, mq, k))
  <2>1. k \in 0 .. q.HwCnt - 1 /\ k + 1 \in 0 .. q.HwCnt - 1 /\ n + k \in 0 .. r.HwCnt - 2
        /\ n + (k + 1) = (n + k) + 1
    BY <1>1
  <2>2. HwBd(r, m, (n + k) + 1).seq = Following(HwBd(r, m, n + k))
    BY <1>3, <2>1 DEF Chained
  <2> QED BY <1>2, <2>1, <2>2
<1>4. ASSUME NEW x, EndsBefore(r, m, x), q.HwCnt > 0
      PROVE  x = Following(HwBd(q, mq, q.HwCnt - 1))
  <2>1. q.HwCnt - 1 \in 0 .. q.HwCnt - 1 /\ n + (q.HwCnt - 1) = r.HwCnt - 1 /\ r.HwCnt > 0
    BY <1>1, <1>4
  <2>2. x = Following(HwBd(r, m, r.HwCnt - 1))
    BY <1>4, <2>1 DEF EndsBefore
  <2> QED BY <1>2, <2>1, <2>2
<1> QED BY <1>3, <1>4 DEF Chained, EndsBefore

\* The case in which only other parts of the BDs and of the ring change.
LEMMA ChainStays ==
    ASSUME NEW r \in RingType, Tiled(r), NEW m, NEW q \in RingType, q.HwHead = r.HwHead,
           q.HwCnt = r.HwCnt, NEW mq, Alike(m, mq, BdIndex)
    PROVE  /\ Chained(r, m) => Chained(q, mq)
           /\ \A x : EndsBefore(r, m, x) => EndsBefore(q, mq, x)
<1>1. r.HwHead \in BdIndex /\ r.HwCnt \in 0 .. N
  BY RingFields
<1>2. Dma_mRingSeekahead(r.HwHead, 0) = r.HwHead /\ 0 \in 0 .. r.HwCnt /\ r.HwCnt - 0 = r.HwCnt
  BY <1>1 DEF BdIndex, Dma_mRingSeekahead
<1>3. \A k \in 0 .. r.HwCnt - 1 : Dma_mRingSeekahead(r.HwHead, k) \in BdIndex
  BY <1>1, SeekInRing
<1>4. Alike(m, mq, {Dma_mRingSeekahead(r.HwHead, k) : k \in 0 .. r.HwCnt - 1})
  BY <1>3 DEF Alike
<1> QED BY <1>2, <1>4, ChainShrinks

\* The ring functions leave numbers and ends alone, but for those of the BDs
\* that are freed.
LEMMA MemoryAlike ==
    ASSUME NEW m \in [BdIndex -> BdType], NEW r, NEW n, NEW p
    PROVE  /\ Alike(m, ToHwBds(r, m, n, p), BdIndex)
           /\ Alike(m, ResetIds(m, p, n), BdIndex)
           /\ Alike(m, FreeBds(r, m, n, p), BdIndex \ BdSet(p, n))
           /\ \A i \in BdIndex : /\ FreeBds(r, m, n, p)[i].seq = m[i].seq
                                 /\ ~m[i].EOP => ~FreeBds(r, m, n, p)[i].EOP
<1>1. Alike(m, ToHwBds(r, m, n, p), BdIndex)
  BY DEF Alike, ToHwBds, BdType
<1>2. Alike(m, ResetIds(m, p, n), BdIndex)
  BY DEF Alike, ResetIds, BdType
<1>3. \A i \in BdIndex : m[i] \in BdType
  OBVIOUS
<1>4. ASSUME NEW b \in BdType
      PROVE  /\ [b EXCEPT !.status = {}, !.SOP = FALSE, !.EOP = FALSE, !.len = 0].seq = b.seq
             /\ ~[b EXCEPT !.status = {}, !.SOP = FALSE, !.EOP = FALSE, !.len = 0].EOP
  BY DEF BdType
<1>5. Alike(m, FreeBds(r, m, n, p), BdIndex \ BdSet(p, n))
  BY DEF Alike, FreeBds
<1>6. \A i \in BdIndex : /\ FreeBds(r, m, n, p)[i].seq = m[i].seq
                         /\ ~m[i].EOP => ~FreeBds(r, m, n, p)[i].EOP
  BY <1>3, <1>4 DEF FreeBds
<1> QED BY <1>1, <1>2, <1>5, <1>6

\* Only these ring functions move the work group.
LEMMA WorkGroup ==
    ASSUME NEW r \in RingType, Tiled(r), NEW m, NEW limit \in Nat, NEW n, NEW p
    PROVE  /\ Dma_BdRingFromHw(r, m, limit).HwHead
                = Dma_mRingSeekahead(r.HwHead, FromHwCount(r, m, limit))
           /\ Dma_BdRingFromHw(r, m, limit).HwCnt = r.HwCnt - FromHwCount(r, m, limit)
           /\ Dma_BdRingForceFromHw(r, limit).HwHead
                = Dma_mRingSeekahead(r.HwHead, ForceFromHwCount(r, limit))
           /\ Dma_BdRingForceFromHw(r, limit).HwCnt = r.HwCnt - ForceFromHwCount(r, limit)
           /\ Dma_BdRingFree(r, n, p).HwHead = r.HwHead /\ Dma_BdRingFree(r, n, p).HwCnt = r.HwCnt
           /\ Dma_BdRingAlloc(r, n).HwHead = r.HwHead /\ Dma_BdRingAlloc(r, n).HwCnt = r.HwCnt
           /\ Dma_BdRingUnAlloc(r, n).HwHead = r.HwHead /\ Dma_BdRingUnAlloc(r, n).HwCnt = r.HwCnt
           /\ Dma_BdRingStart(r).HwHead = r.HwHead /\ Dma_BdRingStart(r).HwCnt = r.HwCnt
<1>1. r.HwHead \in BdIndex /\ r.HwCnt \in 0 .. N
  BY RingFields
<1>2. Dma_mRingSeekahead(r.HwHead, 0) = r.HwHead
  BY <1>1 DEF BdIndex, Dma_mRingSeekahead
<1>3. /\ Dma_BdRingFromHw(r, m, limit).HwHead
            = Dma_mRingSeekahead(r.HwHead, FromHwCount(r, m, limit))
      /\ Dma_BdRingFromHw(r, m, limit).HwCnt = r.HwCnt - FromHwCount(r, m, limit)
  <2>1. CASE r.HwCnt = 0
    BY <1>1, <1>2, <2>1 DEF Dma_BdRingFromHw, FromHwCount
  <2>2. CASE r.HwCnt # 0
    <3> DEFINE k == FromHwCount(r, m, limit)
               e == (r.BDerrs + Cardinality({i \in BdRead(r, m, limit) : "ERROR" \in m[i].status}))
                        % ErrMod
               se == (r.BDSerrs + Cardinality({i \in BdRead(r, m, limit) :
                                        ~IsRxChannel /\ "SHORT" \in m[i].status})) % ErrMod
    <3>1. Dma_BdRingFromHw(r, m, limit)
            = [r EXCEPT !.HwCnt = @ - k, !.PostCnt = @ + k,
                        !.HwHead = Dma_mRingSeekahead(@, k), !.BDerrs = e, !.BDSerrs = se]
      BY <2>2 DEF Dma_BdRingFromHw
    <3> HIDE DEF k, e, se
    <3>2. /\ Dma_BdRingFromHw(r, m, limit).HwHead = Dma_mRingSeekahead(r.HwHead, k)
          /\ Dma_BdRingFromHw(r, m, limit).HwCnt = r.HwCnt - k
      BY <3>1 DEF RingType
    <3> QED BY <3>2 DEF k
  <2> QED BY <2>1, <2>2
<1>4. /\ Dma_BdRingForceFromHw(r, limit).HwHead
            = Dma_mRingSeekahead(r.HwHead, ForceFromHwCount(r, limit))
      /\ Dma_BdRingForceFromHw(r, limit).HwCnt = r.HwCnt - ForceFromHwCount(r, limit)
  BY DEF Dma_BdRingForceFromHw, RingType
<1>5. Dma_BdRingFree(r, n, p).HwHead = r.HwHead /\ Dma_BdRingFree(r, n, p).HwCnt = r.HwCnt
  BY DEF Dma_BdRingFree, RingType
<1>6. /\ Dma_BdRingAlloc(r, n).HwHead = r.HwHead /\ Dma_BdRingAlloc(r, n).HwCnt = r.HwCnt
      /\ Dma_BdRingUnAlloc(r, n).HwHead = r.HwHead /\ Dma_BdRingUnAlloc(r, n).HwCnt = r.HwCnt
      /\ Dma_BdRingStart(r).HwHead = r.HwHead /\ Dma_BdRingStart(r).HwCnt = r.HwCnt
  BY DEF Dma_BdRingAlloc, Dma_BdRingUnAlloc, Dma_BdRingStart, RingType
<1> QED BY <1>3, <1>4, <1>5, <1>6

\* Different positions in the ring hold different BDs.
LEMMA SeekApart ==
    ASSUME NEW p \in BdIndex, NEW k \in 0 .. N-1, NEW n \in Nat, n <= k
    PROVE  Dma_mRingSeekahead(p, k) \in BdIndex \ BdSet(p, n)
<1>1. Dma_mRingSeekahead(p, k) \in BdIndex
  BY SeekInRing
<1>2. ASSUME NEW i \in 0 .. n-1
      PROVE  Dma_mRingSeekahead(p, k) # Dma_mRingSeekahead(p, i)
  BY DEF BdIndex, Dma_mRingSeekahead
<1> QED BY <1>1, <1>2 DEF BdSet

\* A step that moves no packet and leaves the user thread alone.
LEMMA TxStays ==
    ASSUME IInv, TxSeqInv, ring' \in RingType, ring'.HwHead = ring.HwHead,
           ring'.HwCnt = ring.HwCnt, Alike(bd, bd', BdIndex),
           UNCHANGED <<TxSeqNo, upc, ulist, usent>>
    PROVE  TxSeqInv'
<1>1. Chained(ring', bd') /\ \A x : EndsBefore(ring, bd, x) => EndsBefore(ring', bd', x)
  BY InvRing, ChainStays DEF TxSeqInv
<1>2. Expected' = Expected /\ Unsent' = Unsent /\ ListChained' = ListChained
  BY DEF Expected, Unsent, ListChained, Following
<1> QED BY <1>1, <1>2 DEF TxSeqInv

LEMMA HandlerTx ==
    ASSUME ~IsRxChannel, IInv, TxSeqInv, NEW h \in Handlers, Handler(h)
    PROVE  TxSeqInv'
<1> USE DEF ringVars, userVars
<1>0. ring \in RingType /\ Tiled(ring) /\ bd \in [BdIndex -> BdType] /\ ring' \in RingType
  BY HandlerKeepsInv, InvRing DEF IInv, TypeOK
<1>a. Alike(bd, bd, BdIndex)
  BY DEF Alike
<1> DEFINE r == Dma_BdRingFromHw(ring, bd, BdLimit)
           n == FromHwCount(ring, bd, BdLimit)
           p == ring.HwHead
<1>b. /\ r \in RingType /\ Tiled(r) /\ n \in 0 .. ring.HwCnt
      /\ r.HwHead = Dma_mRingSeekahead(p, n) /\ r.HwCnt = ring.HwCnt - n
  BY <1>0, FromHwTiled, WorkGroup, FromHwCountBound, BdLimitAssumption
<1>1. CASE CheckEngine(h) \/ PutPkts(h) \/ Refill(h)
  <2>1. UNCHANGED <<ring, bd, TxSeqNo, upc, ulist, usent>>
    BY <1>1 DEF CheckEngine, PutPkts, Refill
  <2> QED BY <1>0, <1>a, <2>1, TxStays
<1>2. CASE HandleNothing(h)
  <2>1. ring' = r /\ n = 0 /\ UNCHANGED <<bd, TxSeqNo, upc, ulist, usent>>
    BY <1>2 DEF HandleNothing
  <2>2. Dma_mRingSeekahead(p, 0) = p
    BY <1>0, RingFields DEF BdIndex, Dma_mRingSeekahead
  <2> HIDE DEF r, n
  <2>3. ring'.HwHead = ring.HwHead /\ ring'.HwCnt = ring.HwCnt
    BY <1>0, <1>b, <2>1, <2>2, RingFields
  <2> QED BY <1>0, <1>a, <2>1, <2>3, TxStays
<1>3. CASE HandleCompleted(h)
  <2> DEFINE m == ResetIds(bd, p, n)
  <2>1. /\ ring' = Dma_BdRingFree(r, n, p) /\ bd' = FreeBds(r, m, n, p)
        /\ UNCHANGED <<TxSeqNo, upc, ulist, usent>>
    BY <1>3 DEF HandleCompleted
  <2> HIDE DEF r, n
  <2>2. ring'.HwHead = Dma_mRingSeekahead(p, n) /\ ring'.HwCnt = ring.HwCnt - n
    <3>1. Dma_BdRingFree(r, n, p).HwHead = r.HwHead /\ Dma_BdRingFree(r, n, p).HwCnt = r.HwCnt
      BY <1>b, WorkGroup, BdLimitAssumption
    <3> QED BY <1>b, <2>1, <3>1
  <2>3. m \in [BdIndex -> BdType] /\ Alike(bd, m, BdIndex)
    BY <1>0, MemoryAlike, MemoryType
  <2>4. Alike(m, bd', BdIndex \ BdSet(p, n))
    BY <2>1, <2>3, MemoryAlike
  <2>5. \A k \in n .. ring.HwCnt - 1 : Dma_mRingSeekahead(p, k) \in BdIndex \ BdSet(p, n)
    <3>1. p \in BdIndex /\ ring.HwCnt \in 0 .. N /\ n \in Nat
      BY <1>0, <1>b, RingFields
    <3>2. \A k \in n .. ring.HwCnt - 1 : k \in 0 .. N-1 /\ n <= k
      BY <1>b, <3>1
    <3> QED BY <3>1, <3>2, SeekApart
  <2>6. Alike(bd, bd', {Dma_mRingSeekahead(p, k) : k \in n .. ring.HwCnt - 1})
    BY <2>3, <2>4, <2>5 DEF Alike
  <2>7. Chained(ring', bd') /\ \A x : EndsBefore(ring, bd, x) => EndsBefore(ring', bd', x)
    BY <1>0, <1>b, <2>2, <2>6, ChainShrinks DEF TxSeqInv
  <2>8. Expected' = Expected /\ Unsent' = Unsent /\ ListChained' = ListChained
    BY <2>1 DEF Expected, Unsent, ListChained, Following
  <2>9. ring.HwCnt = 0 => ring'.HwCnt = 0
    BY <1>0, <1>b, <2>2, RingFields
  <2> QED BY <2>1, <2>7, <2>8, <2>9 DEF TxSeqInv
<1> QED BY <1>1, <1>2, <1>3 DEF Handler

\* Where a BD of the ring lies, counted from another one.
LEMMA OffsetOfSeek ==
    ASSUME NEW h \in BdIndex, NEW c \in 0 .. N, NEW k \in 0 .. N-1
    PROVE  Offset(Dma_mRingSeekahead(h, c), Dma_mRingSeekahead(h, k))
              = IF c = N THEN k ELSE IF k >= c THEN k - c ELSE k - c + N
BY DEF BdIndex, Dma_mRingSeekahead, Offset

\* Numbered BDs that follow on the work group join it.
LEMMA ChainGrows ==
    ASSUME NEW r \in RingType, Tiled(r), NEW m, NEW q, NEW mq, NEW u, NEW w \in Nat \ {0},
           q.HwHead = r.HwHead, q.HwCnt = r.HwCnt + w,
           \A k \in 0 .. r.HwCnt - 1 :
              /\ HwBd(q, mq, k).seq = HwBd(r, m, k).seq
              /\ HwBd(q, mq, k).EOP = HwBd(r, m, k).EOP,
           \A k \in 0 .. w - 1 :
              /\ HwBd(q, mq, r.HwCnt + k).seq = u[k + 1].seq
              /\ HwBd(q, mq, r.HwCnt + k).EOP = u[k + 1].EOP,
           \A j \in 1 .. w - 1 : u[j + 1].seq = Following(u[j]),
           Chained(r, m), EndsBefore(r, m, u[1].seq)
    PROVE  Chained(q, mq) /\ EndsBefore(q, mq, Following(u[w]))
<1>1. r.HwCnt \in 0 .. N /\ r.HwCnt \in Int
  BY RingFields
<1>2. \A k \in 0 .. r.HwCnt - 1 : Following(HwBd(q, mq, k)) = Following(HwBd(r, m, k))
  BY DEF Following
<1>3. \A k \in 0 .. w - 1 : Following(HwBd(q, mq, r.HwCnt + k)) = Following(u[k + 1])
  BY DEF Following
<1>4. ASSUME NEW k \in 0 .. q.HwCnt - 2
      PROVE  HwBd(q, mq, k + 1).seq = Following(HwBd(q, mq, k))
  <2>1. CASE k + 1 < r.HwCnt
    <3>1. k \in 0 .. r.HwCnt - 2 /\ k \in 0 .. r.HwCnt - 1 /\ k + 1 \in 0 .. r.HwCnt - 1
      BY <1>1, <2>1
    <3> QED BY <1>2, <3>1 DEF Chained
  <2>2. CASE k + 1 = r.HwCnt
    <3>1. k \in 0 .. r.HwCnt - 1 /\ k = r.HwCnt - 1 /\ r.HwCnt > 0 /\ 0 \in 0 .. w - 1
          /\ k + 1 = r.HwCnt + 0
      BY <1>1, <2>2
    <3>2. HwBd(q, mq, k + 1).seq = u[1].seq
      <4>1. HwBd(q, mq, r.HwCnt + 0).seq = u[0 + 1].seq
        BY <3>1
      <4> QED BY <3>1, <4>1
    <3>3. u[1].seq = Following(HwBd(r, m, k))
      BY <3>1 DEF EndsBefore
    <3> QED BY <1>2, <3>1, <3>2, <3>3
  <2>3. CASE k + 1 > r.HwCnt
    <3> DEFINE j == k - r.HwCnt
    <3>1. /\ j \in 0 .. w - 1 /\ j + 1 \in 0 .. w - 1 /\ j + 1 \in 1 .. w - 1
          /\ k = r.HwCnt + j /\ k + 1 = r.HwCnt + (j + 1)
      BY <1>1, <2>3
    <3> HIDE DEF j
    <3>2. HwBd(q, mq, r.HwCnt + (j + 1)).seq = u[(j + 1) + 1].seq
      BY <3>1
    <3>3. u[(j + 1) + 1].seq = Following(u[j + 1])
      BY <3>1
    <3>4. Following(HwBd(q, mq, r.HwCnt + j)) = Following(u[j + 1])
      BY <1>3, <3>1
    <3> QED BY <3>1, <3>2, <3>3, <3>4
  <2> QED BY <1>1, <2>1, <2>2, <2>3
<1>5. Following(u[w]) = Following(HwBd(q, mq, q.HwCnt - 1))
  <2>1. q.HwCnt - 1 = r.HwCnt + (w - 1) /\ w - 1 \in 0 .. w - 1 /\ (w - 1) + 1 = w
    BY <1>1
  <2>2. Following(HwBd(q, mq, r.HwCnt + (w - 1))) = Following(u[(w - 1) + 1])
    BY <1>3, <2>1
  <2> QED BY <2>1, <2>2
<1> QED BY <1>4, <1>5 DEF Chained, EndsBefore

\* DmaSendPkt fills BDs behind the work group only, and those that go to the
\* hardware carry the first buffers of the list.
LEMMA SendTx ==
    ASSUME ~IsRxChannel, IInv, TxSeqInv, DmaSendPkt
    PROVE  TxSeqInv'
<1> DEFINE n == SendCount
           w == n - PartialCount(n)
           a == Dma_BdRingAlloc(ring, n)
           f == SendFill(n)
           p == ring.FreeHead
           t == Dma_BdRingToHw(a, f, w, p)
           failed == ToHwResult(a, f, w, p) # "XST_SUCCESS"
           back == IF failed THEN n ELSE n - w
           from == IF failed THEN p ELSE Dma_mRingSeekahead(p, w)
           h == ring.HwHead
           c == ring.HwCnt
<1>0. /\ ring \in RingType /\ Tiled(ring) /\ TypeOK /\ bd \in [BdIndex -> BdType]
      /\ h \in BdIndex /\ p \in BdIndex /\ c \in 0 .. N /\ ring.PreCnt \in 0 .. N
      /\ ring.FreeCnt \in 0 .. N /\ ring.FreeCnt + ring.PreCnt + c <= N
      /\ ulist \in Seq(SendType) /\ Len(ulist) \in Nat
  <2>1. ring \in RingType /\ Tiled(ring) /\ TypeOK
    BY InvRing DEF IInv
  <2>2. /\ bd \in [BdIndex -> BdType] /\ ulist \in Seq(SendType) /\ Len(ulist) \in Nat
    BY <2>1 DEF TypeOK
  <2>3. /\ h \in BdIndex /\ p \in BdIndex /\ c \in 0 .. N /\ ring.PreCnt \in 0 .. N
        /\ ring.FreeCnt \in 0 .. N /\ ring.PostCnt \in 0 .. N
        /\ ring.FreeCnt + ring.PreCnt + c + ring.PostCnt <= N
    BY <2>1, RingFields
  <2> QED BY <2>1, <2>2, <2>3
<1>1. /\ upc = "send" /\ upc' = "trim" /\ UNCHANGED <<TxSeqNo, ulist>>
      /\ usent = 0 /\ ListChained /\ Len(ulist) > 0 /\ Unsent /\ Unsent'
      /\ Chained(ring, bd) /\ EndsBefore(ring, bd, ulist[1].seq)
  BY DEF DmaSendPkt, TxSeqInv, Unsent, Expected
<1>2. ListChained'
  BY <1>1 DEF ListChained, Following
<1>3. SUFFICES Chained(ring', bd') /\ EndsBefore(ring', bd', Expected')
  BY <1>1, <1>2 DEF TxSeqInv
<1>4. CASE n = 0 \/ EngineState # "USER_ASSIGNED"
  <2>1. usent' = 0 /\ UNCHANGED <<ring, bd>>
    BY <1>4 DEF DmaSendPkt
  <2>2. Expected' = ulist[1].seq
    BY <1>1, <2>1 DEF Expected
  <2> QED BY <1>1, <2>1, <2>2 DEF Chained, EndsBefore, HwBd, Following
<1>5. CASE ~(n = 0 \/ EngineState # "USER_ASSIGNED")
  <2>1. /\ ring' = Dma_BdRingUnAlloc(t, back)
        /\ bd' = ResetIds(ToHwBds(a, f, w, p), from, back)
        /\ usent' = n - back
    BY <1>5 DEF DmaSendPkt
  <2>2. n \in 1 .. Len(ulist) /\ n <= ring.FreeCnt - 2 /\ n \in 0 .. ring.FreeCnt
    BY <1>0, <1>5 DEF SendCount
  <2>3. w \in 0 .. n
    <3> HIDE DEF n
    <3>1. n \in Nat
      BY <2>2
    <3> QED BY <3>1, WholeIsPart
  <2> HIDE DEF n, w, f
  <2>4. a \in RingType /\ Tiled(a) /\ a.HwHead = h /\ a.HwCnt = c /\ a.PreHead = ring.PreHead
    <3>1. a \in RingType /\ Tiled(a)
      BY <1>0, <2>2, AllocTiled
    <3>2. a.HwHead = h /\ a.HwCnt = c
      BY <1>0, WorkGroup, BdLimitAssumption
    <3>3. a.PreHead = ring.PreHead
      BY <1>0 DEF Dma_BdRingAlloc, RingType
    <3> QED BY <3>1, <3>2, <3>3
  <2> HIDE DEF a
  <2>5. f \in [BdIndex -> BdType]
    <3>1. n \in 0 .. Len(ulist)
      BY <2>2
    <3> QED BY <1>0, <3>1, SendFillType DEF f
  <2>6. Alike(f, bd', BdIndex)
    <3>1. /\ ToHwBds(a, f, w, p) \in [BdIndex -> BdType]
          /\ Alike(f, ToHwBds(a, f, w, p), BdIndex)
      BY <2>5, MemoryType, MemoryAlike
    <3>2. Alike(ToHwBds(a, f, w, p), bd', BdIndex)
      BY <2>1, <3>1, MemoryAlike
    <3> QED BY <3>1, <3>2 DEF Alike
  <2>7. ASSUME NEW k \in 0 .. c - 1
        PROVE  HwBd(ring, bd', k).seq = HwBd(ring, bd, k).seq
               /\ HwBd(ring, bd', k).EOP = HwBd(ring, bd, k).EOP
    <3> DEFINE i == Dma_mRingSeekahead(h, k)
               d == c + ring.PreCnt
    <3> HIDE DEF h, c, p
    <3>1. k \in 0 .. N-1 /\ k \in 0 .. N /\ d \in 0 .. N /\ k < c /\ n <= N - d
      BY <1>0, <2>2
    <3>a. i \in BdIndex
      BY <1>0, <3>1, SeekInRing
    <3>2. p = Dma_mRingSeekahead(h, d)
      <4>1. p = Dma_mRingSeekahead(Dma_mRingSeekahead(h, c), ring.PreCnt)
        BY <1>0 DEF Tiled, h, c, p
      <4> QED BY <1>0, <3>1, <4>1, SeekAdds
    <3>3. Offset(p, i) = IF d = N THEN k ELSE IF k >= d THEN k - d ELSE k - d + N
      <4> HIDE DEF d
      <4> QED BY <1>0, <3>1, <3>2, OffsetOfSeek
    <3>4. ~(Offset(p, i) < n)
      <4> HIDE DEF d, i
      <4>1. d \in Int /\ k \in Int /\ n \in Int /\ c \in Int /\ ring.PreCnt >= 0 /\ N \in Int /\ d >= c
        BY <1>0, <2>2, <3>1 DEF d
      <4> QED BY <3>1, <3>3, <4>1
    <3> HIDE DEF i, d
    <3>5. f[i] = bd[i]
      BY <3>a, <3>4 DEF f, SendFill, p
    <3>6. bd'[i].seq = bd[i].seq /\ bd'[i].EOP = bd[i].EOP
      BY <2>6, <3>a, <3>5 DEF Alike
    <3> QED BY <3>6 DEF HwBd, i, h
  <2> DEFINE sent == w # 0 /\ ~failed
  <2>8. t.HwHead = h /\ t.HwCnt = IF sent THEN c + w ELSE c
    BY <1>0, <2>3, <2>4 DEF Dma_BdRingToHw, RingType
  <2>9. t \in RingType /\ Tiled(t)
    BY <2>2, <2>3, <2>4, ToHwTiled
  <2>10. ring' \in RingType /\ Tiled(ring')
    BY SendPktType
  <2>11. ring'.HwHead = h /\ ring'.HwCnt = IF sent THEN c + w ELSE c
    <3> HIDE DEF t, back
    <3>1. Dma_BdRingUnAlloc(t, back).HwHead = t.HwHead /\ Dma_BdRingUnAlloc(t, back).HwCnt = t.HwCnt
      BY <2>9, WorkGroup, BdLimitAssumption
    <3> QED BY <2>1, <2>8, <3>1
  <2>12. w = 0 => ~failed
    BY DEF ToHwResult
  <2>13. usent' = IF sent THEN w ELSE 0
    BY <2>1, <2>2, <2>3, <2>12
  <2>14. CASE ~sent
    <3>1. ring'.HwHead = h /\ ring'.HwCnt = c /\ usent' = 0
      BY <2>11, <2>13, <2>14
    <3>2. Expected' = ulist[1].seq
      BY <1>1, <3>1 DEF Expected
    <3>3. \A k \in 0 .. c - 1 : HwBd(ring', bd', k) = HwBd(ring, bd', k)
      BY <3>1 DEF HwBd
    <3>4. Chained(ring', bd')
      <4>1. ASSUME NEW k \in 0 .. c - 2
            PROVE  HwBd(ring', bd', k + 1).seq = Following(HwBd(ring', bd', k))
        <5>1. k \in 0 .. c - 1 /\ k + 1 \in 0 .. c - 1
          BY <1>0
        <5>2. HwBd(ring, bd, k + 1).seq = Following(HwBd(ring, bd, k))
          BY <1>1 DEF Chained
        <5> QED BY <2>7, <3>3, <5>1, <5>2 DEF Following
      <4> QED BY <3>1, <4>1 DEF Chained
    <3>5. EndsBefore(ring', bd', ulist[1].seq)
      <4>1. SUFFICES ASSUME c > 0 PROVE ulist[1].seq = Following(HwBd(ring', bd', c - 1))
        BY <3>1 DEF EndsBefore
      <4>2. c - 1 \in 0 .. c - 1
        BY <1>0, <4>1
      <4>3. ulist[1].seq = Following(HwBd(ring, bd, c - 1))
        BY <1>1, <4>1 DEF EndsBefore
      <4> QED BY <2>7, <3>3, <4>2, <4>3 DEF Following
    <3> QED BY <3>2, <3>4, <3>5
  <2>15. CASE sent
    <3>1. ring'.HwHead = h /\ ring'.HwCnt = c + w /\ usent' = w /\ w \in Nat \ {0} /\ w \in 1 .. n
      BY <2>2, <2>3, <2>11, <2>13, <2>15
    <3>2. p = Dma_mRingSeekahead(h, c)
      <4>1. p = a.PreHead
        BY <2>3, <2>15 DEF ToHwResult
      <4> QED BY <1>0, <2>4, <4>1 DEF Tiled
    <3>3. ASSUME NEW k \in 0 .. w - 1
          PROVE  /\ HwBd(ring', bd', c + k).seq = ulist[k + 1].seq
                 /\ HwBd(ring', bd', c + k).EOP = ulist[k + 1].EOP
      <4> DEFINE i == Dma_mRingSeekahead(h, c + k)
      <4> HIDE DEF h, c, p, sent, t, back
      <4>1. c + k \in 0 .. N-1 /\ c < N /\ k \in Int /\ k < n
        BY <1>0, <2>2, <3>1
      <4>2. i \in BdIndex
        <5>1. c + k \in 0 .. N
          BY <1>0, <4>1
        <5> QED BY <1>0, <5>1, SeekInRing
      <4>3. Offset(p, i) = k
        <5>1. Offset(Dma_mRingSeekahead(h, c), Dma_mRingSeekahead(h, c + k))
                = IF c = N THEN c + k ELSE IF c + k >= c THEN (c + k) - c ELSE (c + k) - c + N
          BY <1>0, <4>1, OffsetOfSeek
        <5> QED BY <1>0, <3>2, <4>1, <5>1
      <4> HIDE DEF i
      <4>4. f[i] = [bd[i] EXCEPT !.SOP = ulist[k + 1].SOP, !.EOP = ulist[k + 1].EOP, !.len = 1,
                                 !.seq = ulist[k + 1].seq, !.id = ulist[k + 1].buf]
        BY <4>1, <4>2, <4>3 DEF f, SendFill, p
      <4>5. bd[i] \in BdType
        BY <1>0, <4>2
      <4>6. f[i].seq = ulist[k + 1].seq /\ f[i].EOP = ulist[k + 1].EOP
        BY <4>4, <4>5 DEF BdType
      <4>7. bd'[i].seq = f[i].seq /\ bd'[i].EOP = f[i].EOP
        BY <2>6, <4>2 DEF Alike
      <4> QED BY <3>1, <4>6, <4>7 DEF HwBd, i, h, c
    <3>4. \A k \in 0 .. c - 1 : HwBd(ring', bd', k) = HwBd(ring, bd', k)
      BY <3>1 DEF HwBd
    <3>5. \A j \in 1 .. w - 1 : ulist[j + 1].seq = Following(ulist[j])
      <4>1. \A j \in 1 .. w - 1 : j \in 1 .. Len(ulist) /\ j < Len(ulist)
        BY <1>0, <2>2, <3>1
      <4> QED BY <1>1, <4>1 DEF ListChained
    <3>6. Chained(ring', bd') /\ EndsBefore(ring', bd', Following(ulist[w]))
      <4>1. \A k \in 0 .. c - 1 : /\ HwBd(ring', bd', k).seq = HwBd(ring, bd, k).seq
                                  /\ HwBd(ring', bd', k).EOP = HwBd(ring, bd, k).EOP
        BY <2>7, <3>4
      <4> HIDE DEF w, h
      <4> QED BY <1>0, <1>1, <3>1, <3>3, <3>5, <4>1, ChainGrows DEF h
    <3>7. Expected' = Following(ulist[w])
      <4>1. w \in 1 .. Len(ulist)
        BY <1>0, <2>2, <3>1
      <4>2. Following(ulist[w]) = IF w < Len(ulist) THEN ulist[w + 1].seq ELSE TxSeqNo
        BY <1>1, <4>1 DEF ListChained
      <4> QED BY <1>1, <3>1, <4>2 DEF Expected
    <3> QED BY <3>6, <3>7
  <2> QED BY <2>14, <2>15
<1> QED BY <1>4, <1>5

\* The buffers of the list DmaSetupTransmit makes follow one another, the first
\* on the packets already with the hardware.
LEMMA ListMade ==
    ASSUME TypeOK, DmaSetupTransmit
    PROVE  /\ Len(ulist') > 0 /\ ulist'[1].seq = TxSeqNo
           /\ ListChained'
<1>1. PICK n \in 1 .. MaxPkts, f \in Frags :
        LET avail == (TotalNum - bufs.AllocNum) \div f
            k == IF n <= avail THEN n ELSE avail
        IN  /\ k > 0
            /\ ulist' = [j \in 1 .. k*f |->
                            [buf |-> AllocBufs(bufs, k*f)[j],
                             SOP |-> (j-1) % f = 0, EOP |-> j % f = 0,
                             seq |-> (TxSeqNo + (j-1) \div f) % SeqMod]]
            /\ bufs' = AllocBuf(bufs, k*f)
            /\ TxSeqNo' = (TxSeqNo + k) % SeqMod
  BY DEF DmaSetupTransmit
<1> DEFINE avail == (TotalNum - bufs.AllocNum) \div f
           k == IF n <= avail THEN n ELSE avail
           c == k * f
           B == AllocBufs(bufs, c)
           T == TxSeqNo
<1>2. f \in Nat \ {0} /\ f \in Int /\ f > 0 /\ TotalNum - bufs.AllocNum \in Nat
  BY FragsAssumption DEF TypeOK, PoolType
<1>3. avail \in Nat
  BY <1>2
<1>4. k \in Nat \ {0} /\ k \in Int
  <2> HIDE DEF avail
  <2> QED BY <1>1, <1>3, MaxPktsAssumption DEF avail
<1>5. TxSeqNo' = (T + k) % SeqMod
  BY <1>1
<1>6. ulist' = [j \in 1 .. c |-> [buf |-> B[j], SOP |-> (j-1) % f = 0, EOP |-> j % f = 0,
                                  seq |-> (T + (j-1) \div f) % SeqMod]]
  BY <1>1
<1>7. T \in 0 .. SeqMod-1 /\ T \in Int /\ SeqMod \in Int /\ SeqMod > 0
  BY DEF TypeOK
<1> HIDE DEF k, B, T
<1>8. c \in Nat \ {0}
  BY <1>2, <1>4
<1>9. c % f = 0 /\ c \div f = k
  <2>1. c = f * k + 0 /\ 0 \in 0 .. f-1
    BY <1>2, <1>4
  <2>2. (f * k + 0) % f = 0 /\ (f * k + 0) \div f = k
    BY <1>2, <1>4, <2>1, ModUnique, DivUnique
  <2> QED BY <2>1, <2>2
<1> HIDE DEF c
<1>10. Len(ulist') = c
  <2>1. DOMAIN ulist' = 1 .. c
    BY <1>6
  <2>2. ulist' \in Seq(SendType)
    BY SetupTransmitType
  <2>3. Len(ulist') \in Nat /\ DOMAIN ulist' = 1 .. Len(ulist')
    BY <2>2
  <2> QED BY <1>8, <2>1, <2>3
<1>11. ASSUME NEW j \in 1 .. c
       PROVE  /\ ulist'[j].EOP = (j % f = 0)
              /\ ulist'[j].seq = (T + (j-1) \div f) % SeqMod
  BY <1>6
<1>12. ulist'[1].seq = T
  <2>1. 1 \in 1 .. c
    BY <1>8
  <2>2. (1 - 1) \div f = 0
    <3>1. (f * 0 + 0) \div f = 0
      BY <1>2, DivUnique
    <3>2. 1 - 1 = f * 0 + 0
      BY <1>2
    <3> QED BY <3>1, <3>2
  <2>3. T % SeqMod = T /\ T + 0 = T
    BY <1>7, ModSmall
  <2> QED BY <1>11, <2>1, <2>2, <2>3
<1>13. ASSUME NEW j \in 1 .. c
       PROVE  Following(ulist'[j]) = (T + j \div f) % SeqMod
  <2> DEFINE q == (j-1) \div f
  <2>1. j \in Nat \ {0}
    BY <1>8
  <2>2. q \in Nat /\ q \in Int /\ j \div f = IF j % f = 0 THEN q + 1 ELSE q
    <3>1. q \in Nat /\ j \div f = IF j % f = 0 THEN q + 1 ELSE q
      BY <1>2, <2>1, DivStep
    <3> HIDE DEF q
    <3> QED BY <3>1
  <2> HIDE DEF q
  <2>3. ulist'[j].EOP = (j % f = 0) /\ ulist'[j].seq = (T + q) % SeqMod
    BY <1>11 DEF q
  <2>4. (((T + q) % SeqMod) + 1) % SeqMod = (T + (q + 1)) % SeqMod
    <3>1. T + q \in Int /\ 1 \in Int /\ (T + q) + 1 = T + (q + 1)
      BY <1>7, <2>2
    <3>2. (((T + q) % SeqMod) + 1) % SeqMod = ((T + q) + 1) % SeqMod
      BY <1>7, <3>1, ModAdd
    <3> QED BY <3>1, <3>2
  <2>5. CASE j % f = 0
    BY <2>2, <2>3, <2>4, <2>5 DEF Following
  <2>6. CASE j % f # 0
    BY <2>2, <2>3, <2>6 DEF Following
  <2> QED BY <2>5, <2>6
<1>14. ASSUME NEW j \in 1 .. c
       PROVE  Following(ulist'[j]) = IF j < c THEN ulist'[j + 1].seq ELSE TxSeqNo'
  <2>1. CASE j < c
    <3>1. j + 1 \in 1 .. c /\ (j + 1) - 1 = j
      BY <1>8, <2>1
    <3>2. ulist'[j + 1].seq = (T + ((j + 1) - 1) \div f) % SeqMod
      BY <1>11, <3>1
    <3> QED BY <1>13, <2>1, <3>1, <3>2
  <2>2. CASE ~(j < c)
    <3>1. j = c
      BY <1>8, <2>2
    <3> QED BY <1>5, <1>9, <1>13, <2>2, <3>1
  <2> QED BY <2>1, <2>2
<1> QED BY <1>8, <1>10, <1>12, <1>14 DEF ListChained, T, Following

\* descriptor_free takes every BD from the hardware.
LEMMA RecoversAll ==
    ASSUME IInv
    PROVE  Dma_BdRingForceFromHw(ring, BdLimit).HwCnt = 0
<1>1. ring \in RingType /\ Tiled(ring) /\ Spare(ring)
  BY InvRing
<1>2. /\ ring.HwCnt \in 0 .. N /\ ring.HwHead \in BdIndex /\ ring.FreeCnt \in 0 .. N
      /\ ring.PreCnt \in 0 .. N /\ ring.PostCnt \in 0 .. N
      /\ ring.FreeCnt + ring.PreCnt + ring.HwCnt + ring.PostCnt <= N
  BY <1>1, RingFields
<1>3. Dma_BdRingForceFromHw(ring, BdLimit).HwCnt = ring.HwCnt - ForceFromHwCount(ring, BdLimit)
  BY <1>1, WorkGroup, BdLimitAssumption
<1>4. CASE ring.HwCnt = 0
  BY <1>3, <1>4 DEF ForceFromHwCount
<1>5. CASE ring.HwCnt # 0
  <2>1. WalkLength(ring.HwHead, ring.HwTail) = ring.HwCnt
    BY <1>1, <1>2, <1>5, WalkIsCount DEF Tiled
  <2>2. ring.HwCnt <= BdLimit /\ BdLimit \in Nat
    BY <1>1, <1>2, <1>5, BdLimitAssumption DEF Spare
  <2>3. ForceFromHwCount(ring, BdLimit) = ring.HwCnt
    BY <1>2, <1>5, <2>1, <2>2 DEF ForceFromHwCount
  <2> QED BY <1>2, <1>3, <2>3
<1> QED BY <1>4, <1>5

LEMMA UserCallTx ==
    ASSUME ~IsRxChannel, IInv, TxSeqInv, UserCall
    PROVE  TxSeqInv'
<1> USE DEF ringVars
<1>0. /\ ring \in RingType /\ Tiled(ring) /\ TypeOK /\ ring' \in RingType
      /\ ring.HwCnt \in 0 .. N
  <2>1. ring \in RingType /\ Tiled(ring) /\ TypeOK
    BY InvRing DEF IInv
  <2>2. ring' \in RingType
    BY UserCallKeepsInv DEF IInv, TypeOK
  <2> QED BY <2>1, <2>2, RingFields
<1>1. ASSUME UNCHANGED <<ring, bd>>
      PROVE  Chained(ring', bd') /\ \A x : EndsBefore(ring, bd, x) => EndsBefore(ring', bd', x)
  <2>1. Alike(bd, bd', BdIndex)
    BY <1>1 DEF Alike
  <2> QED BY <1>0, <1>1, <2>1, ChainStays DEF TxSeqInv
<1>2. ASSUME ring'.HwCnt = 0, upc' \notin {"send", "trim"}
      PROVE  TxSeqInv'
  <2>1. Chained(ring', bd')
    BY <1>2 DEF Chained
  <2>2. \A x : EndsBefore(ring', bd', x)
    BY <1>2 DEF EndsBefore
  <2>3. ~Unsent'
    BY <1>2 DEF Unsent
  <2> QED BY <1>2, <2>1, <2>2, <2>3 DEF TxSeqInv
<1>3. CASE StoreHandle
  <2>1. upc = "registering" /\ upc' = "running" /\ UNCHANGED ring
    BY <1>3 DEF StoreHandle
  <2>2. ring.HwCnt = 0
    BY <2>1 DEF TxSeqInv, Unsent
  <2> QED BY <1>2, <2>1, <2>2
<1>4. CASE DmaSendPkt
  BY <1>4, SendTx
<1>5. CASE TakeBack
  <2>1. /\ upc = "trim" /\ upc' = "running" /\ UNCHANGED <<ring, bd>>
        /\ TxSeqNo' = IF usent # Len(ulist) THEN ulist[usent + 1].seq ELSE TxSeqNo
    BY <1>5 DEF TakeBack
  <2>2. usent # Len(ulist) <=> usent < Len(ulist)
    BY <1>0 DEF TypeOK
  <2>3. TxSeqNo' = Expected /\ Unsent
    BY <2>1, <2>2 DEF Expected, Unsent
  <2>4. Expected' = TxSeqNo' /\ ~Unsent'
    BY <2>1 DEF Expected, Unsent
  <2>5. EndsBefore(ring, bd, Expected)
    BY <2>3 DEF TxSeqInv
  <2>6. Chained(ring', bd') /\ EndsBefore(ring', bd', Expected')
    BY <1>1, <2>1, <2>3, <2>4, <2>5
  <2> QED BY <2>1, <2>4, <2>6 DEF TxSeqInv
<1>6. CASE RecoverBds
  <2>1. ring'.HwCnt = 0 /\ upc' \in {"put", "release"}
    BY <1>6, RecoversAll DEF RecoverBds
  <2> QED BY <1>2, <2>1
<1>7. CASE PutUnused \/ FreeRecovered \/ ReleaseSpace \/ Detach
  <2>1. /\ upc \in {"put", "free", "release", "detach"}
        /\ upc' \in {"free", "release", "detach", "unregistered"}
        /\ \/ UNCHANGED ring
           \/ ring' = Dma_BdRingFree(ring, ufree.n, ufree.set)
    BY <1>7 DEF PutUnused, FreeRecovered, ReleaseSpace, Detach
  <2>2. ring.HwCnt = 0
    BY <2>1 DEF TxSeqInv, Unsent
  <2>3. Dma_BdRingFree(ring, ufree.n, ufree.set).HwCnt = ring.HwCnt
    BY <1>0, WorkGroup, BdLimitAssumption
  <2> QED BY <1>2, <2>1, <2>2, <2>3
<1> QED BY <1>3, <1>4, <1>5, <1>6, <1>7 DEF UserCall

LEMMA UserStartTx ==
    ASSUME ~IsRxChannel, IInv, TxSeqInv, UserStart
    PROVE  TxSeqInv'
<1> USE DEF ringVars
<1>0. ring \in RingType /\ Tiled(ring) /\ TypeOK /\ ring.HwCnt \in 0 .. N
  BY InvRing, RingFields DEF IInv
<1>1. ASSUME NEW q \in RingType, q.HwHead = ring.HwHead, q.HwCnt = ring.HwCnt
      PROVE  Chained(q, bd) /\ \A x : EndsBefore(ring, bd, x) => EndsBefore(q, bd, x)
  <2>1. Alike(bd, bd, BdIndex)
    BY DEF Alike
  <2> QED BY <1>0, <1>1, <2>1, ChainStays DEF TxSeqInv
<1>2. CASE DmaRegister \/ Unload
  <2>1. upc \in {"unloaded", "unregistered"} /\ upc' \in {"registering", "unloaded"}
    BY <1>2 DEF DmaRegister, Unload
  <2>2. ring.HwCnt = 0
    BY <2>1 DEF TxSeqInv, Unsent
  <2>3. ring'.HwCnt = 0
    <3>1. CASE Unload
      BY <2>2, <3>1 DEF Unload
    <3>2. CASE DmaRegister
      <4>1. PICK r \in {ring, Dma_BdRingCreate} : ring' = Dma_BdRingStart(r)
        BY <3>2 DEF DmaRegister
      <4>2. r \in RingType /\ Tiled(r) /\ r.HwCnt = 0
        BY <1>0, <2>2, ClearedRingTiled DEF Dma_BdRingCreate, ClearedRing
      <4> QED BY <4>1, <4>2, WorkGroup, BdLimitAssumption
    <3> QED BY <1>2, <3>1, <3>2
  <2>4. Chained(ring', bd') /\ ~Unsent' /\ upc' \notin {"running", "send"}
    BY <2>1, <2>3 DEF Chained, Unsent
  <2> QED BY <2>3, <2>4 DEF TxSeqInv
<1>3. CASE DmaSetupTransmit
  <2>1. upc = "running" /\ upc' = "send" /\ usent' = 0 /\ UNCHANGED <<ring, bd>>
    BY <1>3 DEF DmaSetupTransmit
  <2>2. Expected = TxSeqNo
    BY <2>1 DEF Expected, Unsent
  <2>3. Len(ulist') > 0 /\ ulist'[1].seq = TxSeqNo /\ ListChained'
    BY <1>0, <1>3, ListMade
  <2>4. Expected' = TxSeqNo /\ Unsent'
    BY <2>1, <2>3 DEF Expected, Unsent
  <2>5. Chained(ring', bd') /\ EndsBefore(ring', bd', Expected')
    BY <1>0, <1>1, <2>1, <2>2, <2>4 DEF TxSeqInv
  <2> QED BY <2>1, <2>3, <2>4, <2>5 DEF TxSeqInv
<1>4. CASE DmaUnregister
  <2>1. ring' = [ring EXCEPT !.RunState = "STOPPED"] /\ upc' = "reset" /\ UNCHANGED bd
    BY <1>4 DEF DmaUnregister
  <2>2. ring' \in RingType /\ ring'.HwHead = ring.HwHead /\ ring'.HwCnt = ring.HwCnt
    BY <1>0, <2>1 DEF RingType
  <2>3. Chained(ring', bd') /\ ~Unsent'
    BY <1>1, <2>1, <2>2 DEF Unsent
  <2> QED BY <2>1, <2>3 DEF TxSeqInv
<1> QED BY <1>2, <1>3, <1>4 DEF UserStart

\* The hardware writes status and user words.
LEMMA HardwareAlike ==
    ASSUME IInv, Hardware
    PROVE  Alike(bd, bd', BdIndex) /\ UNCHANGED <<ring, TxSeqNo, upc, ulist, usent>>
<1> USE DEF userVars
<1>0. bd \in [BdIndex -> BdType]
  BY DEF IInv, TypeOK
<1>1. ASSUME NEW i, NEW s, bd' = [bd EXCEPT ![i].status = s]
      PROVE  Alike(bd, bd', BdIndex)
  BY <1>0, <1>1 DEF Alike, BdType
<1>2. ASSUME NEW i, NEW x, bd' = [bd EXCEPT ![i].usr = @ \cup {x}]
      PROVE  Alike(bd, bd', BdIndex)
  BY <1>0, <1>2 DEF Alike, BdType
<1>3. CASE HwTransmit
  BY <1>1, <1>3 DEF HwTransmit
<1>4. CASE HwReceive
  BY <1>1, <1>4 DEF HwReceive
<1>5. ASSUME NEW i \in BdIndex, HwUserWord(i)
      PROVE  Alike(bd, bd', BdIndex) /\ UNCHANGED <<ring, TxSeqNo, upc, ulist, usent>>
  <2>1. PICK x \in {"HIGH", "LOW"} : bd' = [bd EXCEPT ![i].usr = @ \cup {x}]
    BY <1>5 DEF HwUserWord
  <2> QED BY <1>2, <1>5, <2>1 DEF HwUserWord
<1>6. HwTransmit \/ HwReceive => UNCHANGED <<ring, TxSeqNo, upc, ulist, usent>>
  BY DEF HwTransmit, HwReceive
<1> QED BY <1>3, <1>4, <1>5, <1>6 DEF Hardware

LEMMA TxStep ==
    ASSUME ~IsRxChannel, IInv, TxSeqInv, [Next]_vars
    PROVE  TxSeqInv'
<1>1. CASE \E h \in Handlers : Handler(h)
  BY <1>1, HandlerTx
<1>2. CASE UserCall
  BY <1>2, UserCallTx
<1>3. CASE UserStart
  BY <1>3, UserStartTx
<1>4. CASE Hardware
  BY <1>4, HardwareAlike, InvRing, TxStays
<1>5. CASE UNCHANGED vars
  <2>1. UNCHANGED <<ring, bd, TxSeqNo, upc, ulist, usent>>
    BY <1>5 DEF vars, ringVars, userVars
  <2>2. Alike(bd, bd', BdIndex)
    BY <2>1 DEF Alike
  <2> QED BY <2>1, <2>2, InvRing, TxStays
<1> QED BY <1>1, <1>2, <1>3, <1>4, <1>5 DEF Next

\* A C2S engine fills its BDs without a number and never sends.
LEMMA RxStep ==
    ASSUME IsRxChannel, IInv, RxSeqInv, [Next]_vars
    PROVE  RxSeqInv'
<1> USE DEF ringVars, userVars
<1>0. bd \in [BdIndex -> BdType] /\ Unnumbered(bd) /\ TxSeqNo = 0 /\ upc \notin {"send", "trim"}
  BY DEF IInv, TypeOK, RxSeqInv, Unsent
<1>1. ASSUME Alike(bd, bd', BdIndex)
      PROVE  Unnumbered(bd')
  BY <1>0, <1>1 DEF Alike, Unnumbered
<1>2. ASSUME NEW r, DmaSetupRecvBuffers(r, bd)
      PROVE  Unnumbered(bd')
  <2> DEFINE n == RecvCount(r)
             a == Dma_BdRingAlloc(r, n)
             f == RecvFill(r, bd, n)
  <2>1. bd' = ToHwBds(a, f, n, r.FreeHead)
    BY <1>2 DEF DmaSetupRecvBuffers
  <2>2. ASSUME NEW i \in BdIndex
        PROVE  f[i].seq = 0 /\ ~f[i].EOP /\ [f[i] EXCEPT !.status = {}].seq = 0
               /\ ~[f[i] EXCEPT !.status = {}].EOP
    <3>1. bd[i] \in BdType /\ bd[i].seq = 0 /\ ~bd[i].EOP
      BY <1>0 DEF Unnumbered
    <3>2. \A x : LET b == [bd[i] EXCEPT !.SOP = FALSE, !.EOP = FALSE, !.len = 1, !.usr = {},
                                        !.id = x]
                 IN  b.seq = 0 /\ ~b.EOP /\ [b EXCEPT !.status = {}].seq = 0
                     /\ ~[b EXCEPT !.status = {}].EOP
      BY <3>1 DEF BdType
    <3>3. [bd[i] EXCEPT !.status = {}].seq = 0 /\ ~[bd[i] EXCEPT !.status = {}].EOP
      BY <3>1 DEF BdType
    <3>4. \/ f[i] = bd[i]
          \/ \E x : f[i] = [bd[i] EXCEPT !.SOP = FALSE, !.EOP = FALSE, !.len = 1, !.usr = {},
                                         !.id = x]
      BY DEF RecvFill
    <3> HIDE DEF f
    <3> QED BY <3>1, <3>2, <3>3, <3>4
  <2> HIDE DEF n, a, f
  <2>3. ASSUME NEW i \in BdIndex
        PROVE  bd'[i] \in {f[i], [f[i] EXCEPT !.status = {}]}
    BY <2>1 DEF ToHwBds
  <2> QED BY <2>2, <2>3 DEF Unnumbered
<1>3. ASSUME NEW r, NEW n, NEW p, NEW m \in [BdIndex -> BdType], Unnumbered(m),
             bd' = FreeBds(r, m, n, p)
      PROVE  Unnumbered(bd')
  <2>1. \A i \in BdIndex : /\ FreeBds(r, m, n, p)[i].seq = m[i].seq
                           /\ ~m[i].EOP => ~FreeBds(r, m, n, p)[i].EOP
    BY <1>3, MemoryAlike
  <2>2. \A i \in BdIndex : bd'[i] = FreeBds(r, m, n, p)[i]
    BY <1>3
  <2> QED BY <1>3, <2>1, <2>2 DEF Unnumbered
<1>4. ASSUME NEW n, NEW p
      PROVE  ResetIds(bd, p, n) \in [BdIndex -> BdType] /\ Unnumbered(ResetIds(bd, p, n))
  <2>1. Alike(bd, ResetIds(bd, p, n), BdIndex)
    BY <1>0, MemoryAlike
  <2> QED BY <1>0, <2>1, MemoryType DEF Alike, Unnumbered
<1>5. ASSUME NEW h \in Handlers, Handler(h)
      PROVE  RxSeqInv'
  <2>1. UNCHANGED <<TxSeqNo, upc>>
    BY <1>5 DEF Handler, CheckEngine, HandleNothing, HandleCompleted, PutPkts, Refill
  <2>2. Unnumbered(bd')
    <3>1. CASE CheckEngine(h) \/ PutPkts(h)
      BY <1>0, <3>1 DEF CheckEngine, PutPkts
    <3>2. CASE HandleNothing(h) \/ Refill(h)
      BY <1>2, <3>2 DEF HandleNothing, Refill
    <3>3. CASE HandleCompleted(h)
      <4> DEFINE n == FromHwCount(ring, bd, BdLimit)
                 r == Dma_BdRingFromHw(ring, bd, BdLimit)
                 p == ring.HwHead
      <4>1. bd' = FreeBds(r, ResetIds(bd, p, n), n, p)
        BY <3>3 DEF HandleCompleted
      <4> HIDE DEF n, r, p
      <4> QED BY <1>3, <1>4, <4>1
    <3> QED BY <1>5, <3>1, <3>2, <3>3 DEF Handler
  <2> QED BY <1>0, <2>1, <2>2 DEF RxSeqInv, Unsent
<1>6. CASE UserCall
  <2>1. ~DmaSendPkt /\ ~TakeBack
    BY <1>0 DEF DmaSendPkt, TakeBack
  <2>2. UNCHANGED TxSeqNo /\ upc' \notin {"send", "trim"}
    BY <1>6, <2>1 DEF UserCall, StoreHandle, RecoverBds, PutUnused, FreeRecovered, ReleaseSpace,
                     Detach
  <2>3. Unnumbered(bd')
    <3>1. CASE StoreHandle \/ PutUnused \/ ReleaseSpace \/ Detach
      BY <1>0, <3>1 DEF StoreHandle, PutUnused, ReleaseSpace, Detach
    <3>2. CASE RecoverBds
      BY <1>4, <3>2 DEF RecoverBds
    <3>3. CASE FreeRecovered
      BY <1>0, <1>3, <3>3 DEF FreeRecovered
    <3> QED BY <1>6, <2>1, <3>1, <3>2, <3>3 DEF UserCall
  <2> QED BY <1>0, <2>2, <2>3 DEF RxSeqInv, Unsent
<1>7. CASE UserStart
  <2>1. ~DmaSetupTransmit
    BY DEF DmaSetupTransmit
  <2>2. TxSeqNo' = 0 /\ upc' \notin {"send", "trim"}
    BY <1>0, <1>7, <2>1 DEF UserStart, DmaRegister, DmaUnregister, Unload
  <2>3. Unnumbered(bd')
    <3>1. CASE DmaUnregister \/ Unload
      BY <1>0, <3>1 DEF DmaUnregister, Unload
    <3>2. CASE DmaRegister
      <4>1. bd' = bd \/ bd' = [i \in BdIndex |-> ClearedBd]
        BY <3>2 DEF DmaRegister
      <4> QED BY <1>0, <4>1 DEF Unnumbered, ClearedBd
    <3> QED BY <1>7, <2>1, <3>1, <3>2 DEF UserStart
  <2> QED BY <2>2, <2>3 DEF RxSeqInv, Unsent
<1>8. CASE Hardware
  BY <1>0, <1>1, <1>8, HardwareAlike DEF RxSeqInv, Unsent
<1>9. CASE UNCHANGED vars
  BY <1>0, <1>9 DEF vars, RxSeqInv, Unsent
<1> QED BY <1>5, <1>6, <1>7, <1>8, <1>9 DEF Next

LEMMA SeqInit == Init => SeqInv
<1> SUFFICES ASSUME Init PROVE SeqInv
  OBVIOUS
<1>1. ring.HwCnt = 0 /\ upc = "unloaded" /\ TxSeqNo = 0 /\ bd = [i \in BdIndex |-> ClearedBd]
  BY DEF Init, ClearedRing
<1>2. TxSeqInv
  BY <1>1 DEF TxSeqInv, Chained, Unsent
<1>3. RxSeqInv
  BY <1>1 DEF RxSeqInv, Unnumbered, ClearedBd, Unsent
<1> QED BY <1>2, <1>3 DEF SeqInv

LEMMA SeqStep == IInv /\ SeqInv /\ [Next]_vars => SeqInv'
<1> SUFFICES ASSUME IInv, SeqInv, [Next]_vars PROVE SeqInv'
  OBVIOUS
<1>1. CASE IsRxChannel
  BY <1>1, RxStep DEF SeqInv
<1>2. CASE ~IsRxChannel
  BY <1>2, TxStep DEF SeqInv
<1> QED BY <1>1, <1>2

LEMMA SeqConsecutive == IInv /\ SeqInv => SeqNosConsecutive
<1> SUFFICES ASSUME IInv, SeqInv, NEW k \in 0 .. ring.HwCnt - 1
             PROVE  IF k < ring.HwCnt - 1
                    THEN HwBd(ring, bd, k + 1).seq = Following(HwBd(ring, bd, k))
                    ELSE upc = "running" => TxSeqNo = Following(HwBd(ring, bd, k))
  BY DEF SeqNosConsecutive, HwBd, Following
<1>0. ring.HwHead \in BdIndex /\ ring.HwCnt \in 0 .. N
  BY InvRing, RingFields
<1>1. CASE IsRxChannel
  <2>1. \A j \in 0 .. ring.HwCnt - 1 : Dma_mRingSeekahead(ring.HwHead, j) \in BdIndex
    BY <1>0, SeekInRing
  <2>2. \A j \in 0 .. ring.HwCnt - 1 : HwBd(ring, bd, j).seq = 0 /\ Following(HwBd(ring, bd, j)) = 0
    BY <1>1, <2>1 DEF SeqInv, RxSeqInv, Unnumbered, HwBd, Following
  <2>3. TxSeqNo = 0
    BY <1>1 DEF SeqInv, RxSeqInv
  <2>4. k < ring.HwCnt - 1 => k + 1 \in 0 .. ring.HwCnt - 1
    BY <1>0
  <2> QED BY <2>2, <2>3, <2>4
<1>2. CASE ~IsRxChannel
  <2>1. TxSeqInv
    BY <1>2 DEF SeqInv
  <2>2. CASE k < ring.HwCnt - 1
    <3>1. k \in 0 .. ring.HwCnt - 2
      BY <1>0, <2>2
    <3> QED BY <2>1, <2>2, <3>1 DEF TxSeqInv, Chained
  <2>3. CASE ~(k < ring.HwCnt - 1)
    <3>1. k = ring.HwCnt - 1 /\ ring.HwCnt > 0
      BY <1>0, <2>3
    <3>2. ASSUME upc = "running" PROVE TxSeqNo = Following(HwBd(ring, bd, k))
      BY <2>1, <3>1, <3>2 DEF TxSeqInv, EndsBefore, Expected, Unsent
    <3> QED BY <2>3, <3>2
  <2> QED BY <2>2, <2>3
<1> QED BY <1>1, <1>2

\* The packets with the hardware carry consecutive numbers, and when the user
\* driver is between two calls TxSeqNo is the next one: whatever part of a list
\* DmaSendPkt sends, DmaSetupTransmit takes the number back to the first buffer
\* that was not sent.
THEOREM SeqNosStayConsecutive == Spec => []SeqNosConsecutive
<1>1. IInv /\ SeqInv /\ [Next]_vars => (IInv /\ SeqInv)'
  BY InvStep, SeqStep
<1> QED BY InvInit, SeqInit, <1>1, SeqConsecutive, PTL DEF Spec

-----------------------------------------------------------------------------
(* What Invariance says of a state, for the steps below to cite.           *)

LEMMA RingNow ==
    ASSUME IInv
    PROVE  /\ ring \in RingType /\ Tiled(ring) /\ Spare(ring)
           /\ {ring.FreeHead, ring.PreHead, ring.HwHead, ring.HwTail, ring.PostHead} \subseteq BdIndex
           /\ ring.FreeCnt \in 0 .. N /\ ring.PreCnt \in 0 .. N
           /\ ring.HwCnt \in 0 .. N /\ ring.PostCnt \in 0 .. N
           /\ ring.FreeCnt + ring.PreCnt + ring.HwCnt + ring.PostCnt <= N
           /\ ring.AllCnt = 0 => ring.FreeCnt + ring.PreCnt + ring.HwCnt + ring.PostCnt = 0
<1>1. ring \in RingType /\ Tiled(ring) /\ Spare(ring)
  BY InvRing
<1> QED BY <1>1, RingFields

LEMMA StateNow ==
    ASSUME IInv
    PROVE  /\ regs \in RegsType /\ bufs \in PoolType /\ bd \in [BdIndex -> BdType]
           /\ ring.HwCnt \in Nat /\ ring.HwHead \in BdIndex /\ N \in Nat
<1>1. /\ regs \in RegsType /\ bufs \in PoolType /\ bd \in [BdIndex -> BdType]
  BY DEF IInv, TypeOK
<1>2. ring.HwCnt \in 0 .. N /\ ring.HwHead \in BdIndex
  BY RingNow
<1> QED BY <1>1, <1>2

-----------------------------------------------------------------------------
(* Positions.  Counted from the head of the work group, every BD has one   *)
(* position, and the BDs of a set are an interval of positions.            *)

LEMMA PositionOf ==
    ASSUME NEW h \in BdIndex, NEW i \in BdIndex
    PROVE  Offset(h, i) \in 0 .. N-1 /\ Dma_mRingSeekahead(h, Offset(h, i)) = i
BY DEF BdIndex, Offset, Dma_mRingSeekahead

LEMMA PositionsApart ==
    ASSUME NEW h \in BdIndex, NEW k \in 0 .. N-1, NEW j \in 0 .. N-1,
           Dma_mRingSeekahead(h, k) = Dma_mRingSeekahead(h, j)
    PROVE  k = j
BY DEF BdIndex, Dma_mRingSeekahead

LEMMA SetByPosition ==
    ASSUME NEW h \in BdIndex, NEW a \in 0 .. N, NEW m \in 0 .. N, a + m <= N, NEW o \in 0 .. N-1
    PROVE  Dma_mRingSeekahead(h, o) \in BdSet(Dma_mRingSeekahead(h, a), m) <=> o \in a .. a + m - 1
<1>1. ASSUME NEW i \in 0 .. m - 1
      PROVE  Dma_mRingSeekahead(Dma_mRingSeekahead(h, a), i) = Dma_mRingSeekahead(h, a + i)
             /\ a + i \in 0 .. N-1 /\ a + i \in a .. a + m - 1
  <2>1. i \in 0 .. N /\ a + i <= N /\ a + i \in 0 .. N-1 /\ a + i \in a .. a + m - 1
    OBVIOUS
  <2> QED BY <2>1, SeekAdds
<1>2. ASSUME Dma_mRingSeekahead(h, o) \in BdSet(Dma_mRingSeekahead(h, a), m)
      PROVE  o \in a .. a + m - 1
  <2>1. PICK i \in 0 .. m - 1 :
            Dma_mRingSeekahead(h, o) = Dma_mRingSeekahead(Dma_mRingSeekahead(h, a), i)
    BY <1>2 DEF BdSet
  <2>2. o = a + i
    BY <1>1, <2>1, PositionsApart
  <2> QED BY <1>1, <2>2
<1>3. ASSUME o \in a .. a + m - 1
      PROVE  Dma_mRingSeekahead(h, o) \in BdSet(Dma_mRingSeekahead(h, a), m)
  <2>1. o - a \in 0 .. m - 1 /\ a + (o - a) = o
    BY <1>3
  <2>2. Dma_mRingSeekahead(h, o) = Dma_mRingSeekahead(Dma_mRingSeekahead(h, a), o - a)
    BY <1>1, <2>1
  <2> QED BY <2>1, <2>2 DEF BdSet
<1> QED BY <1>2, <1>3

\* A set that begins at the head.
LEMMA SetFromHead ==
    ASSUME NEW h \in BdIndex, NEW m \in 0 .. N, NEW o \in 0 .. N-1
    PROVE  Dma_mRingSeekahead(h, o) \in BdSet(h, m) <=> o < m
<1>1. Dma_mRingSeekahead(h, 0) = h
  BY DEF BdIndex, Dma_mRingSeekahead
<1>2. Dma_mRingSeekahead(h, o) \in BdSet(Dma_mRingSeekahead(h, 0), m) <=> o \in 0 .. 0 + m - 1
  BY SetByPosition
<1>3. o \in 0 .. 0 + m - 1 <=> o < m
  OBVIOUS
<1> QED BY <1>1, <1>2, <1>3

-----------------------------------------------------------------------------
(* A set of n filled BDs behind the work group, of which the first w are   *)
(* handed to the hardware.                                                 *)

\* The set is filled, and nothing else.
FilledBehind(r, n, w, m, f) ==
    /\ \A i \in BdIndex : ~(Offset(r.FreeHead, i) < n) => f[i] = m[i]
    /\ \A i \in BdIndex : Offset(r.FreeHead, i) < n => f[i].len # 0
    /\ w # 0 => IsRxChannel \/ f[r.FreeHead].SOP

\* What Alloc, ToHw and the registers make of ring and memory.
HandedOver(r, n, w, m, f, g) ==
    LET p == r.FreeHead
        a == Dma_BdRingAlloc(r, n)
        t == Dma_BdRingToHw(a, f, w, p)
        b == ToHwBds(a, f, w, p)
        At(k) == Dma_mRingSeekahead(r.HwHead, k)
    IN  /\ p = At(r.HwCnt)
        /\ ToHwResult(a, f, w, p) = "XST_SUCCESS"
        /\ t \in RingType /\ Tiled(t)
        /\ t.HwHead = r.HwHead /\ t.HwCnt = r.HwCnt + w /\ t.PreCnt = n - w
        /\ t.PostCnt = r.PostCnt /\ t.PostHead = r.PostHead
        /\ t.AllCnt = r.AllCnt /\ t.RunState = r.RunState
        /\ b \in [BdIndex -> BdType]
        /\ \A k \in 0 .. r.HwCnt - 1 : b[At(k)] = m[At(k)]
        /\ \A k \in 0 .. w - 1 : b[At(r.HwCnt + k)] = [f[At(r.HwCnt + k)] EXCEPT !.status = {}]
        /\ \A k \in r.HwCnt + n .. N - 1 : b[At(k)] = m[At(k)]
        /\ ToHwRegs(a, f, w, p, g) = IF w # 0 /\ r.RunState = "STARTED"
                                     THEN [g EXCEPT !.SW_NEXT_BD = At(r.HwCnt + w)] ELSE g

LEMMA Handed ==
    ASSUME NEW r \in RingType, Tiled(r), r.PreCnt = 0, NEW n \in 0 .. r.FreeCnt, NEW w \in 0 .. n,
           NEW m \in [BdIndex -> BdType], NEW f \in [BdIndex -> BdType], NEW g,
           r.HwCnt < N, FilledBehind(r, n, w, m, f)
    PROVE  HandedOver(r, n, w, m, f, g)
<1> DEFINE p == r.FreeHead
           c == r.HwCnt
           h == r.HwHead
           a == Dma_BdRingAlloc(r, n)
           t == Dma_BdRingToHw(a, f, w, p)
           b == ToHwBds(a, f, w, p)
           At(k) == Dma_mRingSeekahead(h, k)
<1>a. /\ \A i \in BdIndex : ~(Offset(r.FreeHead, i) < n) => f[i] = m[i]
      /\ \A i \in BdIndex : Offset(r.FreeHead, i) < n => f[i].len # 0
      /\ w # 0 => IsRxChannel \/ f[r.FreeHead].SOP
  BY DEF FilledBehind
<1>0. /\ h \in BdIndex /\ p \in BdIndex /\ c \in 0 .. N /\ r.FreeCnt \in 0 .. N
      /\ n \in 0 .. N /\ w \in 0 .. N /\ c + n <= N /\ N \in Int /\ c < N
      /\ n \in Int /\ w \in Int /\ c \in Int /\ w <= n /\ n <= r.FreeCnt
  <2>1. /\ h \in BdIndex /\ p \in BdIndex /\ c \in 0 .. N /\ r.FreeCnt \in 0 .. N
        /\ r.PostCnt \in 0 .. N /\ r.FreeCnt + r.PreCnt + c + r.PostCnt <= N
    BY RingFields
  <2> QED BY <2>1
<1>1. p = At(c) /\ p = r.PreHead
  <2>1. \A q \in BdIndex : Dma_mRingSeekahead(q, 0) = q
    BY DEF BdIndex, Dma_mRingSeekahead
  <2>2. r.PreHead \in BdIndex
    BY RingFields
  <2> QED BY <2>1, <2>2 DEF Tiled
<1>2. /\ a \in RingType /\ Tiled(a) /\ a.PreCnt = n /\ a.PreHead = p /\ a.HwHead = h /\ a.HwCnt = c
      /\ a.PostCnt = r.PostCnt /\ a.PostHead = r.PostHead /\ a.AllCnt = r.AllCnt
      /\ a.RunState = r.RunState
  <2>1. a \in RingType /\ Tiled(a) /\ a.PreCnt = r.PreCnt + n
    BY AllocTiled
  <2>2. /\ a.PreHead = r.PreHead /\ a.HwHead = h /\ a.HwCnt = c
        /\ a.PostCnt = r.PostCnt /\ a.PostHead = r.PostHead /\ a.AllCnt = r.AllCnt
        /\ a.RunState = r.RunState
    BY DEF Dma_BdRingAlloc, RingType
  <2> QED BY <1>0, <1>1, <2>1, <2>2
<1>3. ASSUME NEW k \in 0 .. N-1
      PROVE  At(k) \in BdIndex /\ Offset(p, At(k)) = (IF k >= c THEN k - c ELSE k - c + N)
  <2>1. At(k) \in BdIndex
    <3>1. k \in 0 .. N
      BY <1>0
    <3> QED BY <1>0, <3>1, SeekInRing
  <2>2. Offset(Dma_mRingSeekahead(h, c), Dma_mRingSeekahead(h, k))
          = IF c = N THEN k ELSE IF k >= c THEN k - c ELSE k - c + N
    BY <1>0, OffsetOfSeek
  <2> QED BY <1>0, <1>1, <2>1, <2>2
<1>4. /\ \A k \in 0 .. c - 1 : f[At(k)] = m[At(k)]
      /\ \A k \in c + n .. N - 1 : f[At(k)] = m[At(k)]
      /\ \A k \in c .. c + n - 1 : f[At(k)].len # 0
  <2> HIDE DEF At, c, p
  <2>1. ASSUME NEW k \in 0 .. c - 1 PROVE f[At(k)] = m[At(k)]
    <3>1. k \in 0 .. N-1 /\ ~(k >= c) /\ k - c + N >= n
      BY <1>0
    <3> QED BY <1>0, <1>a, <1>3, <3>1 DEF p
  <2>2. ASSUME NEW k \in c + n .. N - 1 PROVE f[At(k)] = m[At(k)]
    <3>1. k \in 0 .. N-1 /\ k >= c /\ k - c >= n /\ k - c \in Int
      BY <1>0
    <3>2. Offset(p, At(k)) = k - c /\ ~(k - c < n)
      BY <1>0, <1>3, <3>1
    <3> QED BY <1>a, <1>3, <3>1, <3>2 DEF p
  <2>3. ASSUME NEW k \in c .. c + n - 1 PROVE f[At(k)].len # 0
    <3>1. k \in 0 .. N-1 /\ k >= c /\ k - c < n
      BY <1>0
    <3> QED BY <1>a, <1>3, <3>1 DEF p
  <2> QED BY <2>1, <2>2, <2>3
<1>5. \A i \in 0 .. n - 1 : Dma_mRingSeekahead(p, i) = At(c + i) /\ c + i \in 0 .. N-1
                            /\ c + i \in c .. c + n - 1
  <2>1. ASSUME NEW i \in 0 .. n - 1
        PROVE  Dma_mRingSeekahead(p, i) = At(c + i) /\ c + i \in 0 .. N-1
               /\ c + i \in c .. c + n - 1
    <3>1. i \in 0 .. N /\ c + i <= N /\ c + i \in 0 .. N-1 /\ c + i \in c .. c + n - 1
      BY <1>0
    <3>2. Dma_mRingSeekahead(Dma_mRingSeekahead(h, c), i) = Dma_mRingSeekahead(h, c + i)
      BY <1>0, <3>1, SeekAdds
    <3> QED BY <1>1, <3>1, <3>2
  <2> QED BY <2>1
<1>6. \A i \in 0 .. n - 1 : f[Dma_mRingSeekahead(p, i)].len # 0
  BY <1>4, <1>5
<1>7. ToHwResult(a, f, w, p) = "XST_SUCCESS"
  <2> HIDE DEF a, p, c, h
  <2>1. CASE w = 0
    BY <2>1 DEF ToHwResult
  <2>2. CASE w # 0
    <3>1. ~(a.PreCnt < w \/ a.PreHead # p)
      BY <1>0, <1>2
    <3>2. \A i \in BdSet(p, w) : f[i].len # 0
      <4>1. \A i \in 0 .. w - 1 : i \in 0 .. n - 1
        BY <1>0
      <4> QED BY <1>6, <4>1 DEF BdSet
    <3>3. IsRxChannel \/ f[p].SOP
      BY <1>a, <2>2 DEF p
    <3> QED BY <2>2, <3>1, <3>2, <3>3 DEF ToHwResult
  <2> QED BY <2>1, <2>2
<1>8. t \in RingType /\ Tiled(t)
  <2>1. w \in Nat
    BY <1>0
  <2> QED BY <1>2, <2>1, ToHwTiled
<1>9. /\ t.HwHead = h /\ t.HwCnt = c + w /\ t.PreCnt = n - w /\ t.PostCnt = r.PostCnt
      /\ t.PostHead = r.PostHead /\ t.AllCnt = r.AllCnt /\ t.RunState = r.RunState
  <2> HIDE DEF a, p, c, h
  <2> DEFINE hd == Dma_mRingSeekahead(a.PreHead, w)
             tl == Dma_mRingSeekahead(p, w)
  <2> HIDE DEF hd, tl
  <2>1. CASE w # 0
    <3>1. t = [a EXCEPT !.PreHead = hd, !.PreCnt = @ - w, !.HwTail = tl, !.HwCnt = @ + w]
      BY <1>7, <2>1 DEF Dma_BdRingToHw, hd, tl
    <3>2. /\ t.HwHead = a.HwHead /\ t.HwCnt = a.HwCnt + w /\ t.PreCnt = a.PreCnt - w
          /\ t.PostCnt = a.PostCnt /\ t.PostHead = a.PostHead /\ t.AllCnt = a.AllCnt
          /\ t.RunState = a.RunState
      BY <1>2, <3>1 DEF RingType
    <3> QED BY <1>2, <3>2
  <2>2. CASE w = 0
    <3>1. t = a
      BY <2>2 DEF Dma_BdRingToHw
    <3> QED BY <1>0, <1>2, <2>2, <3>1
  <2> QED BY <2>1, <2>2
<1>10. /\ b \in [BdIndex -> BdType]
       /\ \A i \in BdIndex : b[i] = IF w # 0 /\ i \in BdSet(p, w)
                                    THEN [f[i] EXCEPT !.status = {}] ELSE f[i]
  <2>0. b \in [BdIndex -> BdType]
    BY MemoryType
  <2> HIDE DEF a, p, c, h
  <2>1. CASE w = 0
    BY <2>0, <2>1 DEF ToHwBds
  <2>2. CASE w # 0
    <3> DEFINE checked == {i \in 0 .. w-1 : \A j \in 0 .. i : f[Dma_mRingSeekahead(p, j)].len # 0}
               cleared == {Dma_mRingSeekahead(p, i) : i \in checked}
    <3>1. checked = 0 .. w-1
      <4>1. \A i \in 0 .. w-1 : \A j \in 0 .. i : j \in 0 .. n-1
        BY <1>0
      <4> QED BY <1>6, <4>1
    <3>2. cleared = BdSet(p, w)
      BY <3>1 DEF BdSet
    <3>3. ~(w = 0 \/ a.PreCnt < w \/ a.PreHead # p \/ (~IsRxChannel /\ ~f[p].SOP))
      <4>1. IsRxChannel \/ f[p].SOP
        BY <1>a, <2>2 DEF p
      <4> QED BY <1>0, <1>2, <2>2, <4>1
    <3>4. b = [i \in BdIndex |-> IF i \in cleared THEN [f[i] EXCEPT !.status = {}] ELSE f[i]]
      BY <3>3 DEF ToHwBds
    <3> HIDE DEF cleared, checked
    <3> QED BY <2>0, <2>2, <3>2, <3>4
  <2> QED BY <2>1, <2>2
<1>11. /\ \A k \in 0 .. c - 1 : b[At(k)] = m[At(k)]
       /\ \A k \in 0 .. w - 1 : b[At(c + k)] = [f[At(c + k)] EXCEPT !.status = {}]
       /\ \A k \in c + n .. N - 1 : b[At(k)] = m[At(k)]
  <2>1. \A k \in 0 .. N-1 : At(k) \in BdSet(p, w) <=> k \in c .. c + w - 1
    <3>1. c + w <= N
      BY <1>0
    <3> QED BY <1>0, <1>1, <3>1, SetByPosition
  <2> HIDE DEF b, p, c, h, At
  <2>2. ASSUME NEW k \in 0 .. c - 1 PROVE b[At(k)] = m[At(k)]
    <3>1. k \in 0 .. N-1 /\ k \notin c .. c + w - 1
      BY <1>0
    <3> QED BY <1>3, <1>4, <1>10, <2>1, <3>1
  <2>3. ASSUME NEW k \in c + n .. N - 1 PROVE b[At(k)] = m[At(k)]
    <3>1. k \in 0 .. N-1 /\ k \notin c .. c + w - 1
      BY <1>0
    <3> QED BY <1>3, <1>4, <1>10, <2>1, <3>1
  <2>4. ASSUME NEW k \in 0 .. w - 1 PROVE b[At(c + k)] = [f[At(c + k)] EXCEPT !.status = {}]
    <3>1. c + k \in 0 .. N-1 /\ c + k \in c .. c + w - 1 /\ w # 0
      BY <1>0
    <3> QED BY <1>3, <1>10, <2>1, <3>1
  <2> QED BY <2>2, <2>3, <2>4
<1>12. ToHwRegs(a, f, w, p, g) = IF w # 0 /\ r.RunState = "STARTED"
                                 THEN [g EXCEPT !.SW_NEXT_BD = At(c + w)] ELSE g
  <2>1. Dma_mRingSeekahead(p, w) = At(c + w)
    <3>1. c + w <= N
      BY <1>0
    <3>2. Dma_mRingSeekahead(Dma_mRingSeekahead(h, c), w) = Dma_mRingSeekahead(h, c + w)
      BY <1>0, <3>1, SeekAdds
    <3> QED BY <1>1, <3>2
  <2> HIDE DEF a, p, c, h, At
  <2> QED BY <1>2, <1>7, <2>1 DEF ToHwRegs
<1> QED BY <1>1, <1>7, <1>8, <1>9, <1>10, <1>11, <1>12 DEF HandedOver

\* What DmaSendPkt does to ring and memory: the first w buffers of the list join
\* the work group.
SendDone(w) ==
    LET At(k) == Dma_mRingSeekahead(ring.HwHead, k)
        c == ring.HwCnt
    IN  /\ usent' = w
        /\ ring'.HwHead = ring.HwHead /\ ring'.HwCnt = c + w /\ ring'.PreCnt = 0
        /\ ring'.PostCnt = ring.PostCnt /\ ring'.PostHead = ring.PostHead
        /\ ring'.AllCnt = ring.AllCnt /\ ring'.RunState = ring.RunState
        /\ w > 0 => ring.FreeCnt > 2 /\ ulist[w].EOP
        /\ memFault' => memFault \/ (ring.FreeCnt > 2 /\ space # "live")
        /\ \A k \in 0 .. c - 1 : bd'[At(k)] = bd[At(k)]
        /\ \A k \in 0 .. w - 1 :
              /\ bd'[At(c + k)].id = ulist[k + 1].buf /\ bd'[At(c + k)].status = {}
              /\ bd'[At(c + k)].SOP = ulist[k + 1].SOP
              /\ bd'[At(c + k)].EOP = ulist[k + 1].EOP
        /\ \A k \in c + w .. N - 1 : bd'[At(k)].id \in {bd[At(k)].id, NULL}
        /\ regs' = IF w # 0 /\ ring.RunState = "STARTED"
                   THEN [regs EXCEPT !.SW_NEXT_BD = At(c + w)] ELSE regs

LEMMA SendEffect ==
    ASSUME ~IsRxChannel, IInv, ring.PreCnt = 0, Len(ulist) > 0, ulist[1].SOP, DmaSendPkt
    PROVE  \E w \in 0 .. Len(ulist) : SendDone(w)
<1> DEFINE h == ring.HwHead
           c == ring.HwCnt
           At(k) == Dma_mRingSeekahead(h, k)
           p == ring.FreeHead
           n == SendCount
           w == n - PartialCount(n)
           a == Dma_BdRingAlloc(ring, n)
           f == SendFill(n)
           t == Dma_BdRingToHw(a, f, w, p)
           b == ToHwBds(a, f, w, p)
<1>0. /\ ring \in RingType /\ Tiled(ring) /\ bd \in [BdIndex -> BdType]
      /\ h \in BdIndex /\ p \in BdIndex /\ c \in 0 .. N /\ c \in Int
      /\ ring.FreeCnt \in 0 .. N /\ ring.FreeCnt + c <= N /\ N \in Int
      /\ ulist \in Seq(SendType) /\ Len(ulist) \in Nat /\ regs \in RegsType
  <2>1. ring \in RingType /\ Tiled(ring) /\ TypeOK
    BY InvRing DEF IInv
  <2>2. /\ h \in BdIndex /\ p \in BdIndex /\ c \in 0 .. N /\ ring.PostCnt \in 0 .. N
        /\ ring.FreeCnt \in 0 .. N /\ ring.FreeCnt + ring.PreCnt + c + ring.PostCnt <= N
    BY <2>1, RingFields
  <2>3. bd \in [BdIndex -> BdType] /\ ulist \in Seq(SendType) /\ Len(ulist) \in Nat /\ regs \in RegsType
    BY <2>1 DEF TypeOK
  <2> QED BY <2>1, <2>2, <2>3
<1>1. CASE n = 0 \/ EngineState # "USER_ASSIGNED"
  <2>1. usent' = 0 /\ UNCHANGED <<ring, bd, regs, memFault>>
    BY <1>1 DEF DmaSendPkt
  <2>2. 0 \in 0 .. Len(ulist) /\ c + 0 = c /\ ~(0 > 0) /\ ~(0 # 0) /\ 0 .. 0 - 1 = {}
    BY <1>0
  <2> HIDE DEF At
  <2>3. /\ \A k \in 0 .. c - 1 : bd'[At(k)] = bd[At(k)]
        /\ \A k \in c + 0 .. N - 1 : bd'[At(k)].id \in {bd[At(k)].id, NULL}
    BY <2>1
  <2>4. /\ ring'.HwHead = h /\ ring'.HwCnt = c + 0 /\ ring'.PreCnt = 0
        /\ ring'.PostCnt = ring.PostCnt /\ ring'.PostHead = ring.PostHead
        /\ ring'.AllCnt = ring.AllCnt /\ ring'.RunState = ring.RunState
        /\ (memFault' => memFault \/ (ring.FreeCnt > 2 /\ space # "live"))
        /\ regs' = IF 0 # 0 /\ ring.RunState = "STARTED"
                   THEN [regs EXCEPT !.SW_NEXT_BD = At(c + 0)] ELSE regs
    BY <2>1, <2>2
  <2>5. SendDone(0)
    BY <2>1, <2>2, <2>3, <2>4 DEF SendDone
  <2> QED BY <2>2, <2>5
<1>2. CASE ~(n = 0 \/ EngineState # "USER_ASSIGNED")
  <2>1. n \in 1 .. Len(ulist) /\ n \in 0 .. ring.FreeCnt /\ n <= ring.FreeCnt - 2 /\ ring.FreeCnt > 2
        /\ n \in Nat
    BY <1>0, <1>2 DEF SendCount
  <2>2. w \in 0 .. n
    <3> HIDE DEF n
    <3> QED BY <2>1, WholeIsPart
  <2>3. w > 0 => ulist[w].EOP
    <3> HIDE DEF n
    <3> DEFINE S == {0} \cup {j \in 1 .. n : ulist[j].EOP}
    <3>1. S \subseteq 0 .. n /\ S # {}
      BY <2>1
    <3>2. Max(S) \in S
      BY <2>1, <3>1, MaxInSet
    <3>3. w = Max(S)
      <4>1. Max(S) \in Int
        BY <2>1, <3>1, <3>2
      <4>2. PartialCount(n) = n - Max(S)
        BY DEF PartialCount
      <4> HIDE DEF S
      <4> QED BY <2>1, <4>1, <4>2
    <3> QED BY <3>2, <3>3
  <2>4. f \in [BdIndex -> BdType]
    <3>1. n \in 0 .. Len(ulist)
      BY <2>1
    <3> QED BY <3>1, SendFillType DEF IInv
  <2>5. ASSUME NEW i \in BdIndex, Offset(p, i) < n
        PROVE  LET u == ulist[Offset(p, i) + 1]
               IN  /\ f[i].len = 1 /\ f[i].id = u.buf /\ f[i].SOP = u.SOP /\ f[i].EOP = u.EOP
    <3> HIDE DEF n
    <3> DEFINE u == ulist[Offset(p, i) + 1]
    <3>1. f[i] = [bd[i] EXCEPT !.SOP = u.SOP, !.EOP = u.EOP, !.len = 1, !.seq = u.seq, !.id = u.buf]
      BY <2>5 DEF SendFill
    <3>2. bd[i] \in BdType
      BY <1>0
    <3> HIDE DEF u, f
    <3>3. f[i].len = 1 /\ f[i].id = u.buf /\ f[i].SOP = u.SOP /\ f[i].EOP = u.EOP
      BY <3>1, <3>2 DEF BdType
    <3> QED BY <3>3 DEF u
  <2>6. \A i \in BdIndex : ~(Offset(p, i) < n) => f[i] = bd[i]
    BY DEF SendFill
  <2>7. f[p].SOP
    <3>1. Offset(p, p) = 0
      BY <1>0 DEF Offset, BdIndex
    <3>2. Offset(p, p) < n /\ Offset(p, p) + 1 = 1
      BY <2>1, <3>1
    <3> HIDE DEF f, n, p
    <3>3. f[p].SOP = ulist[Offset(p, p) + 1].SOP
      BY <1>0, <2>5, <3>2
    <3> QED BY <3>2, <3>3
  <2>8. /\ ring' = Dma_BdRingUnAlloc(t, IF ToHwResult(a, f, w, p) # "XST_SUCCESS" THEN n ELSE n - w)
        /\ bd' = ResetIds(b, IF ToHwResult(a, f, w, p) # "XST_SUCCESS"
                             THEN p ELSE Dma_mRingSeekahead(p, w),
                          IF ToHwResult(a, f, w, p) # "XST_SUCCESS" THEN n ELSE n - w)
        /\ regs' = ToHwRegs(a, f, w, p, regs)
        /\ usent' = n - (IF ToHwResult(a, f, w, p) # "XST_SUCCESS" THEN n ELSE n - w)
        /\ memFault' = (memFault \/ (n > 0 /\ space # "live"))
    BY <1>2 DEF DmaSendPkt, Uses
  <2> HIDE DEF n, w, f
  <2>9. /\ p = At(c)
        /\ ToHwResult(a, f, w, p) = "XST_SUCCESS"
        /\ t \in RingType /\ Tiled(t)
        /\ t.HwHead = h /\ t.HwCnt = c + w /\ t.PreCnt = n - w
        /\ t.PostCnt = ring.PostCnt /\ t.PostHead = ring.PostHead
        /\ t.AllCnt = ring.AllCnt /\ t.RunState = ring.RunState
        /\ b \in [BdIndex -> BdType]
        /\ \A k \in 0 .. c - 1 : b[At(k)] = bd[At(k)]
        /\ \A k \in 0 .. w - 1 : b[At(c + k)] = [f[At(c + k)] EXCEPT !.status = {}]
        /\ \A k \in c + n .. N - 1 : b[At(k)] = bd[At(k)]
        /\ ToHwRegs(a, f, w, p, regs) = IF w # 0 /\ ring.RunState = "STARTED"
                                        THEN [regs EXCEPT !.SW_NEXT_BD = At(c + w)] ELSE regs
    <3>1. c < N
      BY <1>0, <2>1
    <3>2. \A i \in BdIndex : Offset(p, i) < n => f[i].len = 1
      BY <2>5
    <3>3. FilledBehind(ring, n, w, bd, f)
      BY <2>6, <2>7, <3>2 DEF FilledBehind
    <3>4. HandedOver(ring, n, w, bd, f, regs)
      BY <1>0, <2>1, <2>2, <2>4, <3>1, <3>3, Handed
    <3> QED BY <3>4 DEF HandedOver
  <2> HIDE DEF a, t, b
  <2>10. /\ ring' = Dma_BdRingUnAlloc(t, n - w)
         /\ bd' = ResetIds(b, Dma_mRingSeekahead(p, w), n - w)
         /\ usent' = w
    <3>1. n - (n - w) = w
      BY <2>1, <2>2
    <3> QED BY <2>8, <2>9, <3>1
  <2>11. /\ ring'.HwHead = h /\ ring'.HwCnt = c + w /\ ring'.PreCnt = 0
         /\ ring'.PostCnt = ring.PostCnt /\ ring'.PostHead = ring.PostHead
         /\ ring'.AllCnt = ring.AllCnt /\ ring'.RunState = ring.RunState
    <3> DEFINE fh == Dma_mRingSeekback(t.FreeHead, n - w)
    <3> HIDE DEF fh
    <3>1. ~(t.PreCnt < n - w) /\ n - w \in Int /\ (n - w) - (n - w) = 0
      BY <2>1, <2>2, <2>9
    <3>2. ring' = [t EXCEPT !.FreeHead = fh, !.FreeCnt = @ + (n - w), !.PreCnt = @ - (n - w)]
      BY <2>10, <3>1 DEF Dma_BdRingUnAlloc, fh
    <3>3. /\ ring'.HwHead = t.HwHead /\ ring'.HwCnt = t.HwCnt /\ ring'.PreCnt = t.PreCnt - (n - w)
          /\ ring'.PostCnt = t.PostCnt /\ ring'.PostHead = t.PostHead
          /\ ring'.AllCnt = t.AllCnt /\ ring'.RunState = t.RunState
      BY <2>9, <3>2 DEF RingType
    <3> QED BY <2>9, <3>1, <3>3
  <2>12. w \in 0 .. Len(ulist) /\ w \in Int /\ n \in Int /\ w \in 0 .. N /\ n - w \in 0 .. N
         /\ c + n <= N
    BY <1>0, <2>1, <2>2
  <2>13. ASSUME NEW k \in 0 .. N-1
         PROVE  /\ At(k) \in BdIndex
                /\ bd'[At(k)] = IF k \in c + w .. c + n - 1 THEN [b[At(k)] EXCEPT !.id = NULL]
                                ELSE b[At(k)]
    <3>1. At(k) \in BdIndex
      <4>1. k \in 0 .. N
        BY <1>0
      <4> QED BY <1>0, <4>1, SeekInRing
    <3>2. Dma_mRingSeekahead(p, w) = At(c + w)
      <4>1. Dma_mRingSeekahead(Dma_mRingSeekahead(h, c), w) = Dma_mRingSeekahead(h, c + w)
        BY <1>0, <2>12, SeekAdds
      <4> QED BY <2>9, <4>1
    <3>3. At(k) \in BdSet(At(c + w), n - w) <=> k \in c + w .. c + n - 1
      <4> HIDE DEF h, c
      <4>1. c + w \in 0 .. N /\ (c + w) + (n - w) <= N /\ (c + w) + (n - w) - 1 = c + n - 1
        BY <1>0, <2>1, <2>2, <2>12
      <4>2. Dma_mRingSeekahead(h, k) \in BdSet(Dma_mRingSeekahead(h, c + w), n - w)
              <=> k \in c + w .. (c + w) + (n - w) - 1
        BY <1>0, <2>12, <4>1, SetByPosition
      <4> QED BY <4>1, <4>2
    <3> HIDE DEF At
    <3> QED BY <2>10, <3>1, <3>2, <3>3 DEF ResetIds
  <2>14. \A k \in 0 .. c - 1 : bd'[At(k)] = bd[At(k)]
    <3> HIDE DEF At, c, h
    <3>1. \A k \in 0 .. c - 1 : k \in 0 .. N-1 /\ k \notin c + w .. c + n - 1
      BY <1>0, <2>12
    <3> QED BY <2>9, <2>13, <3>1
  <2>15. ASSUME NEW k \in 0 .. w - 1
         PROVE  /\ bd'[At(c + k)].id = ulist[k + 1].buf /\ bd'[At(c + k)].status = {}
                /\ bd'[At(c + k)].SOP = ulist[k + 1].SOP
                /\ bd'[At(c + k)].EOP = ulist[k + 1].EOP
    <3>1. c + k \in 0 .. N-1 /\ c + k \notin c + w .. c + n - 1 /\ k < n /\ k \in Int /\ c # N
      BY <1>0, <2>2, <2>12
    <3>2. Offset(p, At(c + k)) = k
      <4>1. Offset(Dma_mRingSeekahead(h, c), Dma_mRingSeekahead(h, c + k))
              = IF c = N THEN c + k ELSE IF c + k >= c THEN (c + k) - c ELSE (c + k) - c + N
        BY <1>0, <3>1, OffsetOfSeek
      <4>2. c + k >= c /\ (c + k) - c = k
        BY <1>0, <3>1
      <4> QED BY <2>9, <3>1, <4>1, <4>2
    <3>3. At(c + k) \in BdIndex
      BY <2>13, <3>1
    <3> HIDE DEF At, c, h, p
    <3>4. /\ f[At(c + k)].id = ulist[k + 1].buf /\ f[At(c + k)].SOP = ulist[k + 1].SOP
          /\ f[At(c + k)].EOP = ulist[k + 1].EOP
      BY <2>5, <3>1, <3>2, <3>3
    <3>5. bd'[At(c + k)] = [f[At(c + k)] EXCEPT !.status = {}]
      BY <2>9, <2>13, <3>1
    <3>6. f[At(c + k)] \in BdType
      BY <2>4, <3>3
    <3> QED BY <3>4, <3>5, <3>6 DEF BdType
  <2>16. ASSUME NEW k \in c + w .. N - 1
         PROVE  bd'[At(k)].id \in {bd[At(k)].id, NULL}
    <3> HIDE DEF At, c, h
    <3>1. k \in 0 .. N-1
      BY <1>0, <2>12
    <3>2. CASE k \in c + w .. c + n - 1
      <4>1. b[At(k)] \in BdType
        BY <2>9, <2>13, <3>1
      <4> QED BY <2>13, <3>1, <3>2, <4>1 DEF BdType
    <3>3. CASE k \notin c + w .. c + n - 1
      <4>1. k \in c + n .. N - 1
        BY <1>0, <2>12, <3>3
      <4> QED BY <2>9, <2>13, <3>1, <3>3, <4>1
    <3> QED BY <3>2, <3>3
  <2>17. /\ w > 0 => ring.FreeCnt > 2 /\ ulist[w].EOP
         /\ memFault' => memFault \/ (ring.FreeCnt > 2 /\ space # "live")
    BY <2>1, <2>3, <2>8
  <2>18. regs' = IF w # 0 /\ ring.RunState = "STARTED"
                 THEN [regs EXCEPT !.SW_NEXT_BD = At(c + w)] ELSE regs
    BY <2>8, <2>9
  <2> HIDE DEF At, c, h, p
  <2>19. SendDone(w)
    BY <2>10, <2>11, <2>14, <2>15, <2>16, <2>17, <2>18 DEF SendDone, At, c, h
  <2> QED BY <2>12, <2>19
<1> QED BY <1>1, <1>2

-----------------------------------------------------------------------------
(* What DmaSetupRecvBuffers does: buffers of the pool join the work group. *)

RecvDone(r, n) ==
    LET At(k) == Dma_mRingSeekahead(r.HwHead, k)
        c == r.HwCnt
    IN  /\ ring'.HwHead = r.HwHead /\ ring'.HwCnt = c + n /\ ring'.PreCnt = 0
        /\ ring'.PostCnt = r.PostCnt /\ ring'.PostHead = r.PostHead
        /\ ring'.AllCnt = r.AllCnt /\ ring'.RunState = r.RunState
        /\ n > 0 => r.FreeCnt > 2 /\ HandleSet
        /\ bufs.AllocNum + n <= TotalNum
        /\ bufs' = [bufs EXCEPT !.FreePtr = Forward(@, n), !.AllocNum = @ + n]
        /\ \A k \in 0 .. c - 1 : bd'[At(k)] = bd[At(k)]
        /\ \A k \in 0 .. n - 1 : /\ bd'[At(c + k)].id = Forward(bufs.FreePtr, k)
                                 /\ bd'[At(c + k)].status = {}
        /\ \A k \in c + n .. N - 1 : bd'[At(k)] = bd[At(k)]
        /\ regs' = IF n # 0 /\ r.RunState = "STARTED"
                   THEN [regs EXCEPT !.SW_NEXT_BD = At(c + n)] ELSE regs

LEMMA RecvEffect ==
    ASSUME IsRxChannel, TypeOK, NEW r \in RingType, Tiled(r), Spare(r), r.PreCnt = 0,
           DmaSetupRecvBuffers(r, bd)
    PROVE  RecvCount(r) \in Nat /\ RecvDone(r, RecvCount(r))
<1> DEFINE h == r.HwHead
           c == r.HwCnt
           At(k) == Dma_mRingSeekahead(h, k)
           p == r.FreeHead
           n == RecvCount(r)
           a == Dma_BdRingAlloc(r, n)
           f == RecvFill(r, bd, n)
           t == Dma_BdRingToHw(a, f, n, p)
           b == ToHwBds(a, f, n, p)
<1>0. /\ bd \in [BdIndex -> BdType] /\ bufs \in PoolType /\ h \in BdIndex /\ p \in BdIndex
      /\ c \in 0 .. N /\ c \in Int /\ r.FreeCnt \in 0 .. N /\ r.FreeCnt + c <= N /\ N \in Int
      /\ c < N
  <2>1. /\ h \in BdIndex /\ p \in BdIndex /\ c \in 0 .. N /\ r.PostCnt \in 0 .. N
        /\ r.FreeCnt \in 0 .. N /\ r.FreeCnt + r.PreCnt + c + r.PostCnt <= N
    BY RingFields
  <2>2. c < N
    BY <2>1 DEF Spare
  <2> QED BY <2>1, <2>2 DEF TypeOK
<1>1. /\ n \in 0 .. r.FreeCnt /\ n \in Nat /\ AllocCount(bufs, n) = n
      /\ n > 0 => r.FreeCnt > 2 /\ HandleSet
      /\ bufs.AllocNum + n <= TotalNum
  <2>1. CASE r.FreeCnt > 2 /\ HandleSet
    <3>1. r.FreeCnt - 2 \in Nat /\ n = AllocCount(bufs, r.FreeCnt - 2)
      BY <1>0, <2>1 DEF RecvCount
    <3>2. /\ n \in 0 .. r.FreeCnt - 2 /\ AllocCount(bufs, n) = n
          /\ n <= TotalNum - bufs.AllocNum
      BY <1>0, <3>1, AllocCountBound
    <3> HIDE DEF n
    <3> QED BY <1>0, <2>1, <3>2 DEF PoolType
  <2>2. CASE ~(r.FreeCnt > 2 /\ HandleSet)
    <3>1. n = 0
      BY <2>2 DEF RecvCount
    <3> HIDE DEF n
    <3> QED BY <1>0, <3>1 DEF AllocCount, PoolType
  <2> QED BY <2>1, <2>2
<1>2. /\ ring' = t /\ bd' = b /\ regs' = ToHwRegs(a, f, n, p, regs) /\ bufs' = AllocBuf(bufs, n)
  BY DEF DmaSetupRecvBuffers
<1>3. ASSUME NEW i \in BdIndex, Offset(p, i) < n
      PROVE  /\ AllocBufs(bufs, n)[Offset(p, i) + 1] = Forward(bufs.FreePtr, Offset(p, i))
             /\ AllocBufs(bufs, n)[Offset(p, i) + 1] \in BufIndex
  <2> HIDE DEF n
  <2> DEFINE j == Offset(p, i)
  <2>1. j \in 0 .. n-1
    <3>1. j \in BdIndex
      BY <1>0, OffsetBound
    <3> HIDE DEF j
    <3>2. j < n
      BY <1>3 DEF j
    <3> QED BY <1>1, <3>1, <3>2 DEF BdIndex
  <2> HIDE DEF j
  <2>2. j + 1 \in 1 .. AllocCount(bufs, n) /\ (j + 1) - 1 = j /\ j \in Nat
    BY <1>1, <2>1
  <2>3. Forward(bufs.FreePtr, j) \in BufIndex
    BY <1>0, <2>2, PointerInPool DEF PoolType
  <2>4. AllocBufs(bufs, n)[j + 1] = Forward(bufs.FreePtr, j)
    BY <2>2 DEF AllocBufs
  <2> QED BY <2>3, <2>4 DEF j
<1>4. /\ f \in [BdIndex -> BdType]
      /\ \A i \in BdIndex : Offset(p, i) < n => /\ f[i].len = 1
                                                /\ f[i].id = Forward(bufs.FreePtr, Offset(p, i))
      /\ \A i \in BdIndex : ~(Offset(p, i) < n) => f[i] = bd[i]
  <2> HIDE DEF n
  <2>1. ASSUME NEW i \in BdIndex, NEW x \in BufIndex
        PROVE  LET g == [bd[i] EXCEPT !.SOP = FALSE, !.EOP = FALSE, !.len = 1, !.usr = {}, !.id = x]
               IN  g \in BdType /\ g.len = 1 /\ g.id = x
    <3>1. bd[i] \in BdType
      BY <1>0
    <3> QED BY <3>1 DEF BdType
  <2>2. ASSUME NEW i \in BdIndex, Offset(p, i) < n
        PROVE  f[i] \in BdType /\ f[i].len = 1 /\ f[i].id = Forward(bufs.FreePtr, Offset(p, i))
    <3> DEFINE x == AllocBufs(bufs, n)[Offset(p, i) + 1]
               g == [bd[i] EXCEPT !.SOP = FALSE, !.EOP = FALSE, !.len = 1, !.usr = {}, !.id = x]
    <3>1. f[i] = g
      BY <2>2 DEF RecvFill
    <3>2. x = Forward(bufs.FreePtr, Offset(p, i)) /\ x \in BufIndex
      BY <1>3, <2>2
    <3> HIDE DEF f, x
    <3>3. g \in BdType /\ g.len = 1 /\ g.id = x
      BY <2>1, <3>2
    <3> QED BY <3>1, <3>2, <3>3
  <2>3. ASSUME NEW i \in BdIndex, ~(Offset(p, i) < n)
        PROVE  f[i] = bd[i]
    BY <2>3 DEF RecvFill
  <2>4. f \in [BdIndex -> BdType]
    <3>1. \A i \in BdIndex : f[i] \in BdType
      BY <1>0, <2>2, <2>3
    <3>2. f = [i \in BdIndex |-> f[i]]
      BY DEF RecvFill
    <3> HIDE DEF f
    <3> QED BY <3>1, <3>2
  <2> QED BY <2>2, <2>3, <2>4
<1> HIDE DEF n, f
<1>5. HandedOver(r, n, n, bd, f, regs)
  <2>1. \A i \in BdIndex : Offset(p, i) < n => f[i].len = 1
    BY <1>4
  <2>2. FilledBehind(r, n, n, bd, f)
    BY <1>4, <2>1 DEF FilledBehind
  <2>3. n \in 0 .. n
    BY <1>1
  <2> QED BY <1>0, <1>1, <1>4, <2>2, <2>3, Handed
<1>6. /\ p = At(c)
      /\ t.HwHead = h /\ t.HwCnt = c + n /\ t.PreCnt = n - n
      /\ t.PostCnt = r.PostCnt /\ t.PostHead = r.PostHead
      /\ t.AllCnt = r.AllCnt /\ t.RunState = r.RunState
      /\ \A k \in 0 .. c - 1 : b[At(k)] = bd[At(k)]
      /\ \A k \in 0 .. n - 1 : b[At(c + k)] = [f[At(c + k)] EXCEPT !.status = {}]
      /\ \A k \in c + n .. N - 1 : b[At(k)] = bd[At(k)]
      /\ ToHwRegs(a, f, n, p, regs) = IF n # 0 /\ r.RunState = "STARTED"
                                      THEN [regs EXCEPT !.SW_NEXT_BD = At(c + n)] ELSE regs
  BY <1>5 DEF HandedOver
<1> HIDE DEF t, b, a
<1>7. ASSUME NEW k \in 0 .. n - 1
      PROVE  bd'[At(c + k)].id = Forward(bufs.FreePtr, k) /\ bd'[At(c + k)].status = {}
  <2>1. c + k \in 0 .. N-1 /\ c + k \in 0 .. N /\ k < n /\ k \in Int /\ c # N
    BY <1>0, <1>1
  <2>2. Offset(p, At(c + k)) = k
    <3>1. Offset(Dma_mRingSeekahead(h, c), Dma_mRingSeekahead(h, c + k))
            = IF c = N THEN c + k ELSE IF c + k >= c THEN (c + k) - c ELSE (c + k) - c + N
      BY <1>0, <2>1, OffsetOfSeek
    <3>2. c + k >= c /\ (c + k) - c = k
      BY <1>0, <2>1
    <3> QED BY <1>6, <2>1, <3>1, <3>2
  <2>3. At(c + k) \in BdIndex
    BY <1>0, <2>1, SeekInRing
  <2> HIDE DEF At, c, h, p
  <2>4. f[At(c + k)].id = Forward(bufs.FreePtr, k)
    BY <1>4, <2>1, <2>2, <2>3
  <2>5. bd'[At(c + k)] = [f[At(c + k)] EXCEPT !.status = {}]
    BY <1>2, <1>6
  <2>6. f[At(c + k)] \in BdType
    BY <1>4, <2>3
  <2> QED BY <2>4, <2>5, <2>6 DEF BdType
<1>8. bufs' = [bufs EXCEPT !.FreePtr = Forward(@, n), !.AllocNum = @ + n]
  BY <1>1, <1>2 DEF AllocBuf
<1>9. n - n = 0
  BY <1>1
<1> HIDE DEF At, c, h, p
<1>10. RecvDone(r, n)
  BY <1>1, <1>2, <1>6, <1>7, <1>8, <1>9 DEF RecvDone, At, c, h
<1> QED BY <1>1, <1>10 DEF n

-----------------------------------------------------------------------------
(* Who holds the buffers of the pool.  Counted from AllocPtr they are with *)
(* the handler, in the work group, on their way back from descriptor_free  *)
(* and, last, in the list of packets not yet sent.                         *)

Pos(b, x) == Forward(b.AllocPtr, x)

HeldInOrder(b, P, r, m, U, L, s) ==
    /\ b.AllocNum = Len(P) + r.HwCnt + Len(U) + (Len(L) - s)
    /\ b.FreePtr = Pos(b, b.AllocNum)
    /\ \A j \in 1 .. Len(P) : P[j].buf = Pos(b, j - 1)
    /\ \A k \in 0 .. r.HwCnt - 1 : HwBd(r, m, k).id = Pos(b, Len(P) + k)
    /\ \A j \in 1 .. Len(U) : U[j].buf = Pos(b, Len(P) + r.HwCnt + (j - 1))
    /\ \A j \in 1 .. Len(L) - s : L[s + j].buf = Pos(b, Len(P) + r.HwCnt + Len(U) + (j - 1))
    /\ \A k \in r.HwCnt .. N - 1 : HwBd(r, m, k).id = NULL

\* Lengths are numbers, and s of the list have been sent.
Lengths(P, U, L, s) ==
    Len(P) \in Nat /\ Len(U) \in Nat /\ Len(L) \in Nat /\ s \in 0 .. Len(L)

LEMMA PosMoves ==
    ASSUME NEW b \in PoolType, NEW x \in Nat, NEW y \in Nat
    PROVE  /\ Pos(b, x) \in BufIndex
           /\ Forward(Pos(b, x), y) = Pos(b, x + y)
           /\ y <= x => Back(Pos(b, x), y) = Pos(b, x - y)
<1>0. b.AllocPtr \in BufIndex /\ b.AllocPtr \in Int /\ TotalNum \in Int /\ TotalNum > 0
  BY DEF PoolType, BufIndex
<1>1. Pos(b, x) \in BufIndex
  BY <1>0, PointerInPool DEF Pos
<1>2. \A k \in Int : (((b.AllocPtr + x) % TotalNum) + k) % TotalNum = ((b.AllocPtr + x) + k) % TotalNum
  <2> DEFINE a == b.AllocPtr + x
  <2>1. a \in Int
    BY <1>0
  <2> HIDE DEF a
  <2>2. \A k \in Int : ((a % TotalNum) + k) % TotalNum = (a + k) % TotalNum
    BY <1>0, <2>1, ModAdd
  <2> QED BY <2>2 DEF a
<1>3. Forward(Pos(b, x), y) = Pos(b, x + y)
  <2>1. (b.AllocPtr + x) + y = b.AllocPtr + (x + y)
    BY <1>0
  <2> QED BY <1>2, <2>1 DEF Pos, Forward
<1>4. Back(Pos(b, x), y) = Pos(b, x - y)
  <2>1. -y \in Int /\ (b.AllocPtr + x) + (-y) = b.AllocPtr + (x - y)
    BY <1>0
  <2>2. ((b.AllocPtr + x) % TotalNum) - y = ((b.AllocPtr + x) % TotalNum) + (-y)
    BY <1>0, DivMod
  <2>3. (((b.AllocPtr + x) % TotalNum) + (-y)) % TotalNum = ((b.AllocPtr + x) + (-y)) % TotalNum
    BY <1>2, <2>1
  <2> QED BY <2>1, <2>2, <2>3 DEF Pos, Forward, Back
<1> QED BY <1>1, <1>3, <1>4

\* Round the end of the ring.
LEMMA SeekRound ==
    ASSUME NEW h \in BdIndex, NEW n \in 0 .. N, NEW k \in 0 .. N-1, n + k >= N
    PROVE  Dma_mRingSeekahead(Dma_mRingSeekahead(h, n), k) = Dma_mRingSeekahead(h, n + k - N)
BY DEF Dma_mRingSeekahead, BdIndex

\* The handler takes the first n BDs of the work group.
HandlerTakes(P, r, m, q, mq, n) ==
    /\ Len(P) = n
    /\ \A j \in 1 .. n : P[j].buf = HwBd(r, m, j - 1).id
    /\ q.HwHead = Dma_mRingSeekahead(r.HwHead, n) /\ q.HwCnt = r.HwCnt - n
    /\ \A k \in 0 .. n - 1 : HwBd(r, mq, k).id = NULL
    /\ \A k \in n .. N - 1 : HwBd(r, mq, k).id = HwBd(r, m, k).id

LEMMA OrderTaken ==
    ASSUME NEW b \in PoolType, NEW U, NEW L, NEW s, NEW P, NEW r \in RingType, Tiled(r),
           r.HwCnt < N,
           NEW q, NEW m, NEW mq, NEW n \in 0 .. r.HwCnt, Lengths(<<>>, U, L, s),
           HeldInOrder(b, <<>>, r, m, U, L, s), HandlerTakes(P, r, m, q, mq, n)
    PROVE  HeldInOrder(b, P, q, mq, U, L, s)
<1> DEFINE c == r.HwCnt
           h == r.HwHead
<1>0. /\ c \in 0 .. N /\ c \in Int /\ n \in 0 .. N /\ n \in Int /\ N \in Int /\ h \in BdIndex /\ c < N
      /\ Len(<<>>) = 0 /\ n <= c
      /\ Len(U) \in Nat /\ Len(L) \in Nat /\ Len(L) - s \in Nat
  BY RingFields DEF Lengths
<1>1. /\ b.AllocNum = 0 + c + Len(U) + (Len(L) - s)
      /\ b.FreePtr = Pos(b, b.AllocNum)
      /\ \A k \in 0 .. c - 1 : HwBd(r, m, k).id = Pos(b, 0 + k)
      /\ \A j \in 1 .. Len(U) : U[j].buf = Pos(b, 0 + c + (j - 1))
      /\ \A j \in 1 .. Len(L) - s : L[s + j].buf = Pos(b, 0 + c + Len(U) + (j - 1))
      /\ \A k \in c .. N - 1 : HwBd(r, m, k).id = NULL
  BY <1>0 DEF HeldInOrder
<1>2. /\ Len(P) = n
      /\ \A j \in 1 .. n : P[j].buf = HwBd(r, m, j - 1).id
      /\ q.HwHead = Dma_mRingSeekahead(h, n) /\ q.HwCnt = c - n
      /\ \A k \in 0 .. n - 1 : HwBd(r, mq, k).id = NULL
      /\ \A k \in n .. N - 1 : HwBd(r, mq, k).id = HwBd(r, m, k).id
  BY DEF HandlerTakes
<1>3. ASSUME NEW k \in 0 .. N - 1
      PROVE  HwBd(q, mq, k) = HwBd(r, mq, IF n + k < N THEN n + k ELSE n + k - N)
  <2>1. CASE n + k < N
    <3>1. k \in 0 .. N /\ n + k <= N
      BY <1>0, <2>1
    <3> QED BY <1>0, <1>2, <2>1, <3>1, SeekAdds DEF HwBd
  <2>2. CASE ~(n + k < N)
    <3>1. n + k >= N
      BY <1>0, <2>2
    <3>2. Dma_mRingSeekahead(Dma_mRingSeekahead(h, n), k) = Dma_mRingSeekahead(h, n + k - N)
      BY <1>0, <3>1, SeekRound
    <3> QED BY <1>2, <2>2, <3>2 DEF HwBd
  <2> QED BY <2>1, <2>2
<1> HIDE DEF c, h
<1>4. \A j \in 1 .. n : P[j].buf = Pos(b, j - 1)
  <2>1. \A j \in 1 .. n : j - 1 \in 0 .. c - 1 /\ 0 + (j - 1) = j - 1
    BY <1>0
  <2> QED BY <1>1, <1>2, <2>1
<1>5. ASSUME NEW k \in 0 .. (c - n) - 1 PROVE HwBd(q, mq, k).id = Pos(b, n + k)
  <2>1. k \in 0 .. N - 1 /\ n + k < N /\ n + k \in n .. N - 1 /\ n + k \in 0 .. c - 1
        /\ 0 + (n + k) = n + k
    BY <1>0
  <2>2. HwBd(q, mq, k) = HwBd(r, mq, n + k)
    BY <1>3, <2>1
  <2>3. HwBd(r, mq, n + k).id = HwBd(r, m, n + k).id
    BY <1>2, <2>1
  <2>4. HwBd(r, m, n + k).id = Pos(b, 0 + (n + k))
    BY <1>1, <2>1
  <2> QED BY <2>1, <2>2, <2>3, <2>4
<1>6. ASSUME NEW k \in c - n .. N - 1 PROVE HwBd(q, mq, k).id = NULL
  <2>1. CASE n + k < N
    <3>1. k \in 0 .. N - 1 /\ n + k \in n .. N - 1 /\ n + k \in c .. N - 1
      BY <1>0, <2>1
    <3> QED BY <1>1, <1>2, <1>3, <2>1, <3>1
  <2>2. CASE ~(n + k < N)
    <3>1. k \in 0 .. N - 1 /\ n + k - N \in 0 .. n - 1
      BY <1>0, <2>2
    <3> QED BY <1>2, <1>3, <2>2, <3>1
  <2> QED BY <2>1, <2>2
<1>7. 0 + c = n + (c - n) /\ 0 + c + Len(U) = n + (c - n) + Len(U)
      /\ 0 + c + Len(U) + (Len(L) - s) = n + (c - n) + Len(U) + (Len(L) - s)
  BY <1>0
<1> QED BY <1>1, <1>2, <1>4, <1>5, <1>6, <1>7 DEF HeldInOrder

\* The handler gives its packets back.
LEMMA OrderPut ==
    ASSUME NEW b \in PoolType, NEW U, NEW L, NEW s, NEW P, NEW r \in RingType, NEW m,
           Lengths(P, U, L, s), HeldInOrder(b, P, r, m, U, L, s)
    PROVE  HeldInOrder(FreeUsedBuf(b, Len(P)), <<>>, r, m, U, L, s)
<1> DEFINE c == r.HwCnt
           H == Len(P)
           V == Len(U)
           S == Len(L) - s
           d == FreeUsedBuf(b, H)
<1>0. c \in 0 .. N /\ c \in Nat /\ H \in Nat /\ V \in Nat /\ S \in Nat /\ N \in Nat /\ Len(<<>>) = 0
      /\ b.AllocNum \in 0 .. TotalNum
  BY DEF Lengths, RingType, PoolType
<1>1. /\ b.AllocNum = H + c + V + S
      /\ b.FreePtr = Pos(b, b.AllocNum)
      /\ \A k \in 0 .. c - 1 : HwBd(r, m, k).id = Pos(b, H + k)
      /\ \A j \in 1 .. V : U[j].buf = Pos(b, H + c + (j - 1))
      /\ \A j \in 1 .. S : L[s + j].buf = Pos(b, H + c + V + (j - 1))
      /\ \A k \in c .. N - 1 : HwBd(r, m, k).id = NULL
  BY DEF HeldInOrder
<1> HIDE DEF c, H, V, S
<1>2. FreeCount(b, H) = H
  BY <1>0, <1>1 DEF FreeCount
<1>3. /\ d.AllocPtr = Pos(b, H) /\ d.AllocNum = b.AllocNum - H /\ d.FreePtr = b.FreePtr
      /\ d \in PoolType
  <2>1. d \in PoolType
    BY <1>0, FreeBufType
  <2>2. d = [b EXCEPT !.AllocPtr = Pos(b, H), !.AllocNum = @ - H]
    BY <1>2 DEF FreeUsedBuf, Pos
  <2> HIDE DEF d
  <2> QED BY <2>1, <2>2 DEF PoolType
<1> HIDE DEF d
<1>4. \A x \in Nat : Pos(d, x) = Pos(b, H + x)
  <2>1. ASSUME NEW x \in Nat PROVE Pos(d, x) = Pos(b, H + x)
    <3>1. Pos(d, x) = Forward(Pos(b, H), x)
      BY <1>3 DEF Pos
    <3> QED BY <1>0, <3>1, PosMoves
  <2> QED BY <2>1
<1>5. d.AllocNum = 0 + c + V + S /\ d.AllocNum \in Nat /\ H + d.AllocNum = b.AllocNum
  BY <1>0, <1>1, <1>3
<1>6. d.FreePtr = Pos(d, d.AllocNum)
  BY <1>1, <1>3, <1>4, <1>5
<1>7. \A k \in 0 .. c - 1 : HwBd(r, m, k).id = Pos(d, 0 + k)
  <2>1. \A k \in 0 .. c - 1 : 0 + k \in Nat /\ H + (0 + k) = H + k
    BY <1>0
  <2> QED BY <1>1, <1>4, <2>1
<1>8. \A j \in 1 .. V : U[j].buf = Pos(d, 0 + c + (j - 1))
  <2>1. \A j \in 1 .. V : 0 + c + (j - 1) \in Nat /\ H + (0 + c + (j - 1)) = H + c + (j - 1)
    BY <1>0
  <2> QED BY <1>1, <1>4, <2>1
<1>9. \A j \in 1 .. S : L[s + j].buf = Pos(d, 0 + c + V + (j - 1))
  <2>1. \A j \in 1 .. S : /\ 0 + c + V + (j - 1) \in Nat
                          /\ H + (0 + c + V + (j - 1)) = H + c + V + (j - 1)
    BY <1>0
  <2> QED BY <1>1, <1>4, <2>1
<1>10. \A j \in 1 .. Len(<<>>) : FALSE
  BY <1>0
<1> QED BY <1>0, <1>1, <1>5, <1>6, <1>7, <1>8, <1>9, <1>10 DEF HeldInOrder, c, H, V, S, d

\* n BDs join the work group, with the buffers that follow there.
Grows(r, m, q, mq, n) ==
    /\ q.HwHead = r.HwHead /\ q.HwCnt = r.HwCnt + n
    /\ \A k \in 0 .. r.HwCnt - 1 : HwBd(r, mq, k).id = HwBd(r, m, k).id
    /\ \A k \in r.HwCnt + n .. N - 1 : HwBd(r, mq, k).id \in {HwBd(r, m, k).id, NULL}

Follows(b, P, r, mq, n) ==
    \A k \in 0 .. n - 1 : HwBd(r, mq, r.HwCnt + k).id = Pos(b, Len(P) + (r.HwCnt + k))

GroupInOrder(b, P, q, mq) ==
    /\ \A k \in 0 .. q.HwCnt - 1 : HwBd(q, mq, k).id = Pos(b, Len(P) + k)
    /\ \A k \in q.HwCnt .. N - 1 : HwBd(q, mq, k).id = NULL

LEMMA GroupGrows ==
    ASSUME NEW b, NEW P, NEW U, NEW L, NEW s, NEW r \in RingType, NEW q, NEW m, NEW mq,
           NEW n \in Nat, HeldInOrder(b, P, r, m, U, L, s), Grows(r, m, q, mq, n),
           Follows(b, P, r, mq, n)
    PROVE  GroupInOrder(b, P, q, mq)
<1> DEFINE c == r.HwCnt
<1>0. c \in Nat /\ N \in Nat /\ n \in Nat
  BY DEF RingType
<1>1. /\ \A k \in 0 .. c - 1 : HwBd(r, m, k).id = Pos(b, Len(P) + k)
      /\ \A k \in c .. N - 1 : HwBd(r, m, k).id = NULL
      /\ q.HwCnt = c + n
      /\ \A k \in 0 .. c - 1 : HwBd(r, mq, k).id = HwBd(r, m, k).id
      /\ \A k \in c + n .. N - 1 : HwBd(r, mq, k).id \in {HwBd(r, m, k).id, NULL}
      /\ \A k \in 0 .. n - 1 : HwBd(r, mq, c + k).id = Pos(b, Len(P) + (c + k))
  BY DEF HeldInOrder, Grows, Follows
<1>2. \A k : HwBd(q, mq, k) = HwBd(r, mq, k)
  BY DEF Grows, HwBd
<1> HIDE DEF c
<1>3. ASSUME NEW k \in 0 .. (c + n) - 1 PROVE HwBd(q, mq, k).id = Pos(b, Len(P) + k)
  <2>1. CASE k < c
    <3>1. k \in 0 .. c - 1
      BY <1>0, <2>1
    <3> QED BY <1>1, <1>2, <3>1
  <2>2. CASE ~(k < c)
    <3>1. k - c \in 0 .. n - 1 /\ c + (k - c) = k
      BY <1>0, <2>2
    <3>2. HwBd(r, mq, c + (k - c)).id = Pos(b, Len(P) + (c + (k - c)))
      BY <1>1, <3>1
    <3> QED BY <1>2, <3>1, <3>2
  <2> QED BY <2>1, <2>2
<1>4. ASSUME NEW k \in c + n .. N - 1 PROVE HwBd(q, mq, k).id = NULL
  <2>1. k \in c .. N - 1
    BY <1>0
  <2> QED BY <1>1, <1>2, <2>1
<1> QED BY <1>1, <1>3, <1>4 DEF GroupInOrder

\* Those buffers are new, or the first of the list.
CarryNew(b, r, mq, n) ==
    \A k \in 0 .. n - 1 : HwBd(r, mq, r.HwCnt + k).id = Forward(b.FreePtr, k)

CarryList(L, r, mq, n) ==
    \A k \in 0 .. n - 1 : HwBd(r, mq, r.HwCnt + k).id = L[k + 1].buf

\* DmaSetupRecvBuffers: buffers come from the pool into the work group.
LEMMA OrderReceived ==
    ASSUME NEW b \in PoolType, NEW P, NEW U, NEW L, NEW s, NEW r \in RingType, NEW q,
           NEW m, NEW mq, NEW n \in Nat, Lengths(P, U, L, s), Len(U) = 0, Len(L) - s = 0,
           HeldInOrder(b, P, r, m, U, L, s), Grows(r, m, q, mq, n),
           CarryNew(b, r, mq, n), NEW d \in PoolType,
           d = [b EXCEPT !.FreePtr = Forward(@, n), !.AllocNum = @ + n]
    PROVE  HeldInOrder(d, P, q, mq, U, L, s)
<1> DEFINE c == r.HwCnt
           H == Len(P)
<1>0. c \in Nat /\ H \in Nat /\ N \in Nat /\ b.AllocNum \in Nat
  BY DEF RingType, Lengths, PoolType
<1>1. b.AllocNum = H + c + 0 + 0 /\ b.FreePtr = Pos(b, b.AllocNum)
  BY DEF HeldInOrder
<1>2. /\ d.AllocPtr = b.AllocPtr /\ d.AllocNum = b.AllocNum + n
      /\ d.FreePtr = Forward(b.FreePtr, n)
  BY DEF PoolType
<1>3. \A x : Pos(d, x) = Pos(b, x)
  BY <1>2 DEF Pos
<1> HIDE DEF c, H
<1>4. b.AllocNum = H + c
  BY <1>0, <1>1
<1>5. ASSUME NEW k \in 0 .. n - 1 PROVE HwBd(r, mq, r.HwCnt + k).id = Pos(b, H + (c + k))
  <2>1. k \in Nat /\ b.AllocNum + k = H + (c + k)
    BY <1>0, <1>4
  <2>2. HwBd(r, mq, r.HwCnt + k).id = Forward(b.FreePtr, k)
    BY DEF CarryNew
  <2> QED BY <1>0, <1>1, <2>1, <2>2, PosMoves
<1>6. Follows(b, P, r, mq, n)
  BY <1>5 DEF Follows, c, H
<1>7. GroupInOrder(b, P, q, mq)
  BY <1>6, GroupGrows
<1>8. q.HwCnt = c + n /\ d.AllocNum = H + q.HwCnt + 0 + 0 /\ d.AllocNum = b.AllocNum + n
  <2>1. q.HwCnt = c + n
    BY DEF Grows, c
  <2> QED BY <1>0, <1>2, <1>4, <2>1
<1>9. d.FreePtr = Pos(d, d.AllocNum)
  BY <1>0, <1>1, <1>2, <1>3, PosMoves
<1>10. /\ \A j \in 1 .. H : P[j].buf = Pos(d, j - 1)
       /\ \A j \in 1 .. 0 : FALSE
  BY <1>3 DEF HeldInOrder, H
<1> QED BY <1>3, <1>7, <1>8, <1>9, <1>10 DEF HeldInOrder, GroupInOrder, H

\* DmaSendPkt: the first w buffers of the list join the work group.
LEMMA OrderSent ==
    ASSUME NEW b \in PoolType, NEW P, NEW U, NEW L, NEW r \in RingType, NEW q,
           NEW m, NEW mq, NEW w \in 0 .. Len(L), Lengths(P, U, L, 0), Len(U) = 0,
           HeldInOrder(b, P, r, m, U, L, 0), Grows(r, m, q, mq, w),
           CarryList(L, r, mq, w)
    PROVE  HeldInOrder(b, P, q, mq, U, L, w)
<1> DEFINE c == r.HwCnt
           H == Len(P)
           S == Len(L)
<1>0. c \in Nat /\ H \in Nat /\ N \in Nat /\ S \in Nat /\ w \in Nat /\ w <= S /\ w \in 0 .. S
  BY DEF RingType, Lengths
<1>1. /\ b.AllocNum = H + c + 0 + (S - 0) /\ b.FreePtr = Pos(b, b.AllocNum)
      /\ \A j \in 1 .. S - 0 : L[0 + j].buf = Pos(b, H + c + 0 + (j - 1))
      /\ \A j \in 1 .. H : P[j].buf = Pos(b, j - 1)
  BY DEF HeldInOrder
<1>2. q.HwCnt = c + w
  BY DEF Grows
<1> HIDE DEF c, H, S
<1>3. \A j \in 1 .. S : L[j].buf = Pos(b, H + c + (j - 1))
  <2>1. \A j \in 1 .. S : j \in 1 .. S - 0 /\ 0 + j = j /\ H + c + 0 + (j - 1) = H + c + (j - 1)
    BY <1>0
  <2> QED BY <1>1, <2>1
<1>4. ASSUME NEW k \in 0 .. w - 1 PROVE HwBd(r, mq, r.HwCnt + k).id = Pos(b, H + (c + k))
  <2>1. k + 1 \in 1 .. S /\ H + c + ((k + 1) - 1) = H + (c + k)
    BY <1>0
  <2>2. HwBd(r, mq, r.HwCnt + k).id = L[k + 1].buf
    BY DEF CarryList
  <2> QED BY <1>3, <2>1, <2>2
<1>5. Follows(b, P, r, mq, w)
  BY <1>4 DEF Follows, c, H
<1>6. GroupInOrder(b, P, q, mq)
  BY <1>0, <1>5, GroupGrows
<1>7. b.AllocNum = H + q.HwCnt + 0 + (S - w)
  BY <1>0, <1>1, <1>2
<1>8. ASSUME NEW j \in 1 .. S - w PROVE L[w + j].buf = Pos(b, H + q.HwCnt + 0 + (j - 1))
  <2>1. w + j \in 1 .. S /\ H + c + ((w + j) - 1) = H + q.HwCnt + 0 + (j - 1)
    BY <1>0, <1>2
  <2> QED BY <1>3, <2>1
<1>9. \A j \in 1 .. 0 : FALSE
  OBVIOUS
<1> QED BY <1>1, <1>6, <1>7, <1>8, <1>9 DEF HeldInOrder, GroupInOrder, H, S

\* DmaSetupTransmit: buffers come from the pool into the list.
ListFrom(b, L) ==
    /\ Len(L) \in Nat /\ Len(L) <= TotalNum - b.AllocNum
    /\ \A j \in 1 .. Len(L) : L[j].buf = AllocBufs(b, Len(L))[j]

LEMMA OrderPrepared ==
    ASSUME NEW b \in PoolType, NEW P, NEW U, NEW K, NEW s, NEW L, NEW r \in RingType, NEW m,
           Lengths(P, U, K, s), Len(U) = 0, Len(K) - s = 0,
           HeldInOrder(b, P, r, m, U, K, s), ListFrom(b, L)
    PROVE  HeldInOrder(AllocBuf(b, Len(L)), P, r, m, U, L, 0)
<1> DEFINE c == r.HwCnt
           H == Len(P)
           S == Len(L)
           d == AllocBuf(b, S)
<1>0. /\ c \in Nat /\ H \in Nat /\ N \in Nat /\ S \in Nat /\ b.AllocNum \in Nat
      /\ S <= TotalNum - b.AllocNum
  BY DEF RingType, Lengths, PoolType, ListFrom
<1>1. /\ b.AllocNum = H + c + 0 + 0 /\ b.FreePtr = Pos(b, b.AllocNum)
      /\ \A j \in 1 .. H : P[j].buf = Pos(b, j - 1)
      /\ \A k \in 0 .. c - 1 : HwBd(r, m, k).id = Pos(b, H + k)
      /\ \A k \in c .. N - 1 : HwBd(r, m, k).id = NULL
  BY DEF HeldInOrder
<1> HIDE DEF c, H
<1>2. AllocCount(b, S) = S
  <2> HIDE DEF S
  <2> QED BY <1>0 DEF AllocCount
<1>3. \A j \in 1 .. S : L[j].buf = Forward(b.FreePtr, j - 1)
  BY <1>2 DEF ListFrom, AllocBufs
<1>4. /\ d.AllocPtr = b.AllocPtr /\ d.AllocNum = b.AllocNum + S /\ d.FreePtr = Forward(b.FreePtr, S)
  <2>1. d = [b EXCEPT !.FreePtr = Forward(@, S), !.AllocNum = @ + S]
    BY <1>2 DEF AllocBuf
  <2> HIDE DEF d, S
  <2> QED BY <2>1 DEF PoolType
<1> HIDE DEF S, d
<1>5. \A x : Pos(d, x) = Pos(b, x)
  BY <1>4 DEF Pos
<1>6. d.AllocNum = H + c + 0 + (S - 0) /\ b.AllocNum = H + c
  BY <1>0, <1>1, <1>4
<1>7. d.FreePtr = Pos(d, d.AllocNum)
  BY <1>0, <1>1, <1>4, <1>5, PosMoves
<1>8. ASSUME NEW j \in 1 .. S - 0 PROVE L[0 + j].buf = Pos(d, H + c + 0 + (j - 1))
  <2>1. j \in 1 .. S /\ 0 + j = j /\ j - 1 \in Nat /\ H + c + 0 + (j - 1) = b.AllocNum + (j - 1)
    BY <1>0, <1>6
  <2> QED BY <1>0, <1>1, <1>3, <1>5, <2>1, PosMoves
<1>9. \A j \in 1 .. 0 : FALSE
  OBVIOUS
<1> QED BY <1>1, <1>5, <1>6, <1>7, <1>8, <1>9 DEF HeldInOrder, c, H, S, d

\* What is taken back from the end of the pool.
LEMMA TakenBack ==
    ASSUME NEW b \in PoolType, NEW x \in Nat, NEW y \in Nat, b.AllocNum = x + y,
           b.FreePtr = Pos(b, b.AllocNum)
    PROVE  LET d == FreeUnusedBuf(b, y)
           IN  /\ d.AllocNum = x /\ d.FreePtr = Pos(d, d.AllocNum)
               /\ \A z : Pos(d, z) = Pos(b, z)
<1> DEFINE d == FreeUnusedBuf(b, y)
<1>1. FreeCount(b, y) = y /\ (x + y) - y = x /\ y <= x + y /\ x + y \in Nat
  BY DEF FreeCount
<1>2. d = [b EXCEPT !.FreePtr = Back(@, y), !.AllocNum = @ - y]
  BY <1>1 DEF FreeUnusedBuf
<1> HIDE DEF d
<1>3. d.AllocPtr = b.AllocPtr /\ d.AllocNum = x /\ d.FreePtr = Back(b.FreePtr, y)
  BY <1>1, <1>2 DEF PoolType
<1>4. \A z : Pos(d, z) = Pos(b, z)
  BY <1>3 DEF Pos
<1>5. Back(Pos(b, x + y), y) = Pos(b, (x + y) - y)
  BY <1>1, PosMoves
<1> QED BY <1>1, <1>3, <1>4, <1>5 DEF d

\* TakeBack: the rest of the list goes back.
LEMMA OrderTrimmed ==
    ASSUME NEW b \in PoolType, NEW P, NEW U, NEW L, NEW s, NEW r \in RingType, NEW m,
           Lengths(P, U, L, s), HeldInOrder(b, P, r, m, U, L, s)
    PROVE  HeldInOrder(FreeUnusedBuf(b, Len(L) - s), P, r, m, U, <<>>, 0)
<1> DEFINE x == Len(P) + r.HwCnt + Len(U)
           d == FreeUnusedBuf(b, Len(L) - s)
<1>1. /\ x \in Nat /\ Len(L) - s \in Nat /\ Len(<<>>) = 0 /\ Len(<<>>) - 0 = 0
      /\ x + (Len(<<>>) - 0) = x
  BY DEF Lengths, RingType
<1>2. b.AllocNum = x + (Len(L) - s) /\ b.FreePtr = Pos(b, b.AllocNum)
  BY DEF HeldInOrder
<1> HIDE DEF x
<1>3. d.AllocNum = x /\ d.FreePtr = Pos(d, d.AllocNum) /\ \A z : Pos(d, z) = Pos(b, z)
  BY <1>1, <1>2, TakenBack
<1> HIDE DEF d
<1>4. d.AllocNum = Len(P) + r.HwCnt + Len(U) + (Len(<<>>) - 0)
  BY <1>1, <1>3 DEF x
<1>5. \A j \in 1 .. Len(<<>>) - 0 : FALSE
  BY <1>1
<1> QED BY <1>3, <1>4, <1>5 DEF HeldInOrder, d

\* PutUnused: what descriptor_free has recovered goes back.
LEMMA OrderReturned ==
    ASSUME NEW b \in PoolType, NEW P, NEW U, NEW L, NEW s, NEW r \in RingType, NEW m,
           Lengths(P, U, L, s), Len(L) - s = 0, HeldInOrder(b, P, r, m, U, L, s)
    PROVE  HeldInOrder(FreeUnusedBuf(b, Len(U)), P, r, m, <<>>, L, s)
<1> DEFINE x == Len(P) + r.HwCnt
           d == FreeUnusedBuf(b, Len(U))
<1>1. x \in Nat /\ Len(U) \in Nat /\ Len(<<>>) = 0 /\ x + 0 + (Len(L) - s) = x
  BY DEF Lengths, RingType
<1>2. b.AllocNum = x + Len(U) /\ b.FreePtr = Pos(b, b.AllocNum)
  BY <1>1 DEF HeldInOrder
<1> HIDE DEF x
<1>3. d.AllocNum = x /\ d.FreePtr = Pos(d, d.AllocNum) /\ \A z : Pos(d, z) = Pos(b, z)
  BY <1>1, <1>2, TakenBack
<1> HIDE DEF d
<1>4. d.AllocNum = Len(P) + r.HwCnt + Len(<<>>) + (Len(L) - s)
  BY <1>1, <1>3 DEF x
<1>5. (\A j \in 1 .. Len(<<>>) : FALSE) /\ \A j \in 1 .. Len(L) - s : FALSE
  BY <1>1
<1> QED BY <1>3, <1>4, <1>5 DEF HeldInOrder, d

\* RecoverBds: descriptor_free takes the whole work group.
Recovered(U, r, m, q, mq) ==
    /\ Len(U) = r.HwCnt /\ q.HwCnt = 0
    /\ \A j \in 1 .. Len(U) : U[j].buf = HwBd(r, m, j - 1).id
    /\ \A k \in 0 .. N - 1 : HwBd(q, mq, k).id = NULL

LEMMA OrderRecovered ==
    ASSUME NEW b \in PoolType, NEW P, NEW K, NEW U, NEW L, NEW s, NEW r \in RingType, NEW m,
           NEW q, NEW mq, Lengths(P, K, L, s), Len(K) = 0, Len(L) - s = 0,
           HeldInOrder(b, P, r, m, K, L, s), Recovered(U, r, m, q, mq)
    PROVE  HeldInOrder(b, P, q, mq, U, L, s)
<1> DEFINE c == r.HwCnt
           H == Len(P)
<1>1. c \in Nat /\ H \in Nat
  BY DEF Lengths, RingType
<1>2. /\ b.AllocNum = H + c + 0 + 0
      /\ \A k \in 0 .. c - 1 : HwBd(r, m, k).id = Pos(b, H + k)
  BY DEF HeldInOrder
<1>3. /\ Len(U) = c /\ q.HwCnt = 0
      /\ \A j \in 1 .. c : U[j].buf = HwBd(r, m, j - 1).id
  BY DEF Recovered
<1> HIDE DEF c, H
<1>4. b.AllocNum = H + 0 + c + 0
  BY <1>1, <1>2
<1>5. ASSUME NEW j \in 1 .. c PROVE U[j].buf = Pos(b, H + 0 + (j - 1))
  <2>1. j - 1 \in 0 .. c - 1 /\ H + 0 + (j - 1) = H + (j - 1)
    BY <1>1
  <2> QED BY <1>2, <1>3, <2>1
<1>6. (\A j \in 1 .. 0 : FALSE) /\ \A k \in 0 .. 0 - 1 : FALSE
  OBVIOUS
<1> QED BY <1>3, <1>4, <1>5, <1>6 DEF HeldInOrder, Recovered, H

-----------------------------------------------------------------------------
(* What the handler and descriptor_free do to ring and memory.             *)

KeepsRest(r, q) ==
    /\ q.PreCnt = r.PreCnt /\ q.PostHead = r.PostHead /\ q.AllCnt = r.AllCnt
    /\ q.RunState = r.RunState /\ q.BdaRestart = r.BdaRestart

LEMMA FromHwFields ==
    ASSUME NEW r \in RingType, Tiled(r), NEW m, NEW limit \in Nat
    PROVE  /\ KeepsRest(r, Dma_BdRingFromHw(r, m, limit))
           /\ Dma_BdRingFromHw(r, m, limit).PostCnt = r.PostCnt + FromHwCount(r, m, limit)
           /\ KeepsRest(r, Dma_BdRingForceFromHw(r, limit))
           /\ Dma_BdRingForceFromHw(r, limit).PostCnt = r.PostCnt + ForceFromHwCount(r, limit)
<1>0. r.PostCnt \in 0 .. N /\ r.PostCnt + 0 = r.PostCnt
  BY RingFields
<1>1. /\ KeepsRest(r, Dma_BdRingFromHw(r, m, limit))
      /\ Dma_BdRingFromHw(r, m, limit).PostCnt = r.PostCnt + FromHwCount(r, m, limit)
  <2>1. CASE r.HwCnt = 0
    BY <1>0, <2>1 DEF Dma_BdRingFromHw, FromHwCount, KeepsRest
  <2>2. CASE r.HwCnt # 0
    <3> DEFINE k == FromHwCount(r, m, limit)
               e == (r.BDerrs + Cardinality({i \in BdRead(r, m, limit) : "ERROR" \in m[i].status}))
                        % ErrMod
               se == (r.BDSerrs + Cardinality({i \in BdRead(r, m, limit) :
                                        ~IsRxChannel /\ "SHORT" \in m[i].status})) % ErrMod
               q == Dma_BdRingFromHw(r, m, limit)
    <3>1. q = [r EXCEPT !.HwCnt = @ - k, !.PostCnt = @ + k,
                        !.HwHead = Dma_mRingSeekahead(@, k), !.BDerrs = e, !.BDSerrs = se]
      BY <2>2 DEF Dma_BdRingFromHw
    <3> HIDE DEF k, e, se, q
    <3>2. q.PostCnt = r.PostCnt + k /\ KeepsRest(r, q)
      BY <3>1 DEF RingType, KeepsRest
    <3> QED BY <3>2 DEF k, q
  <2> QED BY <2>1, <2>2
<1>2. /\ KeepsRest(r, Dma_BdRingForceFromHw(r, limit))
      /\ Dma_BdRingForceFromHw(r, limit).PostCnt = r.PostCnt + ForceFromHwCount(r, limit)
  BY DEF Dma_BdRingForceFromHw, RingType, KeepsRest
<1> QED BY <1>1, <1>2

\* Dma_BdRingFree of the whole post-work group.
LEMMA FreeFields ==
    ASSUME NEW r \in RingType, Tiled(r), NEW n, n = r.PostCnt, NEW p, p = r.PostHead
    PROVE  /\ FreeResult(r, n, p) = "XST_SUCCESS"
           /\ LET q == Dma_BdRingFree(r, n, p)
              IN  /\ q.PostCnt = 0 /\ q.PreCnt = r.PreCnt /\ q.AllCnt = r.AllCnt
                  /\ q.RunState = r.RunState /\ q.HwHead = r.HwHead /\ q.HwCnt = r.HwCnt
<1>1. r.PostCnt \in 0 .. N
  BY RingFields
<1>2. FreeResult(r, n, p) = "XST_SUCCESS"
  BY <1>1 DEF FreeResult
<1>3. CASE n = 0
  BY <1>2, <1>3 DEF Dma_BdRingFree
<1>4. CASE n # 0
  <2> DEFINE q == Dma_BdRingFree(r, n, p)
             hd == Dma_mRingSeekahead(r.PostHead, n)
  <2>1. q = [r EXCEPT !.FreeCnt = @ + n, !.PostCnt = @ - n, !.PostHead = hd]
    BY <1>2, <1>4 DEF Dma_BdRingFree
  <2>2. n - n = 0
    BY <1>1
  <2> HIDE DEF q, hd
  <2>3. /\ q.PostCnt = n - n /\ q.PreCnt = r.PreCnt /\ q.AllCnt = r.AllCnt
        /\ q.RunState = r.RunState /\ q.HwHead = r.HwHead /\ q.HwCnt = r.HwCnt
    BY <2>1 DEF RingType
  <2> QED BY <1>2, <2>2, <2>3 DEF q
<1> QED BY <1>3, <1>4

\* All BDs that Dma_BdRingFromHw returns are done, and the last one ends a
\* packet.
LEMMA DoneAndWhole ==
    ASSUME NEW r \in RingType, Tiled(r), NEW m, NEW limit \in Nat
    PROVE  LET n == FromHwCount(r, m, limit)
           IN  /\ \A k \in 0 .. n - 1 : BdDone(HwBd(r, m, k))
               /\ n > 0 => EndsPacket(HwBd(r, m, n - 1))
<1> DEFINE n == FromHwCount(r, m, limit)
           x == BdScanned(r, m, limit)
           S == {k \in 0 .. WalkLength(r.HwHead, r.HwTail) :
                    /\ k <= limit
                    /\ \A i \in BdSet(r.HwHead, k) : BdDone(m[i])}
           T == {k \in 0 .. x : k # 0 => EndsPacket(m[Dma_mRingSeekahead(r.HwHead, k-1)])}
<1>0. r.HwHead \in BdIndex /\ r.HwCnt \in 0 .. N
  BY RingFields
<1>1. CASE r.HwCnt = 0
  BY <1>1 DEF FromHwCount
<1>2. CASE r.HwCnt # 0
  <2>1. WalkLength(r.HwHead, r.HwTail) = r.HwCnt
    BY <1>0, <1>2, WalkIsCount DEF Tiled
  <2>2. x \in S
    <3>1. S \subseteq 0 .. r.HwCnt /\ 0 \in S
      BY <1>0, <2>1 DEF BdSet
    <3>2. Max(S) \in S
      BY <1>0, <3>1, MaxInSet
    <3> QED BY <3>2 DEF BdScanned
  <2>3. x \in Nat /\ \A i \in BdSet(r.HwHead, x) : BdDone(m[i])
    BY <1>0, <2>1, <2>2
  <2> HIDE DEF x
  <2>4. n \in T
    <3>1. T \subseteq 0 .. x /\ 0 \in T
      BY <2>3
    <3>2. Max(T) \in T
      BY <2>3, <3>1, MaxInSet
    <3> QED BY <1>2, <3>2 DEF FromHwCount, x
  <2>5. n \in 0 .. x /\ (n # 0 => EndsPacket(m[Dma_mRingSeekahead(r.HwHead, n - 1)]))
    BY <2>4
  <2> HIDE DEF n
  <2>6. ASSUME NEW k \in 0 .. n - 1 PROVE BdDone(HwBd(r, m, k))
    <3>1. k \in 0 .. x - 1
      BY <2>3, <2>5
    <3> QED BY <2>3, <3>1 DEF BdSet, HwBd
  <2> QED BY <2>5, <2>6 DEF HwBd, n
<1> QED BY <1>1, <1>2

\* HandleCompleted: n BDs are freed and their packets go to the handler.
CompletedDone(h, n) ==
    /\ ring'.HwHead = Dma_mRingSeekahead(ring.HwHead, n) /\ ring'.HwCnt = ring.HwCnt - n
    /\ ring'.PreCnt = ring.PreCnt /\ ring'.PostCnt = 0
    /\ ring'.AllCnt = ring.AllCnt /\ ring'.RunState = ring.RunState
    /\ hpkts' = [hpkts EXCEPT ![h] = Packets(ring.HwHead, n)]
    /\ hpc' = [hpc EXCEPT ![h] = "put"]
    /\ memFault' = (memFault \/ space # "live")
    /\ \A k \in 0 .. n - 1 : HwBd(ring, bd', k).id = NULL /\ BdDone(HwBd(ring, bd, k))
    /\ \A k \in n .. N - 1 : HwBd(ring, bd', k) = HwBd(ring, bd, k)
    /\ EndsPacket(HwBd(ring, bd, n - 1))

LEMMA CompletedEffect ==
    ASSUME IInv, ring.PostCnt = 0, NEW h \in Handlers, HandleCompleted(h)
    PROVE  \E n \in 1 .. ring.HwCnt : CompletedDone(h, n)
<1> DEFINE n == FromHwCount(ring, bd, BdLimit)
           r == Dma_BdRingFromHw(ring, bd, BdLimit)
           p == ring.HwHead
           m == ResetIds(bd, p, n)
<1>0. /\ ring \in RingType /\ Tiled(ring) /\ bd \in [BdIndex -> BdType]
      /\ p \in BdIndex /\ ring.HwCnt \in 0 .. N /\ BdLimit \in Nat
  BY RingNow, StateNow, BdLimitAssumption
<1>1. n \in 0 .. ring.HwCnt
  BY <1>0, FromHwCountBound
<1>2. /\ n > 0
      /\ ring' = Dma_BdRingFree(r, n, p)
      /\ bd' = FreeBds(r, m, n, p)
      /\ hpkts' = [hpkts EXCEPT ![h] = IF FreeResult(r, n, p) = "XST_SUCCESS"
                                       THEN Packets(p, n) ELSE <<>>]
      /\ hpc' = [hpc EXCEPT ![h] = IF FreeResult(r, n, p) = "XST_SUCCESS" THEN "put" ELSE "idle"]
      /\ memFault' = (memFault \/ (n > 0 /\ space # "live"))
  BY DEF HandleCompleted, Uses
<1>3. r \in RingType /\ Tiled(r) /\ r.HwHead = Dma_mRingSeekahead(p, n) /\ r.HwCnt = ring.HwCnt - n
  BY <1>0, FromHwTiled, WorkGroup
<1>4. KeepsRest(ring, r) /\ r.PostCnt = n
  <2>1. KeepsRest(ring, r) /\ r.PostCnt = ring.PostCnt + n
    BY <1>0, FromHwFields
  <2> HIDE DEF n, r
  <2> QED BY <1>0, <1>1, <2>1
<1>5. p = r.PostHead
  <2>1. Dma_mRingSeekahead(ring.PostHead, 0) = ring.PostHead
    BY <1>0, RingFields DEF BdIndex, Dma_mRingSeekahead
  <2> QED BY <1>0, <1>4, <2>1 DEF Tiled, KeepsRest
<1>6. \A k \in 0 .. n - 1 : BdDone(HwBd(ring, bd, k))
  BY <1>0, DoneAndWhole
<1>7. EndsPacket(HwBd(ring, bd, n - 1))
  BY <1>0, <1>2, DoneAndWhole
<1> HIDE DEF n, r, m, p
<1>8. /\ FreeResult(r, n, p) = "XST_SUCCESS"
      /\ ring'.PostCnt = 0 /\ ring'.PreCnt = r.PreCnt /\ ring'.AllCnt = r.AllCnt
      /\ ring'.RunState = r.RunState /\ ring'.HwHead = r.HwHead /\ ring'.HwCnt = r.HwCnt
  BY <1>2, <1>3, <1>4, <1>5, FreeFields
<1>9. n \in 1 .. ring.HwCnt /\ n \in 0 .. N /\ n # 0
  BY <1>0, <1>1, <1>2
<1>10. ASSUME NEW k \in 0 .. N - 1
       PROVE  /\ Dma_mRingSeekahead(p, k) \in BdIndex
              /\ k < n => HwBd(ring, bd', k).id = NULL
              /\ ~(k < n) => HwBd(ring, bd', k) = HwBd(ring, bd, k)
  <2> DEFINE i == Dma_mRingSeekahead(p, k)
  <2>1. i \in BdIndex
    <3>1. k \in 0 .. N
      OBVIOUS
    <3> QED BY <1>0, <3>1, SeekInRing
  <2>2. i \in BdSet(p, n) <=> k < n
    BY <1>0, <1>9, SetFromHead
  <2>3. m \in [BdIndex -> BdType]
    BY <1>0, MemoryType DEF m
  <2>4. bd'[i] = IF i \in BdSet(p, n)
                 THEN [m[i] EXCEPT !.status = {}, !.SOP = FALSE, !.EOP = FALSE, !.len = 0]
                 ELSE m[i]
    BY <1>2, <1>8, <1>9, <2>1 DEF FreeBds
  <2>5. m[i] = IF i \in BdSet(p, n) THEN [bd[i] EXCEPT !.id = NULL] ELSE bd[i]
    BY <2>1 DEF m, ResetIds
  <2>6. bd[i] \in BdType /\ m[i] \in BdType
    BY <1>0, <2>1, <2>3
  <2> HIDE DEF i
  <2>7. (k < n => bd'[i].id = NULL) /\ (~(k < n) => bd'[i] = bd[i])
    BY <2>2, <2>4, <2>5, <2>6 DEF BdType
  <2> QED BY <2>1, <2>7 DEF i, HwBd, p
<1>11. \A k \in 0 .. n - 1 : HwBd(ring, bd', k).id = NULL
  <2>1. \A k \in 0 .. n - 1 : k \in 0 .. N - 1 /\ k < n
    BY <1>9
  <2> QED BY <1>10, <2>1
<1>12. \A k \in n .. N - 1 : HwBd(ring, bd', k) = HwBd(ring, bd, k)
  <2>1. \A k \in n .. N - 1 : k \in 0 .. N - 1 /\ ~(k < n)
    BY <1>9
  <2> QED BY <1>10, <2>1
<1>13. CompletedDone(h, n)
  BY <1>2, <1>3, <1>4, <1>6, <1>7, <1>8, <1>11, <1>12 DEF CompletedDone, KeepsRest, p
<1> QED BY <1>9, <1>13

-----------------------------------------------------------------------------
(* The phases of the engine's life: what the user thread, the handlers and *)
(* the state of the engine say of each other.                              *)

InUse == upc \in {"registering", "running", "send", "trim"}

StateFits ==
    EngineState = IF InUse THEN "USER_ASSIGNED"
                  ELSE IF upc \in {"unloaded", "unregistered"} THEN "INITIALIZED"
                       ELSE "UNREGISTERING"

PhaseInv ==
    /\ StateFits
    /\ ~MayUnregister => InUse \/ (upc = "unloaded" /\ session = 0)
    /\ session = 0 => upc = "unloaded" /\ space = "none"
    /\ upc = "unloaded" => \A h \in Handlers : hpc[h] = "idle"
    /\ \A h \in Handlers : hpc[h] # "put" => hpkts[h] = <<>>
    /\ upc # "put" => upkts = <<>>
    /\ ~Unsent => ulist = <<>> /\ usent = 0

LEMMA PhaseInit == Init => PhaseInv
BY DEF Init, PhaseInv, StateFits, InUse, Unsent

LEMMA HandlerPhase ==
    ASSUME IInv, PhaseInv, NEW h \in Handlers, Handler(h)
    PROVE  PhaseInv'
<1> USE DEF ringVars, userVars
<1>0. hpc \in [Handlers -> {"idle", "entered", "put", "refill"}]
      /\ hpkts \in [Handlers -> Seq(PacketType)]
  BY DEF IInv, TypeOK
<1>1. UNCHANGED <<EngineState, space, upc, session, upkts, ulist, usent>>
  BY DEF Handler, CheckEngine, HandleNothing, HandleCompleted, PutPkts, Refill
<1>2. upc # "unloaded"
  <2>1. hpc[h] = "idle" => EngineState = "USER_ASSIGNED"
    BY DEF Handler, CheckEngine, HandleNothing, HandleCompleted, PutPkts, Refill
  <2> QED BY <2>1 DEF PhaseInv, StateFits, InUse
<1>3. \A g \in Handlers : hpc'[g] # "put" => hpkts'[g] = <<>>
  <2>1. CASE CheckEngine(h) \/ HandleNothing(h) \/ PutPkts(h) \/ Refill(h)
    BY <1>0, <2>1 DEF PhaseInv, CheckEngine, HandleNothing, PutPkts, Refill
  <2>2. CASE HandleCompleted(h)
    <3>1. \/ hpc' = [hpc EXCEPT ![h] = "idle"] /\ hpkts' = [hpkts EXCEPT ![h] = <<>>]
          \/ /\ hpc' = [hpc EXCEPT ![h] = "put"]
             /\ hpkts' = [hpkts EXCEPT ![h] = hpkts'[h]]
      BY <1>0, <2>2 DEF HandleCompleted
    <3> QED BY <1>0, <3>1 DEF PhaseInv
  <2> QED BY <2>1, <2>2 DEF Handler
<1> QED BY <1>1, <1>2, <1>3 DEF PhaseInv, StateFits, InUse, Unsent

LEMMA PhaseStep ==
    ASSUME IInv, PhaseInv, [Next]_vars
    PROVE  PhaseInv'
<1> USE DEF ringVars, userVars, hVars
<1>1. ASSUME NEW h \in Handlers, Handler(h) PROVE PhaseInv'
  BY <1>1, HandlerPhase
<1>2. CASE UserCall
  <2>1. UNCHANGED <<session, hVars>>
    BY <1>2 DEF UserCall, StoreHandle, DmaSendPkt, TakeBack, RecoverBds, PutUnused,
                FreeRecovered, ReleaseSpace, Detach
  <2>2. CASE StoreHandle
    BY <2>1, <2>2 DEF StoreHandle, PhaseInv, StateFits, InUse, Unsent
  <2>3. CASE DmaSendPkt
    <3>1. /\ upc = "send" /\ upc' = "trim"
          /\ UNCHANGED <<EngineState, space, upkts, ulist>>
      BY <2>3 DEF DmaSendPkt
    <3> QED BY <2>1, <3>1 DEF PhaseInv, StateFits, InUse, Unsent
  <2>4. CASE TakeBack
    BY <2>1, <2>4 DEF TakeBack, PhaseInv, StateFits, InUse, Unsent
  <2>5. CASE RecoverBds
    <3>1. /\ upc = "reset" /\ upc' \in {"put", "release"}
          /\ UNCHANGED <<EngineState, space, ulist, usent>>
      BY <2>5 DEF RecoverBds
    <3>2. upc' # "put" => upkts' = <<>>
      <4> DEFINE n == ForceFromHwCount(ring, BdLimit)
      <4>1. n \in Nat
        BY RingNow, ForceFromHwCountBound, BdLimitAssumption
      <4>2. upkts' = Packets(ring.HwHead, n) /\ upc' = IF n > 0 THEN "put" ELSE "release"
        BY <2>5 DEF RecoverBds
      <4> HIDE DEF n
      <4>3. n = 0 => Packets(ring.HwHead, n) = <<>>
        BY DEF Packets
      <4> QED BY <4>1, <4>2, <4>3
    <3> QED BY <2>1, <3>1, <3>2 DEF PhaseInv, StateFits, InUse, Unsent
  <2>6. CASE PutUnused
    BY <2>1, <2>6 DEF PutUnused, PhaseInv, StateFits, InUse, Unsent
  <2>7. CASE FreeRecovered
    <3>1. /\ upc = "free" /\ upc' = "release"
          /\ UNCHANGED <<EngineState, space, ulist, usent, upkts>>
      BY <2>7 DEF FreeRecovered
    <3> QED BY <2>1, <3>1 DEF PhaseInv, StateFits, InUse, Unsent
  <2>8. CASE ReleaseSpace
    BY <2>1, <2>8 DEF ReleaseSpace, PhaseInv, StateFits, InUse, Unsent
  <2>9. CASE Detach
    BY <2>1, <2>9 DEF Detach, PhaseInv, StateFits, InUse, Unsent
  <2> QED BY <1>2, <2>2, <2>3, <2>4, <2>5, <2>6, <2>7, <2>8, <2>9 DEF UserCall
<1>3. CASE UserStart
  <2>1. UNCHANGED <<hVars, upkts>>
    BY <1>3 DEF UserStart, DmaRegister, DmaSetupTransmit, DmaUnregister, Unload
  <2>2. CASE DmaRegister
    <3>1. /\ upc = "unloaded" /\ upc' = "registering" /\ EngineState' = "USER_ASSIGNED"
          /\ session' = session + 1 /\ UNCHANGED <<ulist, usent>>
      BY <2>2 DEF DmaRegister
    <3>2. session' # 0
      BY <3>1 DEF IInv, TypeOK
    <3> QED BY <2>1, <3>1, <3>2 DEF PhaseInv, StateFits, InUse, Unsent
  <2>3. CASE DmaSetupTransmit
    <3>1. upc = "running" /\ upc' = "send" /\ UNCHANGED <<EngineState, space, session>>
      BY <2>3 DEF DmaSetupTransmit
    <3> QED BY <2>1, <3>1 DEF PhaseInv, StateFits, InUse, Unsent
  <2>4. CASE DmaUnregister
    BY <2>1, <2>4 DEF DmaUnregister, PhaseInv, StateFits, InUse, Unsent
  <2>5. CASE Unload
    BY <2>1, <2>5 DEF Unload, PhaseInv, StateFits, InUse, Unsent
  <2> QED BY <1>3, <2>2, <2>3, <2>4, <2>5 DEF UserStart
<1>4. CASE Hardware
  BY <1>4 DEF Hardware, HwTransmit, HwReceive, HwUserWord, PhaseInv, StateFits, InUse, Unsent
<1>5. CASE UNCHANGED vars
  BY <1>5 DEF vars, PhaseInv, StateFits, InUse, Unsent
<1> QED BY <1>1, <1>2, <1>3, <1>4, <1>5 DEF Next

-----------------------------------------------------------------------------
(* What a handler that finds nothing, and one that refills, does; and what *)
(* descriptor_free does.                                                   *)

RefillDone(n) ==
    /\ RecvDone(ring, n)
    /\ n > 0 => IsRxChannel
    /\ memFault' => memFault \/ (ring.HwCnt + n > 0 /\ space # "live")

\* RecvDone looks at these fields only.
LEMMA RecvDoneFrom ==
    ASSUME NEW r, NEW q, NEW n, RecvDone(r, n), r.HwHead = q.HwHead, r.HwCnt = q.HwCnt,
           r.PostCnt = q.PostCnt, r.PostHead = q.PostHead, r.AllCnt = q.AllCnt,
           r.RunState = q.RunState, r.FreeCnt = q.FreeCnt
    PROVE  RecvDone(q, n)
BY DEF RecvDone

\* A transmit engine needs no buffers.
LEMMA NoneReceived ==
    ASSUME IInv, ring.PreCnt = 0, KeepsRest(ring, ring'), ring'.HwHead = ring.HwHead,
           ring'.HwCnt = ring.HwCnt, ring'.PostCnt = ring.PostCnt, UNCHANGED <<bd, regs, bufs>>
    PROVE  RecvDone(ring, 0)
<1>0. /\ ring.HwHead \in BdIndex /\ ring.HwCnt \in 0 .. N /\ bufs \in PoolType
  BY RingNow DEF IInv, TypeOK
<1>1. bufs' = [bufs EXCEPT !.FreePtr = Forward(@, 0), !.AllocNum = @ + 0]
      /\ bufs.AllocNum + 0 <= TotalNum
  <2>1. bufs.FreePtr + 0 = bufs.FreePtr /\ bufs.FreePtr \in 0 .. TotalNum - 1
        /\ bufs.AllocNum + 0 = bufs.AllocNum /\ bufs.AllocNum <= TotalNum
    BY <1>0 DEF PoolType, BufIndex
  <2>2. bufs.FreePtr % TotalNum = bufs.FreePtr
    BY <2>1, ModSmall
  <2>3. Forward(bufs.FreePtr, 0) = bufs.FreePtr
    BY <2>1, <2>2 DEF Forward
  <2> QED BY <1>0, <2>1, <2>3 DEF PoolType
<1>2. ring.HwCnt + 0 = ring.HwCnt /\ ~(0 > 0)
  BY <1>0
<1>3. \A k \in 0 .. 0 - 1 : FALSE
  OBVIOUS
<1> QED BY <1>1, <1>2, <1>3 DEF RecvDone, KeepsRest

LEMMA RefillEffect ==
    ASSUME IInv, ring.PreCnt = 0, NEW h \in Handlers, HandleNothing(h) \/ Refill(h)
    PROVE  \E n \in Nat : RefillDone(n)
<1> DEFINE r == Dma_BdRingFromHw(ring, bd, BdLimit)
<1>0. /\ ring \in RingType /\ Tiled(ring) /\ Spare(ring) /\ TypeOK /\ BdLimit \in Nat
      /\ ring.HwHead \in BdIndex /\ ring.HwCnt \in 0 .. N /\ ring.PostCnt \in 0 .. N
  BY RingNow, BdLimitAssumption DEF IInv
<1>1. CASE Refill(h)
  <2>1. CASE IsRxChannel
    <3>1. DmaSetupRecvBuffers(ring, bd)
      BY <1>1, <2>1 DEF Refill
    <3>2. memFault' = (memFault \/ (RecvCount(ring) > 0 /\ space # "live"))
      BY <1>1, <2>1 DEF Refill, Uses
    <3>3. RecvCount(ring) \in Nat /\ RecvDone(ring, RecvCount(ring))
      BY <1>0, <2>1, <3>1, RecvEffect
    <3> DEFINE n == RecvCount(ring)
    <3>4. n > 0 => ring.HwCnt + n > 0
      BY <1>0, <3>3
    <3>5. RefillDone(n)
      BY <2>1, <3>2, <3>3, <3>4 DEF RefillDone
    <3> HIDE DEF n
    <3> QED BY <3>3, <3>5 DEF n
  <2>2. CASE ~IsRxChannel
    <3>1. UNCHANGED <<ring, bd, regs, bufs, memFault>>
      BY <1>1, <2>2 DEF Refill
    <3>2. RecvDone(ring, 0)
      <4>1. KeepsRest(ring, ring')
        BY <3>1 DEF KeepsRest
      <4> QED BY <3>1, <4>1, NoneReceived
    <3> QED BY <3>1, <3>2 DEF RefillDone
  <2> QED BY <2>1, <2>2
<1>2. CASE HandleNothing(h)
  <2>1. FromHwCount(ring, bd, BdLimit) = 0
    BY <1>2 DEF HandleNothing
  <2>2. /\ r \in RingType /\ Tiled(r) /\ r.AllCnt = ring.AllCnt /\ r.FreeCnt = ring.FreeCnt
    BY <1>0, FromHwTiled
  <2>3. KeepsRest(ring, r) /\ r.PostCnt = ring.PostCnt + 0
    BY <1>0, <2>1, FromHwFields
  <2>4. r.HwHead = Dma_mRingSeekahead(ring.HwHead, 0) /\ r.HwCnt = ring.HwCnt - 0
    BY <1>0, <2>1, WorkGroup
  <2>5. ring.PostCnt + 0 = ring.PostCnt /\ ring.HwCnt - 0 = ring.HwCnt
        /\ Dma_mRingSeekahead(ring.HwHead, 0) = ring.HwHead
    BY <1>0 DEF BdIndex, Dma_mRingSeekahead
  <2>6. /\ IsRxChannel => DmaSetupRecvBuffers(r, bd)
        /\ ~IsRxChannel => ring' = r /\ UNCHANGED <<bd, regs, bufs>>
        /\ memFault' = (memFault \/ (ring.HwCnt + (IF IsRxChannel THEN RecvCount(r) ELSE 0) > 0
                                       /\ space # "live"))
    BY <1>2 DEF HandleNothing, Uses
  <2> HIDE DEF r
  <2>7. /\ r.HwHead = ring.HwHead /\ r.HwCnt = ring.HwCnt /\ r.PostCnt = ring.PostCnt
        /\ r.PostHead = ring.PostHead /\ r.RunState = ring.RunState /\ r.PreCnt = 0
    BY <2>3, <2>4, <2>5 DEF KeepsRest
  <2>8. CASE IsRxChannel
    <3>1. Spare(r)
      BY <1>0, <2>2, <2>7 DEF Spare
    <3>2. RecvCount(r) \in Nat /\ RecvDone(r, RecvCount(r))
      BY <1>0, <2>2, <2>6, <2>7, <2>8, <3>1, RecvEffect
    <3>3. RecvDone(ring, RecvCount(r))
      BY <2>2, <2>7, <3>2, RecvDoneFrom
    <3> QED BY <2>6, <2>8, <3>2, <3>3 DEF RefillDone
  <2>9. CASE ~IsRxChannel
    <3>1. ring' = r /\ UNCHANGED <<bd, regs, bufs>>
      BY <2>6, <2>9
    <3>2. RecvDone(ring, 0)
      <4>1. /\ KeepsRest(ring, ring') /\ ring'.HwHead = ring.HwHead
            /\ ring'.HwCnt = ring.HwCnt /\ ring'.PostCnt = ring.PostCnt
        BY <2>3, <2>7, <3>1 DEF KeepsRest
      <4> QED BY <3>1, <4>1, NoneReceived
    <3>3. memFault' = (memFault \/ (ring.HwCnt + 0 > 0 /\ space # "live"))
      BY <2>6, <2>9
    <3>4. ~(0 > 0)
      OBVIOUS
    <3>5. RefillDone(0)
      BY <3>2, <3>3, <3>4, Zenon DEF RefillDone
    <3> QED BY <3>5
  <2> QED BY <2>8, <2>9
<1> QED BY <1>1, <1>2

\* RecoverBds takes the whole work group.
RecoverDone ==
    /\ ring'.HwHead = Dma_mRingSeekahead(ring.HwHead, ring.HwCnt) /\ ring'.HwCnt = 0
    /\ ring'.PreCnt = ring.PreCnt /\ ring'.PostCnt = ring.HwCnt /\ ring'.PostHead = ring.HwHead
    /\ ring'.AllCnt = ring.AllCnt /\ ring'.RunState = ring.RunState
    /\ upkts' = Packets(ring.HwHead, ring.HwCnt)
    /\ ufree' = [n |-> ring.HwCnt, set |-> ring.HwHead]
    /\ upc' = IF ring.HwCnt > 0 THEN "put" ELSE "release"
    /\ memFault' = (memFault \/ (ring.HwCnt > 0 /\ space # "live"))
    /\ \A k \in 0 .. ring.HwCnt - 1 : HwBd(ring, bd', k).id = NULL
    /\ \A k \in ring.HwCnt .. N - 1 : HwBd(ring, bd', k) = HwBd(ring, bd, k)
    /\ \A i \in BdIndex : bd'[i].status = bd[i].status

LEMMA RecoverEffect ==
    ASSUME IInv, ring.PostCnt = 0, RecoverBds
    PROVE  RecoverDone
<1> DEFINE n == ForceFromHwCount(ring, BdLimit)
           q == Dma_BdRingForceFromHw(ring, BdLimit)
           h == ring.HwHead
           c == ring.HwCnt
<1>0. /\ ring \in RingType /\ Tiled(ring) /\ bd \in [BdIndex -> BdType] /\ BdLimit \in Nat
      /\ h \in BdIndex /\ c \in 0 .. N /\ c \in Int /\ ring.PostHead \in BdIndex
  BY RingNow, StateNow, BdLimitAssumption
<1>1. n \in 0 .. c
  BY <1>0, ForceFromHwCountBound
<1>2. q.HwCnt = c - n /\ q.HwHead = Dma_mRingSeekahead(h, n) /\ q.HwCnt = 0
  BY <1>0, WorkGroup, RecoversAll
<1>3. KeepsRest(ring, q) /\ q.PostCnt = ring.PostCnt + n
  BY <1>0, FromHwFields
<1>4. /\ ring' = q /\ bd' = ResetIds(bd, h, n) /\ upkts' = Packets(h, n)
      /\ ufree' = [n |-> n, set |-> h] /\ upc' = IF n > 0 THEN "put" ELSE "release"
      /\ memFault' = (memFault \/ (n > 0 /\ space # "live"))
  BY DEF RecoverBds, Uses
<1>5. ring.PostHead = h
  <2>1. Dma_mRingSeekahead(ring.PostHead, 0) = ring.PostHead
    BY <1>0 DEF BdIndex, Dma_mRingSeekahead
  <2> QED BY <1>0, <2>1 DEF Tiled
<1> HIDE DEF n, q, h, c
<1>6. n = c /\ ring.PostCnt + n = c
  BY <1>0, <1>1, <1>2
<1>7. ASSUME NEW k \in 0 .. N - 1
      PROVE  /\ k < c => HwBd(ring, bd', k).id = NULL
             /\ ~(k < c) => HwBd(ring, bd', k) = HwBd(ring, bd, k)
  <2>1. Dma_mRingSeekahead(h, k) \in BdIndex
    <3>1. k \in 0 .. N
      OBVIOUS
    <3> QED BY <1>0, <3>1, SeekInRing
  <2>2. Dma_mRingSeekahead(h, k) \in BdSet(h, c) <=> k < c
    BY <1>0, SetFromHead
  <2>3. bd[Dma_mRingSeekahead(h, k)] \in BdType
    BY <1>0, <2>1
  <2> QED BY <1>4, <1>6, <2>1, <2>2, <2>3 DEF ResetIds, HwBd, BdType, h
<1>8. \A k \in 0 .. c - 1 : HwBd(ring, bd', k).id = NULL
  <2>1. \A k \in 0 .. c - 1 : k \in 0 .. N - 1 /\ k < c
    BY <1>0
  <2> QED BY <1>7, <2>1
<1>9. \A k \in c .. N - 1 : HwBd(ring, bd', k) = HwBd(ring, bd, k)
  <2>1. \A k \in c .. N - 1 : k \in 0 .. N - 1 /\ ~(k < c)
    BY <1>0
  <2> QED BY <1>7, <2>1
<1>10. \A i \in BdIndex : bd'[i].status = bd[i].status
  BY <1>0, <1>4 DEF ResetIds, BdType
<1> QED BY <1>2, <1>3, <1>4, <1>5, <1>6, <1>8, <1>9, <1>10 DEF RecoverDone, KeepsRest, h, c

\* FreeRecovered frees the whole post-work group.
LEMMA FreeEffect ==
    ASSUME IInv, ring.PostCnt = ufree.n, ring.PostHead = ufree.set, FreeRecovered
    PROVE  /\ ring'.PostCnt = 0 /\ ring'.PreCnt = ring.PreCnt /\ ring'.AllCnt = ring.AllCnt
           /\ ring'.RunState = ring.RunState /\ ring'.HwHead = ring.HwHead
           /\ ring'.HwCnt = ring.HwCnt
           /\ memFault' = (memFault \/ (ufree.n > 0 /\ space # "live"))
           /\ \A i \in BdIndex : bd'[i].id = bd[i].id
<1>1. ring \in RingType /\ Tiled(ring) /\ bd \in [BdIndex -> BdType]
  BY InvRing DEF IInv, TypeOK
<1>2. \A i \in BdIndex : bd'[i].id = bd[i].id
  <2>1. bd' = FreeBds(ring, bd, ufree.n, ufree.set)
    BY DEF FreeRecovered
  <2>2. \A i \in BdIndex : bd[i] \in BdType
    BY <1>1
  <2> QED BY <2>1, <2>2 DEF FreeBds, BdType
<1> QED BY <1>1, <1>2, FreeFields DEF FreeRecovered, Uses

-----------------------------------------------------------------------------
(* The list of DmaSetupTransmit consists of whole packets, and what has    *)
(* been sent of it too.                                                    *)

PacketsFollow(L, len) ==
    /\ L[1].SOP /\ L[len].EOP
    /\ \A j \in 1 .. len - 1 : L[j].EOP <=> L[j + 1].SOP

WholeList ==
    Unsent => /\ Len(ulist) > 0 /\ PacketsFollow(ulist, Len(ulist))
              /\ usent < Len(ulist) => ulist[usent + 1].SOP
              /\ upc = "send" => usent = 0

ListInv == IF IsRxChannel THEN ~Unsent ELSE WholeList

LEMMA ListWhole ==
    ASSUME TypeOK, DmaSetupTransmit
    PROVE  /\ Len(ulist') \in Nat \ {0} /\ PacketsFollow(ulist', Len(ulist'))
           /\ ListFrom(bufs, ulist') /\ bufs' = AllocBuf(bufs, Len(ulist'))
<1>1. PICK n \in 1 .. MaxPkts, f \in Frags :
        LET avail == (TotalNum - bufs.AllocNum) \div f
            k == IF n <= avail THEN n ELSE avail
        IN  /\ k > 0
            /\ ulist' = [j \in 1 .. k*f |->
                            [buf |-> AllocBufs(bufs, k*f)[j],
                             SOP |-> (j-1) % f = 0, EOP |-> j % f = 0,
                             seq |-> (TxSeqNo + (j-1) \div f) % SeqMod]]
            /\ bufs' = AllocBuf(bufs, k*f)
            /\ TxSeqNo' = (TxSeqNo + k) % SeqMod
  BY DEF DmaSetupTransmit
<1> DEFINE avail == (TotalNum - bufs.AllocNum) \div f
           k == IF n <= avail THEN n ELSE avail
           c == k * f
           B == AllocBufs(bufs, c)
           T == TxSeqNo
<1>2. f \in Nat \ {0} /\ f \in Int /\ f > 0 /\ TotalNum - bufs.AllocNum \in Nat
  BY FragsAssumption DEF TypeOK, PoolType
<1>3. avail \in Nat
  BY <1>2
<1>4. k \in Nat \ {0} /\ k \in Int /\ k \in 0 .. avail
  <2> HIDE DEF avail
  <2> QED BY <1>1, <1>3, MaxPktsAssumption DEF avail
<1>5. bufs' = AllocBuf(bufs, c)
  BY <1>1
<1>6. ulist' = [j \in 1 .. c |-> [buf |-> B[j], SOP |-> (j-1) % f = 0, EOP |-> j % f = 0,
                                  seq |-> (T + (j-1) \div f) % SeqMod]]
  BY <1>1
<1> HIDE DEF k, B, T
<1>7. c \in Nat \ {0} /\ c \in 0 .. TotalNum - bufs.AllocNum
  <2>1. c \in Nat \ {0}
    BY <1>2, <1>4
  <2>2. c \in 0 .. TotalNum - bufs.AllocNum
    BY <1>2, <1>4, WholePackets
  <2> QED BY <2>1, <2>2
<1>9. c % f = 0 /\ 0 % f = 0
  <2>1. c = f * k + 0 /\ 0 \in 0 .. f-1
    BY <1>2, <1>4
  <2>2. (f * k + 0) % f = 0
    BY <1>2, <1>4, <2>1, ModUnique
  <2>3. 0 % f = 0
    BY <1>2, <2>1, ModSmall
  <2> QED BY <2>1, <2>2, <2>3
<1> HIDE DEF c
<1>10. Len(ulist') = c
  <2>1. DOMAIN ulist' = 1 .. c
    BY <1>6
  <2>2. ulist' \in Seq(SendType)
    BY SetupTransmitType
  <2>3. Len(ulist') \in Nat /\ DOMAIN ulist' = 1 .. Len(ulist')
    BY <2>2
  <2> QED BY <1>7, <2>1, <2>3
<1>11. ASSUME NEW j \in 1 .. c
       PROVE  /\ ulist'[j].SOP = ((j-1) % f = 0) /\ ulist'[j].EOP = (j % f = 0)
              /\ ulist'[j].buf = B[j]
  BY <1>6
<1>12. PacketsFollow(ulist', c)
  <2>1. ulist'[1].SOP
    <3>1. 1 \in 1 .. c /\ 1 - 1 = 0
      BY <1>7
    <3> QED BY <1>9, <1>11, <3>1
  <2>2. ulist'[c].EOP
    <3>1. c \in 1 .. c
      BY <1>7
    <3> QED BY <1>9, <1>11, <3>1
  <2>3. ASSUME NEW j \in 1 .. c - 1 PROVE ulist'[j].EOP <=> ulist'[j + 1].SOP
    <3>1. j \in 1 .. c /\ j + 1 \in 1 .. c /\ (j + 1) - 1 = j
      BY <1>7
    <3>2. ulist'[j].EOP = (j % f = 0)
      BY <1>11, <3>1
    <3>3. ulist'[j + 1].SOP = (((j + 1) - 1) % f = 0)
      BY <1>11, <3>1
    <3> QED BY <3>1, <3>2, <3>3
  <2> QED BY <2>1, <2>2, <2>3 DEF PacketsFollow
<1>13. ListFrom(bufs, ulist')
  <2>1. c <= TotalNum - bufs.AllocNum
    BY <1>7
  <2> QED BY <1>7, <1>10, <1>11, <2>1 DEF ListFrom, B
<1> QED BY <1>5, <1>7, <1>10, <1>12, <1>13

-----------------------------------------------------------------------------
(* Between two actions there are no pre-work BDs, and post-work BDs only   *)
(* while descriptor_free has let go of DmaLock; the hardware has work only *)
(* while the engine is in use or about to be reset.                        *)

GroupInv ==
    /\ ring.PreCnt = 0
    /\ IF upc \in {"put", "free"} THEN ring.PostCnt = ufree.n /\ ring.PostHead = ufree.set
       ELSE ring.PostCnt = 0
    /\ upc \in {"running", "send", "trim", "reset"} \/ ring.HwCnt = 0

SetInv == PhaseInv /\ GroupInv /\ ListInv

\* A receive engine that is unregistered may be refilled afterwards.
NoLateRefill == ~IsRxChannel \/ ~MayUnregister

LEMMA SetInit == Init => SetInv
<1> SUFFICES ASSUME Init PROVE SetInv
  OBVIOUS
<1>1. GroupInv /\ ListInv
  BY DEF Init, GroupInv, ListInv, WholeList, Unsent, ClearedRing
<1> QED BY <1>1, PhaseInit DEF SetInv

\* The hardware has work while the handler works.
LEMMA CompletedPhase ==
    ASSUME IInv, GroupInv, NEW h \in Handlers, HandleCompleted(h)
    PROVE  ring.PostCnt = 0 /\ upc \in {"running", "send", "trim", "reset"} /\ ring.HwCnt > 0
<1>1. FromHwCount(ring, bd, BdLimit) > 0
  BY DEF HandleCompleted
<1>2. FromHwCount(ring, bd, BdLimit) \in 0 .. ring.HwCnt /\ ring.HwCnt \in 0 .. N
  BY InvRing, FromHwCountBound, BdLimitAssumption, RingFields
<1> HIDE DEF FromHwCount
<1>3. ring.HwCnt > 0
  BY <1>1, <1>2
<1> QED BY <1>3 DEF GroupInv

LEMMA HandlerSet ==
    ASSUME NoLateRefill, IInv, SetInv, NEW h \in Handlers, Handler(h)
    PROVE  GroupInv' /\ ListInv'
<1> USE DEF ringVars, userVars
<1>1. UNCHANGED <<upc, ulist, usent, ufree>>
  BY DEF Handler, CheckEngine, HandleNothing, HandleCompleted, PutPkts, Refill
<1>2. ListInv'
  BY <1>1 DEF SetInv, ListInv, WholeList, Unsent, PacketsFollow
<1>3. CASE CheckEngine(h) \/ PutPkts(h)
  BY <1>1, <1>2, <1>3 DEF CheckEngine, PutPkts, SetInv, GroupInv
<1>4. CASE HandleNothing(h) \/ Refill(h)
  <2>1. PICK n \in Nat : RefillDone(n)
    BY <1>4, RefillEffect DEF SetInv, GroupInv
  <2>2. /\ ring'.HwCnt = ring.HwCnt + n /\ ring'.PreCnt = 0 /\ ring'.PostCnt = ring.PostCnt
        /\ ring'.PostHead = ring.PostHead /\ (n > 0 => HandleSet /\ IsRxChannel)
    BY <2>1 DEF RefillDone, RecvDone
  <2>3. n > 0 => upc \in {"running", "send", "trim"}
    BY <2>2 DEF SetInv, PhaseInv, InUse, HandleSet, NoLateRefill
  <2>4. CASE n > 0
    BY <1>1, <1>2, <2>2, <2>3, <2>4 DEF SetInv, GroupInv
  <2>5. CASE n = 0
    <3>1. ring.HwCnt \in Int
      BY RingNow
    <3>2. ring'.HwCnt = ring.HwCnt
      BY <2>2, <2>5, <3>1
    <3> QED BY <1>1, <1>2, <2>2, <3>2 DEF SetInv, GroupInv
  <2> QED BY <2>4, <2>5
<1>5. CASE HandleCompleted(h)
  <2>1. ring.PostCnt = 0 /\ upc \in {"running", "send", "trim", "reset"}
    BY <1>5, CompletedPhase DEF SetInv
  <2>2. PICK n \in 1 .. ring.HwCnt : CompletedDone(h, n)
    BY <1>5, <2>1, CompletedEffect
  <2>3. ring'.PreCnt = ring.PreCnt /\ ring'.PostCnt = 0
    BY <2>2 DEF CompletedDone
  <2> QED BY <1>1, <1>2, <2>1, <2>3 DEF SetInv, GroupInv
<1> QED BY <1>3, <1>4, <1>5 DEF Handler

LEMMA SendSet ==
    ASSUME IInv, SetInv, DmaSendPkt
    PROVE  ~IsRxChannel /\ \E w \in 0 .. Len(ulist) : SendDone(w)
<1>1. upc = "send" /\ Unsent
  BY DEF DmaSendPkt, Unsent
<1>2. ~IsRxChannel /\ Len(ulist) > 0 /\ ulist[1].SOP
  BY <1>1 DEF SetInv, ListInv, WholeList, PacketsFollow
<1> QED BY <1>2, SendEffect DEF SetInv, GroupInv

LEMMA UserSet ==
    ASSUME IInv, SetInv, UserCall \/ UserStart
    PROVE  GroupInv' /\ ListInv'
<1> USE DEF ringVars, hVars
<1>0. SetInv /\ PhaseInv /\ GroupInv /\ ListInv /\ ring.HwCnt \in 0 .. N
      /\ Len(ulist) \in Nat /\ usent \in 0 .. Len(ulist)
  BY RingNow DEF SetInv, IInv, TypeOK
<1>1. CASE StoreHandle
  BY <1>0, <1>1 DEF StoreHandle, GroupInv, ListInv, WholeList, Unsent
<1>2. CASE DmaSendPkt
  <2>1. PICK w \in 0 .. Len(ulist) : SendDone(w)
    BY <1>2, SendSet
  <2>2. ~IsRxChannel
    BY <1>2, SendSet
  <2>3. upc = "send" /\ upc' = "trim" /\ UNCHANGED <<ulist, ufree>>
    BY <1>2 DEF DmaSendPkt
  <2>4. /\ ring'.PreCnt = 0 /\ ring'.PostCnt = ring.PostCnt /\ usent' = w
        /\ w > 0 => ulist[w].EOP
    BY <2>1 DEF SendDone
  <2>5. GroupInv'
    BY <1>0, <2>3, <2>4 DEF GroupInv
  <2>6. Len(ulist) > 0 /\ PacketsFollow(ulist, Len(ulist))
    BY <1>0, <2>2, <2>3 DEF ListInv, WholeList, Unsent
  <2>7. w < Len(ulist) => ulist[w + 1].SOP
    <3>1. CASE w = 0
      BY <2>6, <3>1 DEF PacketsFollow
    <3>2. CASE w > 0 /\ w < Len(ulist)
      <4>1. w \in 1 .. Len(ulist) - 1
        BY <1>0, <3>2
      <4> QED BY <2>4, <2>6, <3>2, <4>1 DEF PacketsFollow
    <3> QED BY <1>0, <3>1, <3>2
  <2>8. ListInv'
    BY <2>2, <2>3, <2>4, <2>6, <2>7 DEF ListInv, WholeList, PacketsFollow
  <2> QED BY <2>5, <2>8
<1>3. CASE TakeBack
  BY <1>0, <1>3 DEF TakeBack, GroupInv, ListInv, WholeList, Unsent
<1>4. CASE RecoverBds
  <2>1. upc = "reset" /\ ring.PostCnt = 0 /\ ring.PreCnt = 0
    BY <1>0, <1>4 DEF RecoverBds, GroupInv
  <2>2. /\ ring'.HwCnt = 0 /\ ring'.PreCnt = 0 /\ ring'.PostCnt = ring.HwCnt
        /\ ring'.PostHead = ring.HwHead /\ ufree' = [n |-> ring.HwCnt, set |-> ring.HwHead]
        /\ upc' = IF ring.HwCnt > 0 THEN "put" ELSE "release"
    BY <1>4, <2>1, RecoverEffect DEF RecoverDone
  <2>3. ufree'.n = ring.HwCnt /\ ufree'.set = ring.HwHead
    BY <2>2
  <2>4. GroupInv'
    <3>1. CASE ring.HwCnt > 0
      BY <2>2, <2>3, <3>1 DEF GroupInv
    <3>2. CASE ring.HwCnt = 0
      BY <2>2, <2>3, <3>2 DEF GroupInv
    <3> QED BY <1>0, <3>1, <3>2
  <2>5. ListInv'
    BY <2>2 DEF ListInv, WholeList, Unsent
  <2> QED BY <2>4, <2>5
<1>5. CASE PutUnused
  BY <1>0, <1>5 DEF PutUnused, GroupInv, ListInv, WholeList, Unsent
<1>6. CASE FreeRecovered
  <2>1. upc = "free" /\ upc' = "release"
    BY <1>6 DEF FreeRecovered
  <2>2. ring'.PostCnt = 0 /\ ring'.PreCnt = ring.PreCnt /\ ring'.HwCnt = ring.HwCnt
    BY <1>0, <1>6, <2>1, FreeEffect DEF GroupInv
  <2> QED BY <1>0, <2>1, <2>2 DEF GroupInv, ListInv, WholeList, Unsent
<1>7. CASE ReleaseSpace
  BY <1>0, <1>7 DEF ReleaseSpace, GroupInv, ListInv, WholeList, Unsent
<1>8. CASE Detach
  BY <1>0, <1>8 DEF Detach, GroupInv, ListInv, WholeList, Unsent
<1>9. CASE DmaRegister
  <2>1. upc = "unloaded" /\ upc' = "registering"
    BY <1>9 DEF DmaRegister
  <2>2. ring' \in {Dma_BdRingStart(Dma_BdRingCreate), Dma_BdRingStart(ring)}
    BY <1>9 DEF DmaRegister
  <2>3. ring.PreCnt = 0 /\ ring.PostCnt = 0 /\ ring.HwCnt = 0 /\ ring \in RingType
    BY <1>0, <2>1, InvRing DEF GroupInv
  <2>4. ring'.PreCnt = 0 /\ ring'.PostCnt = 0 /\ ring'.HwCnt = 0
    <3>1. Dma_BdRingCreate \in RingType
      BY ClearedRingTiled
    <3>2. \A r \in RingType : /\ Dma_BdRingStart(r).PreCnt = r.PreCnt
                              /\ Dma_BdRingStart(r).PostCnt = r.PostCnt
                              /\ Dma_BdRingStart(r).HwCnt = r.HwCnt
      BY DEF Dma_BdRingStart, RingType
    <3>3. Dma_BdRingCreate.PreCnt = 0 /\ Dma_BdRingCreate.PostCnt = 0 /\ Dma_BdRingCreate.HwCnt = 0
      BY DEF Dma_BdRingCreate, ClearedRing
    <3> QED BY <2>2, <2>3, <3>1, <3>2, <3>3
  <2> QED BY <2>1, <2>4 DEF GroupInv, ListInv, WholeList, Unsent
<1>10. CASE DmaSetupTransmit
  <2>1. /\ upc = "running" /\ upc' = "send" /\ usent' = 0 /\ ring' = ring /\ ~IsRxChannel
    BY <1>10 DEF DmaSetupTransmit
  <2>2. Len(ulist') \in Nat \ {0} /\ PacketsFollow(ulist', Len(ulist'))
    BY <1>10, ListWhole DEF IInv
  <2>3. ListInv'
    <3>1. (usent + 1)' = 1
      BY <2>1
    <3>2. (Len(ulist) > 0)' /\ PacketsFollow(ulist, Len(ulist))'
      BY <2>2 DEF PacketsFollow
    <3> QED BY <2>1, <2>2, <3>1, <3>2 DEF ListInv, WholeList, PacketsFollow
  <2> QED BY <1>0, <2>1, <2>3 DEF GroupInv
<1>11. CASE DmaUnregister
  <2>1. upc = "running" /\ upc' = "reset" /\ ring' = [ring EXCEPT !.RunState = "STOPPED"]
    BY <1>11 DEF DmaUnregister
  <2>2. ring'.PreCnt = ring.PreCnt /\ ring'.PostCnt = ring.PostCnt
    BY <2>1, InvRing DEF RingType
  <2> QED BY <1>0, <2>1, <2>2 DEF GroupInv, ListInv, WholeList, Unsent
<1>12. CASE Unload
  BY <1>0, <1>12 DEF Unload, GroupInv, ListInv, WholeList, Unsent
<1> QED BY <1>1, <1>2, <1>3, <1>4, <1>5, <1>6, <1>7, <1>8, <1>9, <1>10, <1>11, <1>12
        DEF UserCall, UserStart

LEMMA SetStep ==
    ASSUME NoLateRefill, IInv, SetInv, [Next]_vars
    PROVE  SetInv'
<1> USE DEF userVars, hVars, ringVars
<1>1. PhaseInv'
  BY PhaseStep DEF SetInv
<1>2. ASSUME NEW h \in Handlers, Handler(h) PROVE GroupInv' /\ ListInv'
  BY <1>2, HandlerSet
<1>3. CASE Hardware \/ UNCHANGED vars
  <2>1. UNCHANGED <<ring, upc, ufree, ulist, usent>>
    BY <1>3 DEF Hardware, HwTransmit, HwReceive, HwUserWord, vars
  <2> QED BY <1>1, <2>1 DEF SetInv, GroupInv, ListInv, WholeList, Unsent, PacketsFollow
<1> QED BY <1>1, <1>2, <1>3, UserSet DEF Next, SetInv

-----------------------------------------------------------------------------
(* What a completion status may say.  The driver only clears it.           *)

MayReport ==
    {"COMP"} \cup HwErrors
        \cup (IF IsRxChannel THEN {"EOP", "USER_HIGH_ZERO", "USER_LOW_ZERO"} ELSE {})

StatusInv == \A i \in BdIndex : bd[i].status \subseteq MayReport

Clears(m, q) == \A i \in BdIndex : q[i].status \in {m[i].status, {}}

LEMMA StatusCleared ==
    ASSUME NEW m \in [BdIndex -> BdType], NEW r, NEW n, NEW p
    PROVE  /\ Clears(m, ToHwBds(r, m, n, p)) /\ Clears(m, ResetIds(m, p, n))
           /\ Clears(m, FreeBds(r, m, n, p))
<1>1. \A i \in BdIndex : m[i] \in BdType
  OBVIOUS
<1>2. ASSUME NEW b \in BdType
      PROVE  /\ [b EXCEPT !.status = {}].status = {} /\ [b EXCEPT !.id = NULL].status = b.status
             /\ [b EXCEPT !.status = {}, !.SOP = FALSE, !.EOP = FALSE, !.len = 0].status = {}
  BY DEF BdType
<1>3. Clears(m, ToHwBds(r, m, n, p))
  BY <1>1, <1>2 DEF ToHwBds, Clears
<1>4. Clears(m, ResetIds(m, p, n))
  BY <1>1, <1>2 DEF ResetIds, Clears
<1>5. Clears(m, FreeBds(r, m, n, p))
  BY <1>1, <1>2 DEF FreeBds, Clears
<1> QED BY <1>3, <1>4, <1>5

LEMMA HandlerClears ==
    ASSUME IInv, NEW h \in Handlers, Handler(h)
    PROVE  Clears(bd, bd')
<1> USE DEF ringVars
<1>0. bd \in [BdIndex -> BdType]
  BY DEF IInv, TypeOK
<1>1. CASE CheckEngine(h) \/ PutPkts(h)
  BY <1>1 DEF CheckEngine, PutPkts, Clears
<1>2. ASSUME NEW r, DmaSetupRecvBuffers(r, bd) PROVE Clears(bd, bd')
  <2> DEFINE n == RecvCount(r)
             a == Dma_BdRingAlloc(r, n)
             f == RecvFill(r, bd, n)
  <2>1. bd' = ToHwBds(a, f, n, r.FreeHead)
    BY <1>2 DEF DmaSetupRecvBuffers
  <2>2. ASSUME NEW i \in BdIndex
        PROVE  f[i].status = bd[i].status /\ [f[i] EXCEPT !.status = {}].status = {}
    <3>1. bd[i] \in BdType
      BY <1>0
    <3>2. \A x : LET b == [bd[i] EXCEPT !.SOP = FALSE, !.EOP = FALSE, !.len = 1, !.usr = {},
                                        !.id = x]
                 IN  b.status = bd[i].status /\ [b EXCEPT !.status = {}].status = {}
      BY <3>1 DEF BdType
    <3>3. [bd[i] EXCEPT !.status = {}].status = {}
      BY <3>1 DEF BdType
    <3>4. \/ f[i] = bd[i]
          \/ \E x : f[i] = [bd[i] EXCEPT !.SOP = FALSE, !.EOP = FALSE, !.len = 1, !.usr = {},
                                         !.id = x]
      BY DEF RecvFill
    <3> HIDE DEF f
    <3> QED BY <3>1, <3>2, <3>3, <3>4
  <2> HIDE DEF n, a, f
  <2>3. ASSUME NEW i \in BdIndex
        PROVE  bd'[i] \in {f[i], [f[i] EXCEPT !.status = {}]}
    BY <2>1 DEF ToHwBds
  <2> QED BY <2>2, <2>3 DEF Clears
<1>3. CASE HandleNothing(h) \/ Refill(h)
  BY <1>2, <1>3 DEF HandleNothing, Refill, Clears
<1>4. CASE HandleCompleted(h)
  <2> DEFINE n == FromHwCount(ring, bd, BdLimit)
             r == Dma_BdRingFromHw(ring, bd, BdLimit)
             p == ring.HwHead
             m == ResetIds(bd, p, n)
  <2>1. bd' = FreeBds(r, m, n, p)
    BY <1>4 DEF HandleCompleted
  <2>2. Clears(bd, m) /\ m \in [BdIndex -> BdType]
    BY <1>0, StatusCleared, MemoryType
  <2> HIDE DEF n, r, p, m
  <2>3. Clears(m, bd')
    BY <2>1, <2>2, StatusCleared
  <2> QED BY <2>2, <2>3 DEF Clears
<1> QED BY <1>1, <1>3, <1>4 DEF Handler

LEMMA UserClears ==
    ASSUME IInv, UserCall \/ UserStart
    PROVE  Clears(bd, bd')
<1> USE DEF ringVars
<1>0. bd \in [BdIndex -> BdType] /\ TypeOK
  BY DEF IInv, TypeOK
<1>1. CASE DmaSendPkt
  <2> DEFINE n == SendCount
             f == SendFill(n)
  <2>1. n \in 0 .. Len(ulist) /\ Len(ulist) \in Nat
    <3>1. Len(ulist) \in Nat /\ ring.FreeCnt \in 0 .. N
      BY <1>0, InvRing, RingFields DEF TypeOK
    <3> QED BY <3>1 DEF SendCount
  <2>2. f \in [BdIndex -> BdType]
    BY <1>0, <2>1, SendFillType
  <2>3. \A i \in BdIndex : f[i].status = bd[i].status
    <3>1. ASSUME NEW i \in BdIndex PROVE f[i].status = bd[i].status
      <4> DEFINE u == ulist[Offset(ring.FreeHead, i) + 1]
      <4>1. f[i] = IF Offset(ring.FreeHead, i) < n
                   THEN [bd[i] EXCEPT !.SOP = u.SOP, !.EOP = u.EOP, !.len = 1,
                                      !.seq = u.seq, !.id = u.buf]
                   ELSE bd[i]
        BY DEF SendFill
      <4>2. bd[i] \in BdType
        BY <1>0
      <4> HIDE DEF f, n, u
      <4> QED BY <4>1, <4>2 DEF BdType
    <3> QED BY <3>1
  <2>4. \/ bd' = bd
        \/ \E a, w, p, from, back : bd' = ResetIds(ToHwBds(a, f, w, p), from, back)
    BY <1>1 DEF DmaSendPkt
  <2> HIDE DEF n, f
  <2>5. ASSUME NEW a, NEW w, NEW p, NEW from, NEW back,
               bd' = ResetIds(ToHwBds(a, f, w, p), from, back)
        PROVE  Clears(bd, bd')
    <3> DEFINE m == ToHwBds(a, f, w, p)
    <3>1. Clears(f, m) /\ m \in [BdIndex -> BdType]
      BY <2>2, StatusCleared, MemoryType
    <3>2. bd' = ResetIds(m, from, back)
      BY <2>5
    <3> HIDE DEF m
    <3>3. Clears(m, bd')
      BY <3>1, <3>2, StatusCleared
    <3> QED BY <2>3, <3>1, <3>3 DEF Clears
  <2> QED BY <2>4, <2>5 DEF Clears
<1>2. CASE RecoverBds
  <2>1. \E p, n : bd' = ResetIds(bd, p, n)
    BY <1>2 DEF RecoverBds
  <2> QED BY <1>0, <2>1, StatusCleared
<1>3. CASE FreeRecovered
  <2>1. bd' = FreeBds(ring, bd, ufree.n, ufree.set)
    BY <1>3 DEF FreeRecovered
  <2> QED BY <1>0, <2>1, StatusCleared
<1>4. CASE DmaRegister
  <2>1. bd' = bd \/ bd' = [i \in BdIndex |-> ClearedBd]
    BY <1>4 DEF DmaRegister
  <2> QED BY <2>1 DEF Clears, ClearedBd
<1>5. CASE \/ StoreHandle \/ TakeBack \/ PutUnused \/ ReleaseSpace \/ Detach
           \/ DmaSetupTransmit \/ DmaUnregister \/ Unload
  <2>1. bd' = bd
    BY <1>5 DEF StoreHandle, TakeBack, PutUnused, ReleaseSpace, Detach, DmaSetupTransmit,
                DmaUnregister, Unload
  <2> QED BY <2>1 DEF Clears
<1> QED BY <1>1, <1>2, <1>3, <1>4, <1>5 DEF UserCall, UserStart

\* What the hardware does to the BD at NEXT_BD.
HwWrites(st) ==
    /\ st \subseteq MayReport /\ "COMP" \in st
    /\ bd' = [bd EXCEPT ![regs.NEXT_BD].status = st]
    /\ regs' = [regs EXCEPT !.NEXT_BD = Dma_mBdRingNext(@)]

LEMMA HardwareWrites ==
    ASSUME HwTransmit \/ HwReceive
    PROVE  \E st : HwWrites(st)
<1>1. CASE HwTransmit
  <2>1. ~IsRxChannel
    BY <1>1 DEF HwTransmit
  <2>2. PICK errs \in SUBSET HwErrors :
          bd' = [bd EXCEPT ![regs.NEXT_BD].status = {"COMP"} \cup errs]
    BY <1>1 DEF HwTransmit
  <2> DEFINE st == {"COMP"} \cup errs
  <2>3. st \subseteq MayReport /\ "COMP" \in st
    BY <2>2 DEF MayReport
  <2>4. bd' = [bd EXCEPT ![regs.NEXT_BD].status = st]
    BY <2>2
  <2> HIDE DEF st
  <2> QED BY <1>1, <2>3, <2>4 DEF HwTransmit, HwWrites
<1>2. CASE HwReceive
  <2>1. IsRxChannel
    BY <1>2 DEF HwReceive
  <2>2. PICK errs \in SUBSET HwErrors, eop \in BOOLEAN,
             zero \in SUBSET {"USER_HIGH_ZERO", "USER_LOW_ZERO"} :
          bd' = [bd EXCEPT ![regs.NEXT_BD].status =
                    {"COMP"} \cup errs \cup zero \cup (IF eop THEN {"EOP"} ELSE {})]
    BY <1>2 DEF HwReceive
  <2> DEFINE st == {"COMP"} \cup errs \cup zero \cup (IF eop THEN {"EOP"} ELSE {})
  <2>3. st \subseteq MayReport /\ "COMP" \in st
    BY <2>1, <2>2 DEF MayReport
  <2>4. bd' = [bd EXCEPT ![regs.NEXT_BD].status = st]
    BY <2>2
  <2> HIDE DEF st
  <2> QED BY <1>2, <2>3, <2>4 DEF HwReceive, HwWrites
<1> QED BY <1>1, <1>2

\* A user word changes no status.
LEMMA UserWordKeeps ==
    ASSUME IInv, NEW i \in BdIndex, HwUserWord(i)
    PROVE  \A j \in BdIndex : /\ bd'[j].status = bd[j].status /\ bd'[j].id = bd[j].id
                              /\ bd'[j].SOP = bd[j].SOP /\ bd'[j].EOP = bd[j].EOP
<1>0. bd \in [BdIndex -> BdType]
  BY DEF IInv, TypeOK
<1>1. PICK x \in {"HIGH", "LOW"} : bd' = [bd EXCEPT ![i].usr = @ \cup {x}]
  BY DEF HwUserWord
<1> QED BY <1>0, <1>1 DEF BdType

LEMMA StatusStep ==
    ASSUME IInv, StatusInv, [Next]_vars
    PROVE  StatusInv'
<1>0. bd \in [BdIndex -> BdType] /\ regs.NEXT_BD \in BdIndex
  BY DEF IInv, TypeOK, RegsType
<1>1. ASSUME Clears(bd, bd') PROVE StatusInv'
  BY <1>1 DEF StatusInv, Clears, MayReport
<1>2. CASE \E h \in Handlers : Handler(h)
  BY <1>1, <1>2, HandlerClears
<1>3. CASE UserCall \/ UserStart
  BY <1>1, <1>3, UserClears
<1>4. CASE HwTransmit \/ HwReceive
  <2>1. PICK st : HwWrites(st)
    BY <1>4, HardwareWrites
  <2>2. st \subseteq MayReport /\ bd' = [bd EXCEPT ![regs.NEXT_BD].status = st]
    BY <2>1 DEF HwWrites
  <2>3. \A i \in BdIndex : bd'[i].status = IF i = regs.NEXT_BD THEN st ELSE bd[i].status
    BY <1>0, <2>2 DEF BdType
  <2> QED BY <2>2, <2>3 DEF StatusInv, MayReport
<1>5. ASSUME NEW i \in BdIndex, HwUserWord(i) PROVE StatusInv'
  BY <1>5, UserWordKeeps DEF StatusInv, MayReport
<1>6. CASE UNCHANGED vars
  BY <1>6 DEF vars, ringVars, StatusInv, MayReport
<1> QED BY <1>2, <1>3, <1>4, <1>5, <1>6 DEF Next, Hardware

-----------------------------------------------------------------------------
(* The user words of a received packet.                                    *)

UserInv == StatusInv /\ UserInfoArrived

\* The j-th packet made of n BDs from the head of the work group.
LEMMA PacketOf ==
    ASSUME NEW n \in Nat, NEW j \in 1 .. n
    PROVE  LET p == Packets(ring.HwHead, n)[j]
               b == HwBd(ring, bd, j - 1)
           IN  p.buf = b.id /\ p.flags = b.status /\ p.usr = b.usr /\ p.SOP = b.SOP /\ p.EOP = b.EOP
BY DEF Packets, HwBd

LEMMA PacketsLength ==
    ASSUME NEW p, NEW n \in Nat
    PROVE  Len(Packets(p, n)) = n /\ DOMAIN Packets(p, n) = 1 .. n
BY DEF Packets

\* Only the packets of the handler that collects them change.
LEMMA HandlerPackets ==
    ASSUME IInv, NEW h \in Handlers, Handler(h)
    PROVE  \/ UNCHANGED hpkts
           \/ PutPkts(h)
           \/ /\ HandleCompleted(h)
              /\ \E X \in {<<>>, Packets(ring.HwHead, FromHwCount(ring, bd, BdLimit))} :
                    hpkts' = [hpkts EXCEPT ![h] = X]
BY DEF Handler, CheckEngine, HandleNothing, HandleCompleted, Refill

LEMMA OthersKeepPackets ==
    ASSUME [Next]_vars, ~(\E h \in Handlers : Handler(h))
    PROVE  UNCHANGED hVars
<1> USE DEF userVars, ringVars
<1>1. CASE UserCall
  BY <1>1 DEF UserCall, StoreHandle, DmaSendPkt, TakeBack, RecoverBds, PutUnused,
              FreeRecovered, ReleaseSpace, Detach
<1>2. CASE UserStart
  BY <1>2 DEF UserStart, DmaRegister, DmaSetupTransmit, DmaUnregister, Unload
<1>3. CASE Hardware
  BY <1>3 DEF Hardware, HwTransmit, HwReceive, HwUserWord
<1>4. CASE UNCHANGED vars
  BY <1>4 DEF vars
<1> QED BY <1>1, <1>2, <1>3, <1>4 DEF Next

Arrived(L) ==
    \A j \in DOMAIN L :
        "EOP" \in L[j].flags =>
            /\ "USER_HIGH_ZERO" \in L[j].flags \/ "HIGH" \in L[j].usr
            /\ "USER_LOW_ZERO" \in L[j].flags \/ "LOW" \in L[j].usr

LEMMA CollectedArrived ==
    ASSUME IInv, StatusInv
    PROVE  Arrived(Packets(ring.HwHead, FromHwCount(ring, bd, BdLimit)))
<1> DEFINE n == FromHwCount(ring, bd, BdLimit)
           P == Packets(ring.HwHead, n)
<1>0. ring \in RingType /\ Tiled(ring) /\ BdLimit \in Nat /\ ring.HwCnt \in 0 .. N
      /\ ring.HwHead \in BdIndex
  BY RingNow, BdLimitAssumption
<1>1. n \in Nat /\ n <= N
  <2>1. n \in 0 .. ring.HwCnt
    BY <1>0, FromHwCountBound
  <2> HIDE DEF n
  <2> QED BY <1>0, <2>1
<1>2. \A k \in 0 .. n - 1 : BdDone(HwBd(ring, bd, k))
  BY <1>0, DoneAndWhole
<1> HIDE DEF n, P
<1>3. ASSUME NEW j \in 1 .. n, "EOP" \in P[j].flags
      PROVE  /\ "USER_HIGH_ZERO" \in P[j].flags \/ "HIGH" \in P[j].usr
             /\ "USER_LOW_ZERO" \in P[j].flags \/ "LOW" \in P[j].usr
  <2> DEFINE b == HwBd(ring, bd, j - 1)
  <2>1. j - 1 \in 0 .. n - 1 /\ j - 1 \in 0 .. N
    BY <1>1
  <2>2. P[j].flags = b.status /\ P[j].usr = b.usr
    BY <1>1, PacketOf DEF P
  <2>3. BdDone(b)
    BY <1>2, <2>1
  <2>4. b.status \subseteq MayReport
    <3>1. Dma_mRingSeekahead(ring.HwHead, j - 1) \in BdIndex
      BY <1>0, <2>1, SeekInRing
    <3> QED BY <3>1 DEF StatusInv, HwBd
  <2> HIDE DEF b
  <2>5. IsRxChannel
    BY <1>3, <2>2, <2>4, HwErrorsAssumption DEF MayReport
  <2> QED BY <1>3, <2>2, <2>3, <2>5 DEF BdDone, UserInfoPending
<1>4. DOMAIN P = 1 .. n
  BY <1>1, PacketsLength DEF P
<1> QED BY <1>3, <1>4 DEF Arrived, P, n

LEMMA UserInfoAsArrived == UserInfoArrived <=> \A h \in Handlers : Arrived(hpkts[h])
BY DEF UserInfoArrived, Arrived

LEMMA UserInfoStep ==
    ASSUME IInv, UserInv, [Next]_vars
    PROVE  UserInfoArrived'
<1>0. hpkts \in [Handlers -> Seq(PacketType)] /\ \A g \in Handlers : Arrived(hpkts[g])
  BY UserInfoAsArrived DEF IInv, TypeOK, UserInv
<1>a. Arrived(<<>>)
  BY DEF Arrived
<1>1. ASSUME NEW h \in Handlers, NEW X, Arrived(X), hpkts' = [hpkts EXCEPT ![h] = X]
      PROVE  UserInfoArrived'
  <2>1. \A g \in Handlers : hpkts'[g] \in {hpkts[g], X}
    BY <1>0, <1>1
  <2>2. \A g \in Handlers : Arrived(hpkts'[g])
    BY <1>0, <1>1, <2>1
  <2> QED BY <2>2 DEF UserInfoArrived, Arrived
<1>2. ASSUME UNCHANGED hpkts PROVE UserInfoArrived'
  BY <1>2 DEF UserInv, UserInfoArrived
<1>3. ASSUME NEW h \in Handlers, Handler(h) PROVE UserInfoArrived'
  <2>1. PutPkts(h) => hpkts' = [hpkts EXCEPT ![h] = <<>>]
    BY DEF PutPkts
  <2>2. Arrived(Packets(ring.HwHead, FromHwCount(ring, bd, BdLimit)))
    BY CollectedArrived DEF UserInv
  <2> QED BY <1>1, <1>2, <1>3, <1>a, <2>1, <2>2, HandlerPackets
<1> QED BY <1>2, <1>3, OthersKeepPackets DEF hVars

-----------------------------------------------------------------------------
(* A transmit engine whose hardware reports no error returns whole packets.*)

GroupWhole(r, m) ==
    r.HwCnt > 0 =>
        /\ HwBd(r, m, 0).SOP /\ HwBd(r, m, r.HwCnt - 1).EOP
        /\ \A k \in 0 .. r.HwCnt - 2 : HwBd(r, m, k).EOP <=> HwBd(r, m, k + 1).SOP

LEMMA WholeShrinks ==
    ASSUME NEW r \in RingType, Tiled(r), NEW m, NEW n \in 1 .. r.HwCnt, HwBd(r, m, n - 1).EOP,
           NEW q, q.HwHead = Dma_mRingSeekahead(r.HwHead, n), q.HwCnt = r.HwCnt - n,
           NEW mq, \A k \in n .. N - 1 : HwBd(r, mq, k) = HwBd(r, m, k), GroupWhole(r, m)
    PROVE  GroupWhole(q, mq)
<1> DEFINE c == r.HwCnt
<1>0. c \in 0 .. N /\ n \in 1 .. c /\ n \in 0 .. N /\ n \in Int /\ c \in Int /\ r.HwHead \in BdIndex
      /\ N \in Int
  BY RingFields
<1>1. ASSUME NEW k \in 0 .. (c - n) - 1
      PROVE  HwBd(q, mq, k) = HwBd(r, m, n + k) /\ n + k \in 0 .. c - 1
  <2>1. n + k \in n .. N - 1 /\ k \in 0 .. N /\ n + k <= N /\ n + k \in 0 .. c - 1
    BY <1>0
  <2>2. Dma_mRingSeekahead(q.HwHead, k) = Dma_mRingSeekahead(r.HwHead, n + k)
    BY <1>0, <2>1, SeekAdds
  <2> QED BY <2>1, <2>2 DEF HwBd
<1>2. /\ c > 0 /\ HwBd(r, m, c - 1).EOP
      /\ \A k \in 0 .. c - 2 : HwBd(r, m, k).EOP <=> HwBd(r, m, k + 1).SOP
  BY <1>0 DEF GroupWhole
<1>3. q.HwCnt = c - n
  OBVIOUS
<1> HIDE DEF c
<1>4. ASSUME c - n > 0
      PROVE  /\ HwBd(q, mq, 0).SOP /\ HwBd(q, mq, (c - n) - 1).EOP
             /\ \A k \in 0 .. (c - n) - 2 : HwBd(q, mq, k).EOP <=> HwBd(q, mq, k + 1).SOP
  <2>1. HwBd(q, mq, 0).SOP
    <3>1. n - 1 \in 0 .. c - 2 /\ (n - 1) + 1 = n + 0 /\ 0 \in 0 .. (c - n) - 1
      BY <1>0, <1>4
    <3>2. HwBd(r, m, (n - 1) + 1).SOP
      BY <1>2, <3>1
    <3> QED BY <1>1, <3>1, <3>2
  <2>2. HwBd(q, mq, (c - n) - 1).EOP
    <3>1. (c - n) - 1 \in 0 .. (c - n) - 1 /\ n + ((c - n) - 1) = c - 1
      BY <1>0, <1>4
    <3> QED BY <1>1, <1>2, <3>1
  <2>3. ASSUME NEW k \in 0 .. (c - n) - 2
        PROVE  HwBd(q, mq, k).EOP <=> HwBd(q, mq, k + 1).SOP
    <3>1. /\ k \in 0 .. (c - n) - 1 /\ k + 1 \in 0 .. (c - n) - 1 /\ n + k \in 0 .. c - 2
          /\ n + (k + 1) = (n + k) + 1
      BY <1>0
    <3>2. HwBd(r, m, n + k).EOP <=> HwBd(r, m, (n + k) + 1).SOP
      BY <1>2, <3>1
    <3>3. HwBd(q, mq, k) = HwBd(r, m, n + k) /\ HwBd(q, mq, k + 1) = HwBd(r, m, n + (k + 1))
      BY <1>1, <3>1
    <3> QED BY <3>1, <3>2, <3>3
  <2> QED BY <2>1, <2>2, <2>3
<1> QED BY <1>3, <1>4 DEF GroupWhole

\* Nothing but the beginnings and ends of the work group's BDs matters.
LEMMA WholeStays ==
    ASSUME NEW r, NEW m, NEW q, q.HwHead = r.HwHead, q.HwCnt = r.HwCnt, r.HwCnt \in Nat,
           NEW mq, \A k \in 0 .. r.HwCnt - 1 : /\ HwBd(r, mq, k).SOP = HwBd(r, m, k).SOP
                                               /\ HwBd(r, mq, k).EOP = HwBd(r, m, k).EOP,
           GroupWhole(r, m)
    PROVE  GroupWhole(q, mq)
<1> DEFINE c == r.HwCnt
<1>0. c \in Nat /\ q.HwCnt = c /\ \A k : HwBd(q, mq, k) = HwBd(r, mq, k)
  BY DEF HwBd
<1>1. c > 0 => /\ HwBd(r, m, 0).SOP /\ HwBd(r, m, c - 1).EOP
               /\ \A k \in 0 .. c - 2 : HwBd(r, m, k).EOP <=> HwBd(r, m, k + 1).SOP
  BY DEF GroupWhole
<1>2. \A k \in 0 .. c - 1 : HwBd(r, mq, k).SOP = HwBd(r, m, k).SOP
                            /\ HwBd(r, mq, k).EOP = HwBd(r, m, k).EOP
  OBVIOUS
<1> HIDE DEF c
<1>3. /\ c > 0 => 0 \in 0 .. c - 1 /\ c - 1 \in 0 .. c - 1
      /\ \A k \in 0 .. c - 2 : c > 0 /\ k \in 0 .. c - 1 /\ k + 1 \in 0 .. c - 1
  BY <1>0
<1>4. ASSUME NEW k \in 0 .. c - 2 PROVE HwBd(q, mq, k).EOP <=> HwBd(q, mq, k + 1).SOP
  BY <1>0, <1>1, <1>2, <1>3
<1>5. ASSUME c > 0 PROVE HwBd(q, mq, 0).SOP /\ HwBd(q, mq, c - 1).EOP
  BY <1>0, <1>1, <1>2, <1>3, <1>5
<1> QED BY <1>0, <1>4, <1>5 DEF GroupWhole

\* Whole packets join.
Joined(r, m, mq, L, w) ==
    /\ \A k \in 0 .. r.HwCnt - 1 : HwBd(r, mq, k) = HwBd(r, m, k)
    /\ \A k \in 0 .. w - 1 : /\ HwBd(r, mq, r.HwCnt + k).SOP = L[k + 1].SOP
                             /\ HwBd(r, mq, r.HwCnt + k).EOP = L[k + 1].EOP

LEMMA WholeGrows ==
    ASSUME NEW r, NEW m, NEW q, NEW w \in Nat \ {0}, NEW len \in Nat, w <= len,
           q.HwHead = r.HwHead, q.HwCnt = r.HwCnt + w, r.HwCnt \in Nat, NEW mq, NEW L,
           Joined(r, m, mq, L, w), PacketsFollow(L, len), L[w].EOP, GroupWhole(r, m)
    PROVE  GroupWhole(q, mq)
<1> DEFINE c == r.HwCnt
           A(k) == HwBd(r, m, k)
           B(k) == HwBd(r, mq, k)
<1>0. c \in Nat /\ c \in Int /\ w \in Int /\ len \in Int /\ w <= len /\ w > 0 /\ q.HwCnt = c + w
      /\ \A k : HwBd(q, mq, k) = B(k)
  BY DEF HwBd
<1>1. /\ c > 0 => /\ A(0).SOP /\ A(c - 1).EOP
                  /\ \A k \in 0 .. c - 2 : A(k).EOP <=> A(k + 1).SOP
      /\ L[1].SOP /\ \A j \in 1 .. len - 1 : L[j].EOP <=> L[j + 1].SOP
  BY DEF GroupWhole, PacketsFollow
<1>2. /\ \A k \in 0 .. c - 1 : B(k) = A(k)
      /\ \A k \in 0 .. w - 1 : B(c + k).SOP = L[k + 1].SOP /\ B(c + k).EOP = L[k + 1].EOP
  BY DEF Joined
<1> HIDE DEF c, A, B
<1>3. B(c + 0).SOP /\ B(c + (w - 1)).EOP
  <2>1. 0 \in 0 .. w - 1 /\ w - 1 \in 0 .. w - 1 /\ 0 + 1 = 1 /\ (w - 1) + 1 = w
    BY <1>0
  <2> QED BY <1>1, <1>2, <2>1
<1>4. B(0).SOP
  <2>1. CASE c = 0
    BY <1>3, <2>1
  <2>2. CASE c > 0
    <3>1. 0 \in 0 .. c - 1
      BY <1>0, <2>2
    <3> QED BY <1>1, <1>2, <2>2, <3>1
  <2> QED BY <1>0, <2>1, <2>2
<1>5. B((c + w) - 1).EOP
  <2>1. c + (w - 1) = (c + w) - 1
    BY <1>0
  <2> QED BY <1>3, <2>1
<1>6. ASSUME NEW k \in 0 .. (c + w) - 2 PROVE B(k).EOP <=> B(k + 1).SOP
  <2>1. CASE k < c - 1
    <3>1. k \in 0 .. c - 1 /\ k + 1 \in 0 .. c - 1 /\ k \in 0 .. c - 2 /\ c > 0
      BY <1>0, <2>1
    <3> QED BY <1>1, <1>2, <3>1
  <2>2. CASE k = c - 1
    <3>1. c > 0 /\ k \in 0 .. c - 1 /\ k + 1 = c + 0
      BY <1>0, <2>2
    <3>2. B(k).EOP /\ B(k + 1).SOP
      BY <1>1, <1>2, <1>3, <2>2, <3>1
    <3> QED BY <3>2
  <2>3. CASE k > c - 1
    <3>1. /\ k - c \in 0 .. w - 1 /\ (k - c) + 1 \in 0 .. w - 1 /\ c + (k - c) = k
          /\ c + ((k - c) + 1) = k + 1 /\ (k - c) + 1 \in 1 .. len - 1
      BY <1>0, <2>3
    <3>2. B(c + (k - c)).EOP = L[(k - c) + 1].EOP
      BY <1>2, <3>1
    <3>3. B(c + ((k - c) + 1)).SOP = L[((k - c) + 1) + 1].SOP
      BY <1>2, <3>1
    <3>4. L[(k - c) + 1].EOP <=> L[((k - c) + 1) + 1].SOP
      BY <1>1, <3>1
    <3> QED BY <3>1, <3>2, <3>3, <3>4
  <2> QED BY <1>0, <2>1, <2>2, <2>3
<1> QED BY <1>0, <1>4, <1>5, <1>6 DEF GroupWhole

PktInv == GroupWhole(ring, bd) /\ PacketsWhole

\* What the hardware writes leaves ends and buffers of the BDs alone.
LEMMA HardwareKeepsEnds ==
    ASSUME IInv, Hardware
    PROVE  /\ UNCHANGED <<ring, space, EngineState, memFault, bufs, userVars, hVars>>
           /\ \A i \in BdIndex : /\ bd'[i].id = bd[i].id /\ bd'[i].SOP = bd[i].SOP
                                 /\ bd'[i].EOP = bd[i].EOP
<1>0. bd \in [BdIndex -> BdType]
  BY DEF IInv, TypeOK
<1>1. UNCHANGED <<ring, space, EngineState, memFault, bufs, userVars, hVars>>
  BY DEF Hardware, HwTransmit, HwReceive, HwUserWord
<1>2. CASE HwTransmit \/ HwReceive
  <2>1. PICK st : HwWrites(st)
    BY <1>2, HardwareWrites
  <2>2. bd' = [bd EXCEPT ![regs.NEXT_BD].status = st]
    BY <2>1 DEF HwWrites
  <2>3. \A i \in BdIndex : /\ bd'[i].id = bd[i].id /\ bd'[i].SOP = bd[i].SOP
                           /\ bd'[i].EOP = bd[i].EOP
    BY <1>0, <2>2 DEF BdType
  <2> QED BY <1>1, <2>3
<1>3. ASSUME NEW i \in BdIndex, HwUserWord(i)
      PROVE  \A j \in BdIndex : /\ bd'[j].id = bd[j].id /\ bd'[j].SOP = bd[j].SOP
                                /\ bd'[j].EOP = bd[j].EOP
  BY <1>3, UserWordKeeps
<1> QED BY <1>1, <1>2, <1>3 DEF Hardware

\* Positions in the work group are BDs.
LEMMA GroupInRing ==
    ASSUME IInv
    PROVE  /\ ring.HwCnt \in 0 .. N
           /\ ring.HwCnt < N \/ ring.HwCnt = 0
           /\ \A k \in 0 .. N : Dma_mRingSeekahead(ring.HwHead, k) \in BdIndex
<1>1. Spare(ring) /\ ring.HwCnt \in 0 .. N /\ ring.HwHead \in BdIndex /\ ring.FreeCnt \in 0 .. N
      /\ ring.PreCnt \in 0 .. N /\ ring.PostCnt \in 0 .. N
      /\ ring.FreeCnt + ring.PreCnt + ring.HwCnt + ring.PostCnt <= N
  BY RingNow
<1>2. ring.HwCnt < N \/ ring.HwCnt = 0
  BY <1>1 DEF Spare
<1>3. \A k \in 0 .. N : Dma_mRingSeekahead(ring.HwHead, k) \in BdIndex
  BY <1>1, SeekInRing
<1> QED BY <1>1, <1>2, <1>3

LEMMA GroupStays ==
    ASSUME IInv, GroupWhole(ring, bd), ring'.HwHead = ring.HwHead, ring'.HwCnt = ring.HwCnt,
           \A i \in BdIndex : bd'[i].SOP = bd[i].SOP /\ bd'[i].EOP = bd[i].EOP
    PROVE  GroupWhole(ring', bd')
<1>1. ring.HwCnt \in Nat /\ \A k \in 0 .. ring.HwCnt - 1 : k \in 0 .. N
  BY RingNow
<1>2. \A k \in 0 .. ring.HwCnt - 1 : /\ HwBd(ring, bd', k).SOP = HwBd(ring, bd, k).SOP
                                     /\ HwBd(ring, bd', k).EOP = HwBd(ring, bd, k).EOP
  BY <1>1, GroupInRing DEF HwBd
<1> QED BY <1>1, <1>2, WholeStays

LEMMA HandlerPkt ==
    ASSUME ~IsRxChannel, "ERROR" \notin HwErrors, IInv, SetInv, StatusInv, PktInv,
           NEW h \in Handlers, Handler(h)
    PROVE  PktInv'
<1> USE DEF ringVars
<1>0. /\ hpkts \in [Handlers -> Seq(PacketType)]
      /\ hpc \in [Handlers -> {"idle", "entered", "put", "refill"}]
  BY DEF IInv, TypeOK
<1>1. CASE CheckEngine(h) \/ PutPkts(h)
  <2>1. UNCHANGED <<ring, bd>>
    BY <1>1 DEF CheckEngine, PutPkts
  <2>2. \A g \in Handlers : hpc'[g] = "put" => hpc[g] = "put" /\ hpkts'[g] = hpkts[g]
    BY <1>0, <1>1 DEF CheckEngine, PutPkts
  <2> QED BY <2>1, <2>2 DEF PktInv, GroupWhole, PacketsWhole, HwBd
<1>2. CASE HandleNothing(h) \/ Refill(h)
  <2>1. PICK n \in Nat : RefillDone(n)
    BY <1>2, RefillEffect DEF SetInv, GroupInv
  <2>2. n = 0
    BY <2>1 DEF RefillDone
  <2>3. /\ ring'.HwHead = ring.HwHead /\ ring'.HwCnt = ring.HwCnt + 0
        /\ \A k \in 0 .. ring.HwCnt - 1 : HwBd(ring, bd', k) = HwBd(ring, bd, k)
    BY <2>1, <2>2 DEF RefillDone, RecvDone, HwBd
  <2>4. ring.HwCnt \in Nat /\ ring.HwCnt + 0 = ring.HwCnt
    BY RingNow
  <2>5. GroupWhole(ring', bd')
    BY <2>3, <2>4, WholeStays DEF PktInv
  <2>6. \A g \in Handlers : hpc'[g] = "put" => hpc[g] = "put" /\ hpkts'[g] = hpkts[g]
    BY <1>0, <1>2 DEF HandleNothing, Refill
  <2> QED BY <2>5, <2>6 DEF PktInv, GroupWhole, PacketsWhole, HwBd
<1>3. CASE HandleCompleted(h)
  <2>1. PICK n \in 1 .. ring.HwCnt : CompletedDone(h, n)
    BY <1>3, CompletedPhase, CompletedEffect DEF SetInv
  <2>2. /\ ring \in RingType /\ Tiled(ring) /\ ring.HwCnt \in 0 .. N
        /\ n \in Nat /\ n <= N
    BY RingNow
  <2>3. HwBd(ring, bd, n - 1).EOP
    <3>1. n - 1 \in 0 .. N
      BY <2>2
    <3>2. HwBd(ring, bd, n - 1).status \subseteq MayReport
      BY <3>1, GroupInRing DEF StatusInv, HwBd
    <3>3. "ERROR" \notin HwBd(ring, bd, n - 1).status
      BY <3>2 DEF MayReport
    <3>4. EndsPacket(HwBd(ring, bd, n - 1))
      BY <2>1 DEF CompletedDone
    <3> QED BY <3>3, <3>4 DEF EndsPacket
  <2>4. /\ ring'.HwHead = Dma_mRingSeekahead(ring.HwHead, n) /\ ring'.HwCnt = ring.HwCnt - n
        /\ \A k \in n .. N - 1 : HwBd(ring, bd', k) = HwBd(ring, bd, k)
        /\ hpkts' = [hpkts EXCEPT ![h] = Packets(ring.HwHead, n)]
        /\ hpc' = [hpc EXCEPT ![h] = "put"]
    BY <2>1 DEF CompletedDone
  <2>5. GroupWhole(ring', bd')
    BY <2>2, <2>3, <2>4, WholeShrinks DEF PktInv
  <2> DEFINE P == Packets(ring.HwHead, n)
  <2>6. Len(P) = n
    BY <2>2, PacketsLength
  <2>7. P[1].SOP /\ P[n].EOP
    <3>1. 1 \in 1 .. n /\ n \in 1 .. n /\ 1 - 1 = 0
      BY <2>2
    <3>2. P[1].SOP = HwBd(ring, bd, 1 - 1).SOP /\ P[n].EOP = HwBd(ring, bd, n - 1).EOP
      BY <2>2, <3>1, PacketOf
    <3>3. HwBd(ring, bd, 0).SOP
      BY <2>2 DEF PktInv, GroupWhole
    <3> QED BY <2>3, <3>1, <3>2, <3>3
  <2> HIDE DEF P
  <2>8. ASSUME NEW g \in Handlers, hpc'[g] = "put"
        PROVE  hpkts'[g][1].SOP /\ hpkts'[g][Len(hpkts'[g])].EOP
    <3>1. CASE g = h
      BY <1>0, <2>4, <2>6, <2>7, <3>1 DEF P
    <3>2. CASE g # h
      <4>1. hpc[g] = "put" /\ hpkts'[g] = hpkts[g]
        BY <1>0, <2>4, <2>8, <3>2
      <4> QED BY <4>1 DEF PktInv, PacketsWhole
    <3> QED BY <3>1, <3>2
  <2> QED BY <2>5, <2>8 DEF PktInv, GroupWhole, PacketsWhole, HwBd
<1> QED BY <1>1, <1>2, <1>3 DEF Handler

LEMMA UserGroup ==
    ASSUME ~IsRxChannel, IInv, SetInv, PktInv, UserCall \/ UserStart
    PROVE  GroupWhole(ring', bd')
<1> USE DEF ringVars
<1>0. GroupInv /\ GroupWhole(ring, bd) /\ ring.HwCnt \in Nat
  BY RingNow DEF SetInv, PktInv
<1>1. CASE \/ StoreHandle \/ TakeBack \/ PutUnused \/ ReleaseSpace \/ Detach
           \/ DmaSetupTransmit \/ Unload
  <2>1. UNCHANGED <<ring, bd>>
    BY <1>1 DEF StoreHandle, TakeBack, PutUnused, ReleaseSpace, Detach, DmaSetupTransmit, Unload
  <2> QED BY <1>0, <2>1 DEF GroupWhole, HwBd
<1>2. CASE DmaUnregister
  <2>1. bd' = bd /\ ring' = [ring EXCEPT !.RunState = "STOPPED"]
    BY <1>2 DEF DmaUnregister
  <2>2. ring'.HwHead = ring.HwHead /\ ring'.HwCnt = ring.HwCnt
    BY <2>1, InvRing DEF RingType
  <2> QED BY <1>0, <2>1, <2>2 DEF GroupWhole, HwBd
<1>3. CASE DmaRegister
  <2>1. ring.HwCnt = 0
    BY <1>0, <1>3 DEF DmaRegister, GroupInv
  <2>2. ring'.HwCnt = 0
    <3>1. ring' \in {Dma_BdRingStart(Dma_BdRingCreate), Dma_BdRingStart(ring)}
      BY <1>3 DEF DmaRegister
    <3>2. Dma_BdRingCreate \in RingType /\ Dma_BdRingCreate.HwCnt = 0
      BY ClearedRingTiled DEF Dma_BdRingCreate, ClearedRing
    <3>3. \A r \in RingType : Dma_BdRingStart(r).HwCnt = r.HwCnt
      BY DEF Dma_BdRingStart, RingType
    <3> QED BY <2>1, <3>1, <3>2, <3>3, InvRing
  <2> QED BY <2>2 DEF GroupWhole
<1>4. CASE RecoverBds
  <2>1. ring'.HwCnt = 0
    BY <1>0, <1>4, RecoverEffect DEF RecoverBds, GroupInv, RecoverDone
  <2> QED BY <2>1 DEF GroupWhole
<1>5. CASE FreeRecovered
  <2>1. upc = "free"
    BY <1>5 DEF FreeRecovered
  <2>2. ring'.HwCnt = 0
    BY <1>0, <1>5, <2>1, FreeEffect DEF GroupInv
  <2> QED BY <2>2 DEF GroupWhole
<1>6. CASE DmaSendPkt
  <2>1. PICK w \in 0 .. Len(ulist) : SendDone(w)
    BY <1>6, SendSet
  <2>2. Len(ulist) \in Nat /\ PacketsFollow(ulist, Len(ulist))
    BY <1>6 DEF DmaSendPkt, SetInv, ListInv, WholeList, Unsent, IInv, TypeOK
  <2>3. /\ ring'.HwHead = ring.HwHead /\ ring'.HwCnt = ring.HwCnt + w
        /\ w > 0 => ulist[w].EOP
        /\ \A k \in 0 .. ring.HwCnt - 1 : HwBd(ring, bd', k) = HwBd(ring, bd, k)
        /\ \A k \in 0 .. w - 1 : /\ HwBd(ring, bd', ring.HwCnt + k).SOP = ulist[k + 1].SOP
                                 /\ HwBd(ring, bd', ring.HwCnt + k).EOP = ulist[k + 1].EOP
    BY <2>1 DEF SendDone, HwBd
  <2>4. CASE w = 0
    <3>1. ring.HwCnt + 0 = ring.HwCnt
      BY <1>0
    <3> QED BY <1>0, <2>3, <2>4, <3>1, WholeStays
  <2>5. CASE w > 0
    <3>1. w \in Nat \ {0} /\ w <= Len(ulist)
      BY <2>2, <2>5
    <3>2. ulist[w].EOP
      BY <2>3, <2>5
    <3>3. Joined(ring, bd, bd', ulist, w)
      BY <2>3 DEF Joined
    <3> QED BY <1>0, <2>2, <2>3, <3>1, <3>2, <3>3, WholeGrows
  <2> QED BY <2>2, <2>4, <2>5
<1> QED BY <1>1, <1>2, <1>3, <1>4, <1>5, <1>6 DEF UserCall, UserStart

LEMMA PktStep ==
    ASSUME ~IsRxChannel, "ERROR" \notin HwErrors, IInv, SetInv, StatusInv, PktInv, [Next]_vars
    PROVE  PktInv'
<1>1. ASSUME GroupWhole(ring', bd'), UNCHANGED hVars PROVE PktInv'
  BY <1>1 DEF PktInv, PacketsWhole, hVars, GroupWhole, HwBd
<1>2. CASE \E h \in Handlers : Handler(h)
  BY <1>2, HandlerPkt
<1>3. CASE UserCall \/ UserStart
  <2>1. UNCHANGED hVars
    BY <1>3 DEF UserCall, StoreHandle, DmaSendPkt, TakeBack, RecoverBds, PutUnused,
                FreeRecovered, ReleaseSpace, Detach,
                UserStart, DmaRegister, DmaSetupTransmit, DmaUnregister, Unload
  <2> QED BY <1>1, <1>3, <2>1, UserGroup
<1>4. CASE Hardware
  BY <1>1, <1>4, HardwareKeepsEnds, GroupStays DEF PktInv
<1>5. CASE UNCHANGED vars
  BY <1>5 DEF vars, ringVars, hVars, PktInv, GroupWhole, HwBd, PacketsWhole
<1> QED BY <1>2, <1>3, <1>4, <1>5 DEF Next

-----------------------------------------------------------------------------
(* The theorems about packets.                                             *)

LEMMA StatusInit == Init => UserInv
BY DEF Init, UserInv, StatusInv, ClearedBd, UserInfoArrived

LEMMA UserInvStep == IInv /\ UserInv /\ [Next]_vars => UserInv'
<1> SUFFICES ASSUME IInv, UserInv, [Next]_vars PROVE UserInv'
  OBVIOUS
<1>1. StatusInv'
  BY StatusStep DEF UserInv
<1> QED BY <1>1, UserInfoStep DEF UserInv

\* BdDone and Dma_BdRingFromHw: when a received packet is handed to the user
\* driver its user words have arrived.
THEOREM UserWordsComeFirst == Spec => []UserInfoArrived
<1>1. Spec => []UserInv
  <2>1. Spec => []IInv
    BY Invariance
  <2> QED BY <2>1, StatusInit, UserInvStep, PTL DEF Spec
<1>2. UserInv => UserInfoArrived
  BY DEF UserInv
<1> QED BY <1>1, <1>2, PTL

LEMMA PktInit == Init => PktInv
<1> SUFFICES ASSUME Init PROVE PktInv
  OBVIOUS
<1>1. \A h \in Handlers : hpc[h] # "put"
  BY DEF Init
<1> QED BY <1>1 DEF Init, PktInv, GroupWhole, PacketsWhole, ClearedRing

\* Dma_BdRingFromHw: a transmit handler returns whole packets, as long as the
\* hardware reports no error.
THEOREM PacketsStayWhole ==
    ASSUME ~IsRxChannel, "ERROR" \notin HwErrors
    PROVE  Spec => []PacketsWhole
<1>1. NoLateRefill
  BY DEF NoLateRefill
<1>2. Init => SetInv /\ PktInv /\ UserInv
  BY SetInit, PktInit, StatusInit
<1>3. IInv /\ SetInv /\ PktInv /\ UserInv /\ [Next]_vars => SetInv' /\ PktInv' /\ UserInv'
  <2> SUFFICES ASSUME IInv, SetInv, PktInv, UserInv, [Next]_vars
               PROVE  SetInv' /\ PktInv' /\ UserInv'
    OBVIOUS
  <2>1. SetInv'
    BY <1>1, SetStep
  <2>2. PktInv'
    BY PktStep DEF UserInv
  <2>3. UserInv'
    BY UserInvStep
  <2> QED BY <2>1, <2>2, <2>3
<1>4. Spec => []IInv
  BY Invariance
<1>5. Spec => [](SetInv /\ PktInv /\ UserInv)
  BY <1>2, <1>3, <1>4, PTL DEF Spec
<1>6. PktInv => PacketsWhole
  BY DEF PktInv
<1> QED BY <1>5, <1>6, PTL

-----------------------------------------------------------------------------
(* BD memory.  An engine that is never unregistered, or a transmit engine  *)
(* that gets its ring from the second registration on.                     *)

KeepsItsRing == ~MayUnregister \/ (~IsRxChannel /\ AllocFails \subseteq {1})

MemInv ==
    /\ ~memFault
    /\ space = "none" => ring.AllCnt = 0
    /\ space = "freed" => upc \in {"detach", "unregistered", "unloaded"}

\* A ring whose memory is gone has no BDs.
LEMMA LiveWhenUsed ==
    ASSUME IInv, MemInv, upc \notin {"detach", "unregistered", "unloaded"},
           ring.HwCnt > 0 \/ ring.PostCnt > 0 \/ ring.FreeCnt > 0
    PROVE  space = "live"
<1>1. /\ ring.AllCnt = 0 => ring.FreeCnt + ring.PreCnt + ring.HwCnt + ring.PostCnt = 0
      /\ ring.FreeCnt \in 0 .. N /\ ring.PreCnt \in 0 .. N /\ ring.HwCnt \in 0 .. N
      /\ ring.PostCnt \in 0 .. N
  BY RingNow
<1>2. ring.AllCnt # 0
  <2> SUFFICES ASSUME ring.AllCnt = 0 PROVE FALSE
    OBVIOUS
  <2> DEFINE a == ring.FreeCnt
             b == ring.PreCnt
             c == ring.HwCnt
             d == ring.PostCnt
  <2>1. /\ a + b + c + d = 0 /\ (c > 0 \/ d > 0 \/ a > 0)
        /\ a \in 0 .. N /\ b \in 0 .. N /\ c \in 0 .. N /\ d \in 0 .. N
    BY <1>1
  <2> HIDE DEF a, b, c, d
  <2> QED BY <2>1
<1>3. space # "none" /\ space # "freed"
  BY <1>2 DEF MemInv
<1>4. space \in {"none", "live", "freed"}
  BY DEF IInv, TypeOK
<1> QED BY <1>3, <1>4

\* A failing registration finds a ring that never had memory.
LEMMA Registers ==
    ASSUME KeepsItsRing, IInv, SetInv, MemInv, DmaRegister
    PROVE  \/ /\ ring' = Dma_BdRingStart(Dma_BdRingCreate)
              /\ regs' = Dma_BdRingStartRegs(Dma_BdRingCreate, regs)
              /\ bd' = [i \in BdIndex |-> ClearedBd] /\ space' = "live"
           \/ /\ ring.AllCnt = 0 /\ space = "none"
              /\ UNCHANGED <<ring, regs, bd, space>>
<1>1. upc = "unloaded"
  BY DEF DmaRegister
<1>2. PICK ok \in IF session + 1 \in AllocFails THEN BOOLEAN ELSE {TRUE} :
          LET r == IF ok THEN Dma_BdRingCreate ELSE ring
          IN  /\ ring' = Dma_BdRingStart(r)
              /\ regs' = Dma_BdRingStartRegs(r, regs)
              /\ bd' = IF ok THEN [i \in BdIndex |-> ClearedBd] ELSE bd
              /\ space' = IF ok THEN "live" ELSE space
  BY DEF DmaRegister
<1>3. CASE ok
  BY <1>2, <1>3
<1>4. CASE ~ok
  <2>1. session + 1 \in AllocFails
    BY <1>2, <1>4
  <2>2. session = 0
    <3>1. CASE ~MayUnregister
      BY <1>1, <3>1 DEF SetInv, PhaseInv, InUse
    <3>2. CASE AllocFails \subseteq {1}
      <4>1. session + 1 = 1 /\ session \in Int
        BY <2>1, <3>2 DEF IInv, TypeOK
      <4> QED BY <4>1
    <3> QED BY <3>1, <3>2 DEF KeepsItsRing
  <2>3. space = "none" /\ ring.AllCnt = 0
    BY <2>2 DEF SetInv, PhaseInv, MemInv
  <2>4. Dma_BdRingStart(ring) = ring /\ Dma_BdRingStartRegs(ring, regs) = regs
    BY <2>3 DEF Dma_BdRingStart, Dma_BdRingStartRegs
  <2>5. ring' = Dma_BdRingStart(ring) /\ regs' = Dma_BdRingStartRegs(ring, regs)
        /\ bd' = bd /\ space' = space
    BY <1>2, <1>4
  <2> QED BY <2>3, <2>4, <2>5
<1> QED BY <1>3, <1>4

\* BDs are filled for receiving only while the engine is in use.
LEMMA RefillPhase ==
    ASSUME KeepsItsRing, PhaseInv, NEW n \in Nat, RefillDone(n), n > 0
    PROVE  IsRxChannel /\ upc \in {"running", "send", "trim"} /\ ring.FreeCnt > 2
BY DEF RefillDone, RecvDone, PhaseInv, InUse, HandleSet, KeepsItsRing

LEMMA HandlerMem ==
    ASSUME KeepsItsRing, IInv, SetInv, MemInv, NEW h \in Handlers, Handler(h)
    PROVE  MemInv'
<1> USE DEF ringVars, userVars
<1>0. /\ PhaseInv /\ GroupInv /\ ring.HwCnt \in 0 .. N /\ ring.PostCnt \in 0 .. N
      /\ ring.FreeCnt \in 0 .. N
  BY RingNow DEF SetInv
<1>1. UNCHANGED <<upc, space>>
  BY DEF Handler, CheckEngine, HandleNothing, HandleCompleted, PutPkts, Refill
<1>2. CASE CheckEngine(h) \/ PutPkts(h)
  BY <1>1, <1>2 DEF CheckEngine, PutPkts, MemInv
<1>3. CASE HandleNothing(h) \/ Refill(h)
  <2>1. PICK n \in Nat : RefillDone(n)
    BY <1>0, <1>3, RefillEffect DEF GroupInv
  <2>2. ring'.AllCnt = ring.AllCnt /\ (memFault' => memFault \/ (ring.HwCnt + n > 0 /\ space # "live"))
    BY <2>1 DEF RefillDone, RecvDone
  <2>3. ring.HwCnt + n > 0 => space = "live"
    <3>1. CASE n > 0
      <4>1. upc \in {"running", "send", "trim"} /\ ring.FreeCnt > 0
        BY <1>0, <2>1, <3>1, RefillPhase
      <4> QED BY <4>1, LiveWhenUsed
    <3>2. CASE ring.HwCnt > 0
      <4>1. upc \in {"running", "send", "trim", "reset"}
        BY <1>0, <3>2 DEF GroupInv
      <4> QED BY <3>2, <4>1, LiveWhenUsed
    <3> QED BY <1>0, <3>1, <3>2
  <2> QED BY <1>1, <2>2, <2>3 DEF MemInv
<1>4. CASE HandleCompleted(h)
  <2>1. ring.PostCnt = 0 /\ upc \in {"running", "send", "trim", "reset"} /\ ring.HwCnt > 0
    BY <1>0, <1>4, CompletedPhase
  <2>2. PICK n \in 1 .. ring.HwCnt : CompletedDone(h, n)
    BY <1>4, <2>1, CompletedEffect
  <2>3. ring'.AllCnt = ring.AllCnt /\ memFault' = (memFault \/ space # "live")
    BY <2>2 DEF CompletedDone
  <2>4. space = "live"
    BY <2>1, LiveWhenUsed
  <2> QED BY <1>1, <2>3, <2>4 DEF MemInv
<1> QED BY <1>2, <1>3, <1>4 DEF Handler

LEMMA UserMem ==
    ASSUME KeepsItsRing, IInv, SetInv, MemInv, UserCall \/ UserStart
    PROVE  MemInv'
<1> USE DEF ringVars
<1>0. /\ PhaseInv /\ GroupInv /\ ring.HwCnt \in 0 .. N /\ ring.PostCnt \in 0 .. N
      /\ ring.FreeCnt \in 0 .. N
  BY RingNow DEF SetInv
<1>1. CASE StoreHandle \/ TakeBack \/ PutUnused \/ Detach \/ DmaSetupTransmit \/ Unload
  BY <1>1 DEF MemInv, StoreHandle, TakeBack, PutUnused, Detach, DmaSetupTransmit, Unload
<1>2. CASE DmaUnregister
  <2>1. ring' = [ring EXCEPT !.RunState = "STOPPED"] /\ upc = "running" /\ UNCHANGED <<space, memFault>>
    BY <1>2 DEF DmaUnregister
  <2>2. ring'.AllCnt = ring.AllCnt
    BY <2>1, InvRing DEF RingType
  <2> QED BY <2>1, <2>2 DEF MemInv
<1>3. CASE DmaRegister
  <2>1. memFault' = memFault
    BY <1>3 DEF DmaRegister
  <2>2. space' = "live" \/ (ring'.AllCnt = 0 /\ space' = "none")
    BY <1>3, Registers
  <2> QED BY <2>1, <2>2 DEF MemInv
<1>4. CASE DmaSendPkt
  <2>1. PICK w \in 0 .. Len(ulist) : SendDone(w)
    BY <1>4, SendSet
  <2>2. /\ ring'.AllCnt = ring.AllCnt
        /\ memFault' => memFault \/ (ring.FreeCnt > 2 /\ space # "live")
    BY <2>1 DEF SendDone
  <2>3. upc = "send" /\ UNCHANGED space
    BY <1>4 DEF DmaSendPkt
  <2>4. ring.FreeCnt > 2 => space = "live"
    BY <1>0, <2>3, LiveWhenUsed
  <2> QED BY <2>2, <2>3, <2>4 DEF MemInv
<1>5. CASE RecoverBds
  <2>1. upc = "reset" /\ UNCHANGED space
    BY <1>5 DEF RecoverBds
  <2>2. ring'.AllCnt = ring.AllCnt /\ memFault' = (memFault \/ (ring.HwCnt > 0 /\ space # "live"))
    BY <1>0, <1>5, <2>1, RecoverEffect DEF RecoverDone, GroupInv
  <2>3. ring.HwCnt > 0 => space = "live"
    BY <2>1, LiveWhenUsed
  <2> QED BY <2>1, <2>2, <2>3 DEF MemInv
<1>6. CASE FreeRecovered
  <2>1. upc = "free" /\ UNCHANGED space
    BY <1>6 DEF FreeRecovered
  <2>2. /\ ring'.AllCnt = ring.AllCnt
        /\ memFault' = (memFault \/ (ufree.n > 0 /\ space # "live"))
        /\ ring.PostCnt = ufree.n
    BY <1>0, <1>6, <2>1, FreeEffect DEF GroupInv
  <2>3. ufree.n > 0 => space = "live"
    BY <2>1, <2>2, LiveWhenUsed
  <2> QED BY <2>1, <2>2, <2>3 DEF MemInv
<1>7. CASE ReleaseSpace
  <2>1. upc = "release" /\ upc' = "detach" /\ ring' = ring
        /\ space' = (IF space = "none" THEN "none" ELSE "freed")
        /\ memFault' = (memFault \/ space = "freed")
    BY <1>7 DEF ReleaseSpace
  <2>2. space # "freed"
    BY <2>1 DEF MemInv
  <2>3. ~memFault'
    BY <2>1, <2>2 DEF MemInv
  <2>4. space' = "none" => ring'.AllCnt = 0
    BY <2>1 DEF MemInv
  <2>5. upc' \in {"detach", "unregistered", "unloaded"}
    BY <2>1
  <2> QED BY <2>3, <2>4, <2>5 DEF MemInv
<1> QED BY <1>1, <1>2, <1>3, <1>4, <1>5, <1>6, <1>7 DEF UserCall, UserStart

LEMMA MemStep ==
    ASSUME KeepsItsRing, IInv, SetInv, MemInv, [Next]_vars
    PROVE  MemInv'
<1>1. CASE Hardware
  BY <1>1, HardwareKeepsEnds DEF MemInv, userVars
<1>2. CASE UNCHANGED vars
  BY <1>2 DEF vars, ringVars, userVars, MemInv
<1> QED BY <1>1, <1>2, HandlerMem, UserMem DEF Next

-----------------------------------------------------------------------------
(* The hardware's walk.  From the head of the work group the first c BDs   *)
(* are completed, and NEXT_BD is the one after them.                       *)

WalkedTo(r, m, g, c) ==
    /\ g.NEXT_BD = Dma_mRingSeekahead(r.HwHead, c)
    /\ \A k \in 0 .. r.HwCnt - 1 : "COMP" \in HwBd(r, m, k).status <=> k < c

Walked(r, m, g) == \E c \in 0 .. r.HwCnt : WalkedTo(r, m, g, c)

WalkInv ==
    /\ regs.enabled <=> ring.RunState = "STARTED"
    /\ regs.enabled => /\ InUse /\ regs.SW_NEXT_BD = ring.HwTail
                       /\ Walked(ring, bd, regs)

SameStatus(r, m, mq, n) == \A k \in 0 .. n - 1 : HwBd(r, mq, k).status = HwBd(r, m, k).status

NewStatus(r, mq, n) == \A k \in 0 .. n - 1 : HwBd(r, mq, r.HwCnt + k).status = {}

Grown(r, g, q, d, n) ==
    q.HwHead = r.HwHead /\ q.HwCnt = r.HwCnt + n /\ d.NEXT_BD = g.NEXT_BD

\* New BDs are not completed.
LEMMA WalkGrows ==
    ASSUME NEW r, NEW m, NEW g, NEW q, NEW mq, NEW d, NEW n \in Nat, r.HwCnt \in Nat,
           Grown(r, g, q, d, n), SameStatus(r, m, mq, r.HwCnt), NewStatus(r, mq, n), Walked(r, m, g)
    PROVE  Walked(q, mq, d)
<1> DEFINE e == r.HwCnt
<1>1. PICK c \in 0 .. e : WalkedTo(r, m, g, c)
  BY DEF Walked
<1>2. /\ g.NEXT_BD = Dma_mRingSeekahead(r.HwHead, c)
      /\ \A k \in 0 .. e - 1 : "COMP" \in HwBd(r, m, k).status <=> k < c
      /\ \A k \in 0 .. e - 1 : HwBd(r, mq, k).status = HwBd(r, m, k).status
      /\ \A k \in 0 .. n - 1 : HwBd(r, mq, e + k).status = {}
  BY <1>1 DEF WalkedTo, SameStatus, NewStatus
<1>3. /\ e \in Nat /\ q.HwCnt = e + n /\ \A k : HwBd(q, mq, k) = HwBd(r, mq, k)
      /\ q.HwHead = r.HwHead /\ d.NEXT_BD = g.NEXT_BD
  BY DEF HwBd, Grown
<1> HIDE DEF e
<1>4. ASSUME NEW k \in 0 .. (e + n) - 1
      PROVE  "COMP" \in HwBd(q, mq, k).status <=> k < c
  <2>1. CASE k < e
    <3>1. k \in 0 .. e - 1
      BY <1>3, <2>1
    <3> QED BY <1>2, <1>3, <3>1
  <2>2. CASE ~(k < e)
    <3>1. k - e \in 0 .. n - 1 /\ e + (k - e) = k /\ ~(k < c)
      BY <1>3, <2>2
    <3>2. HwBd(r, mq, e + (k - e)).status = {}
      BY <1>2, <3>1
    <3> QED BY <1>3, <3>1, <3>2
  <2> QED BY <2>1, <2>2
<1>5. c \in 0 .. e + n
  BY <1>3
<1>6. WalkedTo(q, mq, d, c)
  BY <1>2, <1>3, <1>4 DEF WalkedTo
<1> QED BY <1>3, <1>5, <1>6 DEF Walked

\* Completed BDs leave.
SameAfter(r, m, mq, n) == \A k \in n .. r.HwCnt - 1 : HwBd(r, mq, k).status = HwBd(r, m, k).status

CompletedBefore(r, m, n) == \A k \in 0 .. n - 1 : "COMP" \in HwBd(r, m, k).status

LEMMA WalkShrinks ==
    ASSUME NEW r \in RingType, Tiled(r), NEW m, NEW g, NEW q, NEW mq, NEW n \in 1 .. r.HwCnt,
           q.HwHead = Dma_mRingSeekahead(r.HwHead, n), q.HwCnt = r.HwCnt - n,
           CompletedBefore(r, m, n), SameAfter(r, m, mq, n), Walked(r, m, g)
    PROVE  Walked(q, mq, g)
<1> DEFINE e == r.HwCnt
<1>0. e \in 0 .. N /\ e \in Int /\ n \in Int /\ N \in Int /\ n \in 1 .. e /\ n \in 0 .. N
      /\ r.HwHead \in BdIndex
  BY RingFields
<1>1. PICK c \in 0 .. e : WalkedTo(r, m, g, c)
  BY DEF Walked
<1>2. /\ g.NEXT_BD = Dma_mRingSeekahead(r.HwHead, c)
      /\ \A k \in 0 .. e - 1 : "COMP" \in HwBd(r, m, k).status <=> k < c
      /\ \A k \in 0 .. n - 1 : "COMP" \in HwBd(r, m, k).status
      /\ \A k \in n .. e - 1 : HwBd(r, mq, k).status = HwBd(r, m, k).status
      /\ q.HwCnt = e - n
  BY <1>1 DEF WalkedTo, CompletedBefore, SameAfter
<1>3. ASSUME NEW k \in 0 .. N, n + k <= N
      PROVE  Dma_mRingSeekahead(q.HwHead, k) = Dma_mRingSeekahead(r.HwHead, n + k)
             /\ HwBd(q, mq, k) = HwBd(r, mq, n + k)
  BY <1>0, <1>3, SeekAdds DEF HwBd
<1> HIDE DEF e
<1>4. n <= c
  <2>1. n - 1 \in 0 .. n - 1 /\ n - 1 \in 0 .. e - 1
    BY <1>0
  <2>2. n - 1 < c
    BY <1>2, <2>1
  <2> QED BY <1>0, <2>2
<1>5. c - n \in 0 .. e - n /\ c - n \in 0 .. N /\ n + (c - n) = c /\ c <= N
  BY <1>0, <1>4
<1>6. g.NEXT_BD = Dma_mRingSeekahead(q.HwHead, c - n)
  BY <1>2, <1>3, <1>5
<1>7. ASSUME NEW k \in 0 .. (e - n) - 1
      PROVE  "COMP" \in HwBd(q, mq, k).status <=> k < c - n
  <2>1. /\ n + k \in n .. e - 1 /\ n + k \in 0 .. e - 1 /\ k \in 0 .. N /\ n + k <= N
        /\ n + k < c <=> k < c - n
    BY <1>0, <1>5
  <2> QED BY <1>2, <1>3, <2>1
<1>8. WalkedTo(q, mq, g, c - n)
  BY <1>2, <1>6, <1>7 DEF WalkedTo
<1> QED BY <1>2, <1>5, <1>8 DEF Walked

\* Where the tail of the work group is.
LEMMA TailFollows ==
    /\ IInv => ring.HwTail = Dma_mRingSeekahead(ring.HwHead, ring.HwCnt)
    /\ IInv' => ring'.HwTail = Dma_mRingSeekahead(ring'.HwHead, ring'.HwCnt)
BY DEF IInv, GroupsTile, Tiled

\* The engine is not running and is not started.
LEMMA StaysStopped ==
    ASSUME WalkInv, ~regs.enabled, regs'.enabled <=> regs.enabled, ring'.RunState = ring.RunState
    PROVE  WalkInv'
BY DEF WalkInv

LEMMA StaysStarted ==
    ASSUME WalkInv, regs.enabled, regs'.enabled <=> regs.enabled, ring'.RunState = ring.RunState,
           InUse', regs'.SW_NEXT_BD = ring'.HwTail, Walked(ring', bd', regs')
    PROVE  WalkInv'
BY DEF WalkInv

LEMMA HandlerWalk ==
    ASSUME KeepsItsRing, IInv, IInv', SetInv, WalkInv, NEW h \in Handlers, Handler(h)
    PROVE  WalkInv'
<1> USE DEF ringVars, userVars
<1>0. /\ PhaseInv /\ GroupInv /\ regs \in RegsType /\ ring \in RingType /\ Tiled(ring)
      /\ ring.HwCnt \in 0 .. N /\ ring.HwCnt \in Nat /\ ring.HwHead \in BdIndex
  BY RingNow, StateNow DEF SetInv
<1>1. UNCHANGED upc
  BY DEF Handler, CheckEngine, HandleNothing, HandleCompleted, PutPkts, Refill
<1>2. CASE CheckEngine(h) \/ PutPkts(h)
  <2>1. UNCHANGED <<ring, regs, bd>>
    BY <1>2 DEF CheckEngine, PutPkts
  <2> QED BY <1>1, <2>1 DEF WalkInv, InUse, Walked, WalkedTo, HwBd
<1>3. CASE HandleNothing(h) \/ Refill(h)
  <2>1. PICK n \in Nat : RefillDone(n)
    BY <1>0, <1>3, RefillEffect DEF GroupInv
  <2>2. /\ ring'.HwHead = ring.HwHead /\ ring'.HwCnt = ring.HwCnt + n
        /\ ring'.RunState = ring.RunState
        /\ \A k \in 0 .. ring.HwCnt - 1 : HwBd(ring, bd', k) = HwBd(ring, bd, k)
        /\ \A k \in 0 .. n - 1 : HwBd(ring, bd', ring.HwCnt + k).status = {}
        /\ regs' = IF n # 0 /\ ring.RunState = "STARTED"
                   THEN [regs EXCEPT !.SW_NEXT_BD = Dma_mRingSeekahead(ring.HwHead, ring.HwCnt + n)]
                   ELSE regs
    BY <2>1 DEF RefillDone, RecvDone, HwBd
  <2>3. regs'.enabled = regs.enabled /\ regs'.NEXT_BD = regs.NEXT_BD
    BY <1>0, <2>2 DEF RegsType
  <2>4. CASE ~regs.enabled
    BY <2>2, <2>3, <2>4, StaysStopped
  <2>5. CASE regs.enabled
    <3>1. /\ InUse' /\ ring.RunState = "STARTED" /\ Walked(ring, bd, regs)
          /\ regs.SW_NEXT_BD = ring.HwTail
      BY <1>1, <2>5 DEF WalkInv, InUse
    <3>2. regs'.SW_NEXT_BD = ring'.HwTail
      <4>1. CASE n = 0
        <5>1. ring'.HwCnt = ring.HwCnt /\ regs' = regs
          BY <1>0, <2>2, <4>1
        <5> QED BY <2>2, <3>1, <5>1, TailFollows
      <4>2. CASE n # 0
        <5>1. regs'.SW_NEXT_BD = Dma_mRingSeekahead(ring.HwHead, ring.HwCnt + n)
          BY <1>0, <2>2, <3>1, <4>2 DEF RegsType
        <5> QED BY <2>2, <5>1, TailFollows
      <4> QED BY <4>1, <4>2
    <3>3. Walked(ring', bd', regs')
      <4>1. SameStatus(ring, bd, bd', ring.HwCnt) /\ NewStatus(ring, bd', n)
            /\ Grown(ring, regs, ring', regs', n)
        BY <2>2, <2>3 DEF SameStatus, NewStatus, Grown
      <4> QED BY <1>0, <2>1, <3>1, <4>1, WalkGrows
    <3> QED BY <2>2, <2>3, <2>5, <3>1, <3>2, <3>3, StaysStarted
  <2> QED BY <2>4, <2>5
<1>4. CASE HandleCompleted(h)
  <2>1. ring.PostCnt = 0
    BY <1>0, <1>4, CompletedPhase
  <2>2. PICK n \in 1 .. ring.HwCnt : CompletedDone(h, n)
    BY <1>4, <2>1, CompletedEffect
  <2>3. /\ ring'.HwHead = Dma_mRingSeekahead(ring.HwHead, n) /\ ring'.HwCnt = ring.HwCnt - n
        /\ ring'.RunState = ring.RunState
        /\ \A k \in 0 .. n - 1 : BdDone(HwBd(ring, bd, k))
        /\ \A k \in n .. N - 1 : HwBd(ring, bd', k) = HwBd(ring, bd, k)
    BY <2>2 DEF CompletedDone
  <2>4. regs' = regs
    BY <1>4 DEF HandleCompleted
  <2>5. CASE ~regs.enabled
    BY <2>3, <2>4, <2>5, StaysStopped
  <2>6. CASE regs.enabled
    <3>1. /\ InUse' /\ ring.RunState = "STARTED" /\ Walked(ring, bd, regs)
          /\ regs.SW_NEXT_BD = ring.HwTail
      BY <1>1, <2>6 DEF WalkInv, InUse
    <3>2. regs'.SW_NEXT_BD = ring'.HwTail
      <4>1. /\ n \in 0 .. N /\ ring.HwCnt - n \in 0 .. N /\ n + (ring.HwCnt - n) = ring.HwCnt
            /\ n + (ring.HwCnt - n) <= N
        BY <1>0, <2>2
      <4>2. ring'.HwTail = Dma_mRingSeekahead(Dma_mRingSeekahead(ring.HwHead, n), ring.HwCnt - n)
        BY <2>3, TailFollows
      <4>3. ring'.HwTail = Dma_mRingSeekahead(ring.HwHead, ring.HwCnt)
        BY <1>0, <4>1, <4>2, SeekAdds
      <4> QED BY <2>4, <3>1, <4>3, TailFollows
    <3>3. Walked(ring', bd', regs)
      <4>1. CompletedBefore(ring, bd, n)
        BY <2>3 DEF CompletedBefore, BdDone
      <4>2. SameAfter(ring, bd, bd', n)
        <5>1. \A k \in n .. ring.HwCnt - 1 : k \in n .. N - 1
          BY <1>0, <2>2
        <5> QED BY <2>3, <5>1 DEF SameAfter
      <4> QED BY <1>0, <2>2, <2>3, <3>1, <4>1, <4>2, WalkShrinks
    <3> QED BY <2>3, <2>4, <2>6, <3>1, <3>2, <3>3, StaysStarted
  <2> QED BY <2>5, <2>6
<1> QED BY <1>2, <1>3, <1>4 DEF Handler

LEMMA UserWalk ==
    ASSUME KeepsItsRing, IInv, IInv', SetInv, MemInv, WalkInv, UserCall \/ UserStart
    PROVE  WalkInv'
<1> USE DEF ringVars
<1>0. /\ PhaseInv /\ GroupInv /\ regs \in RegsType /\ ring \in RingType /\ Tiled(ring)
      /\ ring.HwCnt \in 0 .. N /\ ring.HwCnt \in Nat /\ ring.HwHead \in BdIndex
  BY RingNow, StateNow DEF SetInv
<1>1. CASE StoreHandle \/ TakeBack \/ DmaSetupTransmit
  <2>1. UNCHANGED <<ring, regs, bd>> /\ InUse /\ InUse'
    BY <1>1 DEF StoreHandle, TakeBack, DmaSetupTransmit, InUse
  <2> QED BY <2>1 DEF WalkInv, Walked, WalkedTo, HwBd
<1>2. CASE PutUnused \/ ReleaseSpace \/ Detach \/ Unload
  <2>1. UNCHANGED <<ring, regs>> /\ ~InUse
    BY <1>2 DEF PutUnused, ReleaseSpace, Detach, Unload, InUse
  <2> QED BY <2>1, StaysStopped DEF WalkInv
<1>3. CASE RecoverBds
  <2>1. regs' = regs /\ ~InUse /\ upc = "reset"
    BY <1>3 DEF RecoverBds, InUse
  <2>2. ring'.RunState = ring.RunState
    BY <1>0, <1>3, <2>1, RecoverEffect DEF RecoverDone, GroupInv
  <2> QED BY <2>1, <2>2, StaysStopped DEF WalkInv
<1>4. CASE FreeRecovered
  <2>1. regs' = regs /\ ~InUse /\ upc = "free"
    BY <1>4 DEF FreeRecovered, InUse
  <2>2. ring'.RunState = ring.RunState
    BY <1>0, <1>4, <2>1, FreeEffect DEF GroupInv
  <2> QED BY <2>1, <2>2, StaysStopped DEF WalkInv
<1>5. CASE DmaUnregister
  <2>1. ring' = [ring EXCEPT !.RunState = "STOPPED"] /\ regs' = [regs EXCEPT !.enabled = FALSE]
    BY <1>5 DEF DmaUnregister
  <2>2. ring'.RunState = "STOPPED" /\ ~regs'.enabled
    BY <1>0, <2>1 DEF RingType, RegsType
  <2> QED BY <2>2 DEF WalkInv
<1>6. CASE DmaRegister
  <2>1. upc = "unloaded" /\ upc' = "registering"
    BY <1>6 DEF DmaRegister
  <2>2. ~InUse /\ InUse'
    BY <2>1 DEF InUse
  <2>3. CASE /\ ring' = Dma_BdRingStart(Dma_BdRingCreate)
             /\ regs' = Dma_BdRingStartRegs(Dma_BdRingCreate, regs)
             /\ bd' = [i \in BdIndex |-> ClearedBd]
    <3>1. /\ Dma_BdRingCreate.AllCnt = N /\ Dma_BdRingCreate.RunState = "STOPPED"
          /\ Dma_BdRingCreate.HwCnt = 0 /\ Dma_BdRingCreate.HwHead = 0
          /\ Dma_BdRingCreate.HwTail = 0 /\ Dma_BdRingCreate.BdaRestart = 0
      BY DEF Dma_BdRingCreate, ClearedRing
    <3>2. N # 0
      OBVIOUS
    <3>3. /\ ring' = [Dma_BdRingCreate EXCEPT !.RunState = "STARTED"]
          /\ regs' = [NEXT_BD |-> 0, enabled |-> TRUE, SW_NEXT_BD |-> 0]
      BY <2>3, <3>1, <3>2 DEF Dma_BdRingStart, Dma_BdRingStartRegs
    <3>4. /\ ring'.RunState = "STARTED" /\ ring'.HwCnt = 0 /\ ring'.HwHead = 0
          /\ ring'.HwTail = 0
          /\ regs'.enabled /\ regs'.NEXT_BD = 0 /\ regs'.SW_NEXT_BD = 0
      BY <3>3 DEF Dma_BdRingCreate, ClearedRing
    <3>5. WalkedTo(ring', bd', regs', 0)
      <4>1. Dma_mRingSeekahead(0, 0) = 0
        BY DEF Dma_mRingSeekahead
      <4> QED BY <3>4, <4>1 DEF WalkedTo
    <3>6. Walked(ring', bd', regs')
      BY <3>4, <3>5 DEF Walked
    <3> QED BY <2>2, <3>4, <3>6 DEF WalkInv
  <2>4. CASE UNCHANGED <<ring, regs>>
    BY <2>2, <2>4, StaysStopped DEF WalkInv
  <2> QED BY <1>6, <2>3, <2>4, Registers
<1>7. CASE DmaSendPkt
  <2>1. PICK w \in 0 .. Len(ulist) : SendDone(w)
    BY <1>7, SendSet
  <2>2. /\ ring'.HwHead = ring.HwHead /\ ring'.HwCnt = ring.HwCnt + w
        /\ ring'.RunState = ring.RunState
        /\ \A k \in 0 .. ring.HwCnt - 1 : HwBd(ring, bd', k) = HwBd(ring, bd, k)
        /\ \A k \in 0 .. w - 1 : HwBd(ring, bd', ring.HwCnt + k).status = {}
        /\ regs' = IF w # 0 /\ ring.RunState = "STARTED"
                   THEN [regs EXCEPT !.SW_NEXT_BD = Dma_mRingSeekahead(ring.HwHead, ring.HwCnt + w)]
                   ELSE regs
    BY <2>1 DEF SendDone, HwBd
  <2>3. regs'.enabled = regs.enabled /\ regs'.NEXT_BD = regs.NEXT_BD
    BY <1>0, <2>2 DEF RegsType
  <2>4. CASE ~regs.enabled
    BY <2>2, <2>3, <2>4, StaysStopped
  <2>5. CASE regs.enabled
    <3>1. /\ ring.RunState = "STARTED" /\ Walked(ring, bd, regs)
          /\ regs.SW_NEXT_BD = ring.HwTail
      BY <2>5 DEF WalkInv
    <3>2. InUse'
      BY <1>7 DEF DmaSendPkt, InUse
    <3>3. regs'.SW_NEXT_BD = ring'.HwTail
      <4>1. CASE w = 0
        <5>1. ring'.HwCnt = ring.HwCnt /\ regs' = regs
          BY <1>0, <2>2, <4>1
        <5> QED BY <2>2, <3>1, <5>1, TailFollows
      <4>2. CASE w # 0
        <5>1. regs'.SW_NEXT_BD = Dma_mRingSeekahead(ring.HwHead, ring.HwCnt + w)
          BY <1>0, <2>2, <3>1, <4>2 DEF RegsType
        <5> QED BY <2>2, <5>1, TailFollows
      <4> QED BY <4>1, <4>2
    <3>4. Walked(ring', bd', regs')
      <4>1. SameStatus(ring, bd, bd', ring.HwCnt) /\ NewStatus(ring, bd', w)
            /\ Grown(ring, regs, ring', regs', w)
        BY <2>2, <2>3 DEF SameStatus, NewStatus, Grown
      <4>2. w \in Nat
        BY <2>1
      <4> QED BY <1>0, <3>1, <4>1, <4>2, WalkGrows
    <3> QED BY <2>2, <2>3, <2>5, <3>1, <3>2, <3>3, <3>4, StaysStarted
  <2> QED BY <2>4, <2>5
<1> QED BY <1>1, <1>2, <1>3, <1>4, <1>5, <1>6, <1>7 DEF UserCall, UserStart

\* The hardware writes the BD it is at.
LEMMA WalkGoesOn ==
    ASSUME IInv, regs.enabled, regs.NEXT_BD # regs.SW_NEXT_BD, regs.SW_NEXT_BD = ring.HwTail,
           Walked(ring, bd, regs), NEW st, HwWrites(st)
    PROVE  Walked(ring, bd', regs')
<1> DEFINE e == ring.HwCnt
           h == ring.HwHead
<1>0. /\ e \in 0 .. N /\ e \in Nat /\ h \in BdIndex /\ N \in Nat
      /\ bd \in [BdIndex -> BdType] /\ regs \in RegsType
  BY RingNow, StateNow
<1>1. PICK c \in 0 .. e : WalkedTo(ring, bd, regs, c)
  BY DEF Walked
<1>2. /\ regs.NEXT_BD = Dma_mRingSeekahead(h, c)
      /\ \A k \in 0 .. e - 1 : "COMP" \in HwBd(ring, bd, k).status <=> k < c
  BY <1>1 DEF WalkedTo
<1>3. /\ bd' = [bd EXCEPT ![regs.NEXT_BD].status = st]
      /\ regs' = [regs EXCEPT !.NEXT_BD = Dma_mBdRingNext(@)] /\ "COMP" \in st
  BY DEF HwWrites
<1>4. c # e
  BY <1>2, TailFollows
<1> HIDE DEF e, h
<1>5. c \in 0 .. e - 1 /\ c \in 0 .. N - 1 /\ c + 1 \in 0 .. e /\ c + 1 <= N
  BY <1>0, <1>1, <1>4
<1>6. regs'.NEXT_BD = Dma_mRingSeekahead(h, c + 1)
  <2>1. Dma_mBdRingNext(Dma_mRingSeekahead(h, c)) = Dma_mRingSeekahead(h, c + 1)
    BY <1>0, <1>5 DEF Dma_mBdRingNext, Dma_mRingSeekahead, BdIndex
  <2> QED BY <1>0, <1>2, <1>3, <2>1 DEF RegsType
<1>7. ASSUME NEW k \in 0 .. e - 1
      PROVE  "COMP" \in HwBd(ring, bd', k).status <=> k < c + 1
  <2>0. k \in 0 .. N - 1 /\ Dma_mRingSeekahead(h, k) \in BdIndex
    BY <1>0, SeekInRing
  <2>1. CASE k = c
    <3>1. bd'[Dma_mRingSeekahead(h, c)].status = st
      BY <1>0, <1>2, <1>3, <2>0, <2>1 DEF BdType
    <3>2. k < c + 1
      BY <1>5, <2>1
    <3> QED BY <1>3, <2>1, <3>1, <3>2 DEF HwBd, h
  <2>2. CASE k # c
    <3>1. Dma_mRingSeekahead(h, k) # Dma_mRingSeekahead(h, c)
      BY <1>0, <1>5, <2>0, <2>2, PositionsApart
    <3>2. bd'[Dma_mRingSeekahead(h, k)] = bd[Dma_mRingSeekahead(h, k)]
      BY <1>0, <1>2, <1>3, <2>0, <3>1
    <3>3. k < c + 1 <=> k < c
      BY <1>5, <2>0, <2>2
    <3> QED BY <1>2, <3>2, <3>3 DEF HwBd, h
  <2> QED BY <2>1, <2>2
<1>8. WalkedTo(ring, bd', regs', c + 1)
  BY <1>6, <1>7 DEF WalkedTo, e, h
<1> QED BY <1>5, <1>8 DEF Walked, e

LEMMA HardwareWalk ==
    ASSUME IInv, IInv', WalkInv, Hardware
    PROVE  WalkInv'
<1>0. /\ ring.HwCnt \in 0 .. N /\ ring.HwCnt \in Nat /\ ring.HwHead \in BdIndex
      /\ regs \in RegsType
  BY RingNow, StateNow
<1>1. UNCHANGED <<ring, upc>>
  BY HardwareKeepsEnds DEF userVars
<1>2. CASE HwTransmit \/ HwReceive
  <2>1. PICK st : HwWrites(st)
    BY <1>2, HardwareWrites
  <2>2. regs.enabled /\ regs.NEXT_BD # regs.SW_NEXT_BD
    BY <1>2 DEF HwTransmit, HwReceive, HwBusy
  <2>3. regs'.enabled = regs.enabled /\ regs'.SW_NEXT_BD = regs.SW_NEXT_BD
    BY <1>0, <2>1 DEF HwWrites, RegsType
  <2>4. InUse /\ regs.SW_NEXT_BD = ring.HwTail /\ Walked(ring, bd, regs)
    BY <2>2 DEF WalkInv
  <2>5. Walked(ring, bd', regs')
    BY <2>1, <2>2, <2>4, WalkGoesOn
  <2>6. Walked(ring', bd', regs') /\ InUse' /\ ring'.RunState = ring.RunState
        /\ regs'.SW_NEXT_BD = ring'.HwTail
    BY <1>1, <2>3, <2>4, <2>5 DEF InUse
  <2> QED BY <2>2, <2>3, <2>6, StaysStarted
<1>3. ASSUME NEW i \in BdIndex, HwUserWord(i)
      PROVE  WalkInv'
  <2>1. regs' = regs /\ regs.enabled
    BY <1>3 DEF HwUserWord
  <2>2. \A j \in BdIndex : bd'[j].status = bd[j].status
    BY <1>3, UserWordKeeps
  <2>3. InUse /\ regs.SW_NEXT_BD = ring.HwTail /\ Walked(ring, bd, regs)
    BY <2>1 DEF WalkInv
  <2>4. \A k \in 0 .. ring.HwCnt - 1 : HwBd(ring, bd', k).status = HwBd(ring, bd, k).status
    <3>1. \A k \in 0 .. ring.HwCnt - 1 : k \in 0 .. N
      BY <1>0
    <3> QED BY <1>0, <2>2, <3>1, SeekInRing DEF HwBd
  <2>5. Walked(ring, bd', regs)
    BY <2>3, <2>4 DEF Walked, WalkedTo
  <2>6. Walked(ring', bd', regs') /\ InUse' /\ ring'.RunState = ring.RunState
        /\ regs'.SW_NEXT_BD = ring'.HwTail
    BY <1>1, <2>1, <2>3, <2>5 DEF InUse
  <2> QED BY <2>1, <2>6, StaysStarted
<1> QED BY <1>2, <1>3 DEF Hardware

LEMMA WalkInit == Init => MemInv /\ WalkInv
BY DEF Init, MemInv, WalkInv, ClearedRing

LEMMA WalkStep ==
    ASSUME KeepsItsRing, IInv, IInv', SetInv, MemInv, WalkInv, [Next]_vars
    PROVE  WalkInv'
<1>1. CASE UNCHANGED vars
  BY <1>1 DEF vars, ringVars, userVars, WalkInv, InUse, Walked, WalkedTo, HwBd
<1> QED BY <1>1, HandlerWalk, UserWalk, HardwareWalk DEF Next

-----------------------------------------------------------------------------
(* The order of the buffers, with one context that runs the handler.       *)

OneHandler == \A g, h \in Handlers : g = h

HandlerPkts == IF Handlers = {} THEN <<>> ELSE hpkts[CHOOSE h \in Handlers : TRUE]

OrderInv == HeldInOrder(bufs, HandlerPkts, ring, bd, upkts, ulist, usent)

LEMMA TheHandler ==
    ASSUME OneHandler, NEW h \in Handlers
    PROVE  HandlerPkts = hpkts[h] /\ HandlerPkts' = hpkts'[h]
<1>1. Handlers # {} /\ (CHOOSE g \in Handlers : TRUE) \in Handlers
  OBVIOUS
<1>2. (CHOOSE g \in Handlers : TRUE) = h
  BY <1>1 DEF OneHandler
<1> QED BY <1>1, <1>2 DEF HandlerPkts

LEMMA PktsLengths ==
    ASSUME IInv
    PROVE  Lengths(HandlerPkts, upkts, ulist, usent)
<1>1. hpkts \in [Handlers -> Seq(PacketType)] /\ upkts \in Seq(PacketType)
      /\ ulist \in Seq(SendType) /\ usent \in 0 .. Len(ulist)
  BY DEF IInv, TypeOK
<1>2. HandlerPkts \in Seq(PacketType)
  <2>1. CASE Handlers = {}
    BY <2>1 DEF HandlerPkts
  <2>2. CASE Handlers # {}
    <3>1. (CHOOSE g \in Handlers : TRUE) \in Handlers
      BY <2>2
    <3> QED BY <1>1, <2>2, <3>1 DEF HandlerPkts
  <2> QED BY <2>1, <2>2
<1> QED BY <1>1, <1>2 DEF Lengths

\* A step that leaves the group and its buffers alone.
SameGroup(r, m, q, mq) ==
    /\ q.HwHead = r.HwHead /\ q.HwCnt = r.HwCnt
    /\ \A k \in 0 .. N - 1 : HwBd(r, mq, k).id = HwBd(r, m, k).id

LEMMA OrderKept ==
    ASSUME NEW b, NEW P, NEW U, NEW L, NEW s, NEW r \in RingType, NEW m, NEW q, NEW mq,
           HeldInOrder(b, P, r, m, U, L, s), SameGroup(r, m, q, mq)
    PROVE  HeldInOrder(b, P, q, mq, U, L, s)
<1>0. r.HwCnt \in 0 .. N /\ N \in Nat
  BY DEF RingType
<1>1. q.HwCnt = r.HwCnt /\ \A k : HwBd(q, mq, k) = HwBd(r, mq, k)
  BY DEF SameGroup, HwBd
<1>2. \A k \in 0 .. r.HwCnt - 1 : k \in 0 .. N - 1
  BY <1>0
<1>3. \A k \in r.HwCnt .. N - 1 : k \in 0 .. N - 1
  BY <1>0
<1>4. \A k \in 0 .. N - 1 : HwBd(q, mq, k).id = HwBd(r, m, k).id
  BY <1>1 DEF SameGroup
<1>5. \A k \in 0 .. r.HwCnt - 1 : HwBd(q, mq, k).id = HwBd(r, m, k).id
  BY <1>2, <1>4
<1>6. \A k \in r.HwCnt .. N - 1 : HwBd(q, mq, k).id = HwBd(r, m, k).id
  BY <1>3, <1>4
<1> QED BY <1>1, <1>5, <1>6 DEF HeldInOrder

\* The same by BDs instead of positions.
LEMMA SameIds ==
    ASSUME NEW r \in RingType, NEW q, NEW m, NEW mq, q.HwHead = r.HwHead, q.HwCnt = r.HwCnt,
           \A i \in BdIndex : mq[i].id = m[i].id
    PROVE  SameGroup(r, m, q, mq)
<1>1. r.HwHead \in BdIndex /\ \A k \in 0 .. N - 1 : k \in 0 .. N
  BY DEF RingType
<1>2. \A k \in 0 .. N - 1 : Dma_mRingSeekahead(r.HwHead, k) \in BdIndex
  BY <1>1, SeekInRing
<1> QED BY <1>2 DEF SameGroup, HwBd

LEMMA HandlerOrder ==
    ASSUME OneHandler, KeepsItsRing, IInv, IInv', SetInv, OrderInv, NEW h \in Handlers, Handler(h)
    PROVE  OrderInv'
<1> USE DEF ringVars, userVars
<1>0. /\ PhaseInv /\ GroupInv /\ ListInv /\ ring \in RingType /\ Tiled(ring) /\ bufs \in PoolType
      /\ bufs' \in PoolType /\ ring.HwCnt \in 0 .. N /\ ring.HwCnt \in Nat /\ ring.HwHead \in BdIndex
  <2>1. bufs' \in PoolType
    BY DEF IInv, TypeOK
  <2> QED BY <2>1, RingNow, StateNow DEF SetInv
<1>1. UNCHANGED <<upc, upkts, ulist, usent>>
  BY DEF Handler, CheckEngine, HandleNothing, HandleCompleted, PutPkts, Refill
<1>2. HeldInOrder(bufs, hpkts[h], ring, bd, upkts, ulist, usent)
      /\ Lengths(hpkts[h], upkts, ulist, usent)
  BY TheHandler, PktsLengths DEF OrderInv
<1>3. SUFFICES HeldInOrder(bufs', hpkts'[h], ring', bd', upkts, ulist, usent)
  BY <1>1, TheHandler DEF OrderInv
<1>4. CASE CheckEngine(h)
  <2>1. UNCHANGED <<bufs, hpkts, ring, bd>>
    BY <1>4 DEF CheckEngine
  <2> QED BY <1>2, <2>1
<1>5. CASE HandleNothing(h) \/ Refill(h)
  <2>1. PICK n \in Nat : RefillDone(n)
    BY <1>0, <1>5, RefillEffect DEF GroupInv
  <2>2. /\ ring'.HwHead = ring.HwHead /\ ring'.HwCnt = ring.HwCnt + n
        /\ bufs' = [bufs EXCEPT !.FreePtr = Forward(@, n), !.AllocNum = @ + n]
        /\ \A k \in 0 .. ring.HwCnt - 1 : HwBd(ring, bd', k) = HwBd(ring, bd, k)
        /\ \A k \in 0 .. n - 1 : HwBd(ring, bd', ring.HwCnt + k).id = Forward(bufs.FreePtr, k)
        /\ \A k \in ring.HwCnt + n .. N - 1 : HwBd(ring, bd', k) = HwBd(ring, bd, k)
    BY <2>1 DEF RefillDone, RecvDone, HwBd
  <2>3. hpkts'[h] = hpkts[h]
    BY <1>5 DEF HandleNothing, Refill
  <2>4. CASE n = 0
    <3>1. bufs' = bufs
      <4>1. Forward(bufs.FreePtr, 0) = bufs.FreePtr /\ bufs.AllocNum + 0 = bufs.AllocNum
        BY <1>0 DEF Forward, PoolType, BufIndex
      <4> QED BY <1>0, <2>2, <2>4, <4>1 DEF PoolType
    <3>2. ring'.HwCnt = ring.HwCnt /\ ring.HwCnt + n = ring.HwCnt
      BY <1>0, <2>2, <2>4
    <3>3. ASSUME NEW k \in 0 .. N - 1 PROVE HwBd(ring, bd', k).id = HwBd(ring, bd, k).id
      <4>1. k \in 0 .. ring.HwCnt - 1 \/ k \in ring.HwCnt .. N - 1
        BY <1>0
      <4> QED BY <2>2, <3>2, <4>1
    <3>4. SameGroup(ring, bd, ring', bd')
      BY <2>2, <3>2, <3>3 DEF SameGroup
    <3> QED BY <1>0, <1>2, <2>3, <3>1, <3>4, OrderKept
  <2>5. CASE n > 0
    <3>1. IsRxChannel /\ upc \in {"running", "send", "trim"}
      BY <1>0, <2>1, <2>5, RefillPhase
    <3>2. upkts = <<>> /\ ulist = <<>> /\ usent = 0
      BY <1>0, <3>1 DEF PhaseInv, ListInv
    <3>3. Len(upkts) = 0 /\ Len(ulist) - usent = 0
      BY <3>2
    <3>4. Grows(ring, bd, ring', bd', n) /\ CarryNew(bufs, ring, bd', n)
      BY <2>2 DEF Grows, CarryNew
    <3> QED BY <1>0, <1>2, <2>2, <2>3, <3>3, <3>4, OrderReceived
  <2> QED BY <2>4, <2>5
<1>6. CASE HandleCompleted(h)
  <2>1. ring.PostCnt = 0 /\ ring.HwCnt > 0
    BY <1>0, <1>6, CompletedPhase
  <2>2. PICK n \in 1 .. ring.HwCnt : CompletedDone(h, n)
    BY <1>6, <2>1, CompletedEffect
  <2>3. /\ ring'.HwHead = Dma_mRingSeekahead(ring.HwHead, n) /\ ring'.HwCnt = ring.HwCnt - n
        /\ hpkts' = [hpkts EXCEPT ![h] = Packets(ring.HwHead, n)]
        /\ \A k \in 0 .. n - 1 : HwBd(ring, bd', k).id = NULL
        /\ \A k \in n .. N - 1 : HwBd(ring, bd', k) = HwBd(ring, bd, k)
    BY <2>2 DEF CompletedDone
  <2>4. hpkts'[h] = Packets(ring.HwHead, n)
    BY <2>3 DEF IInv, TypeOK
  <2>5. hpkts[h] = <<>> /\ bufs' = bufs
    <3>1. hpc[h] # "put" /\ bufs' = bufs
      BY <1>6 DEF HandleCompleted
    <3> QED BY <1>0, <3>1 DEF PhaseInv
  <2>6. HandlerTakes(hpkts'[h], ring, bd, ring', bd', n)
    <3>1. Len(hpkts'[h]) = n
      BY <2>2, <2>4, PacketsLength
    <3>2. \A j \in 1 .. n : hpkts'[h][j].buf = HwBd(ring, bd, j - 1).id
      BY <2>2, <2>4, PacketOf
    <3> QED BY <2>3, <3>1, <3>2 DEF HandlerTakes
  <2>7. ring.HwCnt < N /\ n \in 0 .. ring.HwCnt
    BY <1>0, <2>1, <2>2, GroupInRing
  <2> QED BY <1>0, <1>2, <2>5, <2>6, <2>7, OrderTaken
<1>7. CASE PutPkts(h)
  <2>1. UNCHANGED <<ring, bd>> /\ bufs' = FreeUsedBuf(bufs, Len(hpkts[h]))
        /\ hpkts' = [hpkts EXCEPT ![h] = <<>>]
    BY <1>7 DEF PutPkts
  <2>2. hpkts'[h] = <<>>
    BY <2>1 DEF IInv, TypeOK
  <2> QED BY <1>0, <1>2, <2>1, <2>2, OrderPut
<1> QED BY <1>4, <1>5, <1>6, <1>7 DEF Handler

\* Nothing to give back.
LEMMA NothingTrimmed ==
    ASSUME NEW b \in PoolType
    PROVE  FreeUnusedBuf(b, 0) = b
<1>1. FreeCount(b, 0) = 0 /\ Back(b.FreePtr, 0) = b.FreePtr /\ b.AllocNum - 0 = b.AllocNum
  BY DEF FreeCount, Back, PoolType, BufIndex
<1>2. FreeUnusedBuf(b, 0) = [b EXCEPT !.FreePtr = Back(@, 0), !.AllocNum = @ - 0]
  BY <1>1 DEF FreeUnusedBuf
<1> QED BY <1>1, <1>2 DEF PoolType

\* A ring, pool and lists that hold nothing.
LEMMA OrderEmpty ==
    ASSUME NEW r, NEW m, r.HwCnt = 0, \A k \in 0 .. N - 1 : HwBd(r, m, k).id = NULL
    PROVE  HeldInOrder(InitBuffers, <<>>, r, m, <<>>, <<>>, 0)
<1>1. Len(<<>>) = 0 /\ Len(<<>>) - 0 = 0
  OBVIOUS
<1>2. InitBuffers.AllocNum = 0 /\ InitBuffers.AllocPtr = 0 /\ InitBuffers.FreePtr = 0
  BY DEF InitBuffers
<1>3. Pos(InitBuffers, 0) = 0
  BY <1>2 DEF Pos, Forward
<1>4. /\ \A j \in 1 .. 0 : FALSE
      /\ \A k \in 0 .. 0 - 1 : FALSE
  OBVIOUS
<1> QED BY <1>1, <1>2, <1>3, <1>4 DEF HeldInOrder

\* Without handlers' packets.
LEMMA NoPkts ==
    ASSUME PhaseInv, \A h \in Handlers : hpc[h] # "put"
    PROVE  HandlerPkts = <<>>
<1>1. \A h \in Handlers : hpkts[h] = <<>>
  BY DEF PhaseInv
<1>2. CASE Handlers = {}
  BY <1>2 DEF HandlerPkts
<1>3. CASE Handlers # {}
  <2>1. (CHOOSE g \in Handlers : TRUE) \in Handlers
    BY <1>3
  <2> QED BY <1>1, <1>3, <2>1 DEF HandlerPkts
<1> QED BY <1>2, <1>3

LEMMA UserOrder ==
    ASSUME KeepsItsRing, IInv, IInv', SetInv, MemInv, OrderInv, UserCall \/ UserStart
    PROVE  OrderInv'
<1> USE DEF ringVars
<1>0. /\ PhaseInv /\ GroupInv /\ ListInv /\ ring \in RingType /\ Tiled(ring) /\ bufs \in PoolType
      /\ ring.HwCnt \in 0 .. N /\ ring.HwCnt \in Nat /\ ring.HwHead \in BdIndex
      /\ ring.AllCnt = 0 => ring.HwCnt = 0
  <2>1. /\ ring \in RingType /\ Tiled(ring) /\ PhaseInv /\ GroupInv /\ ListInv /\ bufs \in PoolType
    BY InvRing DEF SetInv, IInv, TypeOK
  <2> DEFINE a == ring.FreeCnt
             b == ring.PreCnt
             c == ring.HwCnt
             d == ring.PostCnt
  <2>2. /\ ring.AllCnt = 0 => a + b + c + d = 0
        /\ a \in 0 .. N /\ b \in 0 .. N /\ c \in 0 .. N /\ d \in 0 .. N
        /\ ring.HwHead \in BdIndex
    BY <2>1, RingFields
  <2> HIDE DEF a, b, c, d
  <2>3. (ring.AllCnt = 0 => c = 0) /\ c \in Nat
    BY <2>2
  <2> QED BY <2>1, <2>2, <2>3 DEF c
<1>1. UNCHANGED hpkts /\ HandlerPkts' = HandlerPkts
  <2>1. UNCHANGED hpkts
    BY OthersKeepPackets DEF UserCall, StoreHandle, DmaSendPkt, TakeBack, RecoverBds, PutUnused,
                FreeRecovered, ReleaseSpace, Detach,
                UserStart, DmaRegister, DmaSetupTransmit, DmaUnregister, Unload, hVars
  <2> QED BY <2>1 DEF HandlerPkts
<1> DEFINE P == HandlerPkts
<1>2. /\ HeldInOrder(bufs, P, ring, bd, upkts, ulist, usent)
      /\ Lengths(P, upkts, ulist, usent)
  BY PktsLengths DEF OrderInv
<1>3. SUFFICES HeldInOrder(bufs', P, ring', bd', upkts', ulist', usent')
  BY <1>1 DEF OrderInv
<1> HIDE DEF P
<1>4. CASE StoreHandle \/ ReleaseSpace \/ Detach \/ Unload
  <2>1. UNCHANGED <<bufs, ring, bd, upkts, ulist, usent>>
    BY <1>4 DEF StoreHandle, ReleaseSpace, Detach, Unload
  <2> QED BY <1>2, <2>1
<1>5. CASE DmaUnregister
  <2>1. UNCHANGED <<bufs, bd, upkts, ulist, usent>>
        /\ ring' = [ring EXCEPT !.RunState = "STOPPED"]
    BY <1>5 DEF DmaUnregister
  <2>2. ring'.HwHead = ring.HwHead /\ ring'.HwCnt = ring.HwCnt
    BY <1>0, <2>1 DEF RingType
  <2>3. SameGroup(ring, bd, ring', bd')
    BY <1>0, <2>1, <2>2, SameIds
  <2> QED BY <1>0, <1>2, <2>1, <2>3, OrderKept
<1>6. CASE FreeRecovered
  <2>1. UNCHANGED <<bufs, upkts, ulist, usent>> /\ upc = "free"
    BY <1>6 DEF FreeRecovered
  <2>2. /\ ring'.HwHead = ring.HwHead /\ ring'.HwCnt = ring.HwCnt
        /\ \A i \in BdIndex : bd'[i].id = bd[i].id
    BY <1>0, <1>6, <2>1, FreeEffect DEF GroupInv
  <2>3. SameGroup(ring, bd, ring', bd')
    BY <1>0, <2>2, SameIds
  <2> QED BY <1>0, <1>2, <2>1, <2>3, OrderKept
<1>7. CASE DmaRegister
  <2>1. upc = "unloaded" /\ bufs' = InitBuffers /\ UNCHANGED <<upkts, ulist, usent>>
    BY <1>7 DEF DmaRegister
  <2>2. upkts = <<>> /\ ulist = <<>> /\ usent = 0 /\ \A h \in Handlers : hpc[h] # "put"
    BY <1>0, <2>1 DEF PhaseInv, Unsent
  <2>3. P = <<>>
    BY <1>0, <2>2, NoPkts DEF P
  <2>4. ring'.HwCnt = 0 /\ \A k \in 0 .. N - 1 : HwBd(ring', bd', k).id = NULL
    <3>1. CASE /\ ring' = Dma_BdRingStart(Dma_BdRingCreate)
               /\ bd' = [i \in BdIndex |-> ClearedBd]
      <4>1. ring'.HwCnt = 0 /\ ring'.HwHead = 0
        BY <3>1 DEF Dma_BdRingStart, Dma_BdRingCreate, ClearedRing
      <4>2. 0 \in BdIndex /\ \A k \in 0 .. N - 1 : k \in 0 .. N
        BY DEF BdIndex
      <4>3. \A k \in 0 .. N - 1 : Dma_mRingSeekahead(0, k) \in BdIndex
        BY <4>2, SeekInRing
      <4> QED BY <3>1, <4>1, <4>3 DEF HwBd, ClearedBd
    <3>2. CASE ring.AllCnt = 0 /\ UNCHANGED <<ring, bd>>
      <4>1. ring.HwCnt = 0
        BY <1>0, <3>2
      <4> QED BY <1>2, <3>2, <4>1 DEF HeldInOrder
    <3> QED BY <1>7, <3>1, <3>2, Registers
  <2> QED BY <2>1, <2>2, <2>3, <2>4, OrderEmpty
<1>8. CASE DmaSetupTransmit
  <2>1. UNCHANGED <<ring, bd, upkts>> /\ upc = "running" /\ usent' = 0
    BY <1>8 DEF DmaSetupTransmit
  <2>2. upkts = <<>> /\ ulist = <<>> /\ usent = 0
    BY <1>0, <2>1 DEF PhaseInv, Unsent
  <2>3. Len(upkts) = 0 /\ Len(ulist) - usent = 0
    BY <2>2
  <2>4. ListFrom(bufs, ulist') /\ bufs' = AllocBuf(bufs, Len(ulist'))
    BY <1>8, ListWhole DEF IInv
  <2> QED BY <1>0, <1>2, <2>1, <2>3, <2>4, OrderPrepared
<1>9. CASE DmaSendPkt
  <2>1. UNCHANGED <<bufs, upkts, ulist>> /\ upc = "send"
    BY <1>9 DEF DmaSendPkt
  <2>2. PICK w \in 0 .. Len(ulist) : SendDone(w)
    BY <1>9, SendSet
  <2>3. ~IsRxChannel
    BY <1>9, SendSet
  <2>4. usent = 0 /\ upkts = <<>> /\ Len(upkts) = 0
    BY <1>0, <2>1, <2>3 DEF PhaseInv, ListInv, WholeList, Unsent
  <2>5. /\ usent' = w
        /\ ring'.HwHead = ring.HwHead /\ ring'.HwCnt = ring.HwCnt + w
        /\ \A k \in 0 .. ring.HwCnt - 1 : HwBd(ring, bd', k) = HwBd(ring, bd, k)
        /\ \A k \in 0 .. w - 1 : HwBd(ring, bd', ring.HwCnt + k).id = ulist[k + 1].buf
        /\ \A k \in ring.HwCnt + w .. N - 1 : HwBd(ring, bd', k).id \in {HwBd(ring, bd, k).id, NULL}
    BY <2>2 DEF SendDone, HwBd
  <2>6. Grows(ring, bd, ring', bd', w) /\ CarryList(ulist, ring, bd', w)
    BY <2>5 DEF Grows, CarryList
  <2> QED BY <1>0, <1>2, <2>1, <2>2, <2>4, <2>5, <2>6, OrderSent
<1>10. CASE TakeBack
  <2>1. UNCHANGED <<ring, bd, upkts>> /\ ulist' = <<>> /\ usent' = 0
        /\ bufs' = IF usent # Len(ulist) THEN FreeUnusedBuf(bufs, Len(ulist) - usent) ELSE bufs
    BY <1>10 DEF TakeBack
  <2>2. bufs' = FreeUnusedBuf(bufs, Len(ulist) - usent)
    <3>1. CASE usent = Len(ulist)
      <4>1. Len(ulist) - usent = 0
        BY <1>2, <3>1 DEF Lengths
      <4> QED BY <1>0, <2>1, <3>1, <4>1, NothingTrimmed
    <3> QED BY <2>1, <3>1
  <2> QED BY <1>0, <1>2, <2>1, <2>2, OrderTrimmed
<1>11. CASE RecoverBds
  <2>1. upc = "reset" /\ UNCHANGED <<bufs, ulist, usent>>
    BY <1>11 DEF RecoverBds
  <2>2. upkts = <<>> /\ ulist = <<>> /\ usent = 0
    BY <1>0, <2>1 DEF PhaseInv, Unsent
  <2>3. Len(upkts) = 0 /\ Len(ulist) - usent = 0
    BY <2>2
  <2>4. /\ ring'.HwHead = Dma_mRingSeekahead(ring.HwHead, ring.HwCnt) /\ ring'.HwCnt = 0
        /\ upkts' = Packets(ring.HwHead, ring.HwCnt)
        /\ \A k \in 0 .. ring.HwCnt - 1 : HwBd(ring, bd', k).id = NULL
        /\ \A k \in ring.HwCnt .. N - 1 : HwBd(ring, bd', k) = HwBd(ring, bd, k)
    BY <1>0, <1>11, <2>1, RecoverEffect DEF RecoverDone, GroupInv
  <2>5. \A k \in ring.HwCnt .. N - 1 : HwBd(ring, bd, k).id = NULL
    BY <1>2 DEF HeldInOrder
  <2>6. \A k \in 0 .. N - 1 : HwBd(ring, bd', k).id = NULL
    <3>1. \A k \in 0 .. N - 1 : k \in 0 .. ring.HwCnt - 1 \/ k \in ring.HwCnt .. N - 1
      BY <1>0
    <3> QED BY <2>4, <2>5, <3>1
  <2>7. \A i \in BdIndex : bd'[i].id = NULL
    <3> SUFFICES ASSUME NEW i \in BdIndex PROVE bd'[i].id = NULL
      OBVIOUS
    <3>1. /\ Offset(ring.HwHead, i) \in 0 .. N - 1
          /\ Dma_mRingSeekahead(ring.HwHead, Offset(ring.HwHead, i)) = i
      BY <1>0, PositionOf
    <3> QED BY <2>6, <3>1 DEF HwBd
  <2>8. \A k \in 0 .. N - 1 : HwBd(ring', bd', k).id = NULL
    <3>1. ring'.HwHead \in BdIndex /\ \A k \in 0 .. N - 1 : k \in 0 .. N
      BY DEF IInv, TypeOK, RingType
    <3>2. \A k \in 0 .. N - 1 : Dma_mRingSeekahead(ring'.HwHead, k) \in BdIndex
      BY <3>1, SeekInRing
    <3> QED BY <2>7, <3>2 DEF HwBd
  <2>9. Recovered(upkts', ring, bd, ring', bd')
    <3>1. Len(upkts') = ring.HwCnt
      BY <1>0, <2>4, PacketsLength
    <3>2. \A j \in 1 .. ring.HwCnt : upkts'[j].buf = HwBd(ring, bd, j - 1).id
      BY <1>0, <2>4, PacketOf
    <3> QED BY <2>4, <2>8, <3>1, <3>2 DEF Recovered
  <2> QED BY <1>0, <1>2, <2>1, <2>3, <2>9, OrderRecovered
<1>12. CASE PutUnused
  <2>1. UNCHANGED <<ring, bd, ulist, usent>> /\ upc = "put" /\ upkts' = <<>>
        /\ bufs' = FreeUnusedBuf(bufs, Len(upkts))
    BY <1>12 DEF PutUnused
  <2>2. ulist = <<>> /\ usent = 0
    BY <1>0, <2>1 DEF PhaseInv, Unsent
  <2>3. Len(ulist) - usent = 0
    BY <2>2
  <2> QED BY <1>0, <1>2, <2>1, <2>3, OrderReturned
<1> QED BY <1>4, <1>5, <1>6, <1>7, <1>8, <1>9, <1>10, <1>11, <1>12 DEF UserCall, UserStart

LEMMA OrderInit == Init => OrderInv
<1> SUFFICES ASSUME Init PROVE OrderInv
  OBVIOUS
<1>1. HandlerPkts = <<>>
  <2>1. CASE Handlers = {}
    BY <2>1 DEF HandlerPkts
  <2>2. CASE Handlers # {}
    <3>1. (CHOOSE g \in Handlers : TRUE) \in Handlers
      BY <2>2
    <3> QED BY <2>2, <3>1 DEF HandlerPkts, Init
  <2> QED BY <2>1, <2>2
<1>2. ring.HwCnt = 0 /\ \A k \in 0 .. N - 1 : HwBd(ring, bd, k).id = NULL
  <2>1. ring.HwCnt = 0 /\ ring.HwHead = 0 /\ bd = [i \in BdIndex |-> ClearedBd]
    BY DEF Init, ClearedRing
  <2>2. 0 \in BdIndex /\ \A k \in 0 .. N - 1 : k \in 0 .. N
    BY DEF BdIndex
  <2>3. \A k \in 0 .. N - 1 : Dma_mRingSeekahead(0, k) \in BdIndex
    BY <2>2, SeekInRing
  <2> QED BY <2>1, <2>3 DEF HwBd, ClearedBd
<1>3. bufs = InitBuffers /\ upkts = <<>> /\ ulist = <<>> /\ usent = 0
  BY DEF Init
<1> QED BY <1>1, <1>2, <1>3, OrderEmpty DEF OrderInv

LEMMA OrderStep ==
    ASSUME OneHandler, KeepsItsRing, IInv, IInv', SetInv, MemInv, OrderInv, [Next]_vars
    PROVE  OrderInv'
<1>1. CASE Hardware
  <2>1. UNCHANGED <<ring, bufs, userVars, hVars>>
    BY <1>1, HardwareKeepsEnds
  <2>2. HandlerPkts' = HandlerPkts /\ UNCHANGED <<bufs, upkts, ulist, usent>>
    BY <2>1 DEF HandlerPkts, userVars, hVars
  <2>3. ring \in RingType /\ \A i \in BdIndex : bd'[i].id = bd[i].id
    BY <1>1, InvRing, HardwareKeepsEnds
  <2>4. SameGroup(ring, bd, ring', bd')
    BY <2>1, <2>3, SameIds
  <2> QED BY <2>2, <2>3, <2>4, OrderKept DEF OrderInv
<1>2. CASE UNCHANGED vars
  <2>1. UNCHANGED <<ring, bd, bufs, upkts, ulist, usent>> /\ HandlerPkts' = HandlerPkts
    BY <1>2 DEF vars, ringVars, userVars, hVars, HandlerPkts
  <2> QED BY <2>1 DEF OrderInv
<1> QED BY <1>1, <1>2, HandlerOrder, UserOrder DEF Next

-----------------------------------------------------------------------------
(* A sum over no context, and over one.                                    *)

LEMMA SumOverNone == MapThenSumSet(LAMBDA h : Len(hpkts[h]), {}) = 0
<1> DEFINE none == [s \in SUBSET {} |-> 0]
           Sums(it) == it = [s \in SUBSET {} |-> IF s = {} THEN 0
                              ELSE LET x == CHOOSE y \in s : TRUE IN Len(hpkts[x]) + it[s \ {x}]]
<1>1. Sums(none)
  OBVIOUS
<1>2. Sums(CHOOSE it : Sums(it))
  BY <1>1
<1>3. MapThenSumSet(LAMBDA h : Len(hpkts[h]), {}) = (CHOOSE it : Sums(it))[{}]
  BY DEF MapThenSumSet, MapThenFoldSet
<1> QED BY <1>2, <1>3

LEMMA SumOverOne ==
    ASSUME NEW g, Len(hpkts[g]) \in Nat
    PROVE  MapThenSumSet(LAMBDA h : Len(hpkts[h]), {g}) = Len(hpkts[g])
<1> DEFINE one == [s \in SUBSET {g} |-> IF s = {} THEN 0 ELSE Len(hpkts[g])]
           Sums(it) == it = [s \in SUBSET {g} |-> IF s = {} THEN 0
                              ELSE LET x == CHOOSE y \in s : TRUE IN Len(hpkts[x]) + it[s \ {x}]]
<1>1. Sums(one)
  <2>1. ASSUME NEW s \in SUBSET {g}
        PROVE  one[s] = IF s = {} THEN 0
                        ELSE LET x == CHOOSE y \in s : TRUE IN Len(hpkts[x]) + one[s \ {x}]
    <3>1. CASE s = {}
      BY <3>1
    <3>2. CASE s # {}
      <4>1. s = {g} /\ (CHOOSE y \in s : TRUE) = g /\ s \ {g} = {}
        BY <3>2
      <4>2. one[{}] = 0 /\ one[s] = Len(hpkts[g])
        BY <3>2
      <4>3. Len(hpkts[g]) + 0 = Len(hpkts[g])
        OBVIOUS
      <4> DEFINE x == CHOOSE y \in s : TRUE
      <4>4. x = g /\ Len(hpkts[x]) = Len(hpkts[g]) /\ one[s \ {x}] = 0
        BY <4>1, <4>2
      <4> HIDE DEF one, x
      <4>5. one[s] = Len(hpkts[x]) + one[s \ {x}]
        BY <4>2, <4>3, <4>4
      <4> QED BY <3>2, <4>5 DEF x
    <3> QED BY <3>1, <3>2
  <2> QED BY <2>1
<1>2. Sums(CHOOSE it : Sums(it))
  BY <1>1
<1>3. MapThenSumSet(LAMBDA h : Len(hpkts[h]), {g}) = (CHOOSE it : Sums(it))[{g}]
  BY DEF MapThenSumSet, MapThenFoldSet
<1> DEFINE it == CHOOSE i : Sums(i)
<1>4. Sums(it) /\ MapThenSumSet(LAMBDA h : Len(hpkts[h]), {g}) = it[{g}]
  BY <1>2, <1>3
<1> HIDE DEF it
<1>5. it[{}] = 0
  BY <1>4
<1>6. it[{g}] = Len(hpkts[g]) + it[{}]
  <2>1. (CHOOSE y \in {g} : TRUE) = g /\ {g} \ {g} = {} /\ {g} # {}
    OBVIOUS
  <2> DEFINE x == CHOOSE y \in {g} : TRUE
  <2>2. it[{g}] = Len(hpkts[x]) + it[{g} \ {x}]
    BY <1>4
  <2>3. x = g
    BY <2>1
  <2> HIDE DEF x
  <2>4. {g} \ {x} = {} /\ Len(hpkts[x]) = Len(hpkts[g])
    BY <2>3
  <2> QED BY <2>2, <2>4
<1>7. it[{g}] = Len(hpkts[g])
  BY <1>5, <1>6
<1> QED BY <1>4, <1>7

LEMMA HandlersSum ==
    ASSUME OneHandler, IInv
    PROVE  MapThenSumSet(LAMBDA h : Len(hpkts[h]), Handlers) = Len(HandlerPkts)
<1>1. CASE Handlers = {}
  <2>1. Len(<<>>) = 0
    OBVIOUS
  <2> QED BY <1>1, <2>1, SumOverNone DEF HandlerPkts
<1>2. CASE Handlers # {}
  <2>1. PICK g \in Handlers : TRUE
    BY <1>2
  <2>2. Handlers = {g}
    BY <2>1 DEF OneHandler
  <2>3. Len(hpkts[g]) \in Nat
    BY <2>1 DEF IInv, TypeOK
  <2>4. HandlerPkts = hpkts[g]
    BY <2>1, TheHandler
  <2> QED BY <2>2, <2>3, <2>4, SumOverOne
<1> QED BY <1>1, <1>2

-----------------------------------------------------------------------------
(* What the invariants say of HoldersAgree.                                *)

LEMMA OwnsItsBds ==
    ASSUME IInv, WalkInv
    PROVE  HwOwnsItsBds
<1> SUFFICES ASSUME regs.enabled
             PROVE  {i \in HwGroup : ~Completed(i)} =
                        IF HwBusy
                        THEN BdSet(regs.NEXT_BD, WalkLength(regs.NEXT_BD, regs.SW_NEXT_BD))
                        ELSE {}
  BY DEF HwOwnsItsBds
<1> DEFINE e == ring.HwCnt
           h == ring.HwHead
           At(k) == Dma_mRingSeekahead(h, k)
<1>0. /\ e \in 0 .. N /\ e \in Nat /\ h \in BdIndex /\ N \in Nat /\ (e < N \/ e = 0)
  BY StateNow, GroupInRing
<1>1. PICK c \in 0 .. e : WalkedTo(ring, bd, regs, c)
  BY DEF WalkInv, Walked
<1>2. /\ regs.NEXT_BD = At(c) /\ regs.SW_NEXT_BD = At(e)
      /\ \A k \in 0 .. e - 1 : Completed(At(k)) <=> k < c
  BY <1>1, TailFollows DEF WalkInv, WalkedTo, HwBd, Completed
<1>3. HwGroup = BdSet(h, e) /\ HwGroup \subseteq BdIndex
  <2>1. \A k \in 0 .. e - 1 : k \in 0 .. N
    BY <1>0
  <2>2. \A k \in 0 .. e - 1 : At(k) \in BdIndex
    BY <1>0, <2>1, SeekInRing
  <2> QED BY <2>2 DEF HwGroup, BdSet
<1> HIDE DEF e, h
<1>4. ASSUME NEW i \in BdIndex
      PROVE  i \in HwGroup /\ ~Completed(i) <=> i \in BdSet(At(c), e - c)
  <2> DEFINE o == Offset(h, i)
  <2>1. o \in 0 .. N - 1 /\ At(o) = i
    BY <1>0, PositionOf
  <2> HIDE DEF o
  <2>2. /\ c \in 0 .. N /\ e - c \in 0 .. N /\ c + (e - c) <= N
        /\ (o \in c .. c + (e - c) - 1 <=> o < e /\ ~(o < c))
    BY <1>0, <1>1, <2>1
  <2>3. At(o) \in BdSet(At(c), e - c) <=> o < e /\ ~(o < c)
    BY <1>0, <2>1, <2>2, SetByPosition
  <2>4. At(o) \in BdSet(h, e) <=> o < e
    BY <1>0, <2>1, SetFromHead
  <2>5. o < e => (Completed(At(o)) <=> o < c)
    <3>1. o < e => o \in 0 .. e - 1
      BY <1>0, <2>1
    <3> QED BY <1>2, <3>1
  <2> HIDE DEF At
  <2> QED BY <1>3, <2>1, <2>3, <2>4, <2>5
<1>5. BdSet(At(c), e - c) \subseteq BdIndex
  <2>1. At(c) \in BdIndex /\ \A k \in 0 .. (e - c) - 1 : k \in 0 .. N
    BY <1>0, <1>1, SeekInRing
  <2>2. \A k \in 0 .. (e - c) - 1 : Dma_mRingSeekahead(At(c), k) \in BdIndex
    BY <2>1, SeekInRing
  <2> QED BY <2>2 DEF BdSet
<1>6. {i \in HwGroup : ~Completed(i)} = BdSet(At(c), e - c)
  BY <1>3, <1>4, <1>5
<1>7. CASE HwBusy
  <2>1. c # e
    BY <1>2, <1>7 DEF HwBusy
  <2>2. /\ e - c \in 1 .. N /\ c \in 0 .. N /\ e - c \in 0 .. N /\ c + (e - c) = e
        /\ c + (e - c) <= N
    BY <1>0, <1>1, <2>1
  <2>3. At(c) \in BdIndex
    BY <1>0, <2>2, SeekInRing
  <2>4. Dma_mRingSeekahead(At(c), e - c) = At(e)
    BY <1>0, <2>2, SeekAdds
  <2>5. WalkLength(At(c), At(e)) = e - c
    BY <2>2, <2>3, <2>4, WalkIsCount
  <2> QED BY <1>2, <1>6, <1>7, <2>5
<1>8. CASE ~HwBusy
  <2>1. At(c) = At(e)
    BY <1>2, <1>8 DEF HwBusy
  <2>2. c = e
    <3>1. CASE e = 0
      BY <1>1, <3>1
    <3>2. CASE e < N
      <4>1. c \in 0 .. N - 1 /\ e \in 0 .. N - 1
        BY <1>0, <1>1, <3>2
      <4> QED BY <1>0, <2>1, <4>1, PositionsApart
    <3> QED BY <1>0, <3>1, <3>2
  <2>3. BdSet(At(c), e - c) = {}
    BY <1>0, <2>2 DEF BdSet
  <2> QED BY <1>6, <1>8, <2>3
<1> QED BY <1>7, <1>8

LEMMA LoadedIsGroup ==
    ASSUME IInv, GroupInv, MemInv, OrderInv, HandleSet
    PROVE  LoadedBds = HwGroup /\ Cardinality(LoadedBds) = ring.HwCnt
<1> DEFINE e == ring.HwCnt
           h == ring.HwHead
           At(k) == Dma_mRingSeekahead(h, k)
<1>0. /\ e \in 0 .. N /\ e \in Nat /\ h \in BdIndex /\ N \in Nat /\ (e < N \/ e = 0)
      /\ bufs \in PoolType
  BY StateNow, GroupInRing
<1>1. /\ Len(HandlerPkts) \in Nat
      /\ \A k \in 0 .. e - 1 : bd[At(k)].id = Pos(bufs, Len(HandlerPkts) + k)
      /\ \A k \in e .. N - 1 : bd[At(k)].id = NULL
  BY PktsLengths DEF OrderInv, HeldInOrder, HwBd, Lengths
<1>2. \A k \in 0 .. e - 1 : bd[At(k)].id # NULL
  <2> SUFFICES ASSUME NEW k \in 0 .. e - 1 PROVE bd[At(k)].id # NULL
    OBVIOUS
  <2>1. Len(HandlerPkts) + k \in Nat
    BY <1>0, <1>1
  <2>2. Pos(bufs, Len(HandlerPkts) + k) \in BufIndex
    BY <1>0, <2>1, PosMoves
  <2> QED BY <1>1, <2>2, NULLAssumption
<1>3. e > 0 => space = "live"
  <2>1. e > 0 => upc \in {"running", "send", "trim", "reset"}
    BY <1>0 DEF GroupInv
  <2> QED BY <2>1, LiveWhenUsed
<1> HIDE DEF e, h
<1>4. ASSUME NEW i \in BdIndex
      PROVE  i \in LoadedBds <=> i \in BdSet(h, e)
  <2> DEFINE o == Offset(h, i)
  <2>1. o \in 0 .. N - 1 /\ At(o) = i
    BY <1>0, PositionOf
  <2> HIDE DEF o
  <2>2. At(o) \in BdSet(h, e) <=> o < e
    BY <1>0, <2>1, SetFromHead
  <2>3. CASE o < e
    <3>1. o \in 0 .. e - 1 /\ e > 0
      BY <1>0, <2>1, <2>3
    <3>2. space = "live" /\ bd[At(o)].id # NULL
      BY <1>2, <1>3, <3>1
    <3> HIDE DEF At
    <3> QED BY <2>1, <2>2, <2>3, <3>2 DEF LoadedBds
  <2>4. CASE ~(o < e)
    <3>1. o \in e .. N - 1
      BY <1>0, <2>1, <2>4
    <3>2. bd[At(o)].id = NULL
      BY <1>1, <3>1
    <3> HIDE DEF At
    <3> QED BY <2>1, <2>2, <2>4, <3>2 DEF LoadedBds
  <2> QED BY <2>3, <2>4
<1>5. BdSet(h, e) \subseteq BdIndex
  <2>1. \A k \in 0 .. e - 1 : k \in 0 .. N
    BY <1>0
  <2>2. \A k \in 0 .. e - 1 : At(k) \in BdIndex
    BY <1>0, <2>1, SeekInRing
  <2> QED BY <2>2 DEF BdSet
<1>6. LoadedBds = BdSet(h, e)
  BY <1>4, <1>5 DEF LoadedBds
<1>7. Cardinality(BdSet(h, e)) = e
  <2> DEFINE f == [j \in 1 .. e |-> At(j - 1)]
  <2>1. \A j \in 1 .. e : j - 1 \in 0 .. e - 1 /\ j - 1 \in 0 .. N - 1
    BY <1>0
  <2>2. \A j \in 1 .. e : f[j] \in BdSet(h, e)
    BY <2>1 DEF BdSet
  <2>3. ASSUME NEW j \in 1 .. e, NEW k \in 1 .. e, f[j] = f[k] PROVE j = k
    <3>1. At(j - 1) = At(k - 1)
      BY <2>3
    <3>2. j - 1 = k - 1
      BY <1>0, <2>1, <3>1, PositionsApart
    <3> QED BY <3>2
  <2>4. ASSUME NEW i \in BdSet(h, e) PROVE \E j \in 1 .. e : f[j] = i
    <3>1. PICK k \in 0 .. e - 1 : i = At(k)
      BY DEF BdSet
    <3>2. k + 1 \in 1 .. e /\ (k + 1) - 1 = k
      BY <1>0, <3>1
    <3>3. f[k + 1] = i
      BY <3>1, <3>2
    <3> QED BY <3>2, <3>3
  <2>5. f \in Bijection(1 .. e, BdSet(h, e))
    <3>1. f \in [1 .. e -> BdSet(h, e)]
      BY <2>2
    <3>2. DOMAIN f = 1 .. e
      OBVIOUS
    <3> HIDE DEF f
    <3>3. \A j, k \in 1 .. e : f[j] = f[k] => j = k
      BY <2>3
    <3>4. \A i \in BdSet(h, e) : \E j \in 1 .. e : f[j] = i
      BY <2>4
    <3>5. f \in Surjection(1 .. e, BdSet(h, e))
      BY <3>1, <3>4, Zenon DEF Surjection
    <3>6. f \in Injection(1 .. e, BdSet(h, e))
      BY <3>1, <3>2, <3>3, Zenon DEF Injection, IsInjective
    <3> QED BY <3>5, <3>6, Zenon DEF Bijection
  <2> QED BY <1>0, <2>5, FS_CountingElements DEF ExistsBijection
<1> QED BY <1>6, <1>7 DEF HwGroup, e, h

\* The buffers the handlers hold.
LEMMA HandlersHold ==
    ASSUME OneHandler, IInv
    PROVE  UNION {{hpkts[h][j].buf : j \in DOMAIN hpkts[h]} : h \in Handlers}
               = {HandlerPkts[j].buf : j \in 1 .. Len(HandlerPkts)}
<1>1. CASE Handlers = {}
  <2>1. HandlerPkts = <<>> /\ Len(<<>>) = 0
    BY <1>1 DEF HandlerPkts
  <2>2. {HandlerPkts[j].buf : j \in 1 .. Len(HandlerPkts)} = {}
    BY <2>1
  <2>3. UNION {{hpkts[h][j].buf : j \in DOMAIN hpkts[h]} : h \in Handlers} = {}
    BY <1>1
  <2> QED BY <2>2, <2>3
<1>2. CASE Handlers # {}
  <2>1. PICK g \in Handlers : TRUE
    BY <1>2
  <2>2. Handlers = {g}
    BY <2>1 DEF OneHandler
  <2>3. HandlerPkts = hpkts[g]
    BY <2>1, TheHandler
  <2>4. DOMAIN hpkts[g] = 1 .. Len(hpkts[g])
    BY <2>1 DEF IInv, TypeOK
  <2> QED BY <2>2, <2>3, <2>4
<1> QED BY <1>1, <1>2

LEMMA MatchesHeld ==
    ASSUME OneHandler, IInv, GroupInv, MemInv, OrderInv
    PROVE  PoolMatchesHeld
<1> SUFFICES ASSUME HandleSet
             PROVE  HeldBufs = Allocated(bufs) /\ HeldCount = bufs.AllocNum
  BY DEF PoolMatchesHeld
<1> DEFINE e == ring.HwCnt
           h == ring.HwHead
           P == HandlerPkts
           H == Len(P)
           V == Len(upkts)
           S == Len(ulist) - usent
           At(k) == Dma_mRingSeekahead(h, k)
<1>0. /\ e \in Nat /\ H \in Nat /\ V \in Nat /\ S \in Nat /\ Len(ulist) \in Nat /\ usent \in Nat
      /\ usent + S = Len(ulist)
  <2>1. Lengths(P, upkts, ulist, usent)
    BY PktsLengths
  <2>2. e \in 0 .. N
    BY RingNow
  <2> QED BY <2>1, <2>2 DEF Lengths
<1>1. /\ bufs.AllocNum = H + e + V + S
      /\ \A j \in 1 .. H : P[j].buf = Pos(bufs, j - 1)
      /\ \A k \in 0 .. e - 1 : bd[At(k)].id = Pos(bufs, H + k)
      /\ \A j \in 1 .. V : upkts[j].buf = Pos(bufs, H + e + (j - 1))
      /\ \A j \in 1 .. S : ulist[usent + j].buf = Pos(bufs, H + e + V + (j - 1))
  BY DEF OrderInv, HeldInOrder, HwBd
<1>2. LoadedBds = {At(k) : k \in 0 .. e - 1} /\ Cardinality(LoadedBds) = e
  BY LoadedIsGroup DEF HwGroup, BdSet
<1>3. DOMAIN upkts = 1 .. V
  BY DEF IInv, TypeOK
<1>4. MapThenSumSet(LAMBDA g : Len(hpkts[g]), Handlers) = H
  BY HandlersSum
<1>5. HeldCount = e + H + V + S
  BY <1>2, <1>4, Zenon DEF HeldCount
<1>6. HeldBufs = {bd[i].id : i \in LoadedBds} \cup {P[j].buf : j \in 1 .. H}
                   \cup {upkts[j].buf : j \in 1 .. V}
                   \cup {ulist[j].buf : j \in usent+1 .. Len(ulist)}
  BY <1>3, HandlersHold DEF HeldBufs
<1> HIDE DEF e, h, P, H, V, S, At
<1>7. Allocated(bufs) = {Pos(bufs, x) : x \in 0 .. (H + e + V + S) - 1}
  <2>1. 0 .. bufs.AllocNum - 1 = 0 .. (H + e + V + S) - 1
    BY <1>1
  <2>2. Allocated(bufs) = {Pos(bufs, x) : x \in 0 .. bufs.AllocNum - 1}
    BY DEF Allocated, Pos
  <2> QED BY <2>1, <2>2
<1>8. {P[j].buf : j \in 1 .. H} = {Pos(bufs, x) : x \in 0 .. H - 1}
  <2>1. \A x \in 0 .. H - 1 : x + 1 \in 1 .. H /\ (x + 1) - 1 = x
    BY <1>0
  <2>2. \A j \in 1 .. H : j - 1 \in 0 .. H - 1
    BY <1>0
  <2> QED BY <1>1, <2>1, <2>2
<1>9. {bd[i].id : i \in LoadedBds} = {Pos(bufs, x) : x \in H .. H + e - 1}
  <2>1. \A x \in H .. H + e - 1 : x - H \in 0 .. e - 1 /\ H + (x - H) = x
    BY <1>0
  <2>2. \A k \in 0 .. e - 1 : H + k \in H .. H + e - 1
    BY <1>0
  <2> QED BY <1>1, <1>2, <2>1, <2>2
<1>10. {upkts[j].buf : j \in 1 .. V} = {Pos(bufs, x) : x \in H + e .. H + e + V - 1}
  <2>1. \A x \in H + e .. H + e + V - 1 : /\ x - (H + e) + 1 \in 1 .. V
                                          /\ H + e + ((x - (H + e) + 1) - 1) = x
    BY <1>0
  <2>2. \A j \in 1 .. V : H + e + (j - 1) \in H + e .. H + e + V - 1
    BY <1>0
  <2> QED BY <1>1, <2>1, <2>2
<1>11. {ulist[j].buf : j \in usent+1 .. Len(ulist)}
          = {Pos(bufs, x) : x \in H + e + V .. (H + e + V + S) - 1}
  <2>1. \A x \in H + e + V .. (H + e + V + S) - 1 :
            /\ x - (H + e + V) + 1 \in 1 .. S /\ H + e + V + ((x - (H + e + V) + 1) - 1) = x
            /\ usent + (x - (H + e + V) + 1) \in usent+1 .. Len(ulist)
    BY <1>0
  <2>2. \A j \in usent+1 .. Len(ulist) :
            /\ j - usent \in 1 .. S /\ usent + (j - usent) = j
            /\ H + e + V + ((j - usent) - 1) \in H + e + V .. (H + e + V + S) - 1
    BY <1>0
  <2>3. ASSUME NEW j \in usent+1 .. Len(ulist)
        PROVE  \E x \in H + e + V .. (H + e + V + S) - 1 : ulist[j].buf = Pos(bufs, x)
    <3>1. ulist[usent + (j - usent)].buf = Pos(bufs, H + e + V + ((j - usent) - 1))
      BY <1>1, <2>2
    <3> QED BY <2>2, <3>1
  <2>4. ASSUME NEW x \in H + e + V .. (H + e + V + S) - 1
        PROVE  \E j \in usent+1 .. Len(ulist) : ulist[j].buf = Pos(bufs, x)
    <3>1. ulist[usent + (x - (H + e + V) + 1)].buf
            = Pos(bufs, H + e + V + ((x - (H + e + V) + 1) - 1))
      BY <1>1, <2>1
    <3> QED BY <2>1, <3>1
  <2> QED BY <2>3, <2>4
<1>12. 0 .. (H + e + V + S) - 1 = (0 .. H - 1) \cup (H .. H + e - 1)
            \cup (H + e .. H + e + V - 1) \cup (H + e + V .. (H + e + V + S) - 1)
  BY <1>0
<1>13. HeldBufs = Allocated(bufs)
  BY <1>6, <1>7, <1>8, <1>9, <1>10, <1>11, <1>12
<1>14. HeldCount = bufs.AllocNum
  BY <1>0, <1>1, <1>5
<1> QED BY <1>13, <1>14

LEMMA LeftEmpty ==
    ASSUME IInv, GroupInv, OrderInv
    PROVE  RingLeftEmpty
<1> SUFFICES ASSUME upc \in {"detach", "unregistered"}
             PROVE  ring.FreeCnt = ring.AllCnt /\ \A i \in BdIndex : bd[i].id = NULL
  BY DEF RingLeftEmpty
<1>0. /\ ring \in RingType /\ Tiled(ring) /\ ring.HwHead \in BdIndex
  BY RingNow
<1>1. ring.PreCnt = 0 /\ ring.PostCnt = 0 /\ ring.HwCnt = 0
  BY DEF GroupInv
<1>2. ring.FreeCnt = ring.AllCnt
  BY <1>0, <1>1 DEF Tiled, RingType
<1>3. \A k \in 0 .. N - 1 : HwBd(ring, bd, k).id = NULL
  BY <1>1 DEF OrderInv, HeldInOrder
<1>4. ASSUME NEW i \in BdIndex PROVE bd[i].id = NULL
  <2>1. /\ Offset(ring.HwHead, i) \in 0 .. N - 1
        /\ Dma_mRingSeekahead(ring.HwHead, Offset(ring.HwHead, i)) = i
    BY <1>0, PositionOf
  <2> QED BY <1>3, <2>1 DEF HwBd
<1> QED BY <1>2, <1>4

\* Everything the holders' agreement rests on.
HoldersInv == SetInv /\ MemInv /\ WalkInv /\ OrderInv

LEMMA HoldersStep ==
    ASSUME OneHandler, KeepsItsRing, IInv, IInv', HoldersInv, [Next]_vars
    PROVE  HoldersInv'
<1>1. NoLateRefill
  BY DEF KeepsItsRing, NoLateRefill
<1>2. SetInv /\ MemInv /\ WalkInv /\ OrderInv
  BY DEF HoldersInv
<1>3. SetInv' /\ MemInv' /\ WalkInv' /\ OrderInv'
  BY <1>1, <1>2, SetStep, MemStep, WalkStep, OrderStep
<1> QED BY <1>3 DEF HoldersInv

\* The pool, the BDs and the hardware agree on who holds what, through
\* registration, use and unregistration, for every size of ring and pool.
THEOREM HoldersStayAgreed ==
    ASSUME OneHandler, KeepsItsRing
    PROVE  Spec => []HoldersAgree
<1>1. Init => HoldersInv
  BY SetInit, WalkInit, OrderInit DEF HoldersInv
<1>2. IInv /\ IInv' /\ HoldersInv /\ [Next]_vars => HoldersInv'
  BY HoldersStep
<1>3. Spec => []IInv
  BY Invariance
<1>4. Spec => []HoldersInv
  BY <1>1, <1>2, <1>3, PTL DEF Spec
<1>5. IInv /\ HoldersInv => HoldersAgree
  <2> SUFFICES ASSUME IInv, HoldersInv PROVE HoldersAgree
    OBVIOUS
  <2>1. SetInv /\ GroupInv /\ MemInv /\ WalkInv /\ OrderInv
    BY DEF HoldersInv, SetInv
  <2>2. HwOwnsItsBds
    BY <2>1, OwnsItsBds
  <2>3. PoolMatchesHeld
    BY <2>1, MatchesHeld
  <2>4. NoMemFault
    BY <2>1 DEF MemInv, NoMemFault
  <2>5. RingLeftEmpty
    BY <2>1, LeftEmpty
  <2> QED BY <2>2, <2>3, <2>4, <2>5 DEF HoldersAgree
<1> QED BY <1>3, <1>4, <1>5, PTL
=============================================================================
