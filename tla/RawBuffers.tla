----------------------------- MODULE RawBuffers -----------------------------
(***************************************************************************)
(* The buffer pool of the raw data drivers (struct Buffer of sguser.c).    *)
(* The pool never looks at which buffer comes back: allocation moves       *)
(* FreePtr, freeing used buffers moves AllocPtr, and taking back unused    *)
(* ones moves FreePtr back.  It relies on buffers being freed in the order *)
(* they were allocated.  A buffer is its index in origVA.                  *)
(***************************************************************************)
EXTENDS Integers, Sequences

CONSTANT TotalNum   \* buffers InitBuffers could allocate (NUM_BUFS or less)

ASSUME TotalNumAssumption == TotalNum \in Nat \ {0}

BufIndex == 0 .. TotalNum-1

PoolType == [AllocNum : 0 .. TotalNum, FreePtr : BufIndex, AllocPtr : BufIndex]

InitBuffers == [AllocNum |-> 0, FreePtr |-> 0, AllocPtr |-> 0]

Forward(p, n) == (p + n) % TotalNum
Back(p, n)    == (p - n) % TotalNum

\* How many of n calls of AllocBuf succeed, the buffers they return, and the
\* pool they leave.
AllocCount(b, n) == IF n <= TotalNum - b.AllocNum THEN n ELSE TotalNum - b.AllocNum

AllocBufs(b, n) == [i \in 1 .. AllocCount(b, n) |-> Forward(b.FreePtr, i-1)]

AllocBuf(b, n) == [b EXCEPT !.FreePtr = Forward(@, AllocCount(b, n)),
                            !.AllocNum = @ + AllocCount(b, n)]

\* Both loops stop when no buffer is allocated any more.
FreeCount(b, n) == IF n <= b.AllocNum THEN n ELSE b.AllocNum

FreeUsedBuf(b, n) == [b EXCEPT !.AllocPtr = Forward(@, FreeCount(b, n)),
                               !.AllocNum = @ - FreeCount(b, n)]

FreeUnusedBuf(b, n) == [b EXCEPT !.FreePtr = Back(@, FreeCount(b, n)),
                                 !.AllocNum = @ - FreeCount(b, n)]

\* The buffers the pool takes to be allocated.
Allocated(b) == {Forward(b.AllocPtr, i) : i \in 0 .. b.AllocNum-1}
=============================================================================
