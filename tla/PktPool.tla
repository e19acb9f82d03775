------------------------------- MODULE PktPool -------------------------------
(***************************************************************************)
(* The packet pools of xdma_base.c: packet arrays on a linked list, lent   *)
(* to whoever passes packets between the drivers.  DQPool unlinks the head *)
(* without testing it, EQPool links in after the tail; once the list has   *)
(* been empty the tail is no longer on it and the list is lost.            *)
(*                                                                         *)
(* A borrower is a context that may have a pool: a handler (poll_routine,  *)
(* or IntrBH) in PktHandler, or a thread in descriptor_free.  Each has one *)
(* at a time: PktHandler returns its pool before DmaSetupRecvBuffers takes *)
(* another.                                                                *)
(***************************************************************************)
EXTENDS Naturals, Sequences, FiniteSets

CONSTANTS
    MAX_POOL,   \* 10 in the code
    Borrowers,  \* two handlers and, for two user drivers, two threads
    NULL

Pools == 0 .. MAX_POOL - 1

ASSUME PoolsAssumption == MAX_POOL \in Nat /\ NULL \notin Pools
ASSUME BorrowersAssumption ==
    IsFiniteSet(Borrowers) /\ Cardinality(Borrowers) < MAX_POOL

VARIABLES next, pktPoolHead, pktPoolTail, held

vars == <<next, pktPoolHead, pktPoolTail, held>>

\* xdma_probe links the pools in the order of the array.
Init ==
    /\ held = [b \in Borrowers |-> NULL]
    /\ next = [p \in Pools |-> IF p = MAX_POOL - 1 THEN NULL ELSE p + 1]
    /\ pktPoolHead = 0
    /\ pktPoolTail = MAX_POOL - 1

DQPool(b) ==
    /\ held[b] = NULL
    /\ pktPoolHead # NULL       \* otherwise the kernel stops here
    /\ held' = [held EXCEPT ![b] = pktPoolHead]
    /\ pktPoolHead' = next[pktPoolHead]
    /\ UNCHANGED <<next, pktPoolTail>>

\* Mutant: the pool is linked in at the head.
EQPool_AtHead(b) ==
    /\ held[b] # NULL
    /\ next' = [next EXCEPT ![held[b]] = pktPoolHead]
    /\ pktPoolHead' = held[b]
    /\ held' = [held EXCEPT ![b] = NULL]
    /\ UNCHANGED pktPoolTail

\* Mutant: the tail is moved before the last pool has been linked to the new one.
EQPool_TailFirst(b) ==
    /\ held[b] # NULL
    /\ pktPoolTail' = held[b]
    /\ next' = [next EXCEPT ![held[b]] = NULL]
    /\ held' = [held EXCEPT ![b] = NULL]
    /\ UNCHANGED pktPoolHead

EQPool(b) ==
    /\ held[b] # NULL
    /\ next' = [next EXCEPT ![pktPoolTail] = held[b], ![held[b]] = NULL]
    /\ pktPoolTail' = held[b]
    /\ held' = [held EXCEPT ![b] = NULL]
    /\ UNCHANGED pktPoolHead

Next == \E b \in Borrowers : DQPool(b) \/ EQPool(b)

Spec == Init /\ [][Next]_vars

-----------------------------------------------------------------------------
HeldPools == {held[b] : b \in Borrowers} \ {NULL}

Lists == UNION {[1 .. n -> Pools] : n \in 1 .. MAX_POOL}

\* s is the list: what is reached from the head, up to the tail.
Linked(s) ==
    /\ s # <<>>
    /\ pktPoolHead = s[1]
    /\ pktPoolTail = s[Len(s)]
    /\ \A k \in 1 .. Len(s) - 1 : next[s[k]] = s[k+1]
    /\ next[s[Len(s)]] = NULL

NoRepeats(s) == \A j, k \in 1 .. Len(s) : s[j] = s[k] => j = k

\* The list holds just the pools that nobody has.
FreeList(s) ==
    /\ NoRepeats(s)
    /\ Linked(s)
    /\ {s[k] : k \in 1 .. Len(s)} = Pools \ HeldPools

TypeOK ==
    /\ next \in [Pools -> Pools \cup {NULL}]
    /\ pktPoolHead \in Pools \cup {NULL}
    /\ pktPoolTail \in Pools
    /\ held \in [Borrowers -> Pools \cup {NULL}]

\* "pktPoolHead is NULL. This should never happen": DQPool always finds a
\* pool, because a pool is left when every borrower has one.
NeverEmpty == pktPoolHead # NULL

\* No pool is lost or lent twice, so no two contexts fill the same packet
\* array: the links from the head to the tail hold every pool once but those
\* borrowed, each of which has one borrower.
PoolsAccounted ==
    /\ \A b, c \in Borrowers : held[b] = held[c] /\ held[b] # NULL => b = c
    /\ \E s \in Lists : FreeList(s)

\* The list of DQPool and EQPool is sound: never empty, and no pool lost or
\* lent twice.
ListSound == TypeOK /\ NeverEmpty /\ PoolsAccounted

\* The linked list implements the queue: DQPool takes from its front, EQPool
\* puts at its end, and both leave the rest of it in place.
theFree == CHOOSE s \in Lists : FreeList(s)
Queue == INSTANCE PoolQueue WITH free <- theFree, NoPool <- NULL
ImplementsQueue == Queue!Spec
=============================================================================
