------------------------------ MODULE PoolQueue ------------------------------
(***************************************************************************)
(* What the packet pools promise their users: a queue of packet arrays.    *)
(* Whoever needs one takes it from the front, has it alone, and puts it    *)
(* back at the end.  Nobody ever waits, and nobody finds the queue empty.  *)
(***************************************************************************)
EXTENDS Naturals, Sequences

CONSTANTS Pools, Borrowers, NoPool

VARIABLES
    free,   \* the queue of free pools
    held    \* the pool each borrower has, or NoPool

Init ==
    /\ free \in Seq(Pools)
    /\ \A p \in Pools : \E k \in 1 .. Len(free) : free[k] = p
    /\ \A j, k \in 1 .. Len(free) : free[j] = free[k] => j = k
    /\ held = [b \in Borrowers |-> NoPool]

Take(b) ==
    /\ held[b] = NoPool
    /\ free # <<>>
    /\ held' = [held EXCEPT ![b] = Head(free)]
    /\ free' = Tail(free)

Give(b) ==
    /\ held[b] # NoPool
    /\ free' = Append(free, held[b])
    /\ held' = [held EXCEPT ![b] = NoPool]

Next == \E b \in Borrowers : Take(b) \/ Give(b)

Spec == Init /\ [][Next]_<<free, held>>
=============================================================================
