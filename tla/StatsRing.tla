------------------------------ MODULE StatsRing ------------------------------
(***************************************************************************)
(* A statistics ring of xdma_base.c: the latest MAX_STATS samples, with    *)
(* the index of the oldest, that of the next, and their number.  poll_stats*)
(* puts, the IGET_*_STATISTICS ioctls take.                                *)
(***************************************************************************)
EXTENDS Naturals, Sequences

CONSTANTS MAX_STATS, Samples   \* 100 in the code; the samples


StatsRings == [slots : [0 .. MAX_STATS - 1 -> Samples], num : 0 .. MAX_STATS,
               read : 0 .. MAX_STATS - 1, write : 0 .. MAX_STATS - 1]

EmptyRing == [slots |-> [k \in 0 .. MAX_STATS - 1 |-> CHOOSE s \in Samples : TRUE],
              num |-> 0, read |-> 0, write |-> 0]

Wrapped(index) == IF index >= MAX_STATS THEN 0 ELSE index

\* Mutant: a full ring keeps its read index.
PutSample_ReadStays(r, s) ==
    [r EXCEPT !.slots[r.write] = s,
              !.write = Wrapped(r.write + 1),
              !.num = IF r.num < MAX_STATS THEN r.num + 1 ELSE r.num]

\* A full ring loses its oldest sample.
PutSample(r, s) ==
    [r EXCEPT !.slots[r.write] = s,
              !.write = Wrapped(r.write + 1),
              !.num = IF r.num < MAX_STATS THEN r.num + 1 ELSE r.num,
              !.read = IF r.num < MAX_STATS THEN r.read ELSE Wrapped(r.read + 1)]

\* The caller has tested num.
TakeSample(r) == [r EXCEPT !.num = r.num - 1, !.read = Wrapped(r.read + 1)]

\* The samples of the ring, the oldest first.
Queued(r) == [k \in 1 .. r.num |-> r.slots[(r.read + k-1) % MAX_STATS]]
=============================================================================
