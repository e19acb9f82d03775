----------------------------- MODULE LossyQueue ------------------------------
(***************************************************************************)
(* What the statistics rings promise: per engine, a queue of samples.  When*)
(* it is full the oldest sample makes room for the new one; a reader gets  *)
(* the oldest that is left, and no sample twice.                           *)
(***************************************************************************)
EXTENDS Naturals, Sequences

CONSTANTS Engines, Readers, Samples, Capacity

VARIABLES
    queue,  \* the samples of each engine
    got     \* what each reader got last: its engine and the sample, or <<>>

Init ==
    /\ queue = [e \in Engines |-> <<>>]
    /\ got = [g \in Readers |-> <<>>]

Put(e, s) ==
    /\ queue' = [queue EXCEPT ![e] =
                    Append(IF Len(@) < Capacity THEN @ ELSE Tail(@), s)]
    /\ UNCHANGED got

Get(g, e) ==
    /\ queue[e] # <<>>
    /\ got' = [got EXCEPT ![g] = <<e, Head(queue[e])>>]
    /\ queue' = [queue EXCEPT ![e] = Tail(@)]

Next == \E e \in Engines : \/ \E s \in Samples : Put(e, s)
                           \/ \E g \in Readers : Get(g, e)

Spec == Init /\ [][Next]_<<queue, got>>
=============================================================================
