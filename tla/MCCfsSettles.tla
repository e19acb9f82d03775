----------------------------- MODULE MCCfsSettles -----------------------------
(***************************************************************************)
(* The scheduler left to itself, with tasks that run on and on.            *)
(***************************************************************************)
EXTENDS MCCfs, TLC

CONSTANTS t1, t2, t3, grpA

Same(S, x) == [s \in S |-> x]

MCCost == Same(RqTasks, 1)

\* Three CPUs in two groups, of which the first has two; one task may not run
\* everywhere.
MCSdTopology == <<{{0, 1}, {2}}, {CPUs}>>
MCCapacity == Same(CPUs, 1024)
MCLoad == Same(Tasks, 1024)
MCLbAllowed == t1 :> {0, 2} @@ t2 :> CPUs @@ t3 :> CPUs

MCTouches == Same(Tasks, {0})

\* Three nodes with a CPU each, the last of them farther away; two tasks of a group
\* that want the same node, and one that may not run on the second node.
MCNodeOf == [c \in CPUs |-> c]
MCFaults == Same({t1, t2}, 0 :> 3 @@ 1 :> 1 @@ 2 :> 2) @@ t3 :> (0 :> 1 @@ 1 :> 0 @@ 2 :> 2)
MCGroup == t1 :> grpA @@ t2 :> grpA @@ t3 :> None
MCAllowed == t1 :> CPUs @@ t2 :> CPUs @@ t3 :> {0, 2}
MCDistance == [n \in Nodes |-> [m \in Nodes |->
                  IF n = m THEN 10 ELSE IF 2 \in {n, m} THEN 30 ELSE 20]]

\* A mapping that is not scanned, and one of two pages that are not aligned.
MCVmas == <<[start |-> 0, end |-> 1, migratable |-> FALSE],
            [start |-> 1, end |-> 3, migratable |-> TRUE]>>
=============================================================================
