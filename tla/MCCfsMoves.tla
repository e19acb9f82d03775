------------------------------ MODULE MCCfsMoves ------------------------------
(***************************************************************************)
(* The scheduler while tasks sleep, wake up, move and end.                 *)
(***************************************************************************)
EXTENDS MCCfs, TLC

CONSTANTS t1, t2, t3, grpA

Same(S, x) == [s \in S |-> x]

\* Two runqueues, whose min_vruntime runs over.
MCCost == Same(RqTasks, 1)

\* Three CPUs in two groups, of which the first has two; one of the tasks may
\* not run everywhere.
MCSdTopology == <<{{0, 1}, {2}}, {CPUs}>>
MCCapacity == Same(CPUs, 1024)
MCLoad == Same(Tasks, 1024)
MCLbAllowed == t1 :> {0, 2} @@ t2 :> CPUs

\* The memory of t1 is on the other node than that of the others.
MCTouches == t1 :> {0} @@ t2 :> {1} @@ t3 :> {1}

\* Two nodes with two CPUs and one; a group of two tasks, and one task that may
\* not leave its cpuset.
MCNodeOf == [c \in CPUs |-> c % 2]
MCFaults == t1 :> (0 :> 2 @@ 1 :> 3) @@ t2 :> (0 :> 3 @@ 1 :> 1) @@ t3 :> (0 :> 1 @@ 1 :> 2)
MCGroup == t1 :> grpA @@ t2 :> grpA @@ t3 :> None
MCAllowed == t1 :> CPUs @@ t2 :> CPUs @@ t3 :> {0, 2}
MCDistance == [n \in Nodes |-> [m \in Nodes |-> IF n = m THEN 10 ELSE 20]]

MCVmas == <<[start |-> 0, end |-> 1, migratable |-> TRUE]>>
=============================================================================
