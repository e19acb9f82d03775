------------------------------- MODULE MCCfsRq -------------------------------
(***************************************************************************)
(* CfsRq for two tasks, of which the second has half the weight of the     *)
(* first.                                                                  *)
(***************************************************************************)
EXTENDS CfsRq

CONSTANTS t1, t2

MCCost == [t \in Tasks |-> IF t = t2 THEN 2 ELSE 1]

\* With one CPU there is nowhere to migrate to: the moves between runqueues are
\* those of MCCfsMoves.
MCNext == Next /\ UNCHANGED cpu

MCSpec == Init /\ [][MCNext]_vars /\ Fairness
=============================================================================
