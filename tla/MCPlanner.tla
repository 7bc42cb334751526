------------------------------ MODULE MCPlanner ------------------------------
(***************************************************************************)
(* Values of Planner's constants for TLC.                                  *)
(***************************************************************************)
EXTENDS Planner, TLC

CONSTANTS t1, t2, t3, a1, a2

\* Every graph over the tasks, and one with a dependency nobody knows.
Graphs == [Task -> SUBSET Task]
             \cup {[t \in Task |-> IF t = t1 THEN {UnknownTask} ELSE {}]}

\* All tasks for one agent, or t3 for another one.
Assignments == {[t \in Task |-> a1], [t \in Task |-> IF t = t3 THEN a2 ELSE a1]}

AnyPlan == {[deps |-> d, agent |-> a] : d \in Graphs, a \in Assignments}
=============================================================================
