--------------------------- MODULE MCBrainSession ---------------------------
(* BrainSession on small instances: tasks that share a file and tasks that do   *)
(* not, with and without a dependency.                                         *)
EXTENDS BrainSession, TLC

CONSTANTS p1, p2

One == {p1}
Two == {p1, p2}
Pair == {1, 2}
Independent == [t \in Tasks |-> {}]
Shared == [t \in Tasks |-> {"f"}]
Disjoint == [t \in Tasks |-> {t}]
PathPerTask == Tasks
OnePath == {"f"}
Symmetry == Permutations(Procs)
=============================================================================
