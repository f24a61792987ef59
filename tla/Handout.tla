------------------------------- MODULE Handout -------------------------------
(* The two walks of core/dag.go over the rows of tasks.md, which decide whether
   there is a frontier (module TaskFrontier) at all.                         *)
EXTENDS TaskFrontier, FiniteSetsExt

\* Mutant: the path is not shortened when a row is left.
RECURSIVE Visit_KeepsPath(_, _)
Visit_KeepsPath(t, s) ==
    IF s.cycle \/ t \in s.visiting THEN [s EXCEPT !.cycle = TRUE]
    ELSE FoldSet(LAMBDA dep, acc : Visit_KeepsPath(dep, acc),
                 [s EXCEPT !.visiting = @ \cup {t}], rows[t])

\* Rows are visited depth first; `visiting` holds the path to the row.
RECURSIVE Visit(_, _)
Visit(t, s) ==
    IF s.cycle \/ t \in s.visiting THEN [s EXCEPT !.cycle = TRUE]
    ELSE IF t \in s.visited THEN s
    ELSE LET below == FoldSet(LAMBDA dep, acc : Visit(dep, acc),
                              [s EXCEPT !.visiting = @ \cup {t}], rows[t])
         IN IF below.cycle THEN below
            ELSE [below EXCEPT !.visiting = @ \ {t}, !.visited = @ \cup {t}]
DetectCycle ==
    FoldSet(LAMBDA t, acc : Visit(t, acc),
            [cycle |-> FALSE, visiting |-> {}, visited |-> {}], Present).cycle

\* NewTaskDAG accepts the rows.
ValidDAG == (\A t \in Present : rows[t] \subseteq Present) /\ ~DetectCycle

\* The waves, from the rows already placed: the rows no wave takes remain.
RECURSIVE Unplaced(_)
Unplaced(done) ==
    LET wave == {t \in Present \ done : rows[t] \subseteq done}
    IN IF wave = {} THEN Present \ done ELSE Unplaced(done \cup wave)
TopologicalWavesFail == Unplaced({}) # {}

----------------------------------------------------------------------------
(* Properties. *)

\* NewTaskDAG accepts the rows module TaskFrontier takes as well formed, and on
\* every set of rows that names only rows the two ways the code looks for a cycle
\* agree with each other and with what a cycle is, a row below itself: a diamond
\* is none, a row that waits for itself is one, wherever the walk starts.
GraphVerdict ==
    /\ ValidDAG <=> WellFormed
    /\ (\A t \in Present : rows[t] \subseteq Present) =>
        LET cyclic == \E t \in Present : t \in Below(t)
        IN /\ DetectCycle <=> cyclic
           /\ TopologicalWavesFail <=> cyclic
=============================================================================
