---------------------------- MODULE TaskFrontier ----------------------------
(* The frontier next, drive and the brain hand out (core/frontier.go), over rows
   and markers that change as in module Clarification.  What a cycle is, is said
   here of sets of rows; that the walks of core/dag.go find exactly these is in
   module Handout.                                                           *)
EXTENDS Clarification

\* No rows wait for each other: in every set of rows there is one that depends
\* on none of the set.
NoLoop ==
    \A S \in SUBSET Present : (\A t \in S : rows[t] \cap S # {}) => S = {}

\* NewTaskDAG accepts the rows.
WellFormed == (\A t \in Present : rows[t] \subseteq Present) /\ NoLoop

\* Mutant: a dependency somebody works on is taken as done.
DependencyWaits_Started(t) == {d \in rows[t] : marker[d] = "pending"}

\* A task waits for the dependencies that are not complete.
DependencyWaits(t) == {d \in rows[t] : marker[d] # "complete"}

\* Pending rows that wait for nothing; questions are no part of it, and it is
\* empty when the graph is not valid.  FrontierExcluding takes the escalated
\* tasks out of it.
Frontier ==
    {t \in Present : WellFormed /\ marker[t] = "pending" /\ DependencyWaits(t) = {}}
FrontierExcluding(escalated) == Frontier \ escalated

\* PendingCompletionBlockers: what is still pending, ready or not.
PendingBlockers == {t \in Present : marker[t] = "pending"}

----------------------------------------------------------------------------
(* Properties. *)

\* Reference: what a row depends on, directly or through others, is in every
\* set of rows that holds its dependencies and those of its members.
Closed(L) == \A d \in L : rows[d] \subseteq L
Below(t) ==
    {d \in Present : \A L \in SUBSET Present : Closed(L) /\ rows[t] \subseteq L => d \in L}

\* Work never stops by itself: on a valid graph, with nothing running, blocked
\* or escalated, there is a task to hand out as long as one is pending, and
\* every task handed out has all that it depends on, at any depth, complete
\* when its dependencies were completed in order.
NeverStalls ==
    /\ WellFormed /\ (\A t \in Present : marker[t] \in {"pending", "complete"})
         => (PendingBlockers # {} => FrontierExcluding({}) # {})
    /\ \A t \in Frontier :
         /\ t \notin Below(t)
         /\ (\A d \in Present : marker[d] = "complete" => \A e \in rows[d] : marker[e] = "complete")
              => \A d \in Below(t) : marker[d] = "complete"
=============================================================================
