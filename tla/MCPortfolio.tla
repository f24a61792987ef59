---------------------------- MODULE MCPortfolio ----------------------------
(* Portfolio on a workspace with a few slugs and two processes. *)
EXTENDS Portfolio, FiniteSets, TLC

MCKinds == {"supersedes", "regresses"}

Symmetry == Permutations(Specs) \cup Permutations(Procs)

\* Enough links for a cycle through all three slugs to be one link away, one
\* slug in the archive, at most two specs at work, two faults or a crash, and one
\* command between its look at the workspace and the lock while another runs.
Bounded == /\ Cardinality(links) <= 2
           /\ Cardinality(archived) <= 1
           /\ faults = 0 \/ crashes = 0
           /\ Cardinality({s \in Specs : stage[s] # "planning"}) <= 2
           /\ Cardinality({r \in Procs : pc[r] \in {"link", "archive", "incident"}}) <= 1

=============================================================================
