----------------------------- MODULE MCDelivery -----------------------------
(* Delivery with two processes and one crash. *)
EXTENDS Delivery, TLC

Symmetry == Permutations(Procs) \cup Permutations(Heads)

\* Three lines in the ledgers together, one conflict and two submissions that
\* succeed.  Submissions read and write nothing the other commands do, so they
\* are explored apart from them.
Bounded == /\ Len(releases.lines) + Len(deployments.lines) <= 3
           /\ Len(submissions.lines) <= 2
           /\ Cardinality(conflicts) <= 1
           /\ \A h \in Heads : fired[h][TRUE] + fired[h][FALSE] <= 2
           /\ \/ releases = Empty /\ \A r \in Procs : pc[r] \notin {"release", "freeze"}
              \/ submissions = Empty /\ \A r \in Procs : pc[r] \notin {"submit", "record"}

=============================================================================
