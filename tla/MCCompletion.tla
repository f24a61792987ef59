---------------------------- MODULE MCCompletion ----------------------------
(* Small instances of Completion. *)
EXTENDS Completion, FiniteSetsExt, TLC

CONSTANT MaxEffort

Symmetric == Permutations(Procs)

(* What may happen in one run is bounded as a whole, so that every mixture of
   sessions, acknowledgements, nonces, verifies, edits, reopens, commits,
   seconds and crashes up to the bound is reached, not their full product.
   The first session and the first acknowledgement are free.                 *)
Beyond1(n) == IF n > 0 THEN n - 1 ELSE 0
Effort ==
  Beyond1(opened) + Beyond1(acks) + Cardinality(issued) + Len(evidence) + head + clock + crashes
  + Cardinality({p \in Procs : local[p].pc \in {"verify", "append"}})
  + Cardinality({t \in Tasks : attempt[t] > 1}) + Cardinality({t \in Tasks : changed[t] > 0})
  + (IF session # None /\ session.expired THEN 1 ELSE 0)
Bounded == Effort <= MaxEffort
=============================================================================
