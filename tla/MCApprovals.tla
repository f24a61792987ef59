---------------------------- MODULE MCApprovals ----------------------------
(* Approvals for model checking: which gates each grant covers. *)
EXTENDS Approvals

\* Every grant may stand for every gate.
All == [g \in Grants |-> Gates]
=============================================================================
