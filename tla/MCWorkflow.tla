----------------------------- MODULE MCWorkflow -----------------------------
(* Workflow with two tasks, the second of which depends on the first.        *)
EXTENDS Workflow

CONSTANTS t1, t2

Two == {t1, t2}
Chain == [t \in Two |-> IF t = t1 THEN {t2} ELSE {}]
=============================================================================
