----------------------------- MODULE MCSpecLock -----------------------------
(* SpecLock with one goroutine in each of two processes.                     *)
EXTENDS SpecLock

CONSTANTS a, c, P, Q

Shared == [t \in Threads |-> IF t = c THEN Q ELSE P]
Duo == {a, c}
=============================================================================
