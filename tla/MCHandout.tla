------------------------------ MODULE MCHandout ------------------------------
(* Constants for TLC's run of module Handout.  The context a task is handed out
   with is checked by the assumptions of module MCContextPackage.           *)
EXTENDS Handout, MCContextPackage, TLC

\* Nothing tells two tasks or two commands apart.
Symmetric == Permutations(Tasks) \cup Permutations(Commands)
=============================================================================
