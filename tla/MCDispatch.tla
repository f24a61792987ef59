----------------------------- MODULE MCDispatch -----------------------------
(* Constants for TLC's runs of module Dispatch. *)
EXTENDS Dispatch, TLC

\* Nothing tells two tasks or two files apart.
Symmetric == Permutations(Tasks) \cup Permutations(Paths)
=============================================================================
