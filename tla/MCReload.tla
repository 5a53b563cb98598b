------------------------------ MODULE MCReload ------------------------------
(* Model-checking instance of Reload: callers are interchangeable. *)
EXTENDS Reload, TLC

Symmetry == Permutations(Callers)
=============================================================================
