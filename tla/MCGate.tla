------------------------------- MODULE MCGate -------------------------------
(* Model-checking instance of Gate.  The run checks liveness too, so the     *)
(* interchangeable threads and generations are not identified by symmetry.   *)
EXTENDS Gate, TLC
=============================================================================
