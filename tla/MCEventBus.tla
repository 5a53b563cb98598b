----------------------------- MODULE MCEventBus -----------------------------
(***************************************************************************)
(* Two generations of one plugin: the first has two handlers, the second   *)
(* one.  All interleave on one event.                                      *)
(***************************************************************************)
EXTENDS EventBus

CONSTANTS a, b, c, g1, g2, plug

MCGenOf == (a :> g1) @@ (b :> g1) @@ (c :> g2)
MCPluginOf == (g1 :> plug) @@ (g2 :> plug)
=============================================================================
