----------------------------- MODULE MCShutdown -----------------------------
(***************************************************************************)
(* One Fiber that is installed, used and disposed, with a task that its    *)
(* start method or a later call spawns, and one worker, which is the       *)
(* Install, a cancellable worker, or one that registers outside the fence. *)
(***************************************************************************)
EXTENDS Shutdown

CONSTANTS f, t1, w

MCOwnerOf == [t \in Tasks |-> f]
MCKindsOf == [x \in Workers |-> {"Install", "DependencyReconcile", "ReloadTransaction"}]
MCTargetOf == [x \in Workers |-> f]
=============================================================================
