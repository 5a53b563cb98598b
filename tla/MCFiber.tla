------------------------------ MODULE MCFiber ------------------------------
(***************************************************************************)
(* Topologies of Fibers and Scopes for model checking.                     *)
(***************************************************************************)
EXTENDS FiberLifecycle, TLC

CONSTANTS prov, dep, spare, sub, svcA, svcB

\* A provider in the root Scope, a dependent in a Scope below it.
TreeParent == (Root :> NONE) @@ (sub :> Root)
TreeOwner == [x \in Scopes |-> NONE]
TreeScopeOf == (prov :> Root) @@ (dep :> sub)
TreeDeps == (prov :> {}) @@ (dep :> {svcA})
TreeProvides == (prov :> {svcA}) @@ (dep :> {})

\* A plugin that creates a Scope, in which another Fiber is installed.
OwnedOwner == (Root :> NONE) @@ (sub :> prov)

\* Two Fibers of one Scope that depend on each other.
CycleScopeOf == (prov :> sub) @@ (dep :> sub)
CycleDeps == (prov :> {svcB}) @@ (dep :> {svcA})
CycleProvides == (prov :> {svcA}) @@ (dep :> {svcB})

\* The tree with a second provider that can replace the first.
SpareScopeOf == (prov :> Root) @@ (dep :> sub) @@ (spare :> Root)
SpareDeps == (prov :> {}) @@ (dep :> {svcA}) @@ (spare :> {})
RestartProvides == (prov :> {svcA}) @@ (dep :> {svcB}) @@ (spare :> {svcA})
SpareProvides == (prov :> {svcA}) @@ (dep :> {}) @@ (spare :> {svcA})

\* dep depends on prov, and shadows in its own Scope the service prov takes from spare.
ShadowDeps == (prov :> {svcA}) @@ (dep :> {svcB}) @@ (spare :> {})
ShadowProvides == (prov :> {svcB}) @@ (dep :> {svcA}) @@ (spare :> {svcA})

Nothing == <<>>
BootSub == <<sub>>
BootProv == <<prov>>
BootPair == <<prov, dep>>
BootSpare == <<spare, dep>>
=============================================================================
