------------------------------- MODULE Reload -------------------------------
(***************************************************************************)
(* Hot reload of one logical plugin: the reload transaction with its       *)
(* staging Scope, the commit of the prepared dependency, Scope, invocation *)
(* and service revisions around the selector cutover, its rollback, the    *)
(* disposal of the replaced generation, and the service lookups and        *)
(* invocations that run meanwhile.                                         *)
(*                                                                         *)
(* Every Fiber is one generation of the plugin, numbered from 1; 0 is      *)
(* GenerationId::NONE.  The plugin lives in the Scope Target and provides  *)
(* one service, one invocation handler with one middleware, and a child    *)
(* Scope.  Generation g > 1 is installed by transaction g in its own       *)
(* staging Scope g, a hidden child of Target.  A step is one critical      *)
(* section or one atomic access; a lock that is held over several steps is *)
(* read off the step of its holder.  The gate's own steps are in Gate.     *)
(***************************************************************************)
EXTENDS Integers, Sequences, FiniteSets, FiniteSetsExt

CONSTANTS
  MaxGen,    \* generations of the plugin
  Callers,   \* callers of try_get and invoke
  Owners,    \* generations whose Context calls try_get; 0: another Fiber of Target
  MaxCache,  \* RuntimeConfig::max_service_cache_entries
  Plans      \* sets of things others may do meanwhile: "dispose", "scope", "shutdown"

ASSUME ReloadAssumption ==
  /\ MaxGen \in Nat \ {0} /\ MaxCache \in Nat
  /\ Owners \subseteq 0..MaxGen
  /\ Plans \subseteq SUBSET {"dispose", "scope", "shutdown"}

Gens == 1..MaxGen
Txs == 2..MaxGen
Target == 0
Scopes == 0..MaxGen
NoScope == -1

VARIABLES
  open,       \* the AdmissionGate admits
  log,        \* every value the GenerationSelector has had
  retired,    \* generations whose gate is retired
  draining,   \* generations that admit no lease
  state,      \* FiberMutable.state
  home,       \* FiberMutable.scope
  owned,      \* Fibers with reload_owned
  lifecycle,  \* who holds the Fiber's lifecycle mutex
  disposal,   \* step of the Fiber's disposal
  patient,    \* Fibers with persistent_drain
  entry,      \* ServiceRegistry: owner of the service in a Scope
  cache,      \* ServiceRegistry: cached resolution of a requested Scope
  invocation, \* InvocationRegistry: Scope of a generation's handler and middleware
  declared,   \* DependencyGraph: Scope in which the Fiber is a provider
  member,     \* ScopeRegistry: Scope whose list has the Fiber
  child,      \* ScopeRegistry: parent of the Fiber's child Scope
  scope,      \* ScopeRegistry: a Scope's state, and its disposal's work list
  boot,       \* step of the first generation's commit_activation
  pc, old,    \* step of a transaction, and the Fiber it replaces
  outcome,    \* what the transaction reported
  outside,    \* what others have done
  call        \* what a caller is doing

world == <<open, outside>>
gateVars == <<log, retired, draining>>
fiberVars == <<state, home, owned, lifecycle>>
disposalVars == <<disposal, patient>>
serviceVars == <<entry, cache>>
indexVars == <<invocation, declared, member, child>>
txVars == <<pc, old, outcome>>
vars == <<world, gateVars, fiberVars, disposalVars, serviceVars, indexVars, scope, boot,
          txVars, call>>

active == log[Len(log)]
Visible(g) == active = g

(***************************************************************************)
(* Locks held over several steps.                                          *)
(***************************************************************************)
Committing(g) == pc[g] \in {"invocations", "publish", "retire", "services", "finish",
                            "undoInvocations", "undoScope"}
ScopesFree == \A g \in Txs : ~Committing(g)
RecordFree(f) ==
  /\ f \in Txs => ~Committing(f) /\ pc[f] \notin {"providers", "scope", "undoProviders"}
  /\ f = 1 => boot # "published"
ServicesFree == \A g \in Txs : pc[g] \notin {"retire", "services"}
RegistryFree == \A c \in Callers : call[c].pc \notin {"middleware", "handler", "chain"}
AdmissionFree ==
  /\ boot = "ready"
  /\ \A g \in Txs : RecordFree(g) /\ pc[g] \notin {"prepare", "fence"}

NoCall == [pc |-> "idle", kind |-> "get", owner |-> 0, scope |-> Target, path |-> <<>>,
           found |-> 0, middleware |-> 0, attempt |-> 1, from |-> 1]

\* The first generation is registered and not yet published.
Init ==
  /\ open = TRUE
  /\ log = <<0>> /\ retired = {} /\ draining = {}
  /\ state = [f \in Gens |-> IF f = 1 THEN "Starting" ELSE "none"]
  /\ home = [f \in Gens |-> IF f = 1 THEN Target ELSE f]
  /\ owned = {}
  /\ lifecycle = [f \in Gens |-> IF f = 1 THEN "activation" ELSE "free"]
  /\ disposal = [f \in Gens |-> "idle"] /\ patient = {}
  /\ entry = [s \in Scopes |-> IF s = Target THEN 1 ELSE 0]
  /\ cache = [s \in Scopes |-> <<>>]
  /\ invocation = [f \in Gens |-> IF f = 1 THEN Target ELSE NoScope]
  /\ declared = invocation /\ member = invocation /\ child = invocation
  /\ scope = [s \in Scopes |-> [state |-> IF s = Target THEN "Active" ELSE "none",
                                step |-> "idle", kids |-> {}, fibers |-> {}, bad |-> FALSE]]
  /\ boot = "registered"
  /\ pc = [g \in Txs |-> "idle"]
  /\ old = [g \in Txs |-> 0]
  /\ outcome = [g \in Txs |-> "none"]
  /\ outside = {}
  /\ call = [c \in Callers |-> NoCall]

\* ServiceRegistry::bump: the epoch moves and the cache is emptied, so an entry
\* of the cache always has the current epoch.
Bump == cache' = [s \in Scopes |-> <<>>]

(***************************************************************************)
(* commit_activation of the first generation.                              *)
(***************************************************************************)
Publish ==
  /\ boot = "registered"
  /\ boot' = "published"
  /\ log' = Append(log, 1)
  /\ UNCHANGED <<world, retired, draining, fiberVars, disposalVars, serviceVars, indexVars,
                 scope, txVars, call>>

\* Mutant: the epoch is not bumped after the selector names the generation.
PublishNoBump ==
  /\ boot = "published" /\ ServicesFree
  /\ boot' = "ready"
  /\ state' = [state EXCEPT ![1] = "Active"]
  /\ lifecycle' = [lifecycle EXCEPT ![1] = "free"]
  /\ UNCHANGED <<world, gateVars, home, owned, disposalVars, serviceVars, indexVars, scope,
                 txVars, call>>

PublishBump ==
  /\ boot = "published" /\ ServicesFree
  /\ boot' = "ready"
  /\ state' = [state EXCEPT ![1] = "Active"]
  /\ lifecycle' = [lifecycle EXCEPT ![1] = "free"]
  /\ Bump
  /\ UNCHANGED <<world, gateVars, home, owned, disposalVars, entry, indexVars, scope, txVars,
                 call>>

(***************************************************************************)
(* dispose_fiber_observation: the first caller closes the gate.            *)
(***************************************************************************)
Close(f) ==
  /\ retired' = retired \cup {f}
  /\ draining' = draining \cup {f}
  /\ log' = IF Visible(f) THEN Append(log, 0) ELSE log

BeginDisposal(f, persistent) ==
  /\ RecordFree(f)
  /\ owned' = owned \ {f}
  /\ patient' = IF persistent THEN patient \cup {f} ELSE patient
  /\ IF disposal[f] = "idle"
     THEN /\ state' = [state EXCEPT ![f] = "Disposing"]
          /\ disposal' = [disposal EXCEPT ![f] = "begun"]
          /\ Close(f)
     ELSE UNCHANGED <<state, disposal, gateVars>>

DisposalEnded(f) == disposal[f] \in {"complete", "faulty", "terminated"}
Returned(c) == call[c].pc \in {"idle", "held", "absent", "changed"}
Holds(c) == (IF call[c].pc \in {"held", "chain"} THEN {call[c].found} ELSE {})
            \cup (IF call[c].pc = "held" /\ call[c].kind = "invoke"
                  THEN {call[c].middleware} ELSE {})
            \cup (IF ~Returned(c) /\ call[c].owner # 0 THEN {call[c].owner} ELSE {})
Leased(f) == \E c \in Callers : f \in Holds(c)

\* run_fiber_disposal_body, from the lifecycle lock to the end of the drain.
DisposeLock(f) ==
  /\ disposal[f] = "begun" /\ lifecycle[f] = "free"
  /\ disposal' = [disposal EXCEPT ![f] = "draining"]
  /\ lifecycle' = [lifecycle EXCEPT ![f] = "disposal"]
  /\ UNCHANGED <<world, gateVars, state, home, owned, patient, serviceVars, indexVars, scope,
                 boot, txVars, call>>

DisposeDrained(f) ==
  /\ disposal[f] = "draining" /\ ~Leased(f)
  /\ disposal' = [disposal EXCEPT ![f] = "registrations"]
  /\ UNCHANGED <<world, gateVars, fiberVars, patient, serviceVars, indexVars, scope, boot,
                 txVars, call>>

DrainTimesOut(f) ==
  /\ disposal[f] = "draining" /\ Leased(f) /\ f \notin patient
  /\ disposal' = [disposal EXCEPT ![f] = "terminated"]
  /\ lifecycle' = [lifecycle EXCEPT ![f] = "free"]
  /\ UNCHANGED <<world, gateVars, state, home, owned, patient, serviceVars, indexVars, scope,
                 boot, txVars, call>>

\* Child Scopes, then handlers and middleware.
DisposeRegistrations(f) ==
  /\ disposal[f] = "registrations" /\ RegistryFree /\ ScopesFree
  /\ disposal' = [disposal EXCEPT ![f] = "services"]
  /\ child' = [child EXCEPT ![f] = NoScope]
  /\ invocation' = [invocation EXCEPT ![f] = NoScope]
  /\ UNCHANGED <<world, gateVars, fiberVars, patient, serviceVars, declared, member, scope,
                 boot, txVars, call>>

\* The service is removed where the Fiber lives, if the Fiber still owns it.
Removable(f) == entry[home[f]] = f

DisposeServices(f) ==
  /\ disposal[f] = "services" /\ ServicesFree
  /\ disposal' = [disposal EXCEPT ![f] = IF Removable(f) THEN "remove" ELSE "removed"]
  /\ UNCHANGED <<world, gateVars, fiberVars, patient, serviceVars, indexVars, scope, boot,
                 txVars, call>>

RemoveService(f) ==
  /\ disposal[f] = "remove" /\ ServicesFree
  /\ disposal' = [disposal EXCEPT ![f] = "removed"]
  /\ entry' = [entry EXCEPT ![home[f]] = 0]
  /\ Bump
  /\ UNCHANGED <<world, gateVars, fiberVars, patient, indexVars, scope, boot, txVars, call>>

\* The last bump; the lifecycle mutex is given back when the body returns.
DisposeBodyEnds(f) ==
  /\ disposal[f] = "removed" /\ ServicesFree
  /\ disposal' = [disposal EXCEPT ![f] = "finalize"]
  /\ Bump
  /\ lifecycle' = [lifecycle EXCEPT ![f] = "free"]
  /\ UNCHANGED <<world, gateVars, state, home, owned, patient, entry, indexVars, scope, boot,
                 txVars, call>>

\* finalize_fiber_disposal decides on the index cleanup, does it, and publishes.
\* An illegal final transition skips the cleanup and still ends in Disposed.
FinalizeDecides(f) ==
  /\ disposal[f] = "finalize" /\ RecordFree(f)
  /\ disposal' = [disposal EXCEPT ![f] = IF state[f] = "Disposing" THEN "detach" ELSE "skip"]
  /\ UNCHANGED <<world, gateVars, fiberVars, patient, serviceVars, indexVars, scope, boot,
                 txVars, call>>

FinalizeDetaches(f) ==
  /\ disposal[f] = "detach" /\ ScopesFree
  /\ disposal' = [disposal EXCEPT ![f] = "publish"]
  /\ declared' = [declared EXCEPT ![f] = IF @ = home[f] THEN NoScope ELSE @]
  /\ member' = [member EXCEPT ![f] = IF @ = home[f] THEN NoScope ELSE @]
  /\ UNCHANGED <<world, gateVars, fiberVars, patient, serviceVars, invocation, child, scope,
                 boot, txVars, call>>

FinalizePublishes(f) ==
  /\ disposal[f] \in {"publish", "skip"} /\ RecordFree(f)
  /\ disposal' = [disposal EXCEPT ![f] = IF disposal[f] = "skip" THEN "faulty" ELSE "complete"]
  /\ state' = [state EXCEPT ![f] = "Disposed"]
  /\ UNCHANGED <<world, gateVars, home, owned, lifecycle, patient, serviceVars, indexVars,
                 scope, boot, txVars, call>>

DisposeStep(f) ==
  \/ DisposeLock(f) \/ DisposeDrained(f) \/ DisposeRegistrations(f) \/ DisposeServices(f)
  \/ RemoveService(f) \/ DisposeBodyEnds(f)
  \/ FinalizeDecides(f) \/ FinalizeDetaches(f) \/ FinalizePublishes(f)

(***************************************************************************)
(* Disposal of a Scope: its children, then its Fibers, then itself.        *)
(***************************************************************************)
BeginScopeDisposal(s) ==
  /\ ScopesFree
  /\ scope' = IF scope[s].state # "Active" THEN scope
              ELSE [scope EXCEPT ![s].state = "Disposing", ![s].step = "begun"]

ScopeEnded(s) == scope[s].state \in {"Disposed", "Terminated"}

\* dispose_scope_body copies the work list once.
ScopeTraverses(s) ==
  /\ scope[s].step = "begun" /\ ScopesFree
  /\ scope' = [scope EXCEPT ![s].step = "members",
       ![s].kids = {k \in Txs : s = Target /\ scope[k].state \in {"Active", "Disposing"}},
       ![s].fibers = {f \in Gens : member[f] = s}]
  /\ UNCHANGED <<world, gateVars, fiberVars, disposalVars, serviceVars, indexVars, boot,
                 txVars, call>>

ScopeChild(s) ==
  /\ scope[s].step = "members" /\ scope[s].kids # {}
  /\ LET k == Max(scope[s].kids) IN
     \/ scope[k].state = "Active" /\ BeginScopeDisposal(k)
     \/ /\ ScopeEnded(k) /\ ScopesFree
        /\ scope' = [scope EXCEPT ![s].kids = @ \ {k},
                                  ![s].bad = @ \/ scope[k].state = "Terminated"]
  /\ UNCHANGED <<world, gateVars, fiberVars, disposalVars, serviceVars, indexVars, boot,
                 txVars, call>>

ScopeFiber(s) ==
  /\ scope[s].step = "members" /\ scope[s].kids = {} /\ scope[s].fibers # {}
  /\ LET f == Max(scope[s].fibers) IN
     \/ /\ state[f] # "Disposed" /\ ~DisposalEnded(f)
        /\ disposal[f] = "idle" \/ f \in owned
        /\ BeginDisposal(f, FALSE)
        /\ UNCHANGED scope
     \/ /\ state[f] = "Disposed" \/ DisposalEnded(f)
        /\ ScopesFree
        /\ scope' = [scope EXCEPT ![s].fibers = @ \ {f},
                                  ![s].bad = @ \/ disposal[f] \in {"terminated", "faulty"}]
        /\ UNCHANGED <<state, owned, disposalVars, gateVars>>
  /\ UNCHANGED <<world, home, lifecycle, serviceVars, indexVars, boot, txVars, call>>

ScopeFinalizes(s) ==
  /\ scope[s].step = "members" /\ scope[s].kids = {} /\ scope[s].fibers = {} /\ ScopesFree
  /\ scope' = [scope EXCEPT ![s].step = "done",
                            ![s].state = IF scope[s].bad THEN "Terminated" ELSE "Disposed"]
  /\ UNCHANGED <<world, gateVars, fiberVars, disposalVars, serviceVars, indexVars, boot,
                 txVars, call>>

ScopeStep(s) == ScopeTraverses(s) \/ ScopeChild(s) \/ ScopeFiber(s) \/ ScopeFinalizes(s)

(***************************************************************************)
(* The transaction: staging.                                               *)
(***************************************************************************)
Goto(g, step) == pc' = [pc EXCEPT ![g] = step]

\* reload_owned: the Fiber exists and belongs to no other transaction.
ReloadBegin(g) ==
  /\ pc[g] = "idle" /\ open
  /\ \A h \in Txs : h < g => pc[h] # "idle"
  /\ \E f \in Gens :
       /\ state[f] # "none" /\ f \notin owned /\ RecordFree(f)
       /\ old' = [old EXCEPT ![g] = f]
  /\ Goto(g, "wait")
  /\ UNCHANGED <<world, gateVars, fiberVars, disposalVars, serviceVars, indexVars, scope, boot,
                 outcome, call>>

\* Under the lifecycle mutex only an Active Fiber becomes Reloading.
ReloadLock(g) ==
  /\ pc[g] = "wait" /\ lifecycle[old[g]] = "free" /\ RecordFree(old[g])
  /\ IF state[old[g]] = "Active"
     THEN /\ state' = [state EXCEPT ![old[g]] = "Reloading"]
          /\ lifecycle' = [lifecycle EXCEPT ![old[g]] = "reload"]
          /\ Goto(g, "stage")
          /\ UNCHANGED outcome
     ELSE /\ Goto(g, "ended")
          /\ outcome' = [outcome EXCEPT ![g] = "Refused"]
          /\ UNCHANGED <<state, lifecycle>>
  /\ UNCHANGED <<world, gateVars, home, owned, disposalVars, serviceVars, indexVars, scope,
                 boot, old, call>>

CreateStaging(g) ==
  /\ pc[g] = "stage" /\ ScopesFree
  /\ IF open /\ scope[Target].state = "Active"
     THEN scope' = [scope EXCEPT ![g].state = "Active"] /\ Goto(g, "install")
     ELSE UNCHANGED scope /\ Goto(g, "restore")
  /\ UNCHANGED <<world, gateVars, fiberVars, disposalVars, serviceVars, indexVars, boot, old,
                 outcome, call>>

InstallStaged(g) ==
  /\ pc[g] = "install" /\ ScopesFree
  /\ IF open /\ scope[g].state = "Active"
     THEN /\ state' = [state EXCEPT ![g] = "Created"]
          /\ owned' = owned \cup {g}
          /\ member' = [member EXCEPT ![g] = g]
          /\ declared' = [declared EXCEPT ![g] = g]
          /\ Goto(g, "activate")
     ELSE Goto(g, "dropStaging") /\ UNCHANGED <<state, owned, member, declared>>
  /\ UNCHANGED <<world, gateVars, home, lifecycle, disposalVars, serviceVars, invocation, child,
                 scope, boot, old, outcome, call>>

ActivateStaged(g) ==
  /\ pc[g] = "activate" /\ lifecycle[g] = "free"
  /\ IF open /\ state[g] = "Created"
     THEN /\ state' = [state EXCEPT ![g] = "Starting"]
          /\ lifecycle' = [lifecycle EXCEPT ![g] = "activation"]
          /\ Goto(g, "starting")
     ELSE Goto(g, "dropStaging") /\ UNCHANGED <<state, lifecycle>>
  /\ UNCHANGED <<world, gateVars, home, owned, disposalVars, serviceVars, indexVars, scope,
                 boot, old, outcome, call>>

\* The plugin's start registers in the staging Scope.
RegisterStaged(g) ==
  /\ pc[g] = "starting" /\ state[g] = "Starting" /\ g \notin draining
  /\ ServicesFree /\ RegistryFree /\ ScopesFree
  /\ entry' = [entry EXCEPT ![g] = g]
  /\ Bump
  /\ invocation' = [invocation EXCEPT ![g] = g]
  /\ child' = [child EXCEPT ![g] = g]
  /\ Goto(g, "registered")
  /\ UNCHANGED <<world, gateVars, fiberVars, disposalVars, declared, member, scope, boot, old,
                 outcome, call>>

SealStaged(g) ==
  /\ pc[g] = "registered" /\ open /\ state[g] = "Starting"
  /\ Goto(g, "sealed")
  /\ UNCHANGED <<world, gateVars, fiberVars, disposalVars, serviceVars, indexVars, scope, boot,
                 old, outcome, call>>

\* converge_failed_activation, after start or the validation failed or start was cancelled.
FailStaged(g) ==
  /\ lifecycle' = [lifecycle EXCEPT ![g] = "free"]
  /\ BeginDisposal(g, FALSE)
  /\ Goto(g, "failedStart")
  /\ UNCHANGED <<world, home, serviceVars, indexVars, scope, boot, old, outcome, call>>

StartFails(g) == pc[g] \in {"starting", "registered", "sealed"} /\ FailStaged(g)
StartRefused(g) ==
  /\ \/ pc[g] = "starting" /\ state[g] # "Starting"
     \/ pc[g] = "registered" /\ (~open \/ state[g] # "Starting")
  /\ FailStaged(g)

\* A staged activation becomes Active whatever its state is by now.
FinishStaged(g) ==
  /\ pc[g] = "sealed"
  /\ state' = [state EXCEPT ![g] = "Active"]
  /\ lifecycle' = [lifecycle EXCEPT ![g] = "free"]
  /\ Goto(g, "commit")
  /\ UNCHANGED <<world, gateVars, home, owned, disposalVars, serviceVars, indexVars, scope,
                 boot, old, outcome, call>>

StartConverged(g) ==
  /\ pc[g] = "failedStart" /\ DisposalEnded(g)
  /\ Goto(g, "dropStaging")
  /\ UNCHANGED <<world, gateVars, fiberVars, disposalVars, serviceVars, indexVars, scope, boot,
                 old, outcome, call>>

StagingStep(g) ==
  \/ ReloadLock(g) \/ CreateStaging(g) \/ InstallStaged(g) \/ ActivateStaged(g)
  \/ RegisterStaged(g) \/ SealStaged(g) \/ StartRefused(g) \/ FinishStaged(g)
  \/ StartConverged(g)

(***************************************************************************)
(* The transaction: commit_staged_revision.                                *)
(***************************************************************************)
IsStaged(g) == state[g] = "Active" /\ g \notin retired /\ ~Visible(g)
ServicesPrepared(g) == entry[g] = g /\ entry[Target] \in {0, old[g]}
ScopesPrepared(g) ==
  /\ scope[g].state = "Active" /\ scope[Target].state = "Active"
  /\ member[g] = g /\ member[old[g]] = Target /\ child[g] = g

Check(g, at, holds, next) ==
  /\ pc[g] = at
  /\ Goto(g, IF holds THEN next ELSE "dropStaged")
  /\ UNCHANGED <<world, gateVars, fiberVars, disposalVars, serviceVars, indexVars, scope, boot,
                 old, outcome, call>>

CommitBegin(g) ==
  RecordFree(old[g]) /\ Check(g, "commit", open /\ state[old[g]] = "Reloading" /\ IsStaged(g),
                              "prepare")
Prepare(g) ==
  /\ RegistryFree /\ ServicesFree /\ ScopesFree
  /\ Check(g, "prepare", ServicesPrepared(g) /\ ScopesPrepared(g), "fence")
FenceStaged(g) == Check(g, "fence", IsStaged(g), "providers")

MoveProviders(g) ==
  /\ pc[g] = "providers"
  /\ IF declared[g] = g
     THEN declared' = [declared EXCEPT ![g] = Target] /\ Goto(g, "scope")
     ELSE Goto(g, "dropStaged") /\ UNCHANGED declared
  /\ UNCHANGED <<world, gateVars, fiberVars, disposalVars, serviceVars, invocation, member,
                 child, scope, boot, old, outcome, call>>

MoveScope(g) ==
  /\ pc[g] = "scope" /\ ScopesFree
  /\ IF ScopesPrepared(g)
     THEN /\ member' = [member EXCEPT ![g] = Target]
          /\ child' = [child EXCEPT ![g] = Target]
          /\ Goto(g, "invocations")
     ELSE Goto(g, "undoProviders") /\ UNCHANGED <<member, child>>
  /\ UNCHANGED <<world, gateVars, fiberVars, disposalVars, serviceVars, invocation, declared,
                 scope, boot, old, outcome, call>>

\* Mutant: the registrations stay where they were.
CommitRevisionNothing(g, to) == RegistryFree /\ UNCHANGED invocation

\* InvocationRegistry::commit_revision moves the staged registrations.
CommitRevision(g, to) == RegistryFree /\ invocation' = [invocation EXCEPT ![g] = to]

MoveInvocations(g) ==
  /\ pc[g] = "invocations"
  /\ CommitRevision(g, Target)
  /\ Goto(g, "publish")
  /\ UNCHANGED <<world, gateVars, fiberVars, disposalVars, serviceVars, declared, member, child,
                 scope, boot, old, outcome, call>>

\* commit_revision_and_publish: owners again, then the selector's compare-and-swap,
\* which is the commit point.
Switches(g) == g \notin retired /\ Visible(old[g])

Cutover(g) ==
  /\ pc[g] = "publish" /\ ServicesFree
  /\ IF ServicesPrepared(g) /\ Switches(g)
     THEN log' = Append(log, g) /\ Goto(g, "retire")
     ELSE UNCHANGED log /\ Goto(g, "undoInvocations")
  /\ UNCHANGED <<world, retired, draining, fiberVars, disposalVars, serviceVars, indexVars,
                 scope, boot, old, outcome, call>>

RetireOld(g) ==
  /\ pc[g] = "retire"
  /\ retired' = retired \cup {old[g]}
  /\ draining' = draining \cup {old[g]}
  /\ Goto(g, "services")
  /\ UNCHANGED <<world, log, fiberVars, disposalVars, serviceVars, indexVars, scope, boot, old,
                 outcome, call>>

MoveServices(g) ==
  /\ pc[g] = "services"
  /\ entry' = [entry EXCEPT ![g] = 0, ![Target] = g]
  /\ Bump
  /\ Goto(g, "finish")
  /\ UNCHANGED <<world, gateVars, fiberVars, disposalVars, indexVars, scope, boot, old, outcome,
                 call>>

\* Mutant: the Fiber still names its staging Scope.
FinishCommitUnbound(g) ==
  /\ pc[g] = "finish"
  /\ owned' = owned \ {g}
  /\ lifecycle' = [lifecycle EXCEPT ![old[g]] = "free"]
  /\ Goto(g, "cleanup")
  /\ UNCHANGED <<world, gateVars, state, home, disposalVars, serviceVars, indexVars, scope,
                 boot, old, outcome, call>>

\* The committed binding of the Fiber; then the locks are given back.
FinishCommit(g) ==
  /\ pc[g] = "finish"
  /\ home' = [home EXCEPT ![g] = Target]
  /\ owned' = owned \ {g}
  /\ lifecycle' = [lifecycle EXCEPT ![old[g]] = "free"]
  /\ Goto(g, "cleanup")
  /\ UNCHANGED <<world, gateVars, state, disposalVars, serviceVars, indexVars, scope, boot, old,
                 outcome, call>>

UndoInvocations(g) ==
  /\ pc[g] = "undoInvocations"
  /\ CommitRevision(g, g)
  /\ Goto(g, "undoScope")
  /\ UNCHANGED <<world, gateVars, fiberVars, disposalVars, serviceVars, declared, member, child,
                 scope, boot, old, outcome, call>>

UndoScope(g) ==
  /\ pc[g] = "undoScope"
  /\ member' = [member EXCEPT ![g] = g]
  /\ child' = [child EXCEPT ![g] = g]
  /\ Goto(g, "undoProviders")
  /\ UNCHANGED <<world, gateVars, fiberVars, disposalVars, serviceVars, invocation, declared,
                 scope, boot, old, outcome, call>>

\* Mutant: the provider index keeps the revision.
UndoProvidersNot(g) ==
  /\ pc[g] = "undoProviders"
  /\ Goto(g, "dropStaged")
  /\ UNCHANGED <<world, gateVars, fiberVars, disposalVars, serviceVars, indexVars, scope, boot,
                 old, outcome, call>>

UndoProviders(g) ==
  /\ pc[g] = "undoProviders"
  /\ declared' = [declared EXCEPT ![g] = g]
  /\ Goto(g, "dropStaged")
  /\ UNCHANGED <<world, gateVars, fiberVars, disposalVars, serviceVars, invocation, member,
                 child, scope, boot, old, outcome, call>>

CommitStep(g) ==
  \/ CommitBegin(g) \/ Prepare(g) \/ FenceStaged(g) \/ MoveProviders(g) \/ MoveScope(g)
  \/ MoveInvocations(g) \/ Cutover(g) \/ RetireOld(g) \/ MoveServices(g) \/ FinishCommit(g)
  \/ UndoInvocations(g) \/ UndoScope(g) \/ UndoProviders(g)

(***************************************************************************)
(* The transaction: rollback_reload, or the cleanup of the old generation. *)
(***************************************************************************)
DropStaged(g) ==
  /\ pc[g] = "dropStaged"
  /\ BeginDisposal(g, FALSE)
  /\ Goto(g, "stagedWait")
  /\ UNCHANGED <<world, home, lifecycle, serviceVars, indexVars, scope, boot, old, outcome,
                 call>>

StagedDropped(g) ==
  /\ pc[g] = "stagedWait" /\ DisposalEnded(g)
  /\ Goto(g, "dropStaging")
  /\ UNCHANGED <<world, gateVars, fiberVars, disposalVars, serviceVars, indexVars, scope, boot,
                 old, outcome, call>>

DropStaging(g) ==
  /\ pc[g] = "dropStaging"
  /\ BeginScopeDisposal(g)
  /\ Goto(g, "stagingWait")
  /\ UNCHANGED <<world, gateVars, fiberVars, disposalVars, serviceVars, indexVars, boot, old,
                 outcome, call>>

StagingDropped(g) ==
  /\ pc[g] = "stagingWait" /\ ScopeEnded(g)
  /\ Goto(g, "restore")
  /\ UNCHANGED <<world, gateVars, fiberVars, disposalVars, serviceVars, indexVars, scope, boot,
                 old, outcome, call>>

\* The old Fiber becomes Active again, unless its disposal has begun.
RestoreOld(g) ==
  /\ pc[g] = "restore" /\ RecordFree(old[g])
  /\ state' = IF state[old[g]] = "Reloading" THEN [state EXCEPT ![old[g]] = "Active"] ELSE state
  /\ lifecycle' = [lifecycle EXCEPT ![old[g]] = "free"]
  /\ outcome' = [outcome EXCEPT ![g] = "Failed"]
  /\ Goto(g, "ended")
  /\ UNCHANGED <<world, gateVars, home, owned, disposalVars, serviceVars, indexVars, scope,
                 boot, old, call>>

\* Mutant: the drain of the old generation may time out for good.
CleanupOldImpatient(g) ==
  /\ pc[g] = "cleanup"
  /\ BeginDisposal(old[g], FALSE)
  /\ Goto(g, "cleanupWait")
  /\ UNCHANGED <<world, home, lifecycle, serviceVars, indexVars, scope, boot, old, outcome,
                 call>>

CleanupOld(g) ==
  /\ pc[g] = "cleanup"
  /\ BeginDisposal(old[g], TRUE)
  /\ Goto(g, "cleanupWait")
  /\ UNCHANGED <<world, home, lifecycle, serviceVars, indexVars, scope, boot, old, outcome,
                 call>>

\* task_grace passes: the caller is told, and the worker goes on.
CleanupPending(g) ==
  /\ pc[g] = "cleanupWait" /\ outcome[g] = "none" /\ ~DisposalEnded(old[g])
  /\ outcome' = [outcome EXCEPT ![g] = "CommittedWithCleanupPending"]
  /\ UNCHANGED <<world, gateVars, fiberVars, disposalVars, serviceVars, indexVars, scope, boot,
                 pc, old, call>>

CleanupScope(g) ==
  /\ pc[g] = "cleanupWait" /\ DisposalEnded(old[g])
  /\ BeginScopeDisposal(g)
  /\ Goto(g, "cleanupEnd")
  /\ UNCHANGED <<world, gateVars, fiberVars, disposalVars, serviceVars, indexVars, boot, old,
                 outcome, call>>

CleanupEnds(g) ==
  /\ pc[g] = "cleanupEnd" /\ ScopeEnded(g)
  /\ outcome' = IF outcome[g] # "none" THEN outcome
                ELSE [outcome EXCEPT ![g] =
                        IF disposal[old[g]] = "complete" /\ scope[g].state = "Disposed"
                        THEN "Completed" ELSE "ReloadCommitted"]
  /\ Goto(g, "ended")
  /\ UNCHANGED <<world, gateVars, fiberVars, disposalVars, serviceVars, indexVars, scope, boot,
                 old, call>>

EndStep(g) ==
  \/ DropStaged(g) \/ StagedDropped(g) \/ DropStaging(g) \/ StagingDropped(g) \/ RestoreOld(g)
  \/ CleanupOld(g) \/ CleanupScope(g) \/ CleanupEnds(g)

(***************************************************************************)
(* What others may do meanwhile.                                           *)
(***************************************************************************)
Meddles(kind) ==
  /\ boot = "ready"
  /\ \E plan \in Plans : outside \cup {kind} \subseteq plan
  /\ outside' = outside \cup {kind}

OutsideDispose(f) ==
  /\ Meddles("dispose")
  /\ state[f] \in {"Active", "Reloading"} /\ f \notin owned /\ disposal[f] = "idle"
  /\ BeginDisposal(f, FALSE)
  /\ UNCHANGED <<open, home, lifecycle, serviceVars, indexVars, scope, boot, txVars, call>>

OutsideScope ==
  /\ Meddles("scope") /\ scope[Target].state = "Active"
  /\ BeginScopeDisposal(Target)
  /\ UNCHANGED <<open, gateVars, fiberVars, disposalVars, serviceVars, indexVars, boot, txVars,
                 call>>

\* begin_shutdown waits for the admissions in flight.
OutsideShutdown ==
  /\ Meddles("shutdown") /\ open /\ AdmissionFree
  /\ open' = FALSE
  /\ UNCHANGED <<gateVars, fiberVars, disposalVars, serviceVars, indexVars, scope, boot,
                 txVars, call>>

(***************************************************************************)
(* Context::try_get: admission, ancestry, the own staged entry, the cached *)
(* resolution, the walk, and the provider's lease; one retry.              *)
(***************************************************************************)
others == <<world, gateVars, fiberVars, disposalVars, entry, indexVars, scope, boot, txVars>>
Put(c, r) == call' = [call EXCEPT ![c] = r]

\* Position in the log from which a call counts; a call that began before the first
\* activation was complete counts from the start.
Now == IF boot = "ready" THEN Len(log) ELSE 1
Path(s) == IF s = Target THEN <<Target>> ELSE <<s, Target>>

LookupBegin(c) ==
  /\ call[c].pc = "idle"
  /\ \E f \in Owners :
       /\ f # 0 => state[f] \in {"Active", "Reloading"} /\ RecordFree(f) /\ f \notin draining
       /\ Put(c, [NoCall EXCEPT !.pc = "path", !.owner = f, !.from = Now,
                                !.scope = IF f = 0 THEN Target ELSE home[f]])
  /\ UNCHANGED <<others, cache>>

LookupPath(c) ==
  /\ call[c].pc = "path" /\ ScopesFree
  /\ Put(c, [call[c] EXCEPT !.pc = "owned", !.path = Path(call[c].scope)])
  /\ UNCHANGED <<others, cache>>

\* Mutant: the own entry is found only through the selector.
OwnStagedNever(c) == FALSE

\* ServiceRegistry::resolve_owned: the own entry while it is not visible.
OwnStaged(c) ==
  /\ call[c].owner # 0 /\ ~Visible(call[c].owner)
  /\ \E i \in DOMAIN call[c].path : entry[call[c].path[i]] = call[c].owner

LookupOwned(c) ==
  /\ call[c].pc = "owned" /\ ServicesFree
  /\ Put(c, IF OwnStaged(c) THEN [call[c] EXCEPT !.pc = "acquire", !.found = call[c].owner]
            ELSE [call[c] EXCEPT !.pc = "lookup"])
  /\ UNCHANGED <<others, cache>>

\* cached_resolution: absence is believed, a location only while its owner is visible.
CacheHit(s) ==
  /\ cache[s] # <<>>
  /\ cache[s][2] # 0 => entry[cache[s][1]] = cache[s][2] /\ Visible(cache[s][2])

Found(c, f) ==
  IF f = 0 THEN [call[c] EXCEPT !.pc = "absent"]
  ELSE [call[c] EXCEPT !.pc = "acquire", !.found = f]

LookupCached(c) ==
  /\ call[c].pc = "lookup" /\ ServicesFree
  /\ Put(c, IF CacheHit(call[c].scope) THEN Found(c, cache[call[c].scope][2])
            ELSE [call[c] EXCEPT !.pc = "walk"])
  /\ UNCHANGED <<others, cache>>

\* The nearest Scope of the path with a visible entry.
Resolution(path) ==
  LET hits == {i \in DOMAIN path : entry[path[i]] # 0 /\ Visible(entry[path[i]])}
  IN IF hits = {} THEN <<NoScope, 0>> ELSE <<path[Min(hits)], entry[path[Min(hits)]]>>

\* The order of eviction is left open.
Remember(s, location) ==
  LET rest == {k \in Scopes \ {s} : cache[k] # <<>>} IN
  \E evicted \in SUBSET rest :
    /\ Cardinality(rest \ evicted) < MaxCache
    /\ evicted = {} \/ Cardinality(rest \ evicted) = MaxCache - 1
    /\ cache' = [k \in Scopes |-> IF k = s THEN location
                                  ELSE IF k \in evicted THEN <<>> ELSE cache[k]]

LookupWalk(c) ==
  /\ call[c].pc = "walk" /\ ServicesFree
  /\ LET s == call[c].scope IN
     IF CacheHit(s)
     THEN Put(c, Found(c, cache[s][2])) /\ UNCHANGED cache
     ELSE LET location == Resolution(call[c].path) IN
          /\ Put(c, Found(c, location[2]))
          /\ IF MaxCache = 0 THEN UNCHANGED cache ELSE Remember(s, location)
  /\ UNCHANGED others

\* The second failure is ServiceGenerationDraining.
Retry(c, step) ==
  IF call[c].attempt = 1 THEN [call[c] EXCEPT !.pc = step, !.attempt = 2]
  ELSE [call[c] EXCEPT !.pc = "changed"]

LookupAcquire(c) ==
  /\ call[c].pc = "acquire"
  /\ Put(c, IF call[c].found \in draining THEN Retry(c, "path")
            ELSE [call[c] EXCEPT !.pc = "held"])
  /\ UNCHANGED <<others, cache>>

(***************************************************************************)
(* InvocationRegistry::snapshot, under the registry lock.                  *)
(***************************************************************************)
InvokeBegin(c) ==
  /\ call[c].pc = "idle" /\ open /\ ScopesFree /\ scope[Target].state = "Active"
  /\ Put(c, [NoCall EXCEPT !.pc = "snapshot", !.kind = "invoke", !.from = Now,
                           !.path = Path(Target)])
  /\ UNCHANGED <<others, cache>>

\* The generation the selector named at the first look stands for the whole chain.
Handler(c) ==
  IF active # 0 /\ \E i \in DOMAIN call[c].path : invocation[active] = call[c].path[i]
  THEN active ELSE 0

InvokeSnapshot(c) ==
  /\ call[c].pc = "snapshot" /\ RegistryFree
  /\ Put(c, IF Handler(c) = 0 THEN [call[c] EXCEPT !.pc = "absent"]
            ELSE [call[c] EXCEPT !.pc = "middleware", !.found = Handler(c)])
  /\ UNCHANGED <<others, cache>>

Middleware(c) == call[c].found

InvokeMiddleware(c) ==
  /\ call[c].pc = "middleware"
  /\ Put(c, [call[c] EXCEPT !.pc = "handler", !.middleware = Middleware(c)])
  /\ UNCHANGED <<others, cache>>

InvokeHandlerLease(c) ==
  /\ call[c].pc = "handler"
  /\ Put(c, IF call[c].found \in draining THEN Retry(c, "snapshot")
            ELSE [call[c] EXCEPT !.pc = "chain"])
  /\ UNCHANGED <<others, cache>>

InvokeChainLease(c) ==
  /\ call[c].pc = "chain"
  /\ Put(c, IF call[c].middleware \in draining THEN Retry(c, "snapshot")
            ELSE [call[c] EXCEPT !.pc = "held"])
  /\ UNCHANGED <<others, cache>>

\* The handle is dropped, the chain has run, or the caller has its error.
CallEnds(c) ==
  /\ call[c].pc \in {"held", "absent", "changed"}
  /\ Put(c, NoCall)
  /\ UNCHANGED <<others, cache>>

CallStep(c) ==
  \/ LookupPath(c) \/ LookupOwned(c) \/ LookupCached(c) \/ LookupWalk(c) \/ LookupAcquire(c)
  \/ InvokeSnapshot(c) \/ InvokeMiddleware(c) \/ InvokeHandlerLease(c) \/ InvokeChainLease(c)
  \/ CallEnds(c)

TxStep(g) == StagingStep(g) \/ CommitStep(g) \/ EndStep(g)

Next ==
  \/ Publish \/ PublishBump
  \/ \E g \in Txs : ReloadBegin(g) \/ TxStep(g) \/ StartFails(g) \/ CleanupPending(g)
  \/ \E f \in Gens : DisposeStep(f) \/ DrainTimesOut(f) \/ OutsideDispose(f)
  \/ \E s \in Scopes : ScopeStep(s)
  \/ OutsideScope \/ OutsideShutdown
  \/ \E c \in Callers : LookupBegin(c) \/ InvokeBegin(c) \/ CallStep(c)

Spec == Init /\ [][Next]_vars

\* Workers run, plugins return from start, and callers drop what they hold.  The locks are
\* eventually fair, so a worker that needs one often free gets it.
Fairness ==
  /\ WF_vars(Publish \/ PublishBump)
  /\ \A g \in Txs : SF_vars(TxStep(g))
  /\ \A f \in Gens : SF_vars(DisposeStep(f))
  /\ \A s \in Scopes : WF_vars(ScopeStep(s))
  /\ \A c \in Callers : WF_vars(CallStep(c))

FairSpec == Spec /\ Fairness

(***************************************************************************)
(* Properties.                                                             *)
(***************************************************************************)
States == {"none", "Created", "Starting", "Active", "Reloading", "Disposing", "Disposed"}

\* Types; the selector's history is as long as the changes it can make, and the cache
\* stays within its bound.
TypeOK ==
  /\ open \in BOOLEAN
  /\ log \in Seq(0..MaxGen) /\ Len(log) \in 1..(2 * MaxGen + 1)
  /\ retired \subseteq Gens /\ draining \subseteq Gens /\ owned \subseteq Txs
  /\ patient \subseteq Gens
  /\ state \in [Gens -> States] /\ home \in [Gens -> Scopes]
  /\ lifecycle \in [Gens -> {"free", "activation", "reload", "disposal"}]
  /\ entry \in [Scopes -> 0..MaxGen]
  /\ \A s \in Scopes : cache[s] = <<>> \/ cache[s] \in (Scopes \cup {NoScope}) \X (0..MaxGen)
  /\ \A f \in Gens :
       {invocation[f], declared[f], member[f], child[f]} \subseteq {NoScope, f, Target}
  /\ old \in [Txs -> 0..MaxGen]
  /\ \A c \in Callers : call[c].found \in 0..MaxGen /\ call[c].middleware \in 0..MaxGen

\* Selector values while call c ran.
During(c) == {log[i] : i \in call[c].from..Len(log)}
Changes(c) == Len(log) - call[c].from

\* A reload has no gap: a lookup or an invocation comes back empty only if the plugin
\* had no visible generation at some moment of the call, and with a generation-changed
\* error only if the selector changed twice meanwhile or the caller's own generation was
\* closed (commit_staged_revision moves Scope, handlers, selector and services one after
\* the other).
NoGap ==
  \A c \in Callers :
    /\ call[c].pc = "absent" => 0 \in During(c)
    /\ call[c].pc = "changed" => 0 \in During(c) \/ Changes(c) >= 2 \/ call[c].owner \in retired

\* After a commit new work resolves to the new generation only: what a call obtains was
\* visible while it ran, or is the caller's own staged generation, and is never older
\* than the caller's own.  An invocation never mixes the handler of one generation with
\* the middleware of another.
NewWorkSeesNew ==
  \A c \in Callers : call[c].pc = "held" =>
    /\ call[c].found \in During(c) \cup {call[c].owner}
    /\ call[c].found >= call[c].owner
    /\ call[c].kind = "invoke" => call[c].middleware = call[c].found

\* Whenever the Scope lock and the Fiber's record can be read, the generation the
\* selector names is registered, indexed and bound in the target Scope, and no
\* transaction owns it.
CommittedTogether ==
  \A f \in Gens : ScopesFree /\ RecordFree(f) /\ Visible(f) =>
    /\ home[f] = Target /\ member[f] = Target /\ declared[f] = Target /\ child[f] = Target
    /\ invocation[f] = Target /\ entry[Target] = f
    /\ f \notin owned

\* The transaction is past its commit point; its cleanup of the old Fiber has not begun.
Replaces(h) == pc[h] \in {"retire", "services", "finish", "cleanup"}

\* A reload that fails in an Active target Scope leaves the old generation Active and
\* visible, in its own disposal or replaced by another transaction, and nothing of the staged
\* one in any registry, unless a lease outlived the drain of the staged generation.
RollbackRestores ==
  \A g \in Txs : outcome[g] = "Failed" =>
    /\ state[old[g]] # "Reloading" \/ \E h \in Txs \ {g} : old[h] = old[g]
    /\ \/ disposal[old[g]] # "idle"
       \/ Visible(old[g]) /\ entry[Target] = old[g]
       \/ \E h \in Txs \ {g} : old[h] = old[g] /\ Replaces(h)
    /\ ~Visible(g)
    /\ disposal[g] # "terminated" =>
         entry[g] = 0 /\ invocation[g] = NoScope /\ child[g] = NoScope
    /\ disposal[g] # "terminated" /\ scope[Target].state = "Active" =>
         member[g] = NoScope /\ declared[g] = NoScope

\* A cached answer is the one the walk over the Scopes would give, except between the
\* publication of an activation and the bump that follows it; and the cache keeps its
\* bound.
CacheExact ==
  /\ \A s \in Scopes :
       ServicesFree /\ boot # "published" /\ CacheHit(s) => cache[s][2] = Resolution(Path(s))[2]
  /\ Cardinality({s \in Scopes : cache[s] # <<>>}) <= MaxCache

\* A disposal that is committed has left the Scope's list and the provider index.
CommittedDisposalDetached ==
  \A f \in Gens : disposal[f] \in {"complete", "faulty"} =>
    member[f] = NoScope /\ declared[f] = NoScope

\* An accepted reload ends, and a generation it replaced is disposed for good.
ReloadsEnd ==
  \A g \in Txs : pc[g] = "wait" ~>
    /\ pc[g] = "ended"
    /\ outcome[g] \in {"Completed", "CommittedWithCleanupPending"} =>
         state[old[g]] = "Disposed"
=============================================================================
