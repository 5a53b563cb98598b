--------------------------- MODULE FiberLifecycle ---------------------------
(***************************************************************************)
(* Fibers and Scopes of the runtime (cordis-runtime/src/runtime/fiber.rs,  *)
(* disposal.rs, scope.rs, dependency.rs, lifecycle.rs): installation,      *)
(* activation, dependency reconciliation, disposal of Fibers and Scopes,   *)
(* garbage collection and the closing of admission at shutdown.            *)
(*                                                                         *)
(* A step is what one task does under one hold of a synchronous lock (the  *)
(* FiberCell record, the ScopeRegistry, the DependencyGraph).  A process   *)
(* is an async operation with its own control: the install worker of a     *)
(* Fiber, its running activation, its disposal body with the supervisor    *)
(* that finalizes it, its host failure worker, the disposal body of a      *)
(* Scope.  Callers outside the runtime only issue requests.                *)
(***************************************************************************)
EXTENDS Integers, Sequences, FiniteSets, Retain

CONSTANTS
  Fibers, Scopes, Services, NONE,
  Root,        \* the root Scope
  Parent,      \* Scope -> its parent, NONE for the root
  Owner,       \* Scope -> the Fiber whose plugin creates it, NONE for a client
  ScopeOf,     \* Fiber -> the Scope it is installed in
  Deps,        \* Fiber -> services its descriptor depends on
  Provides,    \* Fiber -> services its descriptor declares
  Restart,     \* Fibers with DependencyPolicy::Restart
  Leased,      \* Fibers whose services are executed by other tasks
  Failing,     \* Fibers whose plugin start may fail
  Faulty,      \* Fibers with an Effect whose cleanup may fail
  Crashing,    \* Fibers whose disposal body may panic
  Hosted,      \* Fibers whose plugin host may fail
  Dropped,     \* Fibers that clients dispose directly
  Closing,     \* Scopes that clients dispose directly
  Shutdowns,   \* whether the runtime may be shut down
  BootScopes,  \* Scopes that exist when the behaviour begins, oldest first,
  BootFibers,  \* Fibers that were installed in them, oldest first,
  Running      \* and those among them that are Active; the others wait

(***************************************************************************)
(* Parent describes a tree, a plugin creates Scopes under its own, and no  *)
(* name stands for two things.                                             *)
(***************************************************************************)
Chain(s) ==
  {a \in Scopes : \A S \in SUBSET Scopes :
     (s \in S /\ \A x \in S : Parent[x] # NONE => Parent[x] \in S) => a \in S}

Elements(seq) == {seq[i] : i \in DOMAIN seq}

ASSUME LifecycleAssumption ==
  /\ IsFiniteSet(Fibers) /\ IsFiniteSet(Scopes)
  /\ Fibers \cap Scopes = {} /\ NONE \notin Fibers \cup Scopes
  /\ Root \in Scopes
  /\ Parent \in [Scopes -> Scopes \cup {NONE}]
  /\ \A s \in Scopes : Root \in Chain(s) /\ (Parent[s] = NONE <=> s = Root)
  /\ Owner \in [Scopes -> Fibers \cup {NONE}]
  /\ ScopeOf \in [Fibers -> Scopes]
  /\ \A s \in Scopes : Owner[s] # NONE => Parent[s] = ScopeOf[Owner[s]]
  /\ Deps \in [Fibers -> SUBSET Services]
  /\ Provides \in [Fibers -> SUBSET Services]
  /\ Restart \cup Leased \cup Failing \cup Faulty \cup Crashing \cup Hosted \cup Dropped
       \subseteq Fibers
  /\ Closing \subseteq Scopes
  /\ Shutdowns \in BOOLEAN
  /\ BootScopes \in Seq(Scopes \ {Root}) /\ BootFibers \in Seq(Fibers)
  /\ \A s \in Elements(BootScopes) : Parent[s] \in Elements(BootScopes) \cup {Root}
  /\ \A s \in Elements(BootScopes) : Owner[s] # NONE => Owner[s] \in Running
  /\ \A f \in Elements(BootFibers) : ScopeOf[f] \in Elements(BootScopes) \cup {Root}
  /\ Running \subseteq Elements(BootFibers)
  /\ \A f \in Elements(BootFibers) :
       f \in Running <=>
         \A d \in Deps[f] : \E g \in Running :
           ScopeOf[g] \in Chain(ScopeOf[f]) /\ d \in Provides[g]

VARIABLES
  fib,     \* FiberId -> the FiberCell and what the registries hold of it
  scp,     \* ScopeId -> the ScopeRecord
  proc,    \* the runtime's own processes
  open     \* AdmissionGate is RUNNING

vars == <<fib, scp, proc, open>>

-----------------------------------------------------------------------------
(***************************************************************************)
(* A Fiber.  Absent: not yet installed; Gone: removed from FiberRegistry,  *)
(* whose keys are never reused.  Restarting a Fiber begins a new           *)
(* generation in the same record.                                          *)
(***************************************************************************)
FiberStates == {"Absent", "Created", "Waiting", "Starting", "Active", "Failed",
                "Disposing", "Disposed", "Gone"}

\* DisposalPhase; Handlers and Services are left with Effects ("Release").
Phases == {"Idle", "Tasks", "Draining", "ChildScopes", "Release", "Reconciling",
           "Finalizing", "Complete", "Terminated"}

\* What an operation returned: Ok, an ordinary error, a DisposalWorker* error
\* (crash) or a ScopeDisposal* error (scope).
Results == {"none", "ok", "plain", "crash", "scope"}

\* is_terminal_cleanup_error.
Terminal == {"crash", "scope"}

Procs == ({"install", "act", "body", "host"} \X Fibers) \cup ({"scope"} \X Scopes)

Installer(f) == <<"install", f>>
Activation(f) == <<"act", f>>
Body(f) == <<"body", f>>
HostWorker(f) == <<"host", f>>
ScopeBody(s) == <<"scope", s>>

ASSUME NoneAssumption == NONE \notin Procs

NewDisposal == [phase |-> "Idle", wait |-> TRUE, persist |-> FALSE,
                errs |-> <<>>, done |-> "none"]

NewFiber ==
  [state |-> "Absent", disposal |-> NewDisposal, visible |-> FALSE,
   lease |-> FALSE, reg |-> {}, kids |-> <<>>, indexed |-> FALSE, lock |-> NONE]

NewScope(st) == [state |-> st, children |-> <<>>, fibers |-> <<>>,
                 persist |-> FALSE, done |-> "none"]

Idle == [pc |-> "idle", tgt |-> NONE, seen |-> "Absent", res |-> "none",
         rollback |-> FALSE, caller |-> NONE, syms |-> {}, todo |-> {},
         kids |-> <<>>, fibers |-> <<>>, persist |-> FALSE,
         issues |-> FALSE, bad |-> FALSE, goal |-> NONE]

\* A Fiber that was installed, and activated if its dependencies allowed.
BootedFiber(f) ==
  [NewFiber EXCEPT !.state = IF f \in Running THEN "Active" ELSE "Waiting",
                   !.visible = f \in Running,
                   !.reg = IF f \in Running THEN Provides[f] ELSE {},
                   !.kids = Retain(BootScopes, {s \in Scopes : Owner[s] = f}),
                   !.indexed = TRUE]

BootedScope(s) ==
  [NewScope("Active") EXCEPT
     !.children = Retain(BootScopes, {x \in Scopes : Parent[x] = s}),
     !.fibers = Retain(BootFibers, {f \in Fibers : ScopeOf[f] = s})]

Init ==
  /\ fib = [f \in Fibers |->
              IF f \in Elements(BootFibers) THEN BootedFiber(f) ELSE NewFiber]
  /\ scp = [s \in Scopes |->
              IF s \in Elements(BootScopes) \cup {Root}
                THEN BootedScope(s) ELSE NewScope("Absent")]
  /\ proc = [p \in Procs |-> Idle]
  /\ open = TRUE

-----------------------------------------------------------------------------
(***************************************************************************)
(* FiberState::can_transition_to (Reloading is not modelled here).         *)
(***************************************************************************)
CanTransition(from, to) ==
  \/ from = "Created" /\ to \in {"Waiting", "Starting", "Disposing"}
  \/ from = "Waiting" /\ to \in {"Starting", "Disposing"}
  \/ from = "Starting" /\ to \in {"Active", "Failed", "Disposing"}
  \/ from = "Active" /\ to \in {"Disposing", "Failed"}
  \/ from = "Failed" /\ to = "Disposing"
  \/ from = "Disposing" /\ to \in {"Disposed", "Waiting"}

Registered(f) == fib[f].state \notin {"Absent", "Gone"}

(***************************************************************************)
(* ScopeRegistry::ancestry, empty when a Scope on the way is gone, and     *)
(* dependencies_met: every dependency resolves to a visible service of an  *)
(* ancestor Scope.                                                         *)
(***************************************************************************)
Ancestry(s) == IF \E a \in Chain(s) : scp[a].state = "Gone" THEN {} ELSE Chain(s)

Resolves(s, d) ==
  \E g \in Fibers : ScopeOf[g] \in Ancestry(s) /\ d \in fib[g].reg /\ fib[g].visible

Met(f) == \A d \in Deps[f] : Resolves(ScopeOf[f], d)

(***************************************************************************)
(* validate_dependency_graph: each dependency of a Fiber that is not       *)
(* Disposed points to the visible provider in the nearest Scope that has   *)
(* one, or else to the providers declared there.  A cycle is a set of      *)
(* Fibers each of which points into the set.                               *)
(***************************************************************************)
Offers(a, d) == {g \in Fibers : ScopeOf[g] = a /\ d \in fib[g].reg /\ fib[g].visible}
Declares(a, d) == {g \in Fibers : ScopeOf[g] = a /\ d \in Provides[g] /\ fib[g].indexed}

Walk(s) == {a \in Chain(s) : \A b \in Chain(s) \ {a} :
              a \in Chain(b) => scp[b].state # "Gone"}

Nearest(s, d) ==
  LET has == {a \in Walk(s) : Offers(a, d) \cup Declares(a, d) # {}}
  IN  {a \in has : \A b \in has \ {a} : a \notin Chain(b)}

Edges(f) ==
  UNION {UNION {IF Offers(a, d) # {} THEN Offers(a, d) ELSE Declares(a, d) :
                  a \in Nearest(ScopeOf[f], d)} : d \in Deps[f]}

Cyclic ==
  \E S \in SUBSET {f \in Fibers : Registered(f) /\ fib[f].state # "Disposed"} :
    S # {} /\ \A f \in S : Edges(f) \cap S # {}

-----------------------------------------------------------------------------
Last(seq) == seq[Len(seq)]
Front(seq) == SubSeq(seq, 1, Len(seq) - 1)

At(p, pc) == proc[p].pc = pc
Goto(p, pc) == proc' = [proc EXCEPT ![p].pc = pc]
End(p) == proc' = [proc EXCEPT ![p] = Idle]

\* Process p has the answer of a call it waited for.
Answered(frame, res) == [frame EXCEPT !.pc = "back", !.res = res]

(***************************************************************************)
(* dispose_fiber_observation(f, w, d) called by p (NONE: a client, who     *)
(* keeps no state here).  The first request cancels, closes the gate and   *)
(* spawns the body; every other one joins or reads the completion.         *)
(***************************************************************************)
Begins(f) ==
  /\ fib[f].disposal.phase = "Idle"
  /\ fib[f].state = "Disposing" \/ CanTransition(fib[f].state, "Disposing")

DisposeAnswer(f) ==
  CASE ~Registered(f) -> "plain"
    [] fib[f].disposal.phase = "Idle" /\ ~Begins(f) -> "plain"
    [] OTHER -> fib[f].disposal.done

\* Mutant: the gate is not closed with the request.
JoinedVisible(f, w, d) ==
  LET r == [fib[f] EXCEPT !.disposal.wait = @ /\ w, !.disposal.persist = @ \/ d]
  IN  IF Begins(f)
        THEN [r EXCEPT !.state = "Disposing", !.disposal.phase = "Tasks"]
        ELSE r

Joined(f, w, d) ==
  LET r == [fib[f] EXCEPT !.disposal.wait = @ /\ w, !.disposal.persist = @ \/ d]
  IN  IF Begins(f)
        THEN [r EXCEPT !.state = "Disposing", !.visible = FALSE,
                       !.disposal.phase = "Tasks"]
        ELSE r

DisposeFiber(p, f, w, d) ==
  /\ fib' = IF Registered(f) THEN [fib EXCEPT ![f] = Joined(f, w, d)] ELSE fib
  /\ proc' = [q \in Procs |->
       IF q = p
         THEN IF DisposeAnswer(f) = "none"
                THEN [proc[p] EXCEPT !.pc = "wait", !.tgt = f]
                ELSE Answered([proc[p] EXCEPT !.tgt = f], DisposeAnswer(f))
       ELSE IF q = Body(f) /\ Registered(f) /\ Begins(f)
         THEN [Idle EXCEPT !.pc = "queue"]
       ELSE proc[q]]

(***************************************************************************)
(* dispose_scope_observation(s, d).                                        *)
(***************************************************************************)
ScopeAnswer(s) == IF scp[s].state \in {"Absent", "Gone"} THEN "plain" ELSE scp[s].done

DisposeScope(p, s, d) ==
  /\ scp' = IF scp[s].state \in {"Absent", "Gone"} THEN scp
            ELSE [scp EXCEPT ![s].persist = @ \/ d,
                             ![s].state = IF @ = "Active" THEN "Disposing" ELSE @]
  /\ proc' = [q \in Procs |->
       IF q = p
         THEN IF ScopeAnswer(s) = "none"
                THEN [proc[p] EXCEPT !.pc = "wait", !.tgt = s]
                ELSE Answered([proc[p] EXCEPT !.tgt = s], ScopeAnswer(s))
       ELSE IF q = ScopeBody(s) /\ scp[s].state = "Active"
         THEN [Idle EXCEPT !.pc = "snapshot"]
       ELSE proc[q]]

\* completion.publish: everyone who joined gets the one result; p goes on.
Deliver(id, res, p, frame) ==
  proc' = [q \in Procs |->
             IF q = p THEN frame
             ELSE IF proc[q].pc = "wait" /\ proc[q].tgt = id
               THEN Answered(proc[q], res) ELSE proc[q]]

-----------------------------------------------------------------------------
(***************************************************************************)
(* Clients: create_scope, dispose_fiber, dispose_scope; executions of a    *)
(* visible service hold a lease of its generation.                         *)
(***************************************************************************)
InsertScope(s) ==
  /\ scp[s].state = "Absent"
  /\ open
  /\ scp[Parent[s]].state = "Active"
  /\ scp' = [scp EXCEPT ![s] = NewScope("Active"),
                        ![Parent[s]].children = Append(@, s)]

CreateScope(s) ==
  /\ s # Root /\ Owner[s] = NONE
  /\ InsertScope(s)
  /\ UNCHANGED <<fib, proc, open>>

ClientDisposeFiber(f, w) ==
  /\ Registered(f)
  /\ DisposeFiber(NONE, f, w, FALSE)
  /\ UNCHANGED <<scp, open>>

ClientDisposeScope(s) ==
  /\ DisposeScope(NONE, s, FALSE)
  /\ UNCHANGED <<fib, open>>

Lease(f) ==
  /\ fib[f].visible /\ ~fib[f].lease
  /\ fib' = [fib EXCEPT ![f].lease = TRUE]
  /\ UNCHANGED <<scp, proc, open>>

DropLease(f) ==
  /\ fib[f].lease
  /\ fib' = [fib EXCEPT ![f].lease = FALSE]
  /\ UNCHANGED <<scp, proc, open>>

(***************************************************************************)
(* install_arc, run by the Install worker.  Admission is held from the     *)
(* insertion to the indexing of the Fiber.                                 *)
(***************************************************************************)
Install(f) ==
  /\ fib[f].state = "Absent"
  /\ open
  /\ scp[ScopeOf[f]].state = "Active"
  /\ fib' = [fib EXCEPT ![f] = [NewFiber EXCEPT !.state = "Created"]]
  /\ scp' = [scp EXCEPT ![ScopeOf[f]].fibers = Append(@, f)]
  /\ Goto(Installer(f), "index")
  /\ UNCHANGED open

\* Mutant: the graph is validated before the Fiber is in it.
InstallIndexLate(f) ==
  /\ At(Installer(f), "index")
  /\ fib' = [fib EXCEPT ![f].indexed = TRUE]
  /\ Goto(Installer(f), IF Cyclic THEN "remove" ELSE "check")
  /\ UNCHANGED <<scp, open>>

InstallIndex(f) ==
  /\ At(Installer(f), "index")
  /\ fib' = [fib EXCEPT ![f].indexed = TRUE]
  /\ Goto(Installer(f), "validate")
  /\ UNCHANGED <<scp, open>>

InstallValidate(f) ==
  /\ At(Installer(f), "validate")
  /\ Goto(Installer(f), IF Cyclic THEN "remove" ELSE "check")
  /\ UNCHANGED <<fib, scp, open>>

\* remove_unstarted_fiber, whatever happened to the Fiber meanwhile.
InstallRemove(f) ==
  /\ At(Installer(f), "remove")
  /\ IF Registered(f)
       THEN /\ fib' = [fib EXCEPT ![f].state = "Gone", ![f].indexed = FALSE]
            /\ scp' = [scp EXCEPT ![ScopeOf[f]].fibers = Without(@, f)]
       ELSE UNCHANGED <<fib, scp>>
  /\ End(Installer(f))
  /\ UNCHANGED open

InstallCheck(f) ==
  /\ At(Installer(f), "check")
  /\ proc' = [proc EXCEPT ![Installer(f)].pc = IF Met(f) THEN "lock" ELSE "park",
                          ![Installer(f)].tgt = f]
  /\ UNCHANGED <<fib, scp, open>>

\* transition(fiber, WaitingDependencies).
InstallPark(f) ==
  /\ At(Installer(f), "park")
  /\ fib' = IF CanTransition(fib[f].state, "Waiting")
              THEN [fib EXCEPT ![f].state = "Waiting"] ELSE fib
  /\ End(Installer(f))
  /\ UNCHANGED <<scp, open>>

InstallReturn(f) ==
  /\ At(Installer(f), "back")
  /\ End(Installer(f))
  /\ UNCHANGED <<fib, scp, open>>

(***************************************************************************)
(* activate, called by process p on Fiber proc[p].tgt: take the lifecycle  *)
(* lock, then refuse or begin.  A restarted Fiber gets a fresh disposal    *)
(* record, token and generation.  The activation that begins is a process  *)
(* of its own, and p waits for it.                                         *)
(***************************************************************************)
\* Mutant: an activation that was queued on the lock is admitted after shutdown began.
MayStartLate(f) == fib[f].state \in {"Created", "Waiting"}

MayStart(f) == open /\ fib[f].state \in {"Created", "Waiting"}

Refused(p) ==
  /\ At(p, "lock")
  /\ fib[proc[p].tgt].lock = NONE
  /\ ~MayStart(proc[p].tgt)
  /\ proc' = [proc EXCEPT ![p] = Answered(@, "plain")]
  /\ UNCHANGED <<fib, scp, open>>

Restarted(r) ==
  IF r.state = "Waiting" /\ r.disposal.phase = "Complete"
    THEN [r EXCEPT !.disposal = NewDisposal] ELSE r

Activate(p) ==
  LET f == proc[p].tgt IN
  /\ At(p, "lock")
  /\ fib[f].lock = NONE
  /\ MayStart(f)
  /\ fib' = [fib EXCEPT ![f] = [Restarted(@) EXCEPT !.state = "Starting",
                                                    !.lock = Activation(f)]]
  /\ proc' = [proc EXCEPT ![p].pc = "activating",
                          ![Activation(f)] = [Idle EXCEPT !.pc = "start", !.caller = p]]
  /\ UNCHANGED <<scp, open>>

\* Mutant: the lock of a failed activation is leaked.
ActivationReturnsLocked(f, pc, res) ==
  /\ fib' = [fib EXCEPT ![f].lock = IF pc = "fail" THEN @ ELSE NONE]
  /\ proc' = [proc EXCEPT ![Activation(f)] = Idle,
                          ![proc[Activation(f)].caller] = [@ EXCEPT !.pc = pc, !.res = res]]

\* Dropping the lifecycle lock; the caller goes on at pc with result res.
ActivationReturns(f, pc, res) ==
  /\ fib' = [fib EXCEPT ![f].lock = NONE]
  /\ proc' = [proc EXCEPT ![Activation(f)] = Idle,
                          ![proc[Activation(f)].caller] = [@ EXCEPT !.pc = pc, !.res = res]]

(***************************************************************************)
(* plugin.start: the plugin registers services and creates Scopes through  *)
(* its Context; it is dropped as soon as the token is cancelled.           *)
(***************************************************************************)
Cancelled(f) == fib[f].state # "Starting" \/ fib[f].disposal.phase # "Idle"

\* The Context accepts registrations until the topology is sealed.
Unsealed(f) == fib[f].state = "Starting" /\ proc[Activation(f)].pc \in {"start", "seal"}

Duplicate(f, d) == \E g \in Fibers : ScopeOf[g] = ScopeOf[f] /\ d \in fib[g].reg

Provide(f, d) ==
  /\ Unsealed(f)
  /\ open
  /\ d \in Provides[f]
  /\ ~Duplicate(f, d)
  /\ fib' = [fib EXCEPT ![f].reg = @ \cup {d}]
  /\ UNCHANGED <<scp, proc, open>>

ContextCreateScope(s) ==
  /\ Owner[s] # NONE
  /\ Unsealed(Owner[s]) \/ fib[Owner[s]].state = "Active"
  /\ InsertScope(s)
  /\ fib' = [fib EXCEPT ![Owner[s]].kids = Append(@, s)]
  /\ UNCHANGED <<proc, open>>

\* Only a Failing plugin forgets a service that it could have registered.
StartOk(f) ==
  /\ At(Activation(f), "start")
  /\ ~Cancelled(f)
  /\ f \in Failing \/ \A d \in Provides[f] : Duplicate(f, d)
  /\ Goto(Activation(f), "seal")
  /\ UNCHANGED <<fib, scp, open>>

StartFails(f) ==
  /\ At(Activation(f), "start")
  /\ Cancelled(f) \/ f \in Failing
  /\ ActivationReturns(f, "fail", "none")
  /\ UNCHANGED <<scp, open>>

(***************************************************************************)
(* Seal the topology and validate_staged_revision (no new registration can *)
(* come in between), then commit_activation: the gate becomes visible and  *)
(* the Fiber Active in one hold of its record.                             *)
(***************************************************************************)
Seal(f) ==
  /\ At(Activation(f), "seal")
  /\ IF open /\ fib[f].state = "Starting" /\ fib[f].reg = Provides[f]
       THEN Goto(Activation(f), "commit") /\ UNCHANGED fib
       ELSE ActivationReturns(f, "fail", "none")
  /\ UNCHANGED <<scp, open>>

Commit(f) ==
  /\ At(Activation(f), "commit")
  /\ IF open /\ fib[f].state = "Starting"
       THEN /\ fib' = [fib EXCEPT ![f].state = "Active", ![f].visible = TRUE]
            /\ proc' = [proc EXCEPT
                 ![Activation(f)].syms = fib[f].reg,
                 ![Activation(f)].pc = IF fib[f].reg = {} THEN "reconciled" ELSE "collect"]
       ELSE ActivationReturns(f, "fail", "none")
  /\ UNCHANGED <<scp, open>>

\* A failed reconciliation is logged: the activation has succeeded.
ActivationDone(f) ==
  /\ At(Activation(f), "reconciled")
  /\ ActivationReturns(f, "back", "ok")
  /\ UNCHANGED <<scp, open>>

(***************************************************************************)
(* converge_failed_activation, in the caller and without the lifecycle     *)
(* lock: fail_activation, then a permanent disposal, whose answer becomes  *)
(* part of the activation's error.                                         *)
(***************************************************************************)
FailActivation(p) ==
  /\ At(p, "fail")
  /\ fib' = [fib EXCEPT ![proc[p].tgt].state = IF @ = "Starting" THEN "Failed" ELSE @]
  /\ proc' = [proc EXCEPT ![p].pc = "rollback", ![p].rollback = TRUE]
  /\ UNCHANGED <<scp, open>>

Rollback(p) ==
  /\ At(p, "rollback")
  /\ DisposeFiber(p, proc[p].tgt, FALSE, FALSE)
  /\ UNCHANGED <<scp, open>>

\* What the call that p made returned.
CallResult(p) == IF proc[p].rollback THEN "plain" ELSE proc[p].res

(***************************************************************************)
(* reconcile_symbols, run by an activation that published services and by  *)
(* a disposal body that removed some.  The dependents are collected once;  *)
(* then each one's state is read, its dependencies are judged, and it is   *)
(* disposed or activated.  The first error ends the loop.                  *)
(***************************************************************************)
Reconcilers == {"act", "body"} \X Fibers

Collect(p) ==
  /\ At(p, "collect")
  /\ proc' = [proc EXCEPT ![p].pc = "pick", ![p].syms = {},
       ![p].todo = {g \in Fibers : fib[g].indexed /\ Deps[g] \cap proc[p].syms # {}}]
  /\ UNCHANGED <<fib, scp, open>>

Pick(p, g) ==
  /\ At(p, "pick")
  /\ g \in proc[p].todo
  /\ proc' = [proc EXCEPT ![p].todo = @ \ {g},
       ![p].pc = IF Registered(g) THEN "judge" ELSE "pick",
       ![p].tgt = IF Registered(g) THEN g ELSE NONE,
       ![p].seen = IF Registered(g) THEN fib[g].state ELSE "Absent"]
  /\ UNCHANGED <<fib, scp, open>>

\* Mutant: reconciliation only wakes dependents, it ends none.
VerdictWakes(seen, met) ==
  IF seen = "Waiting" /\ met THEN "lock" ELSE "pick"

Verdict(seen, met) ==
  CASE seen = "Active" /\ ~met -> "call"
    [] seen = "Waiting" /\ met -> "lock"
    [] OTHER -> "pick"

Judge(p) ==
  LET v == Verdict(proc[p].seen, Met(proc[p].tgt)) IN
  /\ At(p, "judge")
  /\ proc' = [proc EXCEPT ![p].pc = v, ![p].seen = "Absent",
                          ![p].tgt = IF v = "pick" THEN NONE ELSE @]
  /\ UNCHANGED <<fib, scp, open>>

CallDispose(p) ==
  /\ At(p, "call")
  /\ DisposeFiber(p, proc[p].tgt, proc[p].tgt \in Restart, FALSE)
  /\ UNCHANGED <<scp, open>>

CandidateDone(p) ==
  /\ At(p, "back") /\ proc[p].tgt \in Fibers
  /\ proc' = [proc EXCEPT ![p].rollback = FALSE, ![p].res = CallResult(p), ![p].tgt = NONE,
       ![p].todo = IF CallResult(p) = "ok" THEN @ ELSE {},
       ![p].pc = IF CallResult(p) = "ok" THEN "pick" ELSE "reconciled"]
  /\ UNCHANGED <<fib, scp, open>>

ReconcileDone(p) ==
  /\ At(p, "pick") /\ proc[p].todo = {}
  /\ proc' = [proc EXCEPT ![p].pc = "reconciled", ![p].res = "ok"]
  /\ UNCHANGED <<fib, scp, open>>

-----------------------------------------------------------------------------
(***************************************************************************)
(* run_fiber_disposal_body.  It holds the lifecycle lock from its first    *)
(* step to its return; the supervisor then finalizes without it.  A record *)
(* that remove_unstarted_fiber took away ends the body with a Terminated   *)
(* error.                                                                  *)
(***************************************************************************)
SetPhase(f, ph) == fib' = [fib EXCEPT ![f].disposal.phase = ph]

\* The body returns (res, goal, bad) and drops the lifecycle lock.
BodyReturns(f, res, goal, bad) ==
  /\ fib' = [fib EXCEPT ![f].lock = IF @ = Body(f) THEN NONE ELSE @]
  /\ proc' = [proc EXCEPT ![Body(f)] =
                [Idle EXCEPT !.pc = "detach", !.res = res, !.goal = goal, !.bad = bad]]

BodyVanished(f) ==
  /\ proc[Body(f)].pc \in {"queue", "release", "reconciled"}
  /\ fib[f].state = "Gone"
  /\ BodyReturns(f, "crash", NONE, TRUE)
  /\ UNCHANGED <<scp, open>>

\* Take the lifecycle lock, cancel and join the owned tasks.
BodyBegin(f) ==
  /\ At(Body(f), "queue")
  /\ Registered(f)
  /\ fib[f].lock = NONE
  /\ fib' = [fib EXCEPT ![f].lock = Body(f), ![f].disposal.phase = "Draining"]
  /\ Goto(Body(f), "drain")
  /\ UNCHANGED <<scp, open>>

\* Mutant: cleanup goes on although the provider is still executing.
BodyDrainedAlways(f) ==
  /\ At(Body(f), "drain")
  /\ SetPhase(f, "ChildScopes")
  /\ Goto(Body(f), "kids")
  /\ UNCHANGED <<scp, open>>

BodyDrained(f) ==
  /\ At(Body(f), "drain")
  /\ ~fib[f].lease
  /\ SetPhase(f, "ChildScopes")
  /\ Goto(Body(f), "kids")
  /\ UNCHANGED <<scp, open>>

\* A persistent disposal starts another grace period instead.
BodyDrainTimeout(f) ==
  /\ At(Body(f), "drain")
  /\ fib[f].lease
  /\ ~fib[f].disposal.persist
  /\ BodyReturns(f, "plain", NONE, TRUE)
  /\ UNCHANGED <<scp, open>>

BodyChildScope(f) ==
  /\ At(Body(f), "kids")
  /\ fib[f].kids # <<>>
  /\ DisposeScope(Body(f), Last(fib[f].kids), FALSE)
  /\ UNCHANGED <<fib, open>>

BodyChildScopeDone(f) ==
  /\ At(Body(f), "back") /\ proc[Body(f)].tgt \in Scopes
  /\ fib' = [fib EXCEPT ![f].kids = Without(@, proc[Body(f)].tgt),
       ![f].disposal.errs = IF proc[Body(f)].res = "ok" THEN @
                            ELSE Append(@, proc[Body(f)].res)]
  /\ proc' = [proc EXCEPT ![Body(f)] = [Idle EXCEPT !.pc = "kids"]]
  /\ UNCHANGED <<scp, open>>

\* Mutant: the last child Scope is forgotten.
BodyChildScopesLeft(f) ==
  /\ At(Body(f), "kids")
  /\ Len(fib[f].kids) <= 1
  /\ SetPhase(f, "Release")
  /\ Goto(Body(f), "release")
  /\ UNCHANGED <<scp, open>>

BodyChildScopesDone(f) ==
  /\ At(Body(f), "kids")
  /\ fib[f].kids = <<>>
  /\ SetPhase(f, "Release")
  /\ Goto(Body(f), "release")
  /\ UNCHANGED <<scp, open>>

\* Mutant: a failing Effect ends the release of the others.
BodyReleaseStops(f, failed) ==
  /\ At(Body(f), "release")
  /\ Registered(f)
  /\ failed => f \in Faulty
  /\ fib' = [fib EXCEPT ![f].reg = IF failed THEN @ ELSE {},
       ![f].disposal.errs = IF failed THEN Append(@, "plain") ELSE @]
  /\ proc' = [proc EXCEPT ![Body(f)].pc = "decide", ![Body(f)].syms = fib[f].reg]
  /\ UNCHANGED <<scp, open>>

\* Handlers, services and Effects are released in this order; an Effect
\* that fails or panics leaves a cleanup issue.
BodyRelease(f, failed) ==
  /\ At(Body(f), "release")
  /\ Registered(f)
  /\ failed => f \in Faulty
  /\ fib' = [fib EXCEPT ![f].reg = {},
       ![f].disposal.errs = IF failed THEN Append(@, "plain") ELSE @]
  /\ proc' = [proc EXCEPT ![Body(f)].pc = "decide", ![Body(f)].syms = fib[f].reg]
  /\ UNCHANGED <<scp, open>>

BodyDecide(f) ==
  /\ At(Body(f), "decide")
  /\ SetPhase(f, "Reconciling")
  /\ proc' = [proc EXCEPT
       ![Body(f)].goal = IF Registered(f) /\ fib[f].disposal.wait
                           THEN "Waiting" ELSE "Disposed",
       ![Body(f)].res = "ok",
       ![Body(f)].pc = IF proc[Body(f)].syms # {} /\ open THEN "collect" ELSE "reconciled"]
  /\ UNCHANGED <<scp, open>>

\* One issue is returned as it is, several as one ordinary error.
Aggregate(errs) ==
  CASE errs = <<>> -> "ok"
    [] Len(errs) = 1 -> errs[1]
    [] OTHER -> "plain"

\* Mutant: the lifecycle lock is not given back.
BodyFinishLocked(f) ==
  /\ At(Body(f), "reconciled")
  /\ Registered(f)
  /\ proc' = [proc EXCEPT ![Body(f)] =
       [Idle EXCEPT !.pc = "detach", !.res = Aggregate(fib[f].disposal.errs),
                    !.goal = proc[Body(f)].goal]]
  /\ UNCHANGED <<fib, scp, open>>

BodyFinish(f) ==
  LET r == proc[Body(f)].res
      errs == IF r = "ok" THEN fib[f].disposal.errs ELSE Append(fib[f].disposal.errs, r)
  IN
  /\ At(Body(f), "reconciled")
  /\ Registered(f)
  /\ fib' = [fib EXCEPT ![f].lock = NONE, ![f].disposal.errs = errs]
  /\ proc' = [proc EXCEPT ![Body(f)] =
       [Idle EXCEPT !.pc = "detach", !.res = Aggregate(errs), !.goal = proc[Body(f)].goal]]
  /\ UNCHANGED <<scp, open>>

\* The supervisor sees the panic or abort of the body.
BodyCrash(f) ==
  /\ proc[Body(f)].pc \in {"drain", "kids", "release", "decide", "reconciled"}
  /\ BodyReturns(f, "crash", NONE, TRUE)
  /\ UNCHANGED <<scp, open>>

(***************************************************************************)
(* finalize_fiber_disposal: detach a permanently disposed Fiber from the   *)
(* dependency indexes and from its Scope, then publish state, phase and    *)
(* result together. A DisposalWorker* error (also one that a dependent's   *)
(* disposal answered to the reconciliation) and a final state that         *)
(* can_transition_to forbids skip the detachment only; the ScopeDisposal*  *)
(* error of a child Scope does not.                                        *)
(***************************************************************************)
FinalResult(f) ==
  IF proc[Body(f)].goal # NONE /\ ~CanTransition(fib[f].state, proc[Body(f)].goal)
    THEN "crash" ELSE proc[Body(f)].res

Detaches(f) ==
  /\ proc[Body(f)].goal = "Disposed"
  /\ ~proc[Body(f)].bad /\ FinalResult(f) # "crash"

Detach(f) ==
  /\ At(Body(f), "detach")
  /\ Registered(f)
  /\ fib' = [fib EXCEPT ![f].disposal.phase = "Finalizing",
                        ![f].indexed = @ /\ ~Detaches(f)]
  /\ scp' = IF Detaches(f)
              THEN [scp EXCEPT ![ScopeOf[f]].fibers = Without(@, f)] ELSE scp
  /\ proc' = [proc EXCEPT ![Body(f)].pc = "publish", ![Body(f)].res = FinalResult(f)]
  /\ UNCHANGED open

\* Mutant: a disposal that ended badly takes its final state as well.
PublishAnyState(f) ==
  LET b == proc[Body(f)] IN
  /\ At(Body(f), "publish")
  /\ Registered(f)
  /\ fib' = [fib EXCEPT ![f].state = b.goal,
       ![f].disposal.done = b.res,
       ![f].disposal.phase = IF b.bad THEN "Terminated" ELSE "Complete"]
  /\ Deliver(f, b.res, Body(f), Idle)
  /\ UNCHANGED <<scp, open>>

\* Mutant: a disposal that ended badly answers nobody.
PublishSilently(f) ==
  LET b == proc[Body(f)] IN
  /\ At(Body(f), "publish")
  /\ Registered(f)
  /\ fib' = [fib EXCEPT ![f].state = IF b.bad THEN @ ELSE b.goal,
       ![f].disposal.done = b.res,
       ![f].disposal.phase = IF b.bad THEN "Terminated" ELSE "Complete"]
  /\ IF b.bad THEN End(Body(f)) ELSE Deliver(f, b.res, Body(f), Idle)
  /\ UNCHANGED <<scp, open>>

Publish(f) ==
  LET b == proc[Body(f)] IN
  /\ At(Body(f), "publish")
  /\ Registered(f)
  /\ fib' = [fib EXCEPT ![f].state = IF b.bad THEN @ ELSE b.goal,
       ![f].disposal.done = b.res,
       ![f].disposal.phase = IF b.bad THEN "Terminated" ELSE "Complete"]
  /\ Deliver(f, b.res, Body(f), Idle)
  /\ UNCHANGED <<scp, open>>

\* The record is gone: the supervisor ends and publishes nothing.
FinalizeVanished(f) ==
  /\ proc[Body(f)].pc \in {"detach", "publish"}
  /\ fib[f].state = "Gone"
  /\ End(Body(f))
  /\ UNCHANGED <<fib, scp, open>>

-----------------------------------------------------------------------------
(***************************************************************************)
(* dispose_scope_body: snapshot, then child Scopes and Fibers in reverse   *)
(* order.  An error of a descendant that is not committed terminates this  *)
(* Scope as well.                                                          *)
(***************************************************************************)
\* Mutant: child Scopes that were added last are missed.
ScopeSnapshotShort(s) ==
  /\ At(ScopeBody(s), "snapshot")
  /\ proc' = [proc EXCEPT ![ScopeBody(s)] =
       [@ EXCEPT !.pc = "next", !.fibers = scp[s].fibers, !.persist = scp[s].persist,
                 !.kids = IF scp[s].children = <<>> THEN <<>> ELSE Front(scp[s].children)]]
  /\ UNCHANGED <<fib, scp, open>>

ScopeSnapshot(s) ==
  /\ At(ScopeBody(s), "snapshot")
  /\ proc' = [proc EXCEPT ![ScopeBody(s)] =
       [@ EXCEPT !.pc = "next", !.kids = scp[s].children, !.fibers = scp[s].fibers,
                 !.persist = scp[s].persist]]
  /\ UNCHANGED <<fib, scp, open>>

ScopeChild(s) ==
  /\ At(ScopeBody(s), "next")
  /\ proc[ScopeBody(s)].kids # <<>>
  /\ DisposeScope(ScopeBody(s), Last(proc[ScopeBody(s)].kids), proc[ScopeBody(s)].persist)
  /\ UNCHANGED <<fib, open>>

ScopeFiber(s) ==
  LET b == proc[ScopeBody(s)] IN
  /\ At(ScopeBody(s), "next")
  /\ b.kids = <<>> /\ b.fibers # <<>>
  /\ IF fib[Last(b.fibers)].state \in {"Disposed", "Gone"}
       THEN proc' = [proc EXCEPT ![ScopeBody(s)].fibers = Front(@)]
       ELSE Goto(ScopeBody(s), "call")
  /\ UNCHANGED <<fib, scp, open>>

ScopeCall(s) ==
  /\ At(ScopeBody(s), "call")
  /\ DisposeFiber(ScopeBody(s), Last(proc[ScopeBody(s)].fibers), FALSE,
                  proc[ScopeBody(s)].persist)
  /\ UNCHANGED <<scp, open>>

Committed(x) ==
  IF x \in Scopes THEN scp[x].state = "Disposed"
  ELSE fib[x].state \in {"Disposed", "Waiting"}

ScopeMemberDone(s) ==
  LET b == proc[ScopeBody(s)] IN
  /\ At(ScopeBody(s), "back")
  /\ proc' = [proc EXCEPT ![ScopeBody(s)] =
       [b EXCEPT !.pc = "next", !.tgt = NONE, !.res = "none",
          !.kids = IF b.tgt \in Scopes THEN Front(@) ELSE @,
          !.fibers = IF b.tgt \in Fibers THEN Front(@) ELSE @,
          !.issues = @ \/ b.res # "ok",
          !.bad = @ \/ (b.res # "ok" /\ (~Committed(b.tgt) \/ b.res \in Terminal))]]
  /\ UNCHANGED <<fib, scp, open>>

(***************************************************************************)
(* finalize_scope_disposal: state, unlinking from the parent and the       *)
(* completion change together.                                             *)
(***************************************************************************)
ScopeResult(b) == IF b.bad THEN "scope" ELSE IF b.issues THEN "plain" ELSE "ok"

ScopePublish(s) ==
  LET b == proc[ScopeBody(s)] IN
  /\ At(ScopeBody(s), "next")
  /\ b.kids = <<>> /\ b.fibers = <<>>
  /\ scp' = [x \in Scopes |->
       IF x = s THEN [scp[s] EXCEPT !.state = IF b.bad THEN "Terminated" ELSE "Disposed",
                                    !.done = ScopeResult(b)]
       ELSE IF x = Parent[s] /\ ~b.bad THEN [scp[x] EXCEPT !.children = Without(@, s)]
       ELSE scp[x]]
  /\ Deliver(s, ScopeResult(b), ScopeBody(s), Idle)
  /\ UNCHANGED <<fib, open>>

-----------------------------------------------------------------------------
(***************************************************************************)
(* collect_garbage: Disposed Fibers leave the registry, the indexes and    *)
(* their Scopes; then Disposed Scopes that are empty leave theirs.         *)
(***************************************************************************)
Dead == {f \in Fibers : fib[f].state = "Disposed"}

SweptScope(s) ==
  LET r == [scp[s] EXCEPT !.fibers = Retain(@, Fibers \ Dead)]
  IN  IF s # Root /\ r.state = "Disposed" /\ r.children = <<>> /\ r.fibers = <<>>
        THEN [NewScope("Gone") EXCEPT !.done = r.done] ELSE r

CollectGarbage ==
  /\ scp' = [s \in Scopes |-> SweptScope(s)]
  /\ fib' = [f \in Fibers |->
       IF f \in Dead THEN [fib[f] EXCEPT !.state = "Gone", !.indexed = FALSE] ELSE fib[f]]
  /\ <<fib, scp>>' # <<fib, scp>>
  /\ UNCHANGED <<proc, open>>

(***************************************************************************)
(* converge_host_failure, for a report about the current generation (any   *)
(* other is ignored).                                                      *)
(***************************************************************************)
HostFailure(f) ==
  /\ At(HostWorker(f), "idle")
  /\ fib[f].lock = NONE
  /\ fib[f].state = "Active"
  /\ fib' = [fib EXCEPT ![f].state = "Failed"]
  /\ Goto(HostWorker(f), "call")
  /\ UNCHANGED <<scp, open>>

HostDispose(f) ==
  /\ At(HostWorker(f), "call")
  /\ DisposeFiber(HostWorker(f), f, FALSE, FALSE)
  /\ UNCHANGED <<scp, open>>

HostReturn(f) ==
  /\ At(HostWorker(f), "back")
  /\ End(HostWorker(f))
  /\ UNCHANGED <<fib, scp, open>>

(***************************************************************************)
(* shutdown_detailed: begin_shutdown takes the admission lock exclusively, *)
(* then the root Scope is disposed persistently.                           *)
(***************************************************************************)
BeginShutdown ==
  /\ open
  /\ \A f \in Fibers : ~At(Installer(f), "index")
  /\ open' = FALSE
  /\ UNCHANGED <<fib, scp, proc>>

ShutdownRoot ==
  /\ ~open
  /\ DisposeScope(NONE, Root, TRUE)
  /\ UNCHANGED <<fib, open>>

-----------------------------------------------------------------------------
(***************************************************************************)
(* Steps of the runtime's own tasks: the scheduler runs every runnable     *)
(* task, so they are weakly fair.                                          *)
(***************************************************************************)
InstallStep(f) ==
  \/ InstallIndex(f) \/ InstallValidate(f) \/ InstallRemove(f)
  \/ InstallCheck(f) \/ InstallPark(f) \/ InstallReturn(f)

CallStep(p) == Refused(p) \/ Activate(p) \/ FailActivation(p) \/ Rollback(p)

ActivationStep(f) == Seal(f) \/ Commit(f) \/ ActivationDone(f)

ReconcileStep(p) ==
  \/ Collect(p) \/ (\E g \in Fibers : Pick(p, g)) \/ Judge(p)
  \/ CallDispose(p) \/ CandidateDone(p) \/ ReconcileDone(p)

BodyStep(f) ==
  \/ BodyVanished(f) \/ BodyBegin(f) \/ BodyDrained(f) \/ BodyDrainTimeout(f)
  \/ BodyChildScope(f) \/ BodyChildScopeDone(f) \/ BodyChildScopesDone(f)
  \/ (\E failed \in BOOLEAN : BodyRelease(f, failed))
  \/ BodyDecide(f) \/ BodyFinish(f)
  \/ Detach(f) \/ Publish(f) \/ FinalizeVanished(f)

ScopeStep(s) ==
  \/ ScopeSnapshot(s) \/ ScopeChild(s) \/ ScopeFiber(s) \/ ScopeCall(s)
  \/ ScopeMemberDone(s) \/ ScopePublish(s)

HostStep(f) == HostDispose(f) \/ HostReturn(f)

(***************************************************************************)
(* What plugins, hosts, clients and other executions choose to do.         *)
(***************************************************************************)
PluginStep(f) == (\E d \in Services : Provide(f, d)) \/ StartOk(f) \/ StartFails(f)

Environment ==
  \/ \E f \in Fibers : Install(f)
  \/ \E s \in Scopes : CreateScope(s) \/ ContextCreateScope(s)
  \/ \E f \in Dropped, w \in BOOLEAN : ClientDisposeFiber(f, w)
  \/ \E s \in Closing : ClientDisposeScope(s)
  \/ \E f \in Leased : Lease(f) \/ DropLease(f)
  \/ \E f \in Crashing : BodyCrash(f)
  \/ \E f \in Hosted : HostFailure(f)
  \/ Shutdowns /\ (BeginShutdown \/ ShutdownRoot)
  \/ CollectGarbage

Next ==
  \/ Environment
  \/ \E p \in Procs : CallStep(p)
  \/ \E p \in Reconcilers : ReconcileStep(p)
  \/ \E f \in Fibers : \/ InstallStep(f) \/ ActivationStep(f) \/ BodyStep(f)
                        \/ HostStep(f) \/ PluginStep(f)
  \/ \E s \in Scopes : ScopeStep(s)

Spec == Init /\ [][Next]_vars

(***************************************************************************)
(* Plugins are assumed to return from start.                               *)
(***************************************************************************)
FairSpec ==
  /\ Spec
  /\ \A p \in Procs : WF_vars(CallStep(p))
  /\ \A p \in Reconcilers : WF_vars(ReconcileStep(p))
  /\ \A f \in Fibers : /\ WF_vars(InstallStep(f)) /\ WF_vars(ActivationStep(f))
                       /\ WF_vars(BodyStep(f)) /\ WF_vars(HostStep(f))
                       /\ WF_vars(PluginStep(f))
  /\ \A s \in Scopes : WF_vars(ScopeStep(s))

-----------------------------------------------------------------------------
\* The control state and the locals of a process.
Frames ==
  [pc : {"idle", "index", "validate", "remove", "check", "park", "lock", "activating",
         "fail", "rollback", "wait", "back", "start", "seal", "commit", "collect",
         "pick", "judge", "call", "reconciled", "queue", "drain", "kids", "release",
         "decide", "detach", "publish", "snapshot", "next"},
   tgt : Fibers \cup Scopes \cup {NONE}, seen : FiberStates, res : Results,
   rollback : BOOLEAN, caller : Procs \cup {NONE}, syms : SUBSET Services,
   todo : SUBSET Fibers, kids : Seq(Scopes), fibers : Seq(Fibers),
   persist : BOOLEAN, issues : BOOLEAN, bad : BOOLEAN,
   goal : {NONE, "Waiting", "Disposed"}]

(***************************************************************************)
(* The type invariant: every record keeps its shape, and no process is at  *)
(* a control point or in a phase that the code does not have.              *)
(***************************************************************************)
TypeOK ==
  /\ fib \in [Fibers ->
       [state : FiberStates,
        disposal : [phase : Phases, wait : BOOLEAN, persist : BOOLEAN,
                    errs : Seq(Results), done : Results],
        visible : BOOLEAN, lease : BOOLEAN, reg : SUBSET Services,
        kids : Seq(Scopes), indexed : BOOLEAN, lock : Procs \cup {NONE}]]
  /\ scp \in [Scopes ->
       [state : {"Absent", "Active", "Disposing", "Disposed", "Terminated", "Gone"},
        children : Seq(Scopes), fibers : Seq(Fibers), persist : BOOLEAN,
        done : Results]]
  /\ proc \in [Procs -> Frames]
  /\ open \in BOOLEAN

(***************************************************************************)
(* DSP-003: while an execution of a Fiber's services is in flight, none of *)
(* its services is withdrawn, none of its child Scopes is torn down by its *)
(* own disposal, and its disposal cannot be committed.  A drain timeout    *)
(* leaves everything in place.                                             *)
(***************************************************************************)
DrainBeforeCleanup ==
  \A f \in Fibers : fib[f].lease =>
    /\ fib[f].reg = Provides[f]
    /\ fib[f].disposal.phase \notin {"ChildScopes", "Release", "Reconciling", "Complete"}

(***************************************************************************)
(* FIB-002: a visible generation is one whose activation committed with    *)
(* every declared service registered, and no disposal of it has begun.     *)
(* Only its own install, whose graph had a cycle when it looked, may take  *)
(* the record away from under it (remove_unstarted_fiber).                 *)
(***************************************************************************)
VisibleCommitted ==
  \A f \in Fibers : fib[f].visible =>
    /\ fib[f].state \in {"Active", "Failed", "Gone"}
    /\ fib[f].disposal.phase = "Idle"
    /\ fib[f].reg = Provides[f]

(***************************************************************************)
(* A committed disposal leaves nothing behind: no service and no child     *)
(* Scope is registered by an activation that raced with the body, and the  *)
(* Scopes that the plugin created have ended.                              *)
(***************************************************************************)
NothingLeftBehind ==
  \A f \in Fibers : fib[f].state = "Disposed" =>
    /\ fib[f].reg = {} /\ fib[f].kids = <<>> /\ ~fib[f].visible
    /\ \A s \in Scopes : Owner[s] = f =>
         scp[s].state \in {"Absent", "Disposed", "Terminated", "Gone"}

(***************************************************************************)
(* A restart finds nothing of the previous generation: when activate_body  *)
(* makes a Fiber Starting, no service, child Scope, lease or visible gate  *)
(* of it is left.                                                          *)
(***************************************************************************)
RestartClean ==
  [][\A f \in Fibers : fib[f].state # "Starting" /\ fib'[f].state = "Starting" =>
       /\ fib'[f].reg = {} /\ fib'[f].kids = <<>>
       /\ ~fib'[f].lease /\ ~fib'[f].visible]_vars

(***************************************************************************)
(* SCP-003 when no Fiber is put back to Waiting: every Fiber ever          *)
(* installed in a Disposed Scope is Disposed, also one whose installation  *)
(* or host failure raced with the Scope's snapshot.  A disposal that ran   *)
(* on its own detaches the Fiber first, so the Scope may be published      *)
(* while that one, with nothing left to clean up, is not yet.  And its     *)
(* child Scopes are Disposed (SCP-002), also the ones that were being      *)
(* created or disposed by others.                                          *)
(***************************************************************************)
ScopeMembersEnd ==
  /\ \A f \in Fibers : scp[ScopeOf[f]].state \in {"Disposed", "Gone"} =>
       \/ fib[f].state \in {"Absent", "Disposed", "Gone"}
       \/ /\ At(Body(f), "publish") /\ proc[Body(f)].goal = "Disposed"
          /\ f \notin Elements(scp[ScopeOf[f]].fibers)
  /\ \A s \in Scopes \ {Root} : scp[Parent[s]].state \in {"Disposed", "Gone"} =>
       scp[s].state \in {"Absent", "Disposed", "Gone"}

(***************************************************************************)
(* DSP-001: whoever waits for a completion waits for a disposal that is    *)
(* still being worked on, through panics, timeouts and reclamation.        *)
(***************************************************************************)
NoOrphanWaiter ==
  \A x \in Procs : At(x, "wait") =>
    LET t == proc[x].tgt IN
    IF t \in Fibers THEN fib[t].disposal.done = "none" /\ ~At(Body(t), "idle")
    ELSE scp[t].done = "none" /\ ~At(ScopeBody(t), "idle")

(***************************************************************************)
(* Installs that race each other never leave a dependency cycle behind:    *)
(* when every process has returned, the graph of the remaining Fibers is   *)
(* acyclic (validate_dependency_graph runs after the Fiber is indexed).    *)
(***************************************************************************)
CyclesRejected == (\A x \in Procs : At(x, "idle")) => ~Cyclic

(***************************************************************************)
(* Shutdown linearization: once admission is closed no Fiber becomes       *)
(* Starting or Active and no Scope becomes Active.                         *)
(***************************************************************************)
ClosedAdmitsNothing ==
  [][~open =>
       /\ \A f \in Fibers : fib'[f].state \in {"Starting", "Active"} => fib'[f].state = fib[f].state
       /\ \A s \in Scopes : scp'[s].state = "Active" => scp[s].state = "Active"]_vars

(***************************************************************************)
(* Every disposal of a Fiber or Scope that has begun publishes a result.   *)
(***************************************************************************)
DisposalsEnd ==
  /\ \A f \in Fibers : (fib[f].disposal.phase # "Idle") ~> (fib[f].disposal.done # "none")
  /\ \A s \in Scopes : (scp[s].state = "Disposing") ~> (scp[s].done # "none")

(***************************************************************************)
(* Every accepted install returns to its caller.                           *)
(***************************************************************************)
InstallsEnd == \A f \in Fibers : []<>At(Installer(f), "idle")

\* Every process of a runtime that is not shut down has returned.
Quiescent == open /\ \A x \in Procs : At(x, "idle")

(***************************************************************************)
(* reconcile_symbols: dependents follow their providers.  At rest, a Fiber *)
(* that ran when its provider went away is not Active without it, however  *)
(* its disposal, the disposal of its Scope and the arrival of another      *)
(* provider meet.                                                          *)
(***************************************************************************)
ActiveHasDependencies ==
  Quiescent => \A f \in Fibers : fib[f].state = "Active" => Met(f)

-----------------------------------------------------------------------------
(***************************************************************************)
(* Statements of the repository that the code does not keep.               *)
(***************************************************************************)

(***************************************************************************)
(* INVARIANTS.md and SCP-003: a Disposed Scope contains no Active Fiber.   *)
(* A dependent that was put back to Waiting is still a member when its     *)
(* Scope completes, and activate never looks at the Scope.                 *)
(***************************************************************************)
DisposedScopeQuiet ==
  \A f \in Fibers : fib[f].state = "Active" => scp[ScopeOf[f]].state # "Disposed"

(***************************************************************************)
(* disposal.rs: "A permanent disposal dominates a dependency-restart       *)
(* disposal."  A permanent request that is answered leaves the Fiber       *)
(* Disposed.                                                               *)
(***************************************************************************)
PermanentDominates ==
  \A f \in Fibers :
    fib[f].disposal.phase = "Complete" /\ ~fib[f].disposal.wait =>
      fib[f].state \in {"Disposed", "Gone"}

(***************************************************************************)
(* lifecycle.rs, WaitingDependencies: "At least one required service is    *)
(* absent."  At rest, no Fiber of an Active Scope waits for services that  *)
(* are all there.                                                          *)
(***************************************************************************)
WaitingLacksDependencies ==
  Quiescent => \A f \in Fibers :
    fib[f].state = "Waiting" /\ scp[ScopeOf[f]].state = "Active" => ~Met(f)

=============================================================================
