------------------------------ MODULE Shutdown ------------------------------
(***************************************************************************)
(* Runtime shutdown: the AdmissionGate, the ShutdownCoordinator and its    *)
(* attempts, the RuntimeWorkerSupervisor and the TaskSupervisor, composed  *)
(* with the disposal of the Fibers in the root Scope.                      *)
(*                                                                         *)
(* A Fiber's disposal is reduced to the phases shutdown waits for: taking  *)
(* and joining its tasks and draining its generation (FiberLifecycle has   *)
(* the rest).  Time is the expiry of a deadline, which may come at any     *)
(* step.  One step is one critical section or one atomic access.           *)
(***************************************************************************)
EXTENDS Integers, FiniteSets

CONSTANTS
  Fibers,      \* Fibers of the root Scope
  Present,     \* the ones that are Active when the model starts
  Tasks,       \* owned tasks
  OwnerOf,     \* the Fiber of a task
  Workers,     \* Runtime workers
  KindsOf,     \* what a worker may do
  TargetOf,    \* the Fiber an Install worker activates
  Callers,     \* callers of shutdown_detailed
  MaxAttempts, \* bound on shutdown attempts
  NONE

ASSUME ShutdownAssumption ==
  /\ Present \subseteq Fibers /\ OwnerOf \in [Tasks -> Fibers]
  /\ KindsOf \in [Workers -> SUBSET {"Install", "DependencyReconcile", "ReloadTransaction"}]
  /\ TargetOf \in [Workers -> Fibers \cup {NONE}]
  /\ MaxAttempts \in Nat \ {0}
  /\ NONE \notin {"Incomplete", "Complete"}

VARIABLES
  admission,   \* AdmissionGate.state
  readers,     \* workers whose registration holds the admission guard
  lifecycle,   \* CoordinatorState.lifecycle
  attempt,     \* number of the current operation, 0 before the first
  sup,         \* per attempt: step of its supervisor
  expired,     \* per attempt: its deadline has passed
  blockers,    \* per attempt: what the audit found
  outcome,     \* per attempt: ShutdownCompletion.outcome
  caller,      \* per caller: step, attempt observed, woken
  map,         \* RuntimeWorkerSupervisor.workers
  joins,       \* workers taken by shutdown_until
  worker,      \* per worker: kind, step, token, abort, times recorded
  arena,       \* TaskSupervisor.arena
  task,        \* per task: step, abort, times recorded
  fiber        \* per Fiber: step, tasks, ids taken, tasks joined, leases, persistent

gate == <<admission, readers>>
coord == <<lifecycle, attempt, sup, expired, blockers, outcome>>
work == <<map, joins, worker>>
vars == <<gate, coord, caller, work, arena, task, fiber>>

Attempts == 1..MaxAttempts

Init ==
  /\ admission = "running" /\ readers = {}
  /\ lifecycle = "Running" /\ attempt = 0
  /\ sup = [a \in Attempts |-> "none"]
  /\ expired = [a \in Attempts |-> FALSE]
  /\ blockers = [a \in Attempts |-> {}]
  /\ outcome = [a \in Attempts |-> NONE]
  /\ caller = [c \in Callers |-> [pc |-> "idle", on |-> 0, woken |-> FALSE]]
  /\ map = {} /\ joins = {} /\ arena = {}
  /\ \E kinds \in {k \in [Workers -> UNION {KindsOf[w] : w \in Workers}] :
                    \A w \in Workers : k[w] \in KindsOf[w]} :
       worker = [w \in Workers |-> [pc |-> "unborn", kind |-> kinds[w], cancel |-> FALSE,
                                    abort |-> FALSE, recorded |-> 0]]
  /\ task = [t \in Tasks |-> [pc |-> "unborn", abort |-> FALSE, recorded |-> 0]]
  /\ fiber = [f \in Fibers |-> [pc |-> IF f \in Present THEN "active" ELSE "absent",
                                committed |-> f \in Present, cancelled |-> FALSE,
                                tasks |-> {}, ids |-> {}, joined |-> {}, lease |-> FALSE,
                                persist |-> FALSE]]

-----------------------------------------------------------------------------
(***************************************************************************)
(* RuntimeWorkerSupervisor.  A registration passes the admission gate.     *)
(* Install, GC and reconciliation hold the guard until the worker is in    *)
(* the map; reload_owned gives it back before it spawns.                   *)
(***************************************************************************)
WorkerAt(w, pc) == worker[w].pc = pc
MoveWorker(w, pc) == worker' = [worker EXCEPT ![w].pc = pc]
ExitedWorker(w, n) ==
  [worker[w] EXCEPT !.pc = "exited", !.cancel = FALSE, !.abort = FALSE, !.recorded = @ + n]
cleanup(w) == worker[w].kind # "DependencyReconcile"

\* Mutant: no registration keeps the guard while it spawns.
HoldsGuardNever(w) == w \notin Workers

HoldsGuard(w) == worker[w].kind # "ReloadTransaction"

WorkerEnter(w) ==
  /\ WorkerAt(w, "unborn") /\ admission = "running"
  /\ MoveWorker(w, "registering")
  /\ readers' = IF HoldsGuard(w) THEN readers \cup {w} ELSE readers
  /\ UNCHANGED <<admission, coord, caller, map, joins, arena, task, fiber>>

\* spawn: into the map, then the start signal
WorkerSpawn(w) ==
  /\ WorkerAt(w, "registering")
  /\ map' = map \cup {w} /\ readers' = readers \ {w}
  /\ MoveWorker(w, "running")
  /\ UNCHANGED <<admission, coord, caller, joins, arena, task, fiber>>

\* The body ends by itself, with a result, an error or a panic.  An Install
\* that has created its Fiber ends in InstallCommits or InstallRolledBack.
WorkerReturns(w) ==
  /\ WorkerAt(w, "running")
  /\ MoveWorker(w, "finishing")
  /\ UNCHANGED <<gate, coord, caller, map, joins, arena, task, fiber>>

\* The select of a worker that is not cleanup sees its token.
WorkerCancelled(w) ==
  /\ WorkerAt(w, "running") /\ ~cleanup(w) /\ worker[w].cancel
  /\ MoveWorker(w, "finishing")
  /\ UNCHANGED <<gate, coord, caller, map, joins, arena, task, fiber>>

\* Mutant: a worker that shutdown has taken out of the map records itself too.
WorkerCompleteTwice(w) ==
  /\ WorkerAt(w, "finishing")
  /\ map' = map \ {w}
  /\ worker' = [worker EXCEPT ![w] = ExitedWorker(w, 1)]
  /\ UNCHANGED <<gate, coord, caller, joins, arena, task, fiber>>

\* complete_worker: whoever takes the entry out of the map records the result.
WorkerComplete(w) ==
  /\ WorkerAt(w, "finishing")
  /\ map' = map \ {w}
  /\ worker' = [worker EXCEPT ![w] = ExitedWorker(w, IF w \in map THEN 1 ELSE 0)]
  /\ UNCHANGED <<gate, coord, caller, joins, arena, task, fiber>>

\* The abort takes effect at an await, so never between the body and complete_worker.
WorkerAborted(w) ==
  /\ worker[w].abort /\ worker[w].pc \in {"running", "activating", "rolling_back"}
  /\ worker' = [worker EXCEPT ![w] = ExitedWorker(w, 0)]
  /\ UNCHANGED <<gate, coord, caller, map, joins, arena, task, fiber>>

-----------------------------------------------------------------------------
(***************************************************************************)
(* What an Install does to its Fiber, and the Fiber's use while Active.    *)
(***************************************************************************)
FiberAt(f, pc) == fiber[f].pc = pc
Ended(f) == fiber[f].pc \in {"absent", "disposed"}

\* No disposal of the Fiber is due: it ended, or it was terminated for good, by
\* its drain's timeout or by a panic.
Settled(f) == Ended(f) \/ fiber[f].pc \in {"terminated", "panicked"}
OwnTasks(f) == {t \in Tasks : OwnerOf[t] = f}

\* The Fiber's record exists and its start method has spawned some tasks, which
\* wait behind the activation barrier.
InstallCreates(w, f) ==
  /\ WorkerAt(w, "running") /\ worker[w].kind = "Install" /\ TargetOf[w] = f
  /\ FiberAt(f, "absent") /\ admission = "running"
  /\ MoveWorker(w, "activating")
  /\ \E staged \in SUBSET OwnTasks(f) :
       /\ fiber' = [fiber EXCEPT ![f].pc = "starting", ![f].tasks = staged]
       /\ arena' = arena \cup staged
       /\ task' = [t \in Tasks |-> IF t \in staged THEN [task[t] EXCEPT !.pc = "barrier"]
                                                   ELSE task[t]]
  /\ UNCHANGED <<gate, coord, caller, map, joins>>

\* The commit looks at the admission gate again.
InstallCommits(w, f) ==
  /\ WorkerAt(w, "activating") /\ TargetOf[w] = f /\ admission = "running"
  /\ fiber' = [fiber EXCEPT ![f].pc = "active", ![f].committed = TRUE]
  /\ MoveWorker(w, "finishing")
  /\ UNCHANGED <<gate, coord, caller, map, joins, arena, task>>

\* A failed start, or an admission closed before the commit.
InstallRollsBack(w, f) ==
  /\ WorkerAt(w, "activating") /\ TargetOf[w] = f
  /\ MoveWorker(w, "rolling_back")
  /\ fiber' = [fiber EXCEPT ![f].pc = "disposing"]
  /\ UNCHANGED <<gate, coord, caller, map, joins, arena, task>>

InstallRolledBack(w, f) ==
  /\ WorkerAt(w, "rolling_back") /\ TargetOf[w] = f /\ FiberAt(f, "disposed")
  /\ MoveWorker(w, "finishing")
  /\ UNCHANGED <<gate, coord, caller, map, joins, arena, task, fiber>>

\* Context::spawn on an Active Fiber, under the admission guard and its record
SpawnTask(t) ==
  /\ task[t].pc = "unborn" /\ admission = "running" /\ FiberAt(OwnerOf[t], "active")
  /\ arena' = arena \cup {t}
  /\ fiber' = [fiber EXCEPT ![OwnerOf[t]].tasks = @ \cup {t}]
  /\ task' = [task EXCEPT ![t].pc = "barrier"]
  /\ UNCHANGED <<gate, coord, caller, work>>

\* A caller takes or drops a ServiceHandle of the Fiber's generation.
AcquireHandle(f) ==
  /\ FiberAt(f, "active") /\ admission = "running"
  /\ fiber' = [fiber EXCEPT ![f].lease = TRUE]
  /\ UNCHANGED <<gate, coord, caller, work, arena, task>>

ReleaseHandle(f) ==
  /\ fiber[f].lease
  /\ fiber' = [fiber EXCEPT ![f].lease = FALSE]
  /\ UNCHANGED <<gate, coord, caller, work, arena, task>>

-----------------------------------------------------------------------------
(***************************************************************************)
(* TaskSupervisor.                                                         *)
(***************************************************************************)
TaskAt(t, pc) == task[t].pc = pc
ExitedTask(t, n) ==
  [task[t] EXCEPT !.pc = "exited", !.abort = FALSE, !.recorded = @ + n]
Stopped(t) == fiber[OwnerOf[t]].cancelled

\* activation.wait_for(committed)
Admitted(t) == TaskAt(t, "barrier") /\ fiber[OwnerOf[t]].committed

TaskStart(t) ==
  /\ Admitted(t)
  /\ task' = [task EXCEPT ![t].pc = "running"]
  /\ UNCHANGED <<gate, coord, caller, work, arena, fiber>>

TaskReturns(t) ==
  /\ TaskAt(t, "running")
  /\ task' = [task EXCEPT ![t].pc = "finishing"]
  /\ UNCHANGED <<gate, coord, caller, work, arena, fiber>>

TaskCancelled(t) ==
  /\ task[t].pc \in {"barrier", "running"} /\ Stopped(t)
  /\ task' = [task EXCEPT ![t].pc = "finishing"]
  /\ UNCHANGED <<gate, coord, caller, work, arena, fiber>>

\* complete: remove from the arena, or leave it to cancel_all, which has done so
TaskComplete(t) ==
  /\ TaskAt(t, "finishing")
  /\ arena' = arena \ {t}
  /\ task' = [task EXCEPT ![t] = ExitedTask(t, IF t \in arena THEN 1 ELSE 0)]
  /\ fiber' = [fiber EXCEPT ![OwnerOf[t]].tasks = IF t \in arena THEN @ \ {t} ELSE @]
  /\ UNCHANGED <<gate, coord, caller, work>>

TaskAborted(t) ==
  /\ task[t].abort /\ task[t].pc \in {"barrier", "running"}
  /\ task' = [task EXCEPT ![t] = ExitedTask(t, 0)]
  /\ UNCHANGED <<gate, coord, caller, work, arena, fiber>>

(***************************************************************************)
(* Disposal of a Fiber: take the ids and cancel, take the tasks that are   *)
(* still in the arena, join them until the grace is over, abort and join   *)
(* the rest, drain the generation.  A drain whose grace is over begins     *)
(* again if a request was persistent; otherwise the disposal is Terminated *)
(* and the Fiber stays Disposing: no later request begins another one.     *)
(* So it does when the cleanup after the drain panics.                     *)
(***************************************************************************)
\* The activation holds the Fiber's lifecycle lock.
LifecycleFree(f) ==
  \A w \in Workers : TargetOf[w] = f => ~WorkerAt(w, "activating")

\* A client or a host failure disposes the Fiber; shutdown does not refuse them.
DisposeFiber(f) ==
  /\ fiber[f].pc \in {"starting", "active"} /\ LifecycleFree(f)
  /\ fiber' = [fiber EXCEPT ![f].pc = "disposing"]
  /\ UNCHANGED <<gate, coord, caller, work, arena, task>>

TakeIds(f) ==
  /\ FiberAt(f, "disposing")
  /\ fiber' = [fiber EXCEPT ![f].pc = "taking", ![f].cancelled = TRUE,
                            ![f].ids = fiber[f].tasks, ![f].tasks = {}]
  /\ UNCHANGED <<gate, coord, caller, work, arena, task>>

TakeArena(f) ==
  /\ FiberAt(f, "taking")
  /\ fiber' = [fiber EXCEPT ![f].pc = "joining", ![f].ids = {},
                            ![f].joined = fiber[f].ids \cap arena]
  /\ arena' = arena \ fiber[f].ids
  /\ UNCHANGED <<gate, coord, caller, work, task>>

JoinTask(f, t) ==
  /\ FiberAt(f, "joining") /\ t \in fiber[f].joined /\ TaskAt(t, "exited")
  /\ fiber' = [fiber EXCEPT ![f].joined = @ \ {t}]
  /\ task' = [task EXCEPT ![t].recorded = @ + 1]
  /\ UNCHANGED <<gate, coord, caller, work, arena>>

GraceExpires(f) ==
  /\ FiberAt(f, "joining") /\ \E t \in fiber[f].joined : ~TaskAt(t, "exited") /\ ~task[t].abort
  /\ task' = [t \in Tasks |-> [task[t] EXCEPT !.abort = @ \/ (t \in fiber[f].joined /\ ~TaskAt(t, "exited"))]]
  /\ UNCHANGED <<gate, coord, caller, work, arena, fiber>>

Drained(f) ==
  /\ FiberAt(f, "joining") /\ fiber[f].joined = {} /\ ~fiber[f].lease
  /\ fiber' = [fiber EXCEPT ![f].pc = "disposed"]
  /\ UNCHANGED <<gate, coord, caller, work, arena, task>>

\* Mutant: the grace of a persistent disposal ends it as well.
DrainTimesOutAnyway(f) ==
  /\ FiberAt(f, "joining") /\ fiber[f].joined = {} /\ fiber[f].lease
  /\ fiber' = [fiber EXCEPT ![f].pc = "terminated"]
  /\ UNCHANGED <<gate, coord, caller, work, arena, task>>

DrainTimesOut(f) ==
  /\ FiberAt(f, "joining") /\ fiber[f].joined = {} /\ fiber[f].lease /\ ~fiber[f].persist
  /\ fiber' = [fiber EXCEPT ![f].pc = "terminated"]
  /\ UNCHANGED <<gate, coord, caller, work, arena, task>>

DisposalPanics(f) ==
  /\ FiberAt(f, "joining") /\ fiber[f].joined = {} /\ ~fiber[f].lease
  /\ fiber' = [fiber EXCEPT ![f].pc = "panicked"]
  /\ UNCHANGED <<gate, coord, caller, work, arena, task>>

DisposalStep(f) ==
  \/ TakeIds(f) \/ TakeArena(f) \/ GraceExpires(f) \/ Drained(f) \/ DrainTimesOut(f)
  \/ \E t \in Tasks : JoinTask(f, t)

-----------------------------------------------------------------------------
(***************************************************************************)
(* ShutdownCoordinator and the callers of shutdown_detailed.               *)
(***************************************************************************)
MoveCaller(c, pc) == caller' = [caller EXCEPT ![c].pc = pc]

\* start_or_observe: whether the current operation is joined
Observes ==
  attempt # 0 /\ (outcome[attempt] = NONE \/ lifecycle = "Complete")

Observe(c) ==
  /\ caller[c].pc = "idle" /\ Observes
  /\ caller' = [caller EXCEPT ![c] = [pc |-> "check", on |-> attempt, woken |-> FALSE]]
  /\ UNCHANGED <<gate, coord, work, arena, task, fiber>>

\* A new operation: begin_shutdown takes the admission lock as a writer.
StartAttempt(c) ==
  /\ caller[c].pc = "idle" /\ ~Observes /\ attempt < MaxAttempts /\ readers = {}
  /\ attempt' = attempt + 1 /\ lifecycle' = "ShuttingDown"
  /\ admission' = IF admission = "running" THEN "shutting_down" ELSE admission
  /\ sup' = [sup EXCEPT ![attempt + 1] = "root"]
  /\ caller' = [caller EXCEPT ![c] = [pc |-> "check", on |-> attempt + 1, woken |-> FALSE]]
  /\ UNCHANGED <<readers, expired, blockers, outcome, work, arena, task, fiber>>

\* wait_for_shutdown_completion: look, register with the Notify, look again, wait
Published(c) == outcome[caller[c].on] # NONE
Leave(c) == caller' = [caller EXCEPT ![c] = [pc |-> "idle", on |-> 0, woken |-> FALSE]]

CallerChecks(c) ==
  /\ caller[c].pc = "check"
  /\ IF Published(c) THEN Leave(c)
     ELSE caller' = [caller EXCEPT ![c].pc = "recheck", ![c].woken = FALSE]
  /\ UNCHANGED <<gate, coord, work, arena, task, fiber>>

\* Mutant: the outcome is not looked at again after the registration.
CallerSleeps(c) ==
  /\ caller[c].pc = "recheck"
  /\ caller' = [caller EXCEPT ![c].pc = "wait", ![c].woken = FALSE]
  /\ UNCHANGED <<gate, coord, work, arena, task, fiber>>

CallerRechecks(c) ==
  /\ caller[c].pc = "recheck"
  /\ IF Published(c) THEN Leave(c) ELSE MoveCaller(c, "wait")
  /\ UNCHANGED <<gate, coord, work, arena, task, fiber>>

CallerWakes(c) ==
  /\ caller[c].pc = "wait" /\ caller[c].woken
  /\ MoveCaller(c, "check")
  /\ UNCHANGED <<gate, coord, work, arena, task, fiber>>

\* The caller drops its future; the attempt goes on.
CallerDrops(c) ==
  /\ caller[c].pc # "idle"
  /\ Leave(c)
  /\ UNCHANGED <<gate, coord, work, arena, task, fiber>>

-----------------------------------------------------------------------------
(***************************************************************************)
(* run_shutdown_attempt and finalize_shutdown.                             *)
(***************************************************************************)
SupAt(a, pc) == sup[a] = pc
MoveSup(a, pc) == sup' = [sup EXCEPT ![a] = pc]

DeadlinePasses(a) ==
  /\ sup[a] \in {"root", "drain", "joining", "residue"} /\ ~expired[a]
  /\ expired' = [expired EXCEPT ![a] = TRUE]
  /\ UNCHANGED <<gate, lifecycle, attempt, sup, blockers, outcome, caller, work, arena, task, fiber>>

\* The root Scope's disposal, or the residue loop, starts a Fiber's disposal or
\* joins it; both ask for a persistent drain.
ShutdownDisposes(a, f) ==
  /\ sup[a] \in {"root", "residue"} /\ fiber[f].pc \in {"starting", "active"}
  /\ LifecycleFree(f)
  /\ fiber' = [fiber EXCEPT ![f].pc = "disposing", ![f].persist = TRUE]
  /\ UNCHANGED <<gate, coord, caller, work, arena, task>>

ShutdownJoins(a, f) ==
  /\ sup[a] \in {"root", "residue"} /\ fiber[f].pc \in {"disposing", "taking", "joining"}
  /\ ~fiber[f].persist
  /\ fiber' = [fiber EXCEPT ![f].persist = TRUE]
  /\ UNCHANGED <<gate, coord, caller, work, arena, task>>

\* The root disposal returned, also when some of its members were terminated,
\* or the deadline came first.  A client may have begun it without asking for
\* persistent drains: then ShutdownJoins need not come before this.
RootDone(a) ==
  /\ SupAt(a, "root") /\ \A f \in Fibers : Settled(f)
  /\ MoveSup(a, "drain")
  /\ UNCHANGED <<gate, lifecycle, attempt, expired, blockers, outcome, caller, work, arena, task, fiber>>

RootTimedOut(a) ==
  /\ SupAt(a, "root") /\ expired[a]
  /\ MoveSup(a, "audit_fibers")
  /\ UNCHANGED <<gate, lifecycle, attempt, expired, blockers, outcome, caller, work, arena, task, fiber>>

\* shutdown_until takes all of them, the ones that are cleanup too.
TakenByShutdown == map
LeftInMap == map \ TakenByShutdown

\* shutdown_until
DrainWorkers(a) ==
  /\ SupAt(a, "drain")
  /\ joins' = TakenByShutdown /\ map' = LeftInMap
  /\ worker' = [w \in Workers |->
       [worker[w] EXCEPT !.cancel = w \in joins' /\ ~cleanup(w) /\ ~WorkerAt(w, "exited")]]
  /\ MoveSup(a, "joining")
  /\ UNCHANGED <<gate, lifecycle, attempt, expired, blockers, outcome, caller, arena, task, fiber>>

JoinWorker(a, w) ==
  /\ SupAt(a, "joining") /\ w \in joins /\ WorkerAt(w, "exited")
  /\ joins' = joins \ {w}
  /\ worker' = [worker EXCEPT ![w].recorded = @ + 1]
  /\ UNCHANGED <<gate, coord, caller, map, arena, task, fiber>>

AbortWorkers(a) ==
  /\ SupAt(a, "joining") /\ expired[a] /\ \E w \in joins : ~WorkerAt(w, "exited") /\ ~worker[w].abort
  /\ worker' = [w \in Workers |-> [worker[w] EXCEPT !.abort = @ \/ (w \in joins /\ ~WorkerAt(w, "exited"))]]
  /\ UNCHANGED <<gate, coord, caller, map, joins, arena, task, fiber>>

WorkersJoined(a) ==
  /\ SupAt(a, "joining") /\ joins = {}
  /\ MoveSup(a, "residue")
  /\ UNCHANGED <<gate, lifecycle, attempt, expired, blockers, outcome, caller, work, arena, task, fiber>>

\* converge_shutdown_residue, with its four rounds as one: each waits for the
\* disposals that go on and has the old answer of a terminated one at once.
ResidueDone(a) ==
  /\ SupAt(a, "residue") /\ (expired[a] \/ \A f \in Fibers : Settled(f))
  /\ MoveSup(a, "audit_fibers")
  /\ UNCHANGED <<gate, lifecycle, attempt, expired, blockers, outcome, caller, work, arena, task, fiber>>

\* shutdown_blockers reads the Fibers first and the supervisors after them.
AuditFibers(a) ==
  /\ SupAt(a, "audit_fibers")
  /\ blockers' = [blockers EXCEPT ![a] =
       {b \in {"fiber", "generation"} :
          \E f \in Fibers : \/ b = "fiber" /\ ~Ended(f)
                            \/ b = "generation" /\ fiber[f].lease}]
  /\ MoveSup(a, "audit_work")
  /\ UNCHANGED <<gate, lifecycle, attempt, expired, outcome, caller, work, arena, task, fiber>>

AuditWork(a) ==
  /\ SupAt(a, "audit_work")
  /\ blockers' = [blockers EXCEPT ![a] = @ \cup (IF map # {} THEN {"workers"} ELSE {})
                                           \cup (IF arena # {} THEN {"tasks"} ELSE {})]
  /\ MoveSup(a, "finish")
  /\ UNCHANGED <<gate, lifecycle, attempt, expired, outcome, caller, work, arena, task, fiber>>

\* The attempt's own future panics: Incomplete, whatever the audit says.
AttemptPanics(a) ==
  /\ sup[a] \in {"root", "residue"}
  /\ blockers' = [blockers EXCEPT ![a] = {"panic"}]
  /\ MoveSup(a, "finish")
  /\ UNCHANGED <<gate, lifecycle, attempt, expired, outcome, caller, work, arena, task, fiber>>

\* finish: the lifecycle and the outcome in one critical section
Finish(a) ==
  /\ SupAt(a, "finish")
  /\ lifecycle' = IF blockers[a] = {} THEN "Complete" ELSE "Incomplete"
  /\ outcome' = [outcome EXCEPT ![a] = IF @ = NONE THEN lifecycle' ELSE @]
  /\ MoveSup(a, "seal")
  /\ UNCHANGED <<gate, attempt, expired, blockers, caller, work, arena, task, fiber>>

SealAdmission(a) ==
  /\ SupAt(a, "seal")
  /\ admission' = IF outcome[a] = "Complete" THEN "shutdown" ELSE admission
  /\ MoveSup(a, "notify")
  /\ UNCHANGED <<readers, lifecycle, attempt, expired, blockers, outcome, caller, work, arena, task, fiber>>

NotifyCallers(a) ==
  /\ SupAt(a, "notify")
  /\ caller' = [c \in Callers |->
       [caller[c] EXCEPT !.woken = @ \/ (caller[c].on = a /\ caller[c].pc \in {"recheck", "wait"})]]
  /\ MoveSup(a, "ended")
  /\ expired' = [expired EXCEPT ![a] = FALSE] /\ blockers' = [blockers EXCEPT ![a] = {}]
  /\ UNCHANGED <<gate, lifecycle, attempt, outcome, work, arena, task, fiber>>

-----------------------------------------------------------------------------
WorkerStep(w) ==
  \/ WorkerSpawn(w) \/ WorkerCancelled(w) \/ WorkerComplete(w) \/ WorkerAborted(w)
  \/ WorkerReturns(w)
  \/ \E f \in Fibers : \/ InstallCreates(w, f) \/ InstallCommits(w, f)
                       \/ InstallRollsBack(w, f) \/ InstallRolledBack(w, f)

TaskStep(t) ==
  TaskStart(t) \/ TaskCancelled(t) \/ TaskComplete(t) \/ TaskAborted(t)

SupervisorStep(a) ==
  \/ \E f \in Fibers : ShutdownDisposes(a, f) \/ ShutdownJoins(a, f)
  \/ DeadlinePasses(a) \/ RootDone(a) \/ RootTimedOut(a) \/ DrainWorkers(a)
  \/ \E w \in Workers : JoinWorker(a, w)
  \/ AbortWorkers(a) \/ WorkersJoined(a) \/ ResidueDone(a)
  \/ AuditFibers(a) \/ AuditWork(a) \/ Finish(a) \/ SealAdmission(a) \/ NotifyCallers(a)

CallerStep(c) == CallerChecks(c) \/ CallerRechecks(c) \/ CallerWakes(c)

Next ==
  \/ \E w \in Workers : WorkerEnter(w) \/ WorkerStep(w)
  \/ \E t \in Tasks : SpawnTask(t) \/ TaskStep(t) \/ TaskReturns(t)
  \/ \E f \in Fibers : \/ AcquireHandle(f) \/ ReleaseHandle(f) \/ DisposeFiber(f)
                       \/ DisposalStep(f) \/ DisposalPanics(f)
  \/ \E c \in Callers : Observe(c) \/ StartAttempt(c) \/ CallerStep(c) \/ CallerDrops(c)
  \/ \E a \in Attempts : SupervisorStep(a) \/ AttemptPanics(a)

Spec == Init /\ [][Next]_vars

(***************************************************************************)
(* Tasks that tokio polls go on; deadlines pass.  A plugin's task need not *)
(* return, a handle need not be dropped, and nobody need call shutdown.    *)
(***************************************************************************)
Fairness ==
  /\ \A w \in Workers : WF_vars(WorkerStep(w))
  /\ \A t \in Tasks : WF_vars(TaskStep(t))
  /\ \A f \in Fibers : WF_vars(DisposalStep(f))
  /\ \A c \in Callers : WF_vars(CallerStep(c))
  /\ \A a \in Attempts : WF_vars(SupervisorStep(a)) /\ WF_vars(DeadlinePasses(a))

FairSpec == Spec /\ Fairness

-----------------------------------------------------------------------------
\* Types; a worker is in the map or taken by shutdown_until, never in both.
TypeOK ==
  /\ admission \in {"running", "shutting_down", "shutdown"} /\ readers \subseteq Workers
  /\ lifecycle \in {"Running", "ShuttingDown", "Incomplete", "Complete"}
  /\ attempt \in 0..MaxAttempts
  /\ outcome \in [Attempts -> {NONE, "Incomplete", "Complete"}]
  /\ map \subseteq Workers /\ joins \subseteq Workers \ map
  /\ arena \subseteq Tasks
  /\ \A f \in Fibers : fiber[f].tasks \subseteq OwnTasks(f) /\ fiber[f].joined \subseteq OwnTasks(f)

(***************************************************************************)
(* Every worker and every task is classified exactly once: as long as it   *)
(* is in its supervisor's table or in a set being joined it has not been   *)
(* recorded, and when it has left both it has been, once, also when it     *)
(* ends while shutdown or a disposal is taking it.                         *)
(***************************************************************************)
ClassifiedOnce ==
  /\ \A w \in Workers :
       worker[w].recorded = IF worker[w].pc \in {"unborn", "registering"} \/ w \in map \cup joins
                            THEN 0 ELSE 1
  /\ \A t \in Tasks :
       task[t].recorded = IF TaskAt(t, "unborn") \/ t \in arena \/ t \in fiber[OwnerOf[t]].joined
                          THEN 0 ELSE 1

(***************************************************************************)
(* A published Complete stays true: no Fiber, handle, task or fenced       *)
(* worker is alive, none is being joined, and none can be admitted.  A     *)
(* reload, which registers outside the fence, can only fail at the gate.   *)
(***************************************************************************)
CompleteIsQuiet ==
  lifecycle = "Complete" =>
    /\ admission # "running" /\ readers = {}
    /\ \A f \in Fibers : Ended(f) /\ ~fiber[f].lease
    /\ \A t \in Tasks : task[t].pc \in {"unborn", "exited"}
    /\ \A w \in Workers :
         worker[w].kind # "ReloadTransaction" => worker[w].pc \in {"unborn", "exited"}

(***************************************************************************)
(* An attempt that neither ran into its deadline nor panicked is           *)
(* Incomplete for two causes only: a worker that registered outside the    *)
(* admission fence, and a Fiber whose disposal was terminated, either by a *)
(* panic or by a drain that ended before any attempt had asked for it to   *)
(* persist.  Everything else that was admitted has been disposed, drained  *)
(* and joined.                                                             *)
(***************************************************************************)
Abandoned(f) == FiberAt(f, "panicked") \/ (FiberAt(f, "terminated") /\ ~fiber[f].persist)

IncompleteHasCause ==
  \A a \in Attempts :
    sup[a] \in {"seal", "notify"} /\ outcome[a] = "Incomplete" /\ ~expired[a] /\ blockers[a] # {"panic"} =>
      /\ blockers[a] # {} /\ blockers[a] \subseteq {"fiber", "generation", "workers"}
      /\ "workers" \in blockers[a] => \E w \in Workers : ~HoldsGuard(w) /\ worker[w].pc # "unborn"
      /\ blockers[a] # {"workers"} => \E f \in Fibers : Abandoned(f)

(***************************************************************************)
(* Every caller of shutdown_detailed that goes on waiting gets an outcome: *)
(* attempts end, also when a handle is never dropped and a task never      *)
(* returns, and no wakeup is lost between the look and the registration.   *)
(***************************************************************************)
CallersReturn ==
  \A c \in Callers : caller[c].pc # "idle" ~> caller[c].pc = "idle"

-----------------------------------------------------------------------------
(***************************************************************************)
(* HARDENING.md of the shutdown: dropping the last ServiceHandle allows a  *)
(* later attempt to converge.  So a retry that meets neither its deadline  *)
(* nor a panic, its own or a disposal's, is Incomplete only for a handle   *)
(* or a worker that is still there.  A Fiber whose drain had timed out     *)
(* before the shutdown began refutes it: the handle is gone and the Fiber  *)
(* blocks every retry.                                                     *)
(***************************************************************************)
RetryConverges ==
  \A a \in Attempts \ {1} :
    /\ sup[a] = "seal" /\ outcome[a] = "Incomplete" /\ ~expired[a] /\ blockers[a] # {"panic"}
    /\ \A f \in Fibers : ~FiberAt(f, "panicked")
    => blockers[a] \cap {"generation", "workers"} # {}
=============================================================================
