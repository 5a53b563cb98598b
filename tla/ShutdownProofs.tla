--------------------------- MODULE ShutdownProofs ---------------------------
(***************************************************************************)
(* Proofs, for every set of Fibers, tasks, workers and callers and every   *)
(* bound on the attempts, that shutdown classifies every worker and task   *)
(* once, that a published Complete is true and stays so, and that an       *)
(* Incomplete has a cause: a worker outside the fence or a Fiber whose     *)
(* disposal was terminated.  The inductive invariant is built in layers,   *)
(* each of which rests on the ones before it: Typed, CoordinatorInv,       *)
(* WorkerInv, FiberInv, InstallInv, TaskInv and AttemptInv.                *)
(***************************************************************************)
EXTENDS Shutdown, TLAPS

WorkerKinds == {"Install", "DependencyReconcile", "ReloadTransaction"}
LivePCs == {"running", "activating", "rolling_back", "finishing"}
TaskLive == {"barrier", "running", "finishing"}
SupPCs == {"none", "root", "drain", "joining", "residue", "audit_fibers", "audit_work",
           "finish", "seal", "notify", "ended"}
FiberPCs == {"absent", "starting", "active", "disposing", "taking", "joining", "disposed",
            "terminated", "panicked"}

WorkerPCs == {"unborn", "registering", "exited"} \cup LivePCs
TaskPCs == {"unborn", "exited"} \cup TaskLive

WorkerRec == [pc : WorkerPCs, kind : WorkerKinds,
              cancel : BOOLEAN, abort : BOOLEAN, recorded : Nat]
TaskRec == [pc : TaskPCs, abort : BOOLEAN, recorded : Nat]
FiberRec == [pc : FiberPCs, committed : BOOLEAN, cancelled : BOOLEAN, tasks : SUBSET Tasks,
             ids : SUBSET Tasks, joined : SUBSET Tasks, lease : BOOLEAN,
             persist : BOOLEAN]

\* Layer 1: the types of all variables that the other layers read.
Typed ==
  /\ admission \in {"running", "shutting_down", "shutdown"} /\ readers \subseteq Workers
  /\ lifecycle \in {"Running", "ShuttingDown", "Incomplete", "Complete"}
  /\ attempt \in 0..MaxAttempts
  /\ sup \in [Attempts -> SupPCs]
  /\ expired \in [Attempts -> BOOLEAN]
  /\ blockers \in [Attempts -> SUBSET {"fiber", "generation", "workers", "tasks", "panic"}]
  /\ outcome \in [Attempts -> {NONE, "Incomplete", "Complete"}]
  /\ map \subseteq Workers /\ joins \subseteq Workers
  /\ worker \in [Workers -> WorkerRec]
  /\ arena \subseteq Tasks
  /\ task \in [Tasks -> TaskRec]
  /\ fiber \in [Fibers -> FiberRec]

\* Layer 2: only the last attempt can be running.  The attempts before it have
\* published Incomplete; before the first one nothing has been fenced.
CoordinatorInv ==
  /\ attempt = 0 => lifecycle = "Running"
  /\ attempt # 0 => admission # "running" /\ readers = {}
  /\ \A a \in Attempts :
       /\ a > attempt => sup[a] = "none"
       /\ a < attempt => sup[a] \in {"seal", "notify", "ended"} /\ outcome[a] = "Incomplete"
       /\ a = attempt => sup[a] # "none"
       /\ sup[a] \notin {"seal", "notify", "ended"} => outcome[a] = NONE
       /\ a = attempt => IF sup[a] \in {"seal", "notify", "ended"}
                         THEN outcome[a] = lifecycle /\ outcome[a] # NONE
                         ELSE lifecycle = "ShuttingDown"
  /\ joins # {} => attempt # 0 /\ sup[attempt] = "joining"

\* Layer 3: where a worker is registered, and what that says of its step.
WorkerInv ==
  /\ map \cap joins = {}
  /\ \A w \in Workers :
       /\ worker[w].pc \in LivePCs => w \in map \cup joins
       /\ w \in map => worker[w].pc \in LivePCs
       /\ w \in joins => worker[w].pc \in LivePCs \cup {"exited"}
       /\ worker[w].abort => w \in joins /\ worker[w].pc # "exited"
       /\ worker[w].pc = "registering" /\ HoldsGuard(w) => w \in readers
       /\ w \in readers => worker[w].pc = "registering"
       /\ worker[w].recorded = IF worker[w].pc \in {"unborn", "registering"} \/ w \in map \cup joins
                               THEN 0 ELSE 1

\* Layer 4: the phases of a Fiber's disposal, and where its tasks are kept.  Only
\* a disposal that nobody asked to persist is terminated.
FiberInv ==
  \A f \in Fibers :
    /\ fiber[f].tasks \subseteq OwnTasks(f) \cap arena
    /\ fiber[f].ids \subseteq OwnTasks(f) /\ fiber[f].joined \subseteq OwnTasks(f)
    /\ fiber[f].tasks # {} => fiber[f].pc \in {"starting", "active", "disposing"}
    /\ fiber[f].ids # {} => fiber[f].pc = "taking"
    /\ fiber[f].joined # {} => fiber[f].pc = "joining"
    /\ fiber[f].lease => ~Ended(f)
    /\ fiber[f].pc = "terminated" => ~fiber[f].persist

\* An activation owns its Fiber, which is Starting, alone.
InstallInv ==
  /\ \A w \in Workers :
       worker[w].pc = "activating" => TargetOf[w] \in Fibers /\ fiber[TargetOf[w]].pc = "starting"
  /\ \A v, w \in Workers :
       /\ worker[v].pc = "activating" /\ worker[w].pc = "activating"
       /\ TargetOf[v] = TargetOf[w]
       => v = w

TaskInv ==
  \A t \in Tasks :
    /\ t \in arena => t \in fiber[OwnerOf[t]].tasks \cup fiber[OwnerOf[t]].ids
    /\ t \in arena => task[t].pc \in TaskLive /\ t \notin fiber[OwnerOf[t]].joined
    /\ t \in fiber[OwnerOf[t]].joined => task[t].pc # "unborn"
    /\ task[t].pc \in TaskLive => t \in arena \cup fiber[OwnerOf[t]].joined
    /\ fiber[OwnerOf[t]].pc = "absent" => task[t].pc = "unborn"
    /\ task[t].abort => t \in fiber[OwnerOf[t]].joined /\ task[t].pc # "exited"
    /\ task[t].recorded = IF TaskAt(t, "unborn") \/ t \in arena \/ t \in fiber[OwnerOf[t]].joined
                          THEN 0 ELSE 1

\* Layer 5: what an attempt has established at each of its steps.
AllEnded == \A f \in Fibers : Ended(f)
AllSettled == \A f \in Fibers : Settled(f)
Abandonment == \E f \in Fibers : Abandoned(f)
FencedLeft == \A w \in Workers : w \in map => ~HoldsGuard(w)
NoFenced == \A w \in Workers : HoldsGuard(w) => worker[w].pc \in {"unborn", "exited"}
OutsideFence == \E w \in Workers : ~HoldsGuard(w) /\ worker[w].pc # "unborn"
Clean(a) == ~expired[a] /\ blockers[a] # {"panic"}

\* Every blocker that the audit found has its cause.
Caused(B) ==
  /\ B \subseteq {"fiber", "generation", "workers"}
  /\ "workers" \in B => OutsideFence
  /\ B \cap {"fiber", "generation"} # {} => Abandonment

AttemptAt(a) ==
  /\ sup[a] \in {"drain", "joining", "residue"} => AllSettled
  /\ sup[a] \in {"joining", "residue"} => FencedLeft
  /\ sup[a] = "audit_fibers" /\ ~expired[a] => AllSettled /\ FencedLeft
  /\ sup[a] = "audit_work" /\ ~expired[a] =>
       AllSettled /\ FencedLeft /\ "workers" \notin blockers[a] /\ Caused(blockers[a])
  /\ sup[a] \in {"finish", "seal", "notify"} /\ Clean(a) => Caused(blockers[a])
  /\ sup[a] = "audit_work" /\ blockers[a] = {} => AllEnded
  /\ sup[a] = "finish" /\ blockers[a] = {} => AllEnded /\ NoFenced
  /\ sup[a] \in {"seal", "notify"} /\ outcome[a] = "Incomplete" => blockers[a] # {}
  /\ outcome[a] = "Complete" => AllEnded /\ NoFenced

AttemptInv == \A a \in Attempts : AttemptAt(a)

ShutdownInv ==
  /\ Typed /\ CoordinatorInv /\ WorkerInv /\ InstallInv /\ FiberInv /\ TaskInv /\ AttemptInv

-----------------------------------------------------------------------------
(***************************************************************************)
(* What the updates of the three tables do to each entry.                  *)
(***************************************************************************)
SameWorker(v) ==
  /\ worker'[v].pc = worker[v].pc /\ worker'[v].kind = worker[v].kind
  /\ worker'[v].abort = worker[v].abort /\ worker'[v].recorded = worker[v].recorded

\* A worker moves to another step; nothing else of any worker changes.
LEMMA MovedWorker ==
  ASSUME Typed, NEW w \in Workers, NEW p \in WorkerPCs, MoveWorker(w, p)
  PROVE  /\ worker' \in [Workers -> WorkerRec]
         /\ \A v \in Workers : v # w => SameWorker(v)
         /\ worker'[w].pc = p /\ worker'[w].kind = worker[w].kind
         /\ worker'[w].abort = worker[w].abort /\ worker'[w].recorded = worker[w].recorded
<1>1. worker \in [Workers -> WorkerRec]
  BY DEF Typed
<1> QED
  BY <1>1 DEF WorkerRec, MoveWorker, SameWorker

\* A worker's future ends, and it is recorded n times.
LEMMA EndedWorker ==
  ASSUME Typed, NEW w \in Workers, NEW n \in Nat,
         worker' = [worker EXCEPT ![w] = ExitedWorker(w, n)]
  PROVE  /\ worker' \in [Workers -> WorkerRec]
         /\ \A v \in Workers : v # w => SameWorker(v)
         /\ worker'[w].pc = "exited" /\ worker'[w].kind = worker[w].kind
         /\ ~worker'[w].abort /\ worker'[w].recorded = worker[w].recorded + n
<1> DEFINE m == worker[w].recorded + n
           r1 == [worker[w] EXCEPT !.pc = "exited"]
           r2 == [r1 EXCEPT !.cancel = FALSE]
           r3 == [r2 EXCEPT !.abort = FALSE]
           r4 == [r3 EXCEPT !.recorded = m]
<1>1. worker[w] \in WorkerRec /\ m \in Nat /\ "exited" \in WorkerPCs
  BY DEF Typed, WorkerRec, WorkerPCs
<1>2. r1 \in WorkerRec /\ r1.pc = "exited" /\ r1.kind = worker[w].kind
  BY <1>1 DEF WorkerRec
<1>3. r2 \in WorkerRec /\ r2.pc = r1.pc /\ r2.kind = r1.kind
  <2> HIDE DEF r1
  <2> QED
    BY <1>2 DEF WorkerRec
<1>4. r3 \in WorkerRec /\ r3.pc = r2.pc /\ r3.kind = r2.kind /\ ~r3.abort
  <2> HIDE DEF r2
  <2> QED
    BY <1>3 DEF WorkerRec
<1>5. r4 \in WorkerRec /\ r4.pc = r3.pc /\ r4.kind = r3.kind /\ ~r4.abort /\ r4.recorded = m
  <2> HIDE DEF r3, m
  <2> QED
    BY <1>4, <1>1 DEF WorkerRec
<1>6. ExitedWorker(w, n) = r4
  BY DEF ExitedWorker
<1>7. r4 \in WorkerRec /\ r4.pc = "exited" /\ r4.kind = worker[w].kind /\ ~r4.abort /\ r4.recorded = m
  <2> HIDE DEF r1, r2, r3, r4, m
  <2> QED
    BY <1>2, <1>3, <1>4, <1>5
<1> HIDE DEF r4
<1> QED
  BY <1>6, <1>7 DEF Typed, SameWorker

\* shutdown_until joins a worker and records it.
LEMMA RecordedWorker ==
  ASSUME Typed, NEW w \in Workers, worker' = [worker EXCEPT ![w].recorded = @ + 1]
  PROVE  /\ worker' \in [Workers -> WorkerRec]
         /\ \A v \in Workers : v # w => SameWorker(v)
         /\ worker'[w].pc = worker[w].pc /\ worker'[w].kind = worker[w].kind
         /\ worker'[w].abort = worker[w].abort
         /\ worker'[w].recorded = worker[w].recorded + 1
<1>1. worker \in [Workers -> WorkerRec]
  BY DEF Typed
<1> QED
  BY <1>1 DEF WorkerRec, SameWorker

\* The tokens of some workers are cancelled.
LEMMA CancelledWorkers ==
  ASSUME Typed, NEW S,
         worker' = [w \in Workers |->
           [worker[w] EXCEPT !.cancel = w \in S /\ ~cleanup(w) /\ ~WorkerAt(w, "exited")]]
  PROVE  /\ worker' \in [Workers -> WorkerRec]
         /\ \A v \in Workers : SameWorker(v)
<1>1. worker \in [Workers -> WorkerRec]
  BY DEF Typed
<1>2. \A w \in Workers, b \in BOOLEAN :
        /\ [worker[w] EXCEPT !.cancel = b] \in WorkerRec
        /\ [worker[w] EXCEPT !.cancel = b].pc = worker[w].pc
        /\ [worker[w] EXCEPT !.cancel = b].kind = worker[w].kind
        /\ [worker[w] EXCEPT !.cancel = b].abort = worker[w].abort
        /\ [worker[w] EXCEPT !.cancel = b].recorded = worker[w].recorded
  BY <1>1 DEF WorkerRec
<1> DEFINE b(w) == w \in S /\ ~cleanup(w) /\ ~WorkerAt(w, "exited")
<1>3. \A w \in Workers : b(w) \in BOOLEAN /\ worker'[w] = [worker[w] EXCEPT !.cancel = b(w)]
  OBVIOUS
<1>4. worker' = [w \in Workers |-> [worker[w] EXCEPT !.cancel = b(w)]]
  OBVIOUS
<1> HIDE DEF b
<1>5. worker' \in [Workers -> WorkerRec]
  BY <1>2, <1>3, <1>4
<1>6. ASSUME NEW v \in Workers
      PROVE  SameWorker(v)
  <2> DEFINE r == [worker[v] EXCEPT !.cancel = b(v)]
  <2>1. worker'[v] = r /\ b(v) \in BOOLEAN
    BY <1>3
  <2>2. /\ r.pc = worker[v].pc /\ r.kind = worker[v].kind /\ r.abort = worker[v].abort
        /\ r.recorded = worker[v].recorded
    BY <1>2, <2>1
  <2> HIDE DEF r
  <2> QED
    BY <2>1, <2>2 DEF SameWorker
<1> QED
  BY <1>5, <1>6

\* Some workers are aborted.
LEMMA AbortedWorkers ==
  ASSUME Typed, NEW S,
         worker' = [w \in Workers |->
           [worker[w] EXCEPT !.abort = @ \/ (w \in S /\ ~WorkerAt(w, "exited"))]]
  PROVE  /\ worker' \in [Workers -> WorkerRec]
         /\ \A v \in Workers :
              /\ worker'[v].pc = worker[v].pc /\ worker'[v].kind = worker[v].kind
              /\ worker'[v].recorded = worker[v].recorded
              /\ worker'[v].abort => worker[v].abort \/ (v \in S /\ worker[v].pc # "exited")
<1>1. worker \in [Workers -> WorkerRec]
  BY DEF Typed
<1>2. \A w \in Workers, b \in BOOLEAN :
        /\ [worker[w] EXCEPT !.abort = b] \in WorkerRec
        /\ [worker[w] EXCEPT !.abort = b].pc = worker[w].pc
        /\ [worker[w] EXCEPT !.abort = b].kind = worker[w].kind
        /\ [worker[w] EXCEPT !.abort = b].recorded = worker[w].recorded
        /\ [worker[w] EXCEPT !.abort = b].abort = b
  BY <1>1 DEF WorkerRec
<1> DEFINE b(w) == worker[w].abort \/ (w \in S /\ ~WorkerAt(w, "exited"))
<1>3. \A w \in Workers : b(w) \in BOOLEAN /\ worker'[w] = [worker[w] EXCEPT !.abort = b(w)]
  OBVIOUS
<1>4. worker' = [w \in Workers |-> [worker[w] EXCEPT !.abort = b(w)]]
  OBVIOUS
<1>5. \A w \in Workers : b(w) => worker[w].abort \/ (w \in S /\ worker[w].pc # "exited")
  BY DEF WorkerAt
<1> HIDE DEF b
<1>6. worker' \in [Workers -> WorkerRec]
  BY <1>2, <1>3, <1>4
<1>7. ASSUME NEW v \in Workers
      PROVE  /\ worker'[v].pc = worker[v].pc /\ worker'[v].kind = worker[v].kind
             /\ worker'[v].recorded = worker[v].recorded /\ worker'[v].abort = b(v)
  <2> DEFINE r == [worker[v] EXCEPT !.abort = b(v)]
  <2>1. worker'[v] = r /\ b(v) \in BOOLEAN
    BY <1>3
  <2>2. /\ r.pc = worker[v].pc /\ r.kind = worker[v].kind
        /\ r.recorded = worker[v].recorded /\ r.abort = b(v)
    BY <1>2, <2>1
  <2> HIDE DEF r
  <2> QED
    BY <2>1, <2>2
<1> QED
  BY <1>5, <1>6, <1>7

SameTask(u) ==
  /\ task'[u].pc = task[u].pc /\ task'[u].abort = task[u].abort
  /\ task'[u].recorded = task[u].recorded

\* A task moves to another step.
LEMMA MovedTask ==
  ASSUME Typed, NEW t \in Tasks, NEW p \in TaskPCs, task' = [task EXCEPT ![t].pc = p]
  PROVE  /\ task' \in [Tasks -> TaskRec]
         /\ \A u \in Tasks : u # t => SameTask(u)
         /\ task'[t].pc = p /\ task'[t].abort = task[t].abort
         /\ task'[t].recorded = task[t].recorded
<1>1. task \in [Tasks -> TaskRec]
  BY DEF Typed
<1> QED
  BY <1>1 DEF TaskRec, SameTask

\* A task's future ends, and it is recorded n times.
LEMMA EndedTask ==
  ASSUME Typed, NEW t \in Tasks, NEW n \in Nat, task' = [task EXCEPT ![t] = ExitedTask(t, n)]
  PROVE  /\ task' \in [Tasks -> TaskRec]
         /\ \A u \in Tasks : u # t => SameTask(u)
         /\ task'[t].pc = "exited" /\ ~task'[t].abort
         /\ task'[t].recorded = task[t].recorded + n
<1> DEFINE m == task[t].recorded + n
           r1 == [task[t] EXCEPT !.pc = "exited"]
           r2 == [r1 EXCEPT !.abort = FALSE]
           r3 == [r2 EXCEPT !.recorded = m]
<1>1. task[t] \in TaskRec /\ m \in Nat /\ "exited" \in TaskPCs
  BY DEF Typed, TaskRec, TaskPCs
<1>2. r1 \in TaskRec /\ r1.pc = "exited"
  BY <1>1 DEF TaskRec
<1>3. r2 \in TaskRec /\ r2.pc = "exited" /\ ~r2.abort
  <2> HIDE DEF r1
  <2> QED
    BY <1>2 DEF TaskRec
<1>4. r3 \in TaskRec /\ r3.pc = "exited" /\ ~r3.abort /\ r3.recorded = m
  <2> HIDE DEF r2, m
  <2> QED
    BY <1>3, <1>1 DEF TaskRec
<1>5. ExitedTask(t, n) = r3
  BY DEF ExitedTask
<1> HIDE DEF r3
<1> QED
  BY <1>4, <1>5 DEF Typed, SameTask

\* cancel_all joins a task and records it.
LEMMA RecordedTask ==
  ASSUME Typed, NEW t \in Tasks, task' = [task EXCEPT ![t].recorded = @ + 1]
  PROVE  /\ task' \in [Tasks -> TaskRec]
         /\ \A u \in Tasks : u # t => SameTask(u)
         /\ task'[t].pc = task[t].pc /\ task'[t].abort = task[t].abort
         /\ task'[t].recorded = task[t].recorded + 1
<1>1. task \in [Tasks -> TaskRec]
  BY DEF Typed
<1> QED
  BY <1>1 DEF TaskRec, SameTask

\* An Install spawns the tasks of S behind the activation barrier.
LEMMA StagedTasks ==
  ASSUME Typed, NEW S,
         task' = [t \in Tasks |-> IF t \in S THEN [task[t] EXCEPT !.pc = "barrier"] ELSE task[t]]
  PROVE  /\ task' \in [Tasks -> TaskRec]
         /\ \A u \in Tasks : u \notin S => SameTask(u)
         /\ \A u \in Tasks : u \in S =>
              /\ task'[u].pc = "barrier" /\ task'[u].abort = task[u].abort
              /\ task'[u].recorded = task[u].recorded
<1>1. \A t \in Tasks : [task[t] EXCEPT !.pc = "barrier"] =
        [pc |-> "barrier", abort |-> task[t].abort, recorded |-> task[t].recorded]
  BY DEF Typed, TaskRec
<1>2. \A t \in Tasks : [task[t] EXCEPT !.pc = "barrier"] \in TaskRec
  BY <1>1 DEF Typed, TaskRec, TaskPCs, TaskLive
<1>3. task' \in [Tasks -> TaskRec]
  BY <1>2 DEF Typed
<1>4. \A u \in Tasks : u \notin S => task'[u] = task[u]
  OBVIOUS
<1>5. \A u \in Tasks : u \in S => task'[u] =
        [pc |-> "barrier", abort |-> task[u].abort, recorded |-> task[u].recorded]
  BY <1>1
<1> QED
  BY <1>3, <1>4, <1>5 DEF SameTask

\* The tasks of S that still run are aborted.
LEMMA AbortedTasks ==
  ASSUME Typed, NEW S,
         task' = [t \in Tasks |-> [task[t] EXCEPT !.abort = @ \/ (t \in S /\ ~TaskAt(t, "exited"))]]
  PROVE  /\ task' \in [Tasks -> TaskRec]
         /\ \A u \in Tasks :
              /\ task'[u].pc = task[u].pc /\ task'[u].recorded = task[u].recorded
              /\ task'[u].abort => task[u].abort \/ (u \in S /\ task[u].pc # "exited")
<1>1. task \in [Tasks -> TaskRec]
  BY DEF Typed
<1>2. \A t \in Tasks, b \in BOOLEAN :
        /\ [task[t] EXCEPT !.abort = b] \in TaskRec
        /\ [task[t] EXCEPT !.abort = b].pc = task[t].pc
        /\ [task[t] EXCEPT !.abort = b].recorded = task[t].recorded
        /\ [task[t] EXCEPT !.abort = b].abort = b
  BY <1>1 DEF TaskRec
<1> DEFINE b(t) == task[t].abort \/ (t \in S /\ ~TaskAt(t, "exited"))
<1>3. \A t \in Tasks : b(t) \in BOOLEAN /\ task'[t] = [task[t] EXCEPT !.abort = b(t)]
  OBVIOUS
<1>4. task' = [t \in Tasks |-> [task[t] EXCEPT !.abort = b(t)]]
  OBVIOUS
<1>5. \A t \in Tasks : b(t) => task[t].abort \/ (t \in S /\ task[t].pc # "exited")
  BY DEF TaskAt
<1> HIDE DEF b
<1>6. task' \in [Tasks -> TaskRec]
  BY <1>2, <1>3, <1>4
<1>7. ASSUME NEW u \in Tasks
      PROVE  /\ task'[u].pc = task[u].pc /\ task'[u].recorded = task[u].recorded
             /\ task'[u].abort = b(u)
  <2> DEFINE r == [task[u] EXCEPT !.abort = b(u)]
  <2>1. task'[u] = r /\ b(u) \in BOOLEAN
    BY <1>3
  <2>2. r.pc = task[u].pc /\ r.recorded = task[u].recorded /\ r.abort = b(u)
    BY <1>2, <2>1
  <2> HIDE DEF r
  <2> QED
    BY <2>1, <2>2
<1> QED
  BY <1>5, <1>6, <1>7

SameFiber(g) ==
  /\ fiber'[g].pc = fiber[g].pc /\ fiber'[g].tasks = fiber[g].tasks
  /\ fiber'[g].ids = fiber[g].ids /\ fiber'[g].joined = fiber[g].joined
  /\ fiber'[g].lease = fiber[g].lease /\ fiber'[g].persist = fiber[g].persist

\* The Fiber moves to another step.
LEMMA MovedFiber ==
  ASSUME Typed, NEW f \in Fibers, NEW p \in FiberPCs,
         fiber' = [fiber EXCEPT ![f].pc = p]
  PROVE  /\ fiber' \in [Fibers -> FiberRec]
         /\ \A g \in Fibers : g # f => SameFiber(g)
         /\ fiber'[f].pc = p
         /\ fiber'[f].tasks = fiber[f].tasks
         /\ fiber'[f].ids = fiber[f].ids
         /\ fiber'[f].joined = fiber[f].joined
         /\ fiber'[f].lease = fiber[f].lease
         /\ fiber'[f].persist = fiber[f].persist
<1>1. fiber \in [Fibers -> FiberRec]
  BY DEF Typed
<1> QED
  BY <1>1 DEF FiberRec, SameFiber

\* Shutdown asks the Fiber's disposal to persist.
LEMMA PersistedFiber ==
  ASSUME Typed, NEW f \in Fibers,
         fiber' = [fiber EXCEPT ![f].persist = TRUE]
  PROVE  /\ fiber' \in [Fibers -> FiberRec]
         /\ \A g \in Fibers : g # f => SameFiber(g)
         /\ fiber'[f].pc = fiber[f].pc
         /\ fiber'[f].tasks = fiber[f].tasks
         /\ fiber'[f].ids = fiber[f].ids
         /\ fiber'[f].joined = fiber[f].joined
         /\ fiber'[f].lease = fiber[f].lease
<1>1. fiber \in [Fibers -> FiberRec]
  BY DEF Typed
<1> QED
  BY <1>1 DEF FiberRec, SameFiber

\* Shutdown starts a disposal that persists.
LEMMA DisposedFiber ==
  ASSUME Typed, NEW f \in Fibers,
         fiber' = [fiber EXCEPT ![f].pc = "disposing", ![f].persist = TRUE]
  PROVE  /\ fiber' \in [Fibers -> FiberRec]
         /\ \A g \in Fibers : g # f => SameFiber(g)
         /\ fiber'[f].pc = "disposing"
         /\ fiber'[f].tasks = fiber[f].tasks
         /\ fiber'[f].ids = fiber[f].ids
         /\ fiber'[f].joined = fiber[f].joined
         /\ fiber'[f].lease = fiber[f].lease
<1> DEFINE f1 == [fiber EXCEPT ![f].pc = "disposing"]
           f2 == [f1 EXCEPT ![f].persist = TRUE]
<1>1. fiber \in [Fibers -> FiberRec]
  BY DEF Typed
<1>2. /\ f1 \in [Fibers -> FiberRec] /\ \A g \in Fibers : g # f => f1[g] = fiber[g]
      /\ f1[f].pc = "disposing" /\ f1[f].ids = fiber[f].ids /\ f1[f].joined = fiber[f].joined
      /\ f1[f].lease = fiber[f].lease /\ f1[f].tasks = fiber[f].tasks
  BY <1>1 DEF FiberRec, FiberPCs
<1>3. /\ f2 \in [Fibers -> FiberRec] /\ \A g \in Fibers : g # f => f2[g] = f1[g]
      /\ f2[f].pc = f1[f].pc /\ f2[f].ids = f1[f].ids /\ f2[f].joined = f1[f].joined
      /\ f2[f].lease = f1[f].lease /\ f2[f].tasks = f1[f].tasks
  <2> HIDE DEF f1
  <2> QED
    BY <1>2 DEF FiberRec
<1>4. fiber' = f2
  OBVIOUS
<1> HIDE DEF f1, f2
<1> QED
  BY <1>2, <1>3, <1>4 DEF SameFiber

\* An Install creates the Fiber with the tasks its start method spawned.
LEMMA CreatedFiber ==
  ASSUME Typed, NEW f \in Fibers, NEW S \in SUBSET Tasks,
         fiber' = [fiber EXCEPT ![f].pc = "starting", ![f].tasks = S]
  PROVE  /\ fiber' \in [Fibers -> FiberRec]
         /\ \A g \in Fibers : g # f => SameFiber(g)
         /\ fiber'[f].pc = "starting"
         /\ fiber'[f].tasks = S
         /\ fiber'[f].ids = fiber[f].ids
         /\ fiber'[f].joined = fiber[f].joined
         /\ fiber'[f].lease = fiber[f].lease
<1> DEFINE f1 == [fiber EXCEPT ![f].pc = "starting"]
           f2 == [f1 EXCEPT ![f].tasks = S]
<1>1. fiber \in [Fibers -> FiberRec]
  BY DEF Typed
<1>2. /\ f1 \in [Fibers -> FiberRec] /\ \A g \in Fibers : g # f => f1[g] = fiber[g]
      /\ f1[f].pc = "starting" /\ f1[f].ids = fiber[f].ids /\ f1[f].joined = fiber[f].joined
      /\ f1[f].lease = fiber[f].lease
  BY <1>1 DEF FiberRec, FiberPCs
<1>3. /\ f2 \in [Fibers -> FiberRec] /\ \A g \in Fibers : g # f => f2[g] = f1[g]
      /\ f2[f].pc = f1[f].pc /\ f2[f].ids = f1[f].ids /\ f2[f].joined = f1[f].joined
      /\ f2[f].lease = f1[f].lease /\ f2[f].tasks = S
  <2> HIDE DEF f1
  <2> QED
    BY <1>2 DEF FiberRec
<1>4. fiber' = f2
  OBVIOUS
<1> HIDE DEF f1, f2
<1> QED
  BY <1>2, <1>3, <1>4 DEF SameFiber

\* An Install commits its Fiber.
LEMMA CommittedFiber ==
  ASSUME Typed, NEW f \in Fibers,
         fiber' = [fiber EXCEPT ![f].pc = "active", ![f].committed = TRUE]
  PROVE  /\ fiber' \in [Fibers -> FiberRec]
         /\ \A g \in Fibers : g # f => SameFiber(g)
         /\ fiber'[f].pc = "active"
         /\ fiber'[f].tasks = fiber[f].tasks
         /\ fiber'[f].ids = fiber[f].ids
         /\ fiber'[f].joined = fiber[f].joined
         /\ fiber'[f].lease = fiber[f].lease
<1> DEFINE f1 == [fiber EXCEPT ![f].pc = "active"]
           f2 == [f1 EXCEPT ![f].committed = TRUE]
<1>1. fiber \in [Fibers -> FiberRec]
  BY DEF Typed
<1>2. /\ f1 \in [Fibers -> FiberRec] /\ \A g \in Fibers : g # f => f1[g] = fiber[g]
      /\ f1[f].pc = "active" /\ f1[f].ids = fiber[f].ids /\ f1[f].joined = fiber[f].joined
      /\ f1[f].lease = fiber[f].lease /\ f1[f].tasks = fiber[f].tasks
  BY <1>1 DEF FiberRec, FiberPCs
<1>3. /\ f2 \in [Fibers -> FiberRec] /\ \A g \in Fibers : g # f => f2[g] = f1[g]
      /\ f2[f].pc = f1[f].pc /\ f2[f].ids = f1[f].ids /\ f2[f].joined = f1[f].joined
      /\ f2[f].lease = f1[f].lease /\ f2[f].tasks = f1[f].tasks
  <2> HIDE DEF f1
  <2> QED
    BY <1>2 DEF FiberRec
<1>4. fiber' = f2
  OBVIOUS
<1> HIDE DEF f1, f2
<1> QED
  BY <1>2, <1>3, <1>4 DEF SameFiber

\* The set of tasks of the Fiber changes.
LEMMA RetaskedFiber ==
  ASSUME Typed, NEW f \in Fibers, NEW S \in SUBSET Tasks,
         fiber' = [fiber EXCEPT ![f].tasks = S]
  PROVE  /\ fiber' \in [Fibers -> FiberRec]
         /\ \A g \in Fibers : g # f => SameFiber(g)
         /\ fiber'[f].tasks = S
         /\ fiber'[f].pc = fiber[f].pc
         /\ fiber'[f].ids = fiber[f].ids
         /\ fiber'[f].joined = fiber[f].joined
         /\ fiber'[f].lease = fiber[f].lease
         /\ fiber'[f].persist = fiber[f].persist
<1>1. fiber \in [Fibers -> FiberRec]
  BY DEF Typed
<1> QED
  BY <1>1 DEF FiberRec, SameFiber

\* A handle of the Fiber is taken or dropped.
LEMMA LeasedFiber ==
  ASSUME Typed, NEW f \in Fibers, NEW b \in BOOLEAN,
         fiber' = [fiber EXCEPT ![f].lease = b]
  PROVE  /\ fiber' \in [Fibers -> FiberRec]
         /\ \A g \in Fibers : g # f => SameFiber(g)
         /\ fiber'[f].lease = b
         /\ fiber'[f].pc = fiber[f].pc
         /\ fiber'[f].tasks = fiber[f].tasks
         /\ fiber'[f].ids = fiber[f].ids
         /\ fiber'[f].joined = fiber[f].joined
         /\ fiber'[f].persist = fiber[f].persist
<1>1. fiber \in [Fibers -> FiberRec]
  BY DEF Typed
<1> QED
  BY <1>1 DEF FiberRec, SameFiber

\* cancel_all is left with the tasks of S to join.
LEMMA JoinedFiber ==
  ASSUME Typed, NEW f \in Fibers, NEW S \in SUBSET Tasks,
         fiber' = [fiber EXCEPT ![f].joined = S]
  PROVE  /\ fiber' \in [Fibers -> FiberRec]
         /\ \A g \in Fibers : g # f => SameFiber(g)
         /\ fiber'[f].joined = S
         /\ fiber'[f].pc = fiber[f].pc
         /\ fiber'[f].tasks = fiber[f].tasks
         /\ fiber'[f].ids = fiber[f].ids
         /\ fiber'[f].lease = fiber[f].lease
<1>1. fiber \in [Fibers -> FiberRec]
  BY DEF Typed
<1> QED
  BY <1>1 DEF FiberRec, SameFiber

\* cancel_all takes the ids of the tasks.
LEMMA TakenIds ==
  ASSUME Typed, NEW f \in Fibers,
         fiber' = [fiber EXCEPT ![f].pc = "taking", ![f].cancelled = TRUE,
                                     ![f].ids = fiber[f].tasks, ![f].tasks = {}]
  PROVE  /\ fiber' \in [Fibers -> FiberRec]
         /\ \A g \in Fibers : g # f => SameFiber(g)
         /\ fiber'[f].pc = "taking"
         /\ fiber'[f].ids = fiber[f].tasks
         /\ fiber'[f].tasks = {}
         /\ fiber'[f].joined = fiber[f].joined
         /\ fiber'[f].lease = fiber[f].lease
<1> DEFINE f1 == [fiber EXCEPT ![f].pc = "taking"]
           f2 == [f1 EXCEPT ![f].cancelled = TRUE]
           f3 == [f2 EXCEPT ![f].ids = fiber[f].tasks]
           f4 == [f3 EXCEPT ![f].tasks = {}]
<1>0. fiber \in [Fibers -> FiberRec]
  BY DEF Typed
<1>1. /\ f1 \in [Fibers -> FiberRec] /\ \A g \in Fibers : g # f => f1[g] = fiber[g]
      /\ f1[f].pc = "taking" /\ f1[f].joined = fiber[f].joined
      /\ f1[f].lease = fiber[f].lease
  BY <1>0 DEF FiberRec, FiberPCs
<1>2. /\ f2 \in [Fibers -> FiberRec] /\ \A g \in Fibers : g # f => f2[g] = f1[g]
      /\ f2[f].pc = f1[f].pc /\ f2[f].joined = f1[f].joined
      /\ f2[f].lease = f1[f].lease
  <2> HIDE DEF f1
  <2> QED
    BY <1>1 DEF FiberRec
<1>3. /\ f3 \in [Fibers -> FiberRec] /\ \A g \in Fibers : g # f => f3[g] = f2[g]
      /\ f3[f].pc = f2[f].pc /\ f3[f].joined = f2[f].joined /\ f3[f].lease = f2[f].lease
      /\ f3[f].ids = fiber[f].tasks
  <2>1. fiber[f].tasks \in SUBSET Tasks
    BY DEF Typed, FiberRec
  <2> HIDE DEF f2
  <2> QED
    BY <1>2, <2>1 DEF FiberRec
<1>4. /\ f4 \in [Fibers -> FiberRec] /\ \A g \in Fibers : g # f => f4[g] = f3[g]
      /\ f4[f].pc = f3[f].pc /\ f4[f].joined = f3[f].joined /\ f4[f].lease = f3[f].lease
      /\ f4[f].ids = f3[f].ids /\ f4[f].tasks = {}
  <2> HIDE DEF f3
  <2> QED
    BY <1>3 DEF FiberRec
<1>5. fiber' = f4
  OBVIOUS
<1> HIDE DEF f1, f2, f3, f4
<1> QED
  BY <1>1, <1>2, <1>3, <1>4, <1>5 DEF SameFiber

\* cancel_all takes the tasks of S that are left in the arena.
LEMMA TakenArena ==
  ASSUME Typed, NEW f \in Fibers, NEW S \in SUBSET Tasks,
         fiber' = [fiber EXCEPT ![f].pc = "joining", ![f].ids = {}, ![f].joined = S]
  PROVE  /\ fiber' \in [Fibers -> FiberRec]
         /\ \A g \in Fibers : g # f => SameFiber(g)
         /\ fiber'[f].pc = "joining"
         /\ fiber'[f].ids = {}
         /\ fiber'[f].joined = S
         /\ fiber'[f].tasks = fiber[f].tasks
         /\ fiber'[f].lease = fiber[f].lease
<1> DEFINE f1 == [fiber EXCEPT ![f].pc = "joining"]
           f2 == [f1 EXCEPT ![f].ids = {}]
           f3 == [f2 EXCEPT ![f].joined = S]
<1>1. /\ f1 \in [Fibers -> FiberRec] /\ \A g \in Fibers : g # f => f1[g] = fiber[g]
      /\ f1[f].pc = "joining" /\ f1[f].tasks = fiber[f].tasks /\ f1[f].lease = fiber[f].lease
  BY DEF Typed, FiberRec, FiberPCs
<1>2. /\ f2 \in [Fibers -> FiberRec] /\ \A g \in Fibers : g # f => f2[g] = f1[g]
      /\ f2[f].pc = f1[f].pc /\ f2[f].tasks = f1[f].tasks /\ f2[f].lease = f1[f].lease
      /\ f2[f].ids = {}
  <2> HIDE DEF f1
  <2> QED
    BY <1>1 DEF FiberRec
<1>3. /\ f3 \in [Fibers -> FiberRec] /\ \A g \in Fibers : g # f => f3[g] = f2[g]
      /\ f3[f].pc = f2[f].pc /\ f3[f].tasks = f2[f].tasks /\ f3[f].lease = f2[f].lease
      /\ f3[f].ids = f2[f].ids /\ f3[f].joined = S
  <2> HIDE DEF f2
  <2> QED
    BY <1>2 DEF FiberRec
<1>4. fiber' = f3
  OBVIOUS
<1> HIDE DEF f1, f2, f3
<1> QED
  BY <1>1, <1>2, <1>3, <1>4 DEF SameFiber

\* An Install creates its Fiber with a set S of tasks.
LEMMA InstallCreatesEffect ==
  ASSUME Typed, NEW w \in Workers, NEW f \in Fibers, InstallCreates(w, f)
  PROVE  /\ worker[w].pc = "running"
         /\ TargetOf[w] = f
         /\ fiber[f].pc = "absent"
         /\ admission = "running"
         /\ UNCHANGED <<map, sup, expired, blockers, outcome>>
         /\ worker' \in [Workers -> WorkerRec] /\ \A v \in Workers : v # w => SameWorker(v)
         /\ worker'[w].pc = "activating" /\ worker'[w].kind = worker[w].kind
         /\ \E S \in SUBSET OwnTasks(f) :
           /\ arena' = arena \cup S
           /\ fiber' \in [Fibers -> FiberRec]
           /\ \A g \in Fibers : g # f => SameFiber(g)
           /\ fiber'[f].pc = "starting" /\ fiber'[f].tasks = S /\ fiber'[f].ids = fiber[f].ids
           /\ fiber'[f].joined = fiber[f].joined /\ fiber'[f].lease = fiber[f].lease
           /\ task' \in [Tasks -> TaskRec]
           /\ \A u \in Tasks : u \notin S => SameTask(u)
           /\ \A u \in Tasks : u \in S =>
                /\ task'[u].pc = "barrier" /\ task'[u].abort = task[u].abort
                /\ task'[u].recorded = task[u].recorded
<1>1. PICK S \in SUBSET OwnTasks(f) :
        /\ fiber' = [fiber EXCEPT ![f].pc = "starting", ![f].tasks = S]
        /\ arena' = arena \cup S
        /\ task' = [t \in Tasks |-> IF t \in S THEN [task[t] EXCEPT !.pc = "barrier"] ELSE task[t]]
  BY DEF InstallCreates
<1>2. S \in SUBSET Tasks
  BY DEF OwnTasks
<1>3. /\ fiber' \in [Fibers -> FiberRec]
      /\ \A g \in Fibers : g # f => SameFiber(g)
      /\ fiber'[f].pc = "starting" /\ fiber'[f].tasks = S /\ fiber'[f].ids = fiber[f].ids
      /\ fiber'[f].joined = fiber[f].joined /\ fiber'[f].lease = fiber[f].lease
  BY <1>1, <1>2, CreatedFiber
<1>4. /\ task' \in [Tasks -> TaskRec]
      /\ \A u \in Tasks : u \notin S => SameTask(u)
      /\ \A u \in Tasks : u \in S =>
           /\ task'[u].pc = "barrier" /\ task'[u].abort = task[u].abort
           /\ task'[u].recorded = task[u].recorded
  BY <1>1, StagedTasks
<1>8. /\ worker[w].pc = "running"
      /\ TargetOf[w] = f
      /\ fiber[f].pc = "absent"
      /\ admission = "running"
      /\ UNCHANGED <<map, sup, expired, blockers, outcome>>
  BY DEF InstallCreates, WorkerAt, FiberAt, coord
<1>9. /\ worker' \in [Workers -> WorkerRec] /\ \A v \in Workers : v # w => SameWorker(v)
      /\ worker'[w].pc = "activating" /\ worker'[w].kind = worker[w].kind
  BY MovedWorker DEF InstallCreates, WorkerPCs, LivePCs
<1> QED
  BY <1>8, <1>9, <1>1, <1>3, <1>4

\* Context::spawn adds a task to the arena and to its Fiber.
LEMMA SpawnTaskEffect ==
  ASSUME Typed, NEW t \in Tasks, SpawnTask(t)
  PROVE  /\ task[t].pc = "unborn"
         /\ admission = "running"
         /\ fiber[OwnerOf[t]].pc = "active"
         /\ arena' = arena \cup {t}
         /\ UNCHANGED <<map, worker, sup, expired, blockers, outcome>>
         /\ task' \in [Tasks -> TaskRec] /\ fiber' \in [Fibers -> FiberRec]
         /\ \A u \in Tasks : u # t => SameTask(u)
         /\ task'[t].pc = "barrier" /\ task'[t].abort = task[t].abort
         /\ task'[t].recorded = task[t].recorded
         /\ \A g \in Fibers : g # OwnerOf[t] => SameFiber(g)
         /\ fiber'[OwnerOf[t]].tasks = fiber[OwnerOf[t]].tasks \cup {t}
         /\ fiber'[OwnerOf[t]].pc = fiber[OwnerOf[t]].pc
         /\ fiber'[OwnerOf[t]].ids = fiber[OwnerOf[t]].ids
         /\ fiber'[OwnerOf[t]].joined = fiber[OwnerOf[t]].joined
         /\ fiber'[OwnerOf[t]].lease = fiber[OwnerOf[t]].lease
<1> DEFINE f == OwnerOf[t]
           S == fiber[f].tasks \cup {t}
<1>1. f \in Fibers /\ "barrier" \in TaskPCs
  BY ShutdownAssumption DEF TaskPCs, TaskLive
<1>2. S \in SUBSET Tasks
  BY <1>1 DEF Typed, FiberRec
<1>3. task' = [task EXCEPT ![t].pc = "barrier"] /\ fiber' = [fiber EXCEPT ![f].tasks = S]
  BY DEF SpawnTask
<1> HIDE DEF S, f
<1>4. /\ task' \in [Tasks -> TaskRec] /\ \A u \in Tasks : u # t => SameTask(u)
      /\ task'[t].pc = "barrier" /\ task'[t].abort = task[t].abort
      /\ task'[t].recorded = task[t].recorded
  BY <1>1, <1>3, MovedTask
<1>5. /\ fiber' \in [Fibers -> FiberRec] /\ \A g \in Fibers : g # f => SameFiber(g)
      /\ fiber'[f].tasks = S /\ fiber'[f].pc = fiber[f].pc /\ fiber'[f].ids = fiber[f].ids
      /\ fiber'[f].joined = fiber[f].joined /\ fiber'[f].lease = fiber[f].lease
  BY <1>1, <1>2, <1>3, RetaskedFiber
<1>8. /\ task[t].pc = "unborn"
      /\ admission = "running"
      /\ fiber[OwnerOf[t]].pc = "active"
      /\ arena' = arena \cup {t}
      /\ UNCHANGED <<map, worker, sup, expired, blockers, outcome>>
  BY DEF SpawnTask, FiberAt, coord, work
<1> QED
  BY <1>8, <1>4, <1>5 DEF S, f

\* A completed task leaves its Fiber and is recorded, if it is still in the arena.
LEMMA TaskCompleteEffect ==
  ASSUME Typed, NEW t \in Tasks, TaskComplete(t)
  PROVE  /\ task[t].pc = "finishing"
         /\ arena' = arena \ {t}
         /\ UNCHANGED <<map, worker, sup, expired, blockers, outcome>>
         /\ task' \in [Tasks -> TaskRec] /\ fiber' \in [Fibers -> FiberRec]
         /\ \A u \in Tasks : u # t => SameTask(u)
         /\ task'[t].pc = "exited" /\ ~task'[t].abort
         /\ task'[t].recorded = task[t].recorded + (IF t \in arena THEN 1 ELSE 0)
         /\ \A g \in Fibers : g # OwnerOf[t] => SameFiber(g)
         /\ fiber'[OwnerOf[t]].tasks = IF t \in arena THEN fiber[OwnerOf[t]].tasks \ {t}
                                                      ELSE fiber[OwnerOf[t]].tasks
         /\ fiber'[OwnerOf[t]].pc = fiber[OwnerOf[t]].pc
         /\ fiber'[OwnerOf[t]].ids = fiber[OwnerOf[t]].ids
         /\ fiber'[OwnerOf[t]].joined = fiber[OwnerOf[t]].joined
         /\ fiber'[OwnerOf[t]].lease = fiber[OwnerOf[t]].lease
         /\ fiber'[OwnerOf[t]].persist = fiber[OwnerOf[t]].persist
<1> DEFINE f == OwnerOf[t]
           S == IF t \in arena THEN fiber[f].tasks \ {t} ELSE fiber[f].tasks
           n == IF t \in arena THEN 1 ELSE 0
<1>1. f \in Fibers /\ n \in Nat
  BY ShutdownAssumption
<1>2. S \in SUBSET Tasks
  BY <1>1 DEF Typed, FiberRec
<1>3. task' = [task EXCEPT ![t] = ExitedTask(t, n)] /\ fiber' = [fiber EXCEPT ![f].tasks = S]
  BY DEF TaskComplete
<1> HIDE DEF S, f, n
<1>4. /\ task' \in [Tasks -> TaskRec] /\ \A u \in Tasks : u # t => SameTask(u)
      /\ task'[t].pc = "exited" /\ ~task'[t].abort /\ task'[t].recorded = task[t].recorded + n
  BY <1>1, <1>3, EndedTask
<1>5. /\ fiber' \in [Fibers -> FiberRec] /\ \A g \in Fibers : g # f => SameFiber(g)
      /\ fiber'[f].tasks = S /\ fiber'[f].pc = fiber[f].pc /\ fiber'[f].ids = fiber[f].ids
      /\ fiber'[f].joined = fiber[f].joined /\ fiber'[f].lease = fiber[f].lease
      /\ fiber'[f].persist = fiber[f].persist
  BY <1>1, <1>2, <1>3, RetaskedFiber
<1>8. /\ task[t].pc = "finishing"
      /\ arena' = arena \ {t}
      /\ UNCHANGED <<map, worker, sup, expired, blockers, outcome>>
  BY DEF TaskComplete, TaskAt, coord, work
<1> QED
  BY <1>8, <1>4, <1>5 DEF S, f, n

\* cancel_all takes out of the arena the tasks it has the ids of.
LEMMA TakeArenaEffect ==
  ASSUME Typed, NEW f \in Fibers, TakeArena(f)
  PROVE  /\ fiber[f].pc = "taking"
         /\ arena' = arena \ fiber[f].ids
         /\ UNCHANGED <<map, worker, task, sup, expired, blockers, outcome>>
         /\ fiber' \in [Fibers -> FiberRec] /\ \A g \in Fibers : g # f => SameFiber(g)
         /\ fiber'[f].pc = "joining" /\ fiber'[f].tasks = fiber[f].tasks /\ fiber'[f].ids = {}
         /\ fiber'[f].joined = fiber[f].ids \cap arena /\ fiber'[f].lease = fiber[f].lease
<1> DEFINE S == fiber[f].ids \cap arena
<1>1. S \in SUBSET Tasks
  BY DEF Typed
<1>2. fiber' = [fiber EXCEPT ![f].pc = "joining", ![f].ids = {}, ![f].joined = S]
  BY DEF TakeArena
<1> HIDE DEF S
<1>3. /\ fiber' \in [Fibers -> FiberRec] /\ \A g \in Fibers : g # f => SameFiber(g)
      /\ fiber'[f].pc = "joining" /\ fiber'[f].tasks = fiber[f].tasks /\ fiber'[f].ids = {}
      /\ fiber'[f].joined = S /\ fiber'[f].lease = fiber[f].lease
  BY <1>1, <1>2, TakenArena, Zenon
<1>8. /\ fiber[f].pc = "taking"
      /\ arena' = arena \ fiber[f].ids
      /\ UNCHANGED <<map, worker, task, sup, expired, blockers, outcome>>
  BY DEF TakeArena, FiberAt, coord, work
<1> QED
  BY <1>8, <1>3 DEF S

\* cancel_all joins one of the tasks it has taken.
LEMMA JoinTaskEffect ==
  ASSUME Typed, NEW f \in Fibers, NEW t \in Tasks, JoinTask(f, t)
  PROVE  /\ fiber[f].pc = "joining"
         /\ t \in fiber[f].joined
         /\ task[t].pc = "exited"
         /\ UNCHANGED <<map, worker, arena, sup, expired, blockers, outcome>>
         /\ task' \in [Tasks -> TaskRec] /\ \A u \in Tasks : u # t => SameTask(u)
         /\ task'[t].pc = task[t].pc /\ task'[t].abort = task[t].abort
         /\ task'[t].recorded = task[t].recorded + 1
         /\ fiber' \in [Fibers -> FiberRec] /\ \A g \in Fibers : g # f => SameFiber(g)
         /\ fiber'[f].pc = fiber[f].pc /\ fiber'[f].tasks = fiber[f].tasks
         /\ fiber'[f].ids = fiber[f].ids /\ fiber'[f].joined = fiber[f].joined \ {t}
         /\ fiber'[f].lease = fiber[f].lease
<1> DEFINE S == fiber[f].joined \ {t}
<1>1. S \in SUBSET Tasks
  BY DEF Typed, FiberRec
<1>2. fiber' = [fiber EXCEPT ![f].joined = S] /\ task' = [task EXCEPT ![t].recorded = @ + 1]
  BY DEF JoinTask
<1> HIDE DEF S
<1>3. /\ fiber' \in [Fibers -> FiberRec] /\ \A g \in Fibers : g # f => SameFiber(g)
      /\ fiber'[f].pc = fiber[f].pc /\ fiber'[f].tasks = fiber[f].tasks
      /\ fiber'[f].ids = fiber[f].ids /\ fiber'[f].joined = S /\ fiber'[f].lease = fiber[f].lease
  BY <1>1, <1>2, JoinedFiber
<1>4. /\ task' \in [Tasks -> TaskRec] /\ \A u \in Tasks : u # t => SameTask(u)
      /\ task'[t].pc = task[t].pc /\ task'[t].abort = task[t].abort
      /\ task'[t].recorded = task[t].recorded + 1
  BY <1>2, RecordedTask
<1>8. /\ fiber[f].pc = "joining"
      /\ t \in fiber[f].joined
      /\ task[t].pc = "exited"
      /\ UNCHANGED <<map, worker, arena, sup, expired, blockers, outcome>>
  BY DEF JoinTask, FiberAt, TaskAt, coord, work
<1> QED
  BY <1>8, <1>3, <1>4 DEF S

\* shutdown_until takes every worker out of the map.
LEMMA DrainWorkersEffect ==
  ASSUME Typed, NEW a \in Attempts, DrainWorkers(a)
  PROVE  /\ sup[a] = "drain"
         /\ UNCHANGED <<fiber, arena, task, expired, blockers, outcome>>
         /\ worker' \in [Workers -> WorkerRec] /\ \A v \in Workers : SameWorker(v)
         /\ joins' = map /\ map' = {} /\ sup' = [sup EXCEPT ![a] = "joining"]
<1>1. joins' = map /\ map' = {} /\ sup' = [sup EXCEPT ![a] = "joining"]
  BY DEF DrainWorkers, TakenByShutdown, LeftInMap, MoveSup
<1>2. worker' = [w \in Workers |-> [worker[w] EXCEPT !.cancel = w \in joins' /\ ~cleanup(w) /\ ~WorkerAt(w, "exited")]]
  BY DEF DrainWorkers
<1>8. /\ sup[a] = "drain"
      /\ UNCHANGED <<fiber, arena, task, expired, blockers, outcome>>
  BY DEF DrainWorkers, SupAt
<1> QED
  BY <1>8, <1>1, <1>2, CancelledWorkers

\* The grace of a disposal is over.
LEMMA GraceExpiresEffect ==
  ASSUME Typed, NEW f \in Fibers, GraceExpires(f)
  PROVE  /\ task' \in [Tasks -> TaskRec] /\ UNCHANGED <<fiber, arena>>
         /\ \A u \in Tasks :
              /\ task'[u].pc = task[u].pc /\ task'[u].recorded = task[u].recorded
              /\ task'[u].abort => task[u].abort \/ (u \in fiber[f].joined /\ task[u].pc # "exited")
<1>1. UNCHANGED <<fiber, arena>>
  BY DEF GraceExpires
<1>2. /\ task' \in [Tasks -> TaskRec]
      /\ \A u \in Tasks :
           /\ task'[u].pc = task[u].pc /\ task'[u].recorded = task[u].recorded
           /\ task'[u].abort => task[u].abort \/ (u \in fiber[f].joined /\ task[u].pc # "exited")
  BY AbortedTasks DEF GraceExpires
<1> QED
  BY <1>1, <1>2

\* A worker passes the admission gate.
LEMMA WorkerEnterEffect ==
  ASSUME Typed, NEW w \in Workers, WorkerEnter(w)
  PROVE  /\ worker[w].pc = "unborn"
         /\ admission = "running"
         /\ worker' \in [Workers -> WorkerRec] /\ \A v \in Workers : v # w => SameWorker(v)
         /\ worker'[w].pc = "registering" /\ worker'[w].kind = worker[w].kind
         /\ worker'[w].abort = worker[w].abort /\ worker'[w].recorded = worker[w].recorded
         /\ UNCHANGED <<map, fiber, arena, task, sup, expired, blockers, outcome>>
<1>1. /\ worker[w].pc = "unborn"
     /\ admission = "running"
     /\ UNCHANGED <<map, fiber, arena, task, sup, expired, blockers, outcome>>
  BY DEF WorkerEnter, WorkerAt, coord
<1>2. /\ worker' \in [Workers -> WorkerRec] /\ \A v \in Workers : v # w => SameWorker(v)
     /\ worker'[w].pc = "registering" /\ worker'[w].kind = worker[w].kind
     /\ worker'[w].abort = worker[w].abort /\ worker'[w].recorded = worker[w].recorded
  BY MovedWorker DEF WorkerEnter, WorkerPCs, LivePCs
<1> QED
  BY <1>1, <1>2

\* A worker enters the map.
LEMMA WorkerSpawnEffect ==
  ASSUME Typed, NEW w \in Workers, WorkerSpawn(w)
  PROVE  /\ worker[w].pc = "registering"
         /\ map' = map \cup {w}
         /\ worker' \in [Workers -> WorkerRec] /\ \A v \in Workers : v # w => SameWorker(v)
         /\ worker'[w].pc = "running" /\ worker'[w].kind = worker[w].kind
         /\ worker'[w].abort = worker[w].abort /\ worker'[w].recorded = worker[w].recorded
         /\ UNCHANGED <<fiber, arena, task, sup, expired, blockers, outcome>>
<1>1. /\ worker[w].pc = "registering"
     /\ map' = map \cup {w}
     /\ UNCHANGED <<fiber, arena, task, sup, expired, blockers, outcome>>
  BY DEF WorkerSpawn, WorkerAt, coord
<1>2. /\ worker' \in [Workers -> WorkerRec] /\ \A v \in Workers : v # w => SameWorker(v)
     /\ worker'[w].pc = "running" /\ worker'[w].kind = worker[w].kind
     /\ worker'[w].abort = worker[w].abort /\ worker'[w].recorded = worker[w].recorded
  BY MovedWorker DEF WorkerSpawn, WorkerPCs, LivePCs
<1> QED
  BY <1>1, <1>2

\* A worker's body returns.
LEMMA WorkerReturnsEffect ==
  ASSUME Typed, NEW w \in Workers, WorkerReturns(w)
  PROVE  /\ worker[w].pc = "running"
         /\ worker' \in [Workers -> WorkerRec] /\ \A v \in Workers : v # w => SameWorker(v)
         /\ worker'[w].pc = "finishing" /\ worker'[w].kind = worker[w].kind
         /\ worker'[w].abort = worker[w].abort /\ worker'[w].recorded = worker[w].recorded
         /\ UNCHANGED <<map, fiber, arena, task, sup, expired, blockers, outcome>>
<1>1. /\ worker[w].pc = "running"
     /\ UNCHANGED <<map, fiber, arena, task, sup, expired, blockers, outcome>>
  BY DEF WorkerReturns, WorkerAt, coord
<1>2. /\ worker' \in [Workers -> WorkerRec] /\ \A v \in Workers : v # w => SameWorker(v)
     /\ worker'[w].pc = "finishing" /\ worker'[w].kind = worker[w].kind
     /\ worker'[w].abort = worker[w].abort /\ worker'[w].recorded = worker[w].recorded
  BY MovedWorker DEF WorkerReturns, WorkerPCs, LivePCs
<1> QED
  BY <1>1, <1>2

\* A worker sees its token.
LEMMA WorkerCancelledEffect ==
  ASSUME Typed, NEW w \in Workers, WorkerCancelled(w)
  PROVE  /\ worker[w].pc = "running"
         /\ worker' \in [Workers -> WorkerRec] /\ \A v \in Workers : v # w => SameWorker(v)
         /\ worker'[w].pc = "finishing" /\ worker'[w].kind = worker[w].kind
         /\ worker'[w].abort = worker[w].abort /\ worker'[w].recorded = worker[w].recorded
         /\ UNCHANGED <<map, fiber, arena, task, sup, expired, blockers, outcome>>
<1>1. /\ worker[w].pc = "running"
     /\ UNCHANGED <<map, fiber, arena, task, sup, expired, blockers, outcome>>
  BY DEF WorkerCancelled, WorkerAt, coord
<1>2. /\ worker' \in [Workers -> WorkerRec] /\ \A v \in Workers : v # w => SameWorker(v)
     /\ worker'[w].pc = "finishing" /\ worker'[w].kind = worker[w].kind
     /\ worker'[w].abort = worker[w].abort /\ worker'[w].recorded = worker[w].recorded
  BY MovedWorker DEF WorkerCancelled, WorkerPCs, LivePCs
<1> QED
  BY <1>1, <1>2

\* A worker completes.
LEMMA WorkerCompleteEffect ==
  ASSUME Typed, NEW w \in Workers, WorkerComplete(w)
  PROVE  /\ worker[w].pc = "finishing"
         /\ map' = map \ {w}
         /\ worker' \in [Workers -> WorkerRec] /\ \A v \in Workers : v # w => SameWorker(v)
         /\ worker'[w].pc = "exited" /\ worker'[w].kind = worker[w].kind
         /\ UNCHANGED <<fiber, arena, task, sup, expired, blockers, outcome>>
<1>1. /\ worker[w].pc = "finishing"
     /\ map' = map \ {w}
     /\ UNCHANGED <<fiber, arena, task, sup, expired, blockers, outcome>>
  BY DEF WorkerComplete, WorkerAt, coord
<1>2. /\ worker' \in [Workers -> WorkerRec] /\ \A v \in Workers : v # w => SameWorker(v)
     /\ worker'[w].pc = "exited" /\ worker'[w].kind = worker[w].kind
  BY EndedWorker DEF WorkerComplete
<1> QED
  BY <1>1, <1>2

\* A worker is aborted.
LEMMA WorkerAbortedEffect ==
  ASSUME Typed, NEW w \in Workers, WorkerAborted(w)
  PROVE  /\ worker[w].pc \in {"running", "activating", "rolling_back"}
         /\ worker' \in [Workers -> WorkerRec] /\ \A v \in Workers : v # w => SameWorker(v)
         /\ worker'[w].pc = "exited" /\ worker'[w].kind = worker[w].kind
         /\ UNCHANGED <<map, fiber, arena, task, sup, expired, blockers, outcome>>
<1>1. /\ worker[w].pc \in {"running", "activating", "rolling_back"}
     /\ UNCHANGED <<map, fiber, arena, task, sup, expired, blockers, outcome>>
  BY DEF WorkerAborted, WorkerAt, coord
<1>2. /\ worker' \in [Workers -> WorkerRec] /\ \A v \in Workers : v # w => SameWorker(v)
     /\ worker'[w].pc = "exited" /\ worker'[w].kind = worker[w].kind
  BY EndedWorker DEF WorkerAborted
<1> QED
  BY <1>1, <1>2

\* An Install commits its Fiber.
LEMMA InstallCommitsEffect ==
  ASSUME Typed, NEW w \in Workers, NEW f \in Fibers, InstallCommits(w, f)
  PROVE  /\ worker[w].pc = "activating"
         /\ TargetOf[w] = f
         /\ admission = "running"
         /\ worker' \in [Workers -> WorkerRec] /\ \A v \in Workers : v # w => SameWorker(v)
         /\ worker'[w].pc = "finishing" /\ worker'[w].kind = worker[w].kind
         /\ worker'[w].abort = worker[w].abort /\ worker'[w].recorded = worker[w].recorded
         /\ fiber' \in [Fibers -> FiberRec] /\ \A g \in Fibers : g # f => SameFiber(g)
         /\ fiber'[f].pc = "active" /\ fiber'[f].tasks = fiber[f].tasks
         /\ fiber'[f].ids = fiber[f].ids /\ fiber'[f].joined = fiber[f].joined
         /\ fiber'[f].lease = fiber[f].lease
         /\ UNCHANGED <<map, arena, task, sup, expired, blockers, outcome>>
<1>1. /\ worker[w].pc = "activating"
     /\ TargetOf[w] = f
     /\ admission = "running"
     /\ UNCHANGED <<map, arena, task, sup, expired, blockers, outcome>>
  BY DEF InstallCommits, WorkerAt, coord
<1>2. /\ worker' \in [Workers -> WorkerRec] /\ \A v \in Workers : v # w => SameWorker(v)
     /\ worker'[w].pc = "finishing" /\ worker'[w].kind = worker[w].kind
     /\ worker'[w].abort = worker[w].abort /\ worker'[w].recorded = worker[w].recorded
  BY MovedWorker DEF InstallCommits, WorkerPCs, LivePCs
<1>3. /\ fiber' \in [Fibers -> FiberRec] /\ \A g \in Fibers : g # f => SameFiber(g)
     /\ fiber'[f].pc = "active" /\ fiber'[f].tasks = fiber[f].tasks
     /\ fiber'[f].ids = fiber[f].ids /\ fiber'[f].joined = fiber[f].joined
     /\ fiber'[f].lease = fiber[f].lease
  BY CommittedFiber DEF InstallCommits
<1> QED
  BY <1>1, <1>2, <1>3

\* An Install starts to roll back.
LEMMA InstallRollsBackEffect ==
  ASSUME Typed, NEW w \in Workers, NEW f \in Fibers, InstallRollsBack(w, f)
  PROVE  /\ worker[w].pc = "activating"
         /\ TargetOf[w] = f
         /\ worker' \in [Workers -> WorkerRec] /\ \A v \in Workers : v # w => SameWorker(v)
         /\ worker'[w].pc = "rolling_back" /\ worker'[w].kind = worker[w].kind
         /\ worker'[w].abort = worker[w].abort /\ worker'[w].recorded = worker[w].recorded
         /\ fiber' \in [Fibers -> FiberRec] /\ \A g \in Fibers : g # f => SameFiber(g)
         /\ fiber'[f].pc = "disposing" /\ fiber'[f].tasks = fiber[f].tasks
         /\ fiber'[f].ids = fiber[f].ids /\ fiber'[f].joined = fiber[f].joined
         /\ fiber'[f].lease = fiber[f].lease
         /\ UNCHANGED <<map, arena, task, sup, expired, blockers, outcome>>
<1>1. /\ worker[w].pc = "activating"
     /\ TargetOf[w] = f
     /\ UNCHANGED <<map, arena, task, sup, expired, blockers, outcome>>
  BY DEF InstallRollsBack, WorkerAt, coord
<1>2. /\ worker' \in [Workers -> WorkerRec] /\ \A v \in Workers : v # w => SameWorker(v)
     /\ worker'[w].pc = "rolling_back" /\ worker'[w].kind = worker[w].kind
     /\ worker'[w].abort = worker[w].abort /\ worker'[w].recorded = worker[w].recorded
  BY MovedWorker DEF InstallRollsBack, WorkerPCs, LivePCs
<1>3. /\ fiber' \in [Fibers -> FiberRec] /\ \A g \in Fibers : g # f => SameFiber(g)
     /\ fiber'[f].pc = "disposing" /\ fiber'[f].tasks = fiber[f].tasks
     /\ fiber'[f].ids = fiber[f].ids /\ fiber'[f].joined = fiber[f].joined
     /\ fiber'[f].lease = fiber[f].lease
  BY MovedFiber DEF InstallRollsBack, FiberPCs
<1> QED
  BY <1>1, <1>2, <1>3

\* An Install has rolled back.
LEMMA InstallRolledBackEffect ==
  ASSUME Typed, NEW w \in Workers, NEW f \in Fibers, InstallRolledBack(w, f)
  PROVE  /\ worker[w].pc = "rolling_back"
         /\ TargetOf[w] = f
         /\ worker' \in [Workers -> WorkerRec] /\ \A v \in Workers : v # w => SameWorker(v)
         /\ worker'[w].pc = "finishing" /\ worker'[w].kind = worker[w].kind
         /\ worker'[w].abort = worker[w].abort /\ worker'[w].recorded = worker[w].recorded
         /\ UNCHANGED <<map, fiber, arena, task, sup, expired, blockers, outcome>>
<1>1. /\ worker[w].pc = "rolling_back"
     /\ TargetOf[w] = f
     /\ UNCHANGED <<map, fiber, arena, task, sup, expired, blockers, outcome>>
  BY DEF InstallRolledBack, WorkerAt, coord
<1>2. /\ worker' \in [Workers -> WorkerRec] /\ \A v \in Workers : v # w => SameWorker(v)
     /\ worker'[w].pc = "finishing" /\ worker'[w].kind = worker[w].kind
     /\ worker'[w].abort = worker[w].abort /\ worker'[w].recorded = worker[w].recorded
  BY MovedWorker DEF InstallRolledBack, WorkerPCs, LivePCs
<1> QED
  BY <1>1, <1>2

\* A task starts.
LEMMA TaskStartEffect ==
  ASSUME Typed, NEW t \in Tasks, TaskStart(t)
  PROVE  /\ task[t].pc = "barrier"
         /\ task' \in [Tasks -> TaskRec] /\ \A u \in Tasks : u # t => SameTask(u)
         /\ task'[t].pc = "running" /\ task'[t].abort = task[t].abort
         /\ task'[t].recorded = task[t].recorded
         /\ UNCHANGED <<fiber, arena, map, worker, sup, expired, blockers, outcome>>
<1>1. /\ task[t].pc = "barrier"
     /\ UNCHANGED <<fiber, arena, map, worker, sup, expired, blockers, outcome>>
  BY DEF TaskStart, Admitted, TaskAt, coord, work
<1>2. /\ task' \in [Tasks -> TaskRec] /\ \A u \in Tasks : u # t => SameTask(u)
     /\ task'[t].pc = "running" /\ task'[t].abort = task[t].abort
     /\ task'[t].recorded = task[t].recorded
  BY MovedTask DEF TaskStart, TaskPCs, TaskLive
<1> QED
  BY <1>1, <1>2

\* A task returns.
LEMMA TaskReturnsEffect ==
  ASSUME Typed, NEW t \in Tasks, TaskReturns(t)
  PROVE  /\ task[t].pc = "running"
         /\ task' \in [Tasks -> TaskRec] /\ \A u \in Tasks : u # t => SameTask(u)
         /\ task'[t].pc = "finishing" /\ task'[t].abort = task[t].abort
         /\ task'[t].recorded = task[t].recorded
         /\ UNCHANGED <<fiber, arena, map, worker, sup, expired, blockers, outcome>>
<1>1. /\ task[t].pc = "running"
     /\ UNCHANGED <<fiber, arena, map, worker, sup, expired, blockers, outcome>>
  BY DEF TaskReturns, TaskAt, coord, work
<1>2. /\ task' \in [Tasks -> TaskRec] /\ \A u \in Tasks : u # t => SameTask(u)
     /\ task'[t].pc = "finishing" /\ task'[t].abort = task[t].abort
     /\ task'[t].recorded = task[t].recorded
  BY MovedTask DEF TaskReturns, TaskPCs, TaskLive
<1> QED
  BY <1>1, <1>2

\* A task sees its token.
LEMMA TaskCancelledEffect ==
  ASSUME Typed, NEW t \in Tasks, TaskCancelled(t)
  PROVE  /\ task[t].pc \in {"barrier", "running"}
         /\ task' \in [Tasks -> TaskRec] /\ \A u \in Tasks : u # t => SameTask(u)
         /\ task'[t].pc = "finishing" /\ task'[t].abort = task[t].abort
         /\ task'[t].recorded = task[t].recorded
         /\ UNCHANGED <<fiber, arena, map, worker, sup, expired, blockers, outcome>>
<1>1. /\ task[t].pc \in {"barrier", "running"}
     /\ UNCHANGED <<fiber, arena, map, worker, sup, expired, blockers, outcome>>
  BY DEF TaskCancelled, coord, work
<1>2. /\ task' \in [Tasks -> TaskRec] /\ \A u \in Tasks : u # t => SameTask(u)
     /\ task'[t].pc = "finishing" /\ task'[t].abort = task[t].abort
     /\ task'[t].recorded = task[t].recorded
  BY MovedTask DEF TaskCancelled, TaskPCs, TaskLive
<1> QED
  BY <1>1, <1>2

\* A task is aborted.
LEMMA TaskAbortedEffect ==
  ASSUME Typed, NEW t \in Tasks, TaskAborted(t)
  PROVE  /\ task[t].pc \in {"barrier", "running"}
         /\ task[t].abort
         /\ task' \in [Tasks -> TaskRec] /\ \A u \in Tasks : u # t => SameTask(u)
         /\ task'[t].pc = "exited" /\ ~task'[t].abort
         /\ task'[t].recorded = task[t].recorded + 0
         /\ UNCHANGED <<fiber, arena, map, worker, sup, expired, blockers, outcome>>
<1>1. /\ task[t].pc \in {"barrier", "running"}
     /\ task[t].abort
     /\ UNCHANGED <<fiber, arena, map, worker, sup, expired, blockers, outcome>>
  BY DEF TaskAborted, coord, work
<1>2. /\ task' \in [Tasks -> TaskRec] /\ \A u \in Tasks : u # t => SameTask(u)
     /\ task'[t].pc = "exited" /\ ~task'[t].abort
     /\ task'[t].recorded = task[t].recorded + 0
  BY EndedTask DEF TaskAborted
<1> QED
  BY <1>1, <1>2

\* A handle is taken.
LEMMA AcquireHandleEffect ==
  ASSUME Typed, NEW f \in Fibers, AcquireHandle(f)
  PROVE  /\ fiber[f].pc = "active"
         /\ admission = "running"
         /\ fiber' \in [Fibers -> FiberRec] /\ \A g \in Fibers : g # f => SameFiber(g)
         /\ fiber'[f].pc = fiber[f].pc /\ fiber'[f].tasks = fiber[f].tasks
         /\ fiber'[f].ids = fiber[f].ids /\ fiber'[f].joined = fiber[f].joined
         /\ fiber'[f].lease = TRUE
         /\ UNCHANGED <<task, arena, map, worker, sup, expired, blockers, outcome>>
<1>1. /\ fiber[f].pc = "active"
     /\ admission = "running"
     /\ UNCHANGED <<task, arena, map, worker, sup, expired, blockers, outcome>>
  BY DEF AcquireHandle, FiberAt, coord, work
<1>2. /\ fiber' \in [Fibers -> FiberRec] /\ \A g \in Fibers : g # f => SameFiber(g)
     /\ fiber'[f].pc = fiber[f].pc /\ fiber'[f].tasks = fiber[f].tasks
     /\ fiber'[f].ids = fiber[f].ids /\ fiber'[f].joined = fiber[f].joined
     /\ fiber'[f].lease = TRUE
  BY LeasedFiber DEF AcquireHandle
<1> QED
  BY <1>1, <1>2

\* A handle is dropped.
LEMMA ReleaseHandleEffect ==
  ASSUME Typed, NEW f \in Fibers, ReleaseHandle(f)
  PROVE  /\ fiber[f].lease
         /\ fiber' \in [Fibers -> FiberRec] /\ \A g \in Fibers : g # f => SameFiber(g)
         /\ fiber'[f].pc = fiber[f].pc /\ fiber'[f].tasks = fiber[f].tasks
         /\ fiber'[f].ids = fiber[f].ids /\ fiber'[f].joined = fiber[f].joined
         /\ fiber'[f].lease = FALSE /\ fiber'[f].persist = fiber[f].persist
         /\ UNCHANGED <<task, arena, map, worker, sup, expired, blockers, outcome>>
<1>1. /\ fiber[f].lease
     /\ UNCHANGED <<task, arena, map, worker, sup, expired, blockers, outcome>>
  BY DEF ReleaseHandle, coord, work
<1>2. /\ fiber' \in [Fibers -> FiberRec] /\ \A g \in Fibers : g # f => SameFiber(g)
     /\ fiber'[f].pc = fiber[f].pc /\ fiber'[f].tasks = fiber[f].tasks
     /\ fiber'[f].ids = fiber[f].ids /\ fiber'[f].joined = fiber[f].joined
     /\ fiber'[f].lease = FALSE /\ fiber'[f].persist = fiber[f].persist
  BY LeasedFiber DEF ReleaseHandle
<1> QED
  BY <1>1, <1>2

\* A disposal takes the ids of its tasks.
LEMMA TakeIdsEffect ==
  ASSUME Typed, NEW f \in Fibers, TakeIds(f)
  PROVE  /\ fiber[f].pc = "disposing"
         /\ fiber' \in [Fibers -> FiberRec] /\ \A g \in Fibers : g # f => SameFiber(g)
         /\ fiber'[f].pc = "taking" /\ fiber'[f].tasks = {}
         /\ fiber'[f].ids = fiber[f].tasks /\ fiber'[f].joined = fiber[f].joined
         /\ fiber'[f].lease = fiber[f].lease
         /\ UNCHANGED <<task, arena, map, worker, sup, expired, blockers, outcome>>
<1>1. /\ fiber[f].pc = "disposing"
     /\ UNCHANGED <<task, arena, map, worker, sup, expired, blockers, outcome>>
  BY DEF TakeIds, FiberAt, coord, work
<1>2. /\ fiber' \in [Fibers -> FiberRec] /\ \A g \in Fibers : g # f => SameFiber(g)
     /\ fiber'[f].pc = "taking" /\ fiber'[f].tasks = {}
     /\ fiber'[f].ids = fiber[f].tasks /\ fiber'[f].joined = fiber[f].joined
     /\ fiber'[f].lease = fiber[f].lease
  BY TakenIds, Zenon DEF TakeIds
<1> QED
  BY <1>1, <1>2

\* A disposal has drained its generation.
LEMMA DrainedEffect ==
  ASSUME Typed, NEW f \in Fibers, Drained(f)
  PROVE  /\ fiber[f].pc = "joining"
         /\ fiber[f].joined = {}
         /\ ~fiber[f].lease
         /\ fiber' \in [Fibers -> FiberRec] /\ \A g \in Fibers : g # f => SameFiber(g)
         /\ fiber'[f].pc = "disposed" /\ fiber'[f].tasks = fiber[f].tasks
         /\ fiber'[f].ids = fiber[f].ids /\ fiber'[f].joined = fiber[f].joined
         /\ fiber'[f].lease = fiber[f].lease
         /\ UNCHANGED <<task, arena, map, worker, sup, expired, blockers, outcome>>
<1>1. /\ fiber[f].pc = "joining"
     /\ fiber[f].joined = {}
     /\ ~fiber[f].lease
     /\ UNCHANGED <<task, arena, map, worker, sup, expired, blockers, outcome>>
  BY DEF Drained, FiberAt, coord, work
<1>2. /\ fiber' \in [Fibers -> FiberRec] /\ \A g \in Fibers : g # f => SameFiber(g)
     /\ fiber'[f].pc = "disposed" /\ fiber'[f].tasks = fiber[f].tasks
     /\ fiber'[f].ids = fiber[f].ids /\ fiber'[f].joined = fiber[f].joined
     /\ fiber'[f].lease = fiber[f].lease
  BY MovedFiber DEF Drained, FiberPCs
<1> QED
  BY <1>1, <1>2

\* Shutdown starts the disposal of a Fiber no activation owns.
LEMMA ShutdownDisposesEffect ==
  ASSUME Typed, NEW a \in Attempts, NEW f \in Fibers, ShutdownDisposes(a, f)
  PROVE  /\ fiber[f].pc \in {"starting", "active"}
         /\ LifecycleFree(f)
         /\ fiber' \in [Fibers -> FiberRec] /\ \A g \in Fibers : g # f => SameFiber(g)
         /\ fiber'[f].pc = "disposing" /\ fiber'[f].tasks = fiber[f].tasks
         /\ fiber'[f].ids = fiber[f].ids /\ fiber'[f].joined = fiber[f].joined
         /\ fiber'[f].lease = fiber[f].lease
         /\ UNCHANGED <<task, arena, map, worker, sup, expired, blockers, outcome>>
<1>1. /\ fiber[f].pc \in {"starting", "active"}
     /\ LifecycleFree(f)
     /\ UNCHANGED <<task, arena, map, worker, sup, expired, blockers, outcome>>
  BY DEF ShutdownDisposes, coord, work
<1>2. /\ fiber' \in [Fibers -> FiberRec] /\ \A g \in Fibers : g # f => SameFiber(g)
     /\ fiber'[f].pc = "disposing" /\ fiber'[f].tasks = fiber[f].tasks
     /\ fiber'[f].ids = fiber[f].ids /\ fiber'[f].joined = fiber[f].joined
     /\ fiber'[f].lease = fiber[f].lease
  BY DisposedFiber DEF ShutdownDisposes
<1> QED
  BY <1>1, <1>2

\* Shutdown joins a disposal that goes on.
LEMMA ShutdownJoinsEffect ==
  ASSUME Typed, NEW a \in Attempts, NEW f \in Fibers, ShutdownJoins(a, f)
  PROVE  /\ fiber[f].pc \in {"disposing", "taking", "joining"}
         /\ fiber' \in [Fibers -> FiberRec] /\ \A g \in Fibers : g # f => SameFiber(g)
         /\ fiber'[f].pc = fiber[f].pc /\ fiber'[f].tasks = fiber[f].tasks
         /\ fiber'[f].ids = fiber[f].ids /\ fiber'[f].joined = fiber[f].joined
         /\ fiber'[f].lease = fiber[f].lease
         /\ UNCHANGED <<task, arena, map, worker, sup, expired, blockers, outcome>>
<1>1. /\ fiber[f].pc \in {"disposing", "taking", "joining"}
     /\ UNCHANGED <<task, arena, map, worker, sup, expired, blockers, outcome>>
  BY DEF ShutdownJoins, coord, work
<1>2. /\ fiber' \in [Fibers -> FiberRec] /\ \A g \in Fibers : g # f => SameFiber(g)
     /\ fiber'[f].pc = fiber[f].pc /\ fiber'[f].tasks = fiber[f].tasks
     /\ fiber'[f].ids = fiber[f].ids /\ fiber'[f].joined = fiber[f].joined
     /\ fiber'[f].lease = fiber[f].lease
  BY PersistedFiber DEF ShutdownJoins
<1> QED
  BY <1>1, <1>2

\* A client disposes a Fiber no activation owns.
LEMMA DisposeFiberEffect ==
  ASSUME Typed, NEW f \in Fibers, DisposeFiber(f)
  PROVE  /\ fiber[f].pc \in {"starting", "active"}
         /\ LifecycleFree(f)
         /\ fiber' \in [Fibers -> FiberRec] /\ \A g \in Fibers : g # f => SameFiber(g)
         /\ fiber'[f].pc = "disposing" /\ fiber'[f].tasks = fiber[f].tasks
         /\ fiber'[f].ids = fiber[f].ids /\ fiber'[f].joined = fiber[f].joined
         /\ fiber'[f].lease = fiber[f].lease
         /\ UNCHANGED <<task, arena, map, worker, sup, expired, blockers, outcome>>
<1>1. /\ fiber[f].pc \in {"starting", "active"}
     /\ LifecycleFree(f)
     /\ UNCHANGED <<task, arena, map, worker, sup, expired, blockers, outcome>>
  BY DEF DisposeFiber, coord, work
<1>2. /\ fiber' \in [Fibers -> FiberRec] /\ \A g \in Fibers : g # f => SameFiber(g)
     /\ fiber'[f].pc = "disposing" /\ fiber'[f].tasks = fiber[f].tasks
     /\ fiber'[f].ids = fiber[f].ids /\ fiber'[f].joined = fiber[f].joined
     /\ fiber'[f].lease = fiber[f].lease
  BY MovedFiber DEF DisposeFiber, FiberPCs
<1> QED
  BY <1>1, <1>2

\* A disposal that nobody asked to persist gives up its drain.
LEMMA DrainTimesOutEffect ==
  ASSUME Typed, NEW f \in Fibers, DrainTimesOut(f)
  PROVE  /\ fiber[f].pc = "joining"
         /\ fiber[f].joined = {}
         /\ ~fiber[f].persist
         /\ fiber' \in [Fibers -> FiberRec] /\ \A g \in Fibers : g # f => SameFiber(g)
         /\ fiber'[f].pc = "terminated" /\ fiber'[f].tasks = fiber[f].tasks
         /\ fiber'[f].ids = fiber[f].ids /\ fiber'[f].joined = fiber[f].joined
         /\ fiber'[f].lease = fiber[f].lease /\ fiber'[f].persist = fiber[f].persist
         /\ UNCHANGED <<task, arena, map, worker, sup, expired, blockers, outcome>>
<1>1. /\ fiber[f].pc = "joining"
     /\ fiber[f].joined = {}
     /\ ~fiber[f].persist
     /\ UNCHANGED <<task, arena, map, worker, sup, expired, blockers, outcome>>
  BY DEF DrainTimesOut, FiberAt, coord, work
<1>2. /\ fiber' \in [Fibers -> FiberRec] /\ \A g \in Fibers : g # f => SameFiber(g)
     /\ fiber'[f].pc = "terminated" /\ fiber'[f].tasks = fiber[f].tasks
     /\ fiber'[f].ids = fiber[f].ids /\ fiber'[f].joined = fiber[f].joined
     /\ fiber'[f].lease = fiber[f].lease /\ fiber'[f].persist = fiber[f].persist
  BY MovedFiber DEF DrainTimesOut, FiberPCs
<1> QED
  BY <1>1, <1>2

\* A disposal panics in the cleanup after its drain.
LEMMA DisposalPanicsEffect ==
  ASSUME Typed, NEW f \in Fibers, DisposalPanics(f)
  PROVE  /\ fiber[f].pc = "joining"
         /\ fiber[f].joined = {}
         /\ ~fiber[f].lease
         /\ fiber' \in [Fibers -> FiberRec] /\ \A g \in Fibers : g # f => SameFiber(g)
         /\ fiber'[f].pc = "panicked" /\ fiber'[f].tasks = fiber[f].tasks
         /\ fiber'[f].ids = fiber[f].ids /\ fiber'[f].joined = fiber[f].joined
         /\ fiber'[f].lease = fiber[f].lease
         /\ UNCHANGED <<task, arena, map, worker, sup, expired, blockers, outcome>>
<1>1. /\ fiber[f].pc = "joining"
     /\ fiber[f].joined = {}
     /\ ~fiber[f].lease
     /\ UNCHANGED <<task, arena, map, worker, sup, expired, blockers, outcome>>
  BY DEF DisposalPanics, FiberAt, coord, work
<1>2. /\ fiber' \in [Fibers -> FiberRec] /\ \A g \in Fibers : g # f => SameFiber(g)
     /\ fiber'[f].pc = "panicked" /\ fiber'[f].tasks = fiber[f].tasks
     /\ fiber'[f].ids = fiber[f].ids /\ fiber'[f].joined = fiber[f].joined
     /\ fiber'[f].lease = fiber[f].lease
  BY MovedFiber DEF DisposalPanics, FiberPCs
<1> QED
  BY <1>1, <1>2

-----------------------------------------------------------------------------
\* Every step keeps the types.
LEMMA TypedStep ==
  ASSUME Typed, [Next]_vars
  PROVE  Typed'
<1> USE ShutdownAssumption DEF Typed, Attempts
<1>1. CASE UNCHANGED vars
  BY <1>1 DEF vars, gate, coord, work
<1>2. ASSUME NEW w \in Workers, WorkerEnter(w)
      PROVE  Typed'
  BY <1>2, MovedWorker DEF WorkerEnter, WorkerAt, HoldsGuard, gate, coord, work, WorkerPCs,
         LivePCs
<1>3. ASSUME NEW w \in Workers, WorkerSpawn(w)
      PROVE  Typed'
  BY <1>3, MovedWorker DEF WorkerSpawn, WorkerAt, gate, coord, work, WorkerPCs, LivePCs
<1>4. ASSUME NEW w \in Workers, WorkerReturns(w)
      PROVE  Typed'
  BY <1>4, MovedWorker DEF WorkerReturns, WorkerAt, gate, coord, work, WorkerPCs, LivePCs
<1>5. ASSUME NEW w \in Workers, WorkerCancelled(w)
      PROVE  Typed'
  BY <1>5, MovedWorker DEF WorkerCancelled, WorkerAt, gate, coord, work, WorkerPCs, LivePCs
<1>6. ASSUME NEW w \in Workers, WorkerComplete(w)
      PROVE  Typed'
  BY <1>6, EndedWorker DEF WorkerComplete, WorkerAt, gate, coord, work, WorkerPCs, LivePCs
<1>7. ASSUME NEW w \in Workers, WorkerAborted(w)
      PROVE  Typed'
  BY <1>7, EndedWorker DEF WorkerAborted, gate, coord, work, WorkerPCs, LivePCs
<1>8. ASSUME NEW w \in Workers, NEW f \in Fibers, InstallCreates(w, f)
      PROVE  Typed'
  <2>1. /\ worker' \in [Workers -> WorkerRec] /\ task' \in [Tasks -> TaskRec]
        /\ fiber' \in [Fibers -> FiberRec] /\ arena' \subseteq Tasks
    BY <1>8, InstallCreatesEffect DEF OwnTasks
  <2> QED
    BY <1>8, <2>1 DEF InstallCreates, gate, coord
<1>9. ASSUME NEW w \in Workers, NEW f \in Fibers, InstallCommits(w, f)
      PROVE  Typed'
  <2>1. worker' \in [Workers -> WorkerRec] /\ fiber' \in [Fibers -> FiberRec]
    BY <1>9, InstallCommitsEffect
  <2> QED
    BY <1>9, <2>1 DEF InstallCommits, gate, coord
<1>10. ASSUME NEW w \in Workers, NEW f \in Fibers, InstallRollsBack(w, f)
      PROVE  Typed'
  BY <1>10, MovedWorker, MovedFiber DEF InstallRollsBack, WorkerAt, gate, coord, work,
         WorkerPCs, LivePCs, FiberPCs
<1>11. ASSUME NEW w \in Workers, NEW f \in Fibers, InstallRolledBack(w, f)
      PROVE  Typed'
  BY <1>11, MovedWorker DEF InstallRolledBack, WorkerAt, FiberAt, gate, coord, work,
         WorkerPCs, LivePCs
<1>12. ASSUME NEW t \in Tasks, SpawnTask(t)
      PROVE  Typed'
  <2>1. task' \in [Tasks -> TaskRec] /\ fiber' \in [Fibers -> FiberRec]
    BY <1>12, SpawnTaskEffect
  <2> QED
    BY <1>12, <2>1 DEF SpawnTask, gate, coord, work
<1>13. ASSUME NEW t \in Tasks, TaskStart(t)
      PROVE  Typed'
  BY <1>13, MovedTask DEF TaskStart, Admitted, TaskAt, gate, coord, work, TaskPCs, TaskLive
<1>14. ASSUME NEW t \in Tasks, TaskReturns(t)
      PROVE  Typed'
  BY <1>14, MovedTask DEF TaskReturns, TaskAt, gate, coord, work, TaskPCs, TaskLive
<1>15. ASSUME NEW t \in Tasks, TaskCancelled(t)
      PROVE  Typed'
  BY <1>15, MovedTask DEF TaskCancelled, gate, coord, work, TaskPCs, TaskLive
<1>16. ASSUME NEW t \in Tasks, TaskComplete(t)
      PROVE  Typed'
  BY <1>16, TaskCompleteEffect DEF TaskComplete, TaskAt, gate, coord, work, TaskPCs,
         TaskLive, FiberPCs
<1>17. ASSUME NEW t \in Tasks, TaskAborted(t)
      PROVE  Typed'
  BY <1>17, EndedTask DEF TaskAborted, gate, coord, work, TaskPCs, TaskLive
<1>18. ASSUME NEW f \in Fibers, AcquireHandle(f)
      PROVE  Typed'
  BY <1>18, LeasedFiber DEF AcquireHandle, FiberAt, gate, coord, work, FiberPCs
<1>19. ASSUME NEW f \in Fibers, ReleaseHandle(f)
      PROVE  Typed'
  BY <1>19, LeasedFiber DEF ReleaseHandle, gate, coord, work, FiberPCs
<1>20. ASSUME NEW f \in Fibers, TakeIds(f)
      PROVE  Typed'
  <2>1. fiber' \in [Fibers -> FiberRec]
    BY <1>20, TakeIdsEffect
  <2> QED
    BY <1>20, <2>1 DEF TakeIds, gate, coord, work
<1>21. ASSUME NEW f \in Fibers, TakeArena(f)
      PROVE  Typed'
  <2>1. fiber' \in [Fibers -> FiberRec]
    BY <1>21, TakeArenaEffect
  <2> QED
    BY <1>21, <2>1 DEF TakeArena, gate, coord, work
<1>22. ASSUME NEW f \in Fibers, GraceExpires(f)
      PROVE  Typed'
  BY <1>22, AbortedTasks DEF GraceExpires, FiberAt, TaskAt, gate, coord, work, TaskPCs,
         TaskLive
<1>23. ASSUME NEW f \in Fibers, Drained(f)
      PROVE  Typed'
  BY <1>23, MovedFiber DEF Drained, FiberAt, gate, coord, work, FiberPCs
<1>24. ASSUME NEW f \in Fibers, NEW t \in Tasks, JoinTask(f, t)
      PROVE  Typed'
  BY <1>24, JoinTaskEffect DEF JoinTask, FiberAt, TaskAt, gate, coord, work, TaskPCs,
         TaskLive, FiberPCs
<1>25. ASSUME NEW c \in Callers,
             \/ Observe(c) \/ CallerChecks(c) \/ CallerRechecks(c) \/ CallerWakes(c)
             \/ CallerDrops(c)
      PROVE  Typed'
  BY <1>25 DEF Observe, CallerChecks, CallerRechecks, CallerWakes, CallerDrops, gate, coord,
         work
<1>26. ASSUME NEW c \in Callers, StartAttempt(c)
      PROVE  Typed'
  BY <1>26 DEF StartAttempt, Observes, gate, coord, work, SupPCs
<1>27. ASSUME NEW a \in Attempts, NEW f \in Fibers, ShutdownDisposes(a, f)
      PROVE  Typed'
  <2>1. fiber' \in [Fibers -> FiberRec]
    BY <1>27, ShutdownDisposesEffect
  <2> QED
    BY <1>27, <2>1 DEF ShutdownDisposes, gate, coord, work
<1>28. ASSUME NEW a \in Attempts, DeadlinePasses(a)
      PROVE  Typed'
  BY <1>28 DEF DeadlinePasses, SupAt, MoveSup, gate, coord, work
<1>29. ASSUME NEW a \in Attempts, RootDone(a)
      PROVE  Typed'
  BY <1>29 DEF RootDone, SupAt, MoveSup, gate, coord, work, SupPCs
<1>30. ASSUME NEW a \in Attempts, RootTimedOut(a)
      PROVE  Typed'
  BY <1>30 DEF RootTimedOut, SupAt, MoveSup, gate, coord, work, SupPCs
<1>31. ASSUME NEW a \in Attempts, DrainWorkers(a)
      PROVE  Typed'
  BY <1>31, DrainWorkersEffect DEF DrainWorkers, SupAt, TakenByShutdown, LeftInMap, MoveSup,
         gate, coord, work, WorkerPCs, LivePCs, SupPCs
<1>32. ASSUME NEW a \in Attempts, AbortWorkers(a)
      PROVE  Typed'
  BY <1>32, AbortedWorkers DEF AbortWorkers, SupAt, WorkerAt, gate, coord, work, WorkerPCs,
         LivePCs
<1>33. ASSUME NEW a \in Attempts, WorkersJoined(a)
      PROVE  Typed'
  BY <1>33 DEF WorkersJoined, SupAt, MoveSup, gate, coord, work, SupPCs
<1>34. ASSUME NEW a \in Attempts, ResidueDone(a)
      PROVE  Typed'
  BY <1>34 DEF ResidueDone, SupAt, MoveSup, gate, coord, work, SupPCs
<1>35. ASSUME NEW a \in Attempts, AuditFibers(a)
      PROVE  Typed'
  BY <1>35 DEF AuditFibers, SupAt, MoveSup, gate, coord, work, SupPCs
<1>36. ASSUME NEW a \in Attempts, AuditWork(a)
      PROVE  Typed'
  BY <1>36 DEF AuditWork, SupAt, MoveSup, gate, coord, work, SupPCs
<1>37. ASSUME NEW a \in Attempts, AttemptPanics(a)
      PROVE  Typed'
  BY <1>37 DEF AttemptPanics, SupAt, MoveSup, gate, coord, work, SupPCs
<1>38. ASSUME NEW a \in Attempts, Finish(a)
      PROVE  Typed'
  BY <1>38 DEF Finish, SupAt, MoveSup, gate, coord, work, SupPCs
<1>39. ASSUME NEW a \in Attempts, SealAdmission(a)
      PROVE  Typed'
  BY <1>39 DEF SealAdmission, SupAt, MoveSup, gate, coord, work, SupPCs
<1>40. ASSUME NEW a \in Attempts, NotifyCallers(a)
      PROVE  Typed'
  BY <1>40 DEF NotifyCallers, SupAt, MoveSup, gate, coord, work, SupPCs
<1>41. ASSUME NEW a \in Attempts, NEW w \in Workers, JoinWorker(a, w)
      PROVE  Typed'
  BY <1>41, RecordedWorker DEF JoinWorker, SupAt, WorkerAt, gate, coord, work, WorkerPCs,
         LivePCs
<1>42. ASSUME NEW f \in Fibers, DisposeFiber(f)
      PROVE  Typed'
  BY <1>42, DisposeFiberEffect DEF DisposeFiber, gate, coord, work
<1>43. ASSUME NEW f \in Fibers, DrainTimesOut(f)
      PROVE  Typed'
  BY <1>43, DrainTimesOutEffect DEF DrainTimesOut, gate, coord, work
<1>44. ASSUME NEW a \in Attempts, NEW f \in Fibers, ShutdownJoins(a, f)
      PROVE  Typed'
  BY <1>44, ShutdownJoinsEffect DEF ShutdownJoins, gate, coord, work
<1>45. ASSUME NEW f \in Fibers, DisposalPanics(f)
      PROVE  Typed'
  BY <1>45, DisposalPanicsEffect DEF DisposalPanics, gate, coord, work
<1> QED
  BY <1>1, <1>2, <1>3, <1>4, <1>5, <1>6, <1>7, <1>8, <1>9, <1>10, <1>11, <1>12, <1>13,
         <1>14, <1>15, <1>16, <1>17, <1>18, <1>19, <1>20, <1>21, <1>22, <1>23, <1>24, <1>25,
         <1>26, <1>27, <1>28, <1>29, <1>30, <1>31, <1>32, <1>33, <1>34, <1>35, <1>36, <1>37,
         <1>38, <1>39, <1>40, <1>41, <1>42, <1>43, <1>44, <1>45
     DEF Next, WorkerStep, TaskStep, DisposalStep, CallerStep, SupervisorStep

\* An attempt whose supervisor is at work is the current one.
LEMMA LastAttempt ==
  ASSUME Typed, CoordinatorInv, NEW a \in Attempts, sup[a] \notin {"none", "seal", "notify", "ended"}
  PROVE  a = attempt /\ attempt # 0
<1>1. ~(a > attempt) /\ ~(a < attempt)
  BY DEF CoordinatorInv
<1> QED
  BY <1>1, ShutdownAssumption DEF Typed, Attempts

\* Every step keeps the coordinator invariant.
LEMMA CoordinatorStep ==
  ASSUME Typed, CoordinatorInv, [Next]_vars
  PROVE  CoordinatorInv'
<1> USE ShutdownAssumption DEF Typed, CoordinatorInv, Attempts
<1>1. CASE UNCHANGED vars
  BY <1>1 DEF vars, gate, coord, work
<1>2. ASSUME NEW w \in Workers, WorkerEnter(w)
      PROVE  CoordinatorInv'
  BY <1>2 DEF WorkerEnter, coord
<1>3. ASSUME NEW w \in Workers, WorkerSpawn(w)
      PROVE  CoordinatorInv'
  BY <1>3 DEF WorkerSpawn, coord
<1>4. ASSUME NEW w \in Workers,
             \/ WorkerReturns(w) \/ WorkerCancelled(w) \/ WorkerComplete(w)
             \/ WorkerAborted(w)
      PROVE  CoordinatorInv'
  BY <1>4 DEF WorkerReturns, WorkerCancelled, WorkerComplete, WorkerAborted, gate, coord,
         work
<1>5. ASSUME NEW w \in Workers, NEW f \in Fibers,
             \/ InstallCreates(w, f) \/ InstallCommits(w, f) \/ InstallRollsBack(w, f)
             \/ InstallRolledBack(w, f)
      PROVE  CoordinatorInv'
  BY <1>5 DEF InstallCreates, InstallCommits, InstallRollsBack, InstallRolledBack, gate,
         coord, work
<1>6. ASSUME NEW t \in Tasks,
             \/ SpawnTask(t) \/ TaskStart(t) \/ TaskReturns(t) \/ TaskCancelled(t)
             \/ TaskComplete(t) \/ TaskAborted(t)
      PROVE  CoordinatorInv'
  BY <1>6 DEF SpawnTask, TaskStart, TaskReturns, TaskCancelled, TaskComplete, TaskAborted,
         gate, coord, work
<1>7. ASSUME NEW f \in Fibers,
             \/ AcquireHandle(f) \/ ReleaseHandle(f) \/ TakeIds(f) \/ TakeArena(f)
             \/ GraceExpires(f) \/ Drained(f) \/ DisposeFiber(f) \/ DrainTimesOut(f)
             \/ DisposalPanics(f)
      PROVE  CoordinatorInv'
  BY <1>7 DEF AcquireHandle, ReleaseHandle, TakeIds, TakeArena, GraceExpires, Drained,
         DisposeFiber, DrainTimesOut, DisposalPanics, gate,
         coord, work
<1>8. ASSUME NEW f \in Fibers, NEW t \in Tasks, JoinTask(f, t)
      PROVE  CoordinatorInv'
  BY <1>8 DEF JoinTask, gate, coord, work
<1>9. ASSUME NEW c \in Callers,
             \/ Observe(c) \/ CallerChecks(c) \/ CallerRechecks(c) \/ CallerWakes(c)
             \/ CallerDrops(c)
      PROVE  CoordinatorInv'
  BY <1>9 DEF Observe, CallerChecks, CallerRechecks, CallerWakes, CallerDrops, gate, coord,
         work
<1>10. ASSUME NEW c \in Callers, StartAttempt(c)
      PROVE  CoordinatorInv'
  BY <1>10 DEF StartAttempt, Observes, gate, work
<1>11. ASSUME NEW a \in Attempts, NEW f \in Fibers,
             ShutdownDisposes(a, f) \/ ShutdownJoins(a, f)
      PROVE  CoordinatorInv'
  BY <1>11 DEF ShutdownDisposes, ShutdownJoins, gate, coord, work
<1>12. ASSUME NEW a \in Attempts,
             DeadlinePasses(a) \/ AbortWorkers(a)
      PROVE  CoordinatorInv'
  BY <1>12 DEF DeadlinePasses, AbortWorkers, gate, coord, work
<1>13. ASSUME NEW a \in Attempts, RootDone(a)
      PROVE  CoordinatorInv'
  BY <1>13 DEF RootDone, SupAt, MoveSup, gate, work
<1>14. ASSUME NEW a \in Attempts, RootTimedOut(a)
      PROVE  CoordinatorInv'
  BY <1>14 DEF RootTimedOut, SupAt, MoveSup, gate, work
<1>15. ASSUME NEW a \in Attempts, DrainWorkers(a)
      PROVE  CoordinatorInv'
  <2>1. joins' = map /\ sup' = [sup EXCEPT ![a] = "joining"]
    BY <1>15, DrainWorkersEffect
  <2>2. UNCHANGED <<admission, readers, lifecycle, attempt, outcome>> /\ sup[a] = "drain"
    BY <1>15 DEF DrainWorkers, SupAt, gate
  <2>3. a = attempt /\ attempt # 0
    BY <2>2, LastAttempt
  <2> QED
    BY <2>1, <2>2, <2>3
<1>16. ASSUME NEW a \in Attempts, WorkersJoined(a)
      PROVE  CoordinatorInv'
  BY <1>16 DEF WorkersJoined, SupAt, MoveSup, gate, work
<1>17. ASSUME NEW a \in Attempts, ResidueDone(a)
      PROVE  CoordinatorInv'
  BY <1>17 DEF ResidueDone, SupAt, MoveSup, gate, work
<1>18. ASSUME NEW a \in Attempts, AuditFibers(a)
      PROVE  CoordinatorInv'
  BY <1>18 DEF AuditFibers, SupAt, MoveSup, gate, work
<1>19. ASSUME NEW a \in Attempts, AuditWork(a)
      PROVE  CoordinatorInv'
  BY <1>19 DEF AuditWork, SupAt, MoveSup, gate, work
<1>20. ASSUME NEW a \in Attempts, AttemptPanics(a)
      PROVE  CoordinatorInv'
  BY <1>20 DEF AttemptPanics, SupAt, MoveSup, gate, work
<1>21. ASSUME NEW a \in Attempts, Finish(a)
      PROVE  CoordinatorInv'
  BY <1>21 DEF Finish, SupAt, MoveSup, gate, work
<1>22. ASSUME NEW a \in Attempts, SealAdmission(a)
      PROVE  CoordinatorInv'
  BY <1>22 DEF SealAdmission, SupAt, MoveSup, gate, work
<1>23. ASSUME NEW a \in Attempts, NotifyCallers(a)
      PROVE  CoordinatorInv'
  BY <1>23 DEF NotifyCallers, SupAt, MoveSup, gate, work
<1>24. ASSUME NEW a \in Attempts, NEW w \in Workers, JoinWorker(a, w)
      PROVE  CoordinatorInv'
  BY <1>24 DEF JoinWorker, SupAt, gate, coord, work
<1> QED
  BY <1>1, <1>2, <1>3, <1>4, <1>5, <1>6, <1>7, <1>8, <1>9, <1>10, <1>11, <1>12, <1>13,
         <1>14, <1>15, <1>16, <1>17, <1>18, <1>19, <1>20, <1>21, <1>22, <1>23, <1>24
     DEF Next, WorkerStep, TaskStep, DisposalStep, CallerStep, SupervisorStep

\* Every step keeps the worker invariant.
LEMMA WorkerInvStep ==
  ASSUME Typed, CoordinatorInv, WorkerInv, [Next]_vars
  PROVE  WorkerInv'
<1> USE ShutdownAssumption DEF Typed, WorkerInv
<1>1. CASE UNCHANGED vars
  BY <1>1 DEF vars, gate, coord, work, HoldsGuard
<1>2. ASSUME NEW w \in Workers, WorkerEnter(w)
      PROVE  WorkerInv'
  BY <1>2, MovedWorker DEF WorkerEnter, WorkerAt, gate, LivePCs, WorkerPCs, SameWorker,
         HoldsGuard
<1>3. ASSUME NEW w \in Workers, WorkerSpawn(w)
      PROVE  WorkerInv'
  BY <1>3, MovedWorker DEF WorkerSpawn, WorkerAt, gate, LivePCs, WorkerPCs, SameWorker,
         HoldsGuard
<1>4. ASSUME NEW w \in Workers, WorkerReturns(w)
      PROVE  WorkerInv'
  BY <1>4, MovedWorker DEF WorkerReturns, WorkerAt, gate, LivePCs, WorkerPCs, SameWorker,
         HoldsGuard
<1>5. ASSUME NEW w \in Workers, WorkerCancelled(w)
      PROVE  WorkerInv'
  BY <1>5, MovedWorker DEF WorkerCancelled, WorkerAt, gate, LivePCs, WorkerPCs, SameWorker,
         HoldsGuard
<1>6. ASSUME NEW w \in Workers, WorkerComplete(w)
      PROVE  WorkerInv'
  <2> DEFINE n == IF w \in map THEN 1 ELSE 0
  <2>1. n \in Nat /\ worker' = [worker EXCEPT ![w] = ExitedWorker(w, n)]
    BY <1>6 DEF WorkerComplete
  <2>2. map' = map \ {w} /\ UNCHANGED <<joins, readers>> /\ worker[w].pc = "finishing"
    BY <1>6 DEF WorkerComplete, WorkerAt, gate
  <2> HIDE DEF n
  <2>3. /\ \A v \in Workers : v # w => SameWorker(v)
        /\ worker'[w].pc = "exited" /\ ~worker'[w].abort
        /\ worker'[w].recorded = worker[w].recorded + n
    BY <2>1, EndedWorker
  <2>4. w \in map \cup joins /\ worker[w].recorded = 0
    BY <2>2 DEF LivePCs
  <2> QED
    BY <2>2, <2>3, <2>4 DEF n, LivePCs, SameWorker, HoldsGuard
<1>7. ASSUME NEW w \in Workers, WorkerAborted(w)
      PROVE  WorkerInv'
  <2>1. worker' = [worker EXCEPT ![w] = ExitedWorker(w, 0)] /\ UNCHANGED <<map, joins, readers>>
    BY <1>7 DEF WorkerAborted, gate
  <2>2. w \in joins /\ worker[w].pc \in LivePCs /\ worker[w].recorded = 0
    BY <1>7 DEF WorkerAborted, LivePCs
  <2>3. /\ \A v \in Workers : v # w => SameWorker(v)
        /\ worker'[w].pc = "exited" /\ ~worker'[w].abort
        /\ worker'[w].recorded = worker[w].recorded + 0
    BY <2>1, EndedWorker
  <2> QED
    BY <2>1, <2>2, <2>3 DEF LivePCs, SameWorker, HoldsGuard
<1>8. ASSUME NEW w \in Workers, NEW f \in Fibers, InstallCreates(w, f)
      PROVE  WorkerInv'
  BY <1>8, MovedWorker DEF InstallCreates, WorkerAt, gate, LivePCs, WorkerPCs, SameWorker,
         HoldsGuard
<1>9. ASSUME NEW w \in Workers, NEW f \in Fibers, InstallCommits(w, f)
      PROVE  WorkerInv'
  <2>1. /\ worker[w].pc = "activating" /\ \A v \in Workers : v # w => SameWorker(v)
        /\ worker'[w].pc = "finishing" /\ worker'[w].kind = worker[w].kind
        /\ worker'[w].abort = worker[w].abort /\ worker'[w].recorded = worker[w].recorded
    BY <1>9, InstallCommitsEffect
  <2>2. UNCHANGED <<map, joins, readers>>
    BY <1>9 DEF InstallCommits, gate
  <2> QED
    BY <2>1, <2>2 DEF LivePCs, SameWorker, HoldsGuard
<1>10. ASSUME NEW w \in Workers, NEW f \in Fibers, InstallRollsBack(w, f)
      PROVE  WorkerInv'
  BY <1>10, MovedWorker DEF InstallRollsBack, WorkerAt, gate, LivePCs, WorkerPCs, SameWorker,
         HoldsGuard
<1>11. ASSUME NEW w \in Workers, NEW f \in Fibers, InstallRolledBack(w, f)
      PROVE  WorkerInv'
  BY <1>11, MovedWorker DEF InstallRolledBack, WorkerAt, gate, LivePCs, WorkerPCs,
         SameWorker, HoldsGuard
<1>12. ASSUME NEW t \in Tasks,
             \/ SpawnTask(t) \/ TaskStart(t) \/ TaskReturns(t) \/ TaskCancelled(t)
             \/ TaskComplete(t) \/ TaskAborted(t)
      PROVE  WorkerInv'
  BY <1>12 DEF SpawnTask, TaskStart, TaskReturns, TaskCancelled, TaskComplete, TaskAborted,
         gate, work, HoldsGuard
<1>13. ASSUME NEW f \in Fibers,
             \/ AcquireHandle(f) \/ ReleaseHandle(f) \/ TakeIds(f) \/ TakeArena(f)
             \/ GraceExpires(f) \/ Drained(f) \/ DisposeFiber(f) \/ DrainTimesOut(f)
             \/ DisposalPanics(f)
      PROVE  WorkerInv'
  BY <1>13 DEF AcquireHandle, ReleaseHandle, TakeIds, TakeArena, GraceExpires, Drained,
         DisposeFiber, DrainTimesOut, DisposalPanics, gate, work, HoldsGuard
<1>14. ASSUME NEW f \in Fibers, NEW t \in Tasks, JoinTask(f, t)
      PROVE  WorkerInv'
  BY <1>14 DEF JoinTask, gate, work, HoldsGuard
<1>15. ASSUME NEW c \in Callers,
             \/ Observe(c) \/ StartAttempt(c) \/ CallerChecks(c) \/ CallerRechecks(c)
             \/ CallerWakes(c) \/ CallerDrops(c)
      PROVE  WorkerInv'
  BY <1>15 DEF Observe, StartAttempt, CallerChecks, CallerRechecks, CallerWakes,
         CallerDrops, gate, work, HoldsGuard
<1>16. ASSUME NEW a \in Attempts, NEW f \in Fibers,
             ShutdownDisposes(a, f) \/ ShutdownJoins(a, f)
      PROVE  WorkerInv'
  BY <1>16 DEF ShutdownDisposes, ShutdownJoins, gate, work, HoldsGuard
<1>17. ASSUME NEW a \in Attempts,
             \/ DeadlinePasses(a) \/ RootDone(a) \/ RootTimedOut(a) \/ WorkersJoined(a)
             \/ ResidueDone(a) \/ AuditFibers(a) \/ AuditWork(a) \/ AttemptPanics(a)
             \/ Finish(a) \/ SealAdmission(a) \/ NotifyCallers(a)
      PROVE  WorkerInv'
  BY <1>17 DEF DeadlinePasses, RootDone, RootTimedOut, WorkersJoined, ResidueDone,
         AuditFibers, AuditWork, AttemptPanics, Finish, SealAdmission, NotifyCallers, gate,
         work, HoldsGuard
<1>18. ASSUME NEW a \in Attempts, DrainWorkers(a)
      PROVE  WorkerInv'
  <2>1. /\ joins' = map /\ map' = {} /\ readers' = readers
        /\ \A v \in Workers : SameWorker(v)
    BY <1>18, DrainWorkersEffect DEF DrainWorkers, gate
  <2>2. sup[a] = "drain" /\ a = attempt
    BY <1>18, LastAttempt DEF DrainWorkers, SupAt
  <2>3. joins = {}
    BY <2>2 DEF CoordinatorInv
  <2> QED
    BY <2>1, <2>3 DEF SameWorker, HoldsGuard
<1>19. ASSUME NEW a \in Attempts, AbortWorkers(a)
      PROVE  WorkerInv'
  <2>1. UNCHANGED <<map, joins, readers>>
    BY <1>19 DEF AbortWorkers, gate
  <2>2. \A v \in Workers :
          /\ worker'[v].pc = worker[v].pc /\ worker'[v].kind = worker[v].kind
          /\ worker'[v].recorded = worker[v].recorded
          /\ worker'[v].abort => worker[v].abort \/ (v \in joins /\ worker[v].pc # "exited")
    BY <1>19, AbortedWorkers DEF AbortWorkers
  <2> QED
    BY <2>1, <2>2 DEF HoldsGuard
<1>20. ASSUME NEW a \in Attempts, NEW w \in Workers, JoinWorker(a, w)
      PROVE  WorkerInv'
  <2>1. /\ map' = map /\ readers' = readers /\ joins' = joins \ {w} /\ w \in joins
        /\ worker[w].pc = "exited"
        /\ worker' = [worker EXCEPT ![w].recorded = @ + 1]
    BY <1>20 DEF JoinWorker, WorkerAt, gate
  <2>2. /\ \A v \in Workers : v # w => SameWorker(v)
        /\ worker'[w].pc = "exited" /\ worker'[w].abort = worker[w].abort
        /\ worker'[w].recorded = worker[w].recorded + 1
    BY <2>1, RecordedWorker
  <2> QED
    BY <2>1, <2>2 DEF LivePCs, SameWorker, HoldsGuard
<1> QED
  BY <1>1, <1>2, <1>3, <1>4, <1>5, <1>6, <1>7, <1>8, <1>9, <1>10, <1>11, <1>12, <1>13,
         <1>14, <1>15, <1>16, <1>17, <1>18, <1>19, <1>20
     DEF Next, WorkerStep, TaskStep, DisposalStep, CallerStep, SupervisorStep

\* The activations keep their Fibers if no other worker starts to activate and
\* none of their Fibers moves.
LEMMA InstallKept ==
  ASSUME InstallInv,
         \A v \in Workers : worker'[v].pc = "activating" =>
           /\ worker[v].pc = "activating"
           /\ TargetOf[v] \in Fibers => fiber'[TargetOf[v]].pc = fiber[TargetOf[v]].pc
  PROVE  InstallInv'
BY DEF InstallInv


\* Every step keeps the invariant of the activations.
LEMMA InstallInvStep ==
  ASSUME Typed, InstallInv, [Next]_vars
  PROVE  InstallInv'
<1> USE ShutdownAssumption
<1>1. CASE UNCHANGED vars
  BY <1>1 DEF vars, gate, coord, work, InstallInv
<1>2. ASSUME NEW w \in Workers, WorkerEnter(w)
      PROVE  InstallInv'
  BY <1>2, WorkerEnterEffect, InstallKept DEF SameWorker
<1>3. ASSUME NEW w \in Workers, WorkerSpawn(w)
      PROVE  InstallInv'
  BY <1>3, WorkerSpawnEffect, InstallKept DEF SameWorker
<1>4. ASSUME NEW w \in Workers, WorkerReturns(w)
      PROVE  InstallInv'
  BY <1>4, WorkerReturnsEffect, InstallKept DEF SameWorker
<1>5. ASSUME NEW w \in Workers, WorkerCancelled(w)
      PROVE  InstallInv'
  BY <1>5, WorkerCancelledEffect, InstallKept DEF SameWorker
<1>6. ASSUME NEW w \in Workers, WorkerComplete(w)
      PROVE  InstallInv'
  BY <1>6, WorkerCompleteEffect, InstallKept DEF SameWorker
<1>7. ASSUME NEW w \in Workers, WorkerAborted(w)
      PROVE  InstallInv'
  BY <1>7, WorkerAbortedEffect, InstallKept DEF SameWorker
<1>8. ASSUME NEW w \in Workers, NEW f \in Fibers, InstallCreates(w, f)
      PROVE  InstallInv'
  BY <1>8, InstallCreatesEffect DEF SameWorker, SameFiber, InstallInv
<1>9. ASSUME NEW w \in Workers, NEW f \in Fibers, InstallCommits(w, f)
      PROVE  InstallInv'
  BY <1>9, InstallCommitsEffect DEF SameWorker, SameFiber, InstallInv
<1>10. ASSUME NEW w \in Workers, NEW f \in Fibers, InstallRollsBack(w, f)
      PROVE  InstallInv'
  BY <1>10, InstallRollsBackEffect DEF SameWorker, SameFiber, InstallInv
<1>11. ASSUME NEW w \in Workers, NEW f \in Fibers, InstallRolledBack(w, f)
      PROVE  InstallInv'
  BY <1>11, InstallRolledBackEffect, InstallKept DEF SameWorker
<1>12. ASSUME NEW t \in Tasks, SpawnTask(t)
      PROVE  InstallInv'
  BY <1>12, SpawnTaskEffect, InstallKept DEF SameFiber, InstallInv
<1>13. ASSUME NEW t \in Tasks,
             TaskStart(t) \/ TaskReturns(t) \/ TaskCancelled(t) \/ TaskAborted(t)
      PROVE  InstallInv'
  BY <1>13 DEF TaskStart, TaskReturns, TaskCancelled, TaskAborted, gate, coord, work,
         InstallInv
<1>14. ASSUME NEW t \in Tasks, TaskComplete(t)
      PROVE  InstallInv'
  <2>1. \A g \in Fibers : fiber'[g].pc = fiber[g].pc
    BY <1>14, TaskCompleteEffect DEF SameFiber
  <2>2. worker' = worker
    BY <1>14 DEF TaskComplete, work
  <2> QED
    BY <2>1, <2>2, InstallKept
<1>15. ASSUME NEW f \in Fibers, AcquireHandle(f)
      PROVE  InstallInv'
  BY <1>15, AcquireHandleEffect, InstallKept DEF SameFiber, InstallInv
<1>16. ASSUME NEW f \in Fibers, ReleaseHandle(f)
      PROVE  InstallInv'
  BY <1>16, ReleaseHandleEffect, InstallKept DEF SameFiber, InstallInv
<1>17. ASSUME NEW f \in Fibers, TakeIds(f)
      PROVE  InstallInv'
  BY <1>17, TakeIdsEffect, InstallKept DEF SameFiber, InstallInv
<1>18. ASSUME NEW f \in Fibers, TakeArena(f)
      PROVE  InstallInv'
  BY <1>18, TakeArenaEffect, InstallKept DEF SameFiber, InstallInv
<1>19. ASSUME NEW f \in Fibers, GraceExpires(f)
      PROVE  InstallInv'
  BY <1>19 DEF GraceExpires, gate, coord, work, InstallInv
<1>20. ASSUME NEW f \in Fibers, Drained(f)
      PROVE  InstallInv'
  BY <1>20, DrainedEffect, InstallKept DEF SameFiber, InstallInv
<1>21. ASSUME NEW f \in Fibers, NEW t \in Tasks, JoinTask(f, t)
      PROVE  InstallInv'
  BY <1>21, JoinTaskEffect, InstallKept DEF SameFiber, InstallInv
<1>22. ASSUME NEW c \in Callers,
             \/ Observe(c) \/ StartAttempt(c) \/ CallerChecks(c) \/ CallerRechecks(c)
             \/ CallerWakes(c) \/ CallerDrops(c)
      PROVE  InstallInv'
  BY <1>22 DEF Observe, StartAttempt, CallerChecks, CallerRechecks, CallerWakes,
         CallerDrops, gate, coord, work, InstallInv
<1>23. ASSUME NEW a \in Attempts, NEW f \in Fibers, ShutdownDisposes(a, f)
      PROVE  InstallInv'
  BY <1>23, ShutdownDisposesEffect DEF SameFiber, LifecycleFree, WorkerAt, InstallInv
<1>24. ASSUME NEW a \in Attempts,
             \/ DeadlinePasses(a) \/ RootDone(a) \/ RootTimedOut(a) \/ WorkersJoined(a)
             \/ ResidueDone(a) \/ AuditFibers(a) \/ AuditWork(a) \/ AttemptPanics(a)
             \/ Finish(a) \/ SealAdmission(a) \/ NotifyCallers(a)
      PROVE  InstallInv'
  BY <1>24 DEF DeadlinePasses, RootDone, RootTimedOut, WorkersJoined, ResidueDone,
         AuditFibers, AuditWork, AttemptPanics, Finish, SealAdmission, NotifyCallers, gate,
         coord, work, InstallInv
<1>25. ASSUME NEW a \in Attempts, DrainWorkers(a)
      PROVE  InstallInv'
  BY <1>25, DrainWorkersEffect, InstallKept DEF SameWorker
<1>26. ASSUME NEW a \in Attempts, AbortWorkers(a)
      PROVE  InstallInv'
  BY <1>26, AbortedWorkers, InstallKept DEF AbortWorkers
<1>27. ASSUME NEW a \in Attempts, NEW w \in Workers, JoinWorker(a, w)
      PROVE  InstallInv'
  BY <1>27, RecordedWorker, InstallKept DEF JoinWorker, SameWorker
<1>28. ASSUME NEW f \in Fibers, DisposeFiber(f)
      PROVE  InstallInv'
  BY <1>28, DisposeFiberEffect DEF SameFiber, LifecycleFree, WorkerAt, InstallInv
<1>29. ASSUME NEW f \in Fibers, DrainTimesOut(f)
      PROVE  InstallInv'
  BY <1>29, DrainTimesOutEffect, InstallKept DEF SameFiber, InstallInv
<1>30. ASSUME NEW a \in Attempts, NEW f \in Fibers, ShutdownJoins(a, f)
      PROVE  InstallInv'
  BY <1>30, ShutdownJoinsEffect, InstallKept DEF SameFiber, InstallInv
<1>31. ASSUME NEW f \in Fibers, DisposalPanics(f)
      PROVE  InstallInv'
  BY <1>31, DisposalPanicsEffect, InstallKept DEF SameFiber, InstallInv
<1> QED
  BY <1>1, <1>2, <1>3, <1>4, <1>5, <1>6, <1>7, <1>8, <1>9, <1>10, <1>11, <1>12, <1>13,
         <1>14, <1>15, <1>16, <1>17, <1>18, <1>19, <1>20, <1>21, <1>22, <1>23, <1>24, <1>25,
         <1>26, <1>27, <1>28, <1>29, <1>30, <1>31
     DEF Next, WorkerStep, TaskStep, DisposalStep, CallerStep, SupervisorStep

\* Every step keeps the Fiber invariant.
LEMMA FiberInvStep ==
  ASSUME Typed, InstallInv, FiberInv, [Next]_vars
  PROVE  FiberInv'
<1> USE ShutdownAssumption
<1>1. CASE UNCHANGED vars
  BY <1>1 DEF vars, gate, coord, work, FiberInv, Ended
<1>2. ASSUME NEW w \in Workers,
             \/ WorkerEnter(w) \/ WorkerSpawn(w) \/ WorkerReturns(w) \/ WorkerCancelled(w)
             \/ WorkerComplete(w) \/ WorkerAborted(w)
      PROVE  FiberInv'
  BY <1>2 DEF WorkerEnter, WorkerSpawn, WorkerReturns, WorkerCancelled, WorkerComplete,
         WorkerAborted, gate, coord, work, FiberInv, Ended
<1>3. ASSUME NEW w \in Workers, NEW f \in Fibers, InstallCreates(w, f)
      PROVE  FiberInv'
  BY <1>3, InstallCreatesEffect DEF FiberInv, Ended, SameFiber, OwnTasks
<1>4. ASSUME NEW w \in Workers, NEW f \in Fibers, InstallCommits(w, f)
      PROVE  FiberInv'
  BY <1>4, InstallCommitsEffect DEF FiberInv, Ended, SameFiber, OwnTasks, InstallInv
<1>5. ASSUME NEW w \in Workers, NEW f \in Fibers, InstallRollsBack(w, f)
      PROVE  FiberInv'
  BY <1>5, InstallRollsBackEffect DEF FiberInv, Ended, SameFiber, OwnTasks, InstallInv
<1>6. ASSUME NEW w \in Workers, NEW f \in Fibers, InstallRolledBack(w, f)
      PROVE  FiberInv'
  BY <1>6 DEF InstallRolledBack, gate, coord, work, FiberInv, Ended
<1>7. ASSUME NEW t \in Tasks, SpawnTask(t)
      PROVE  FiberInv'
  BY <1>7, SpawnTaskEffect DEF FiberInv, Ended, SameFiber, OwnTasks
<1>8. ASSUME NEW t \in Tasks,
             TaskStart(t) \/ TaskReturns(t) \/ TaskCancelled(t) \/ TaskAborted(t)
      PROVE  FiberInv'
  BY <1>8 DEF TaskStart, TaskReturns, TaskCancelled, TaskAborted, gate, coord, work,
         FiberInv, Ended
<1>9. ASSUME NEW t \in Tasks, TaskComplete(t)
      PROVE  FiberInv'
  <2> DEFINE o == OwnerOf[t]
  <2>1. /\ \A g \in Fibers : g # o => SameFiber(g)
        /\ fiber'[o].tasks = IF t \in arena THEN fiber[o].tasks \ {t} ELSE fiber[o].tasks
        /\ fiber'[o].pc = fiber[o].pc /\ fiber'[o].ids = fiber[o].ids
        /\ fiber'[o].joined = fiber[o].joined /\ fiber'[o].lease = fiber[o].lease
        /\ fiber'[o].persist = fiber[o].persist
        /\ arena' = arena \ {t} /\ o \in Fibers
    BY <1>9, TaskCompleteEffect
  <2>2. \A g \in Fibers : g # o => t \notin fiber[g].tasks
    BY DEF FiberInv, OwnTasks
  <2> HIDE DEF o
  <2> QED
    BY <2>1, <2>2 DEF FiberInv, Ended, SameFiber
<1>10. ASSUME NEW f \in Fibers, AcquireHandle(f)
      PROVE  FiberInv'
  <2>1. /\ fiber[f].pc = "active" /\ \A g \in Fibers : g # f => SameFiber(g)
        /\ fiber'[f].pc = fiber[f].pc /\ fiber'[f].tasks = fiber[f].tasks
        /\ fiber'[f].ids = fiber[f].ids /\ fiber'[f].joined = fiber[f].joined /\ arena' = arena
    BY <1>10, AcquireHandleEffect
  <2> QED
    BY <2>1 DEF FiberInv, Ended, SameFiber
<1>11. ASSUME NEW f \in Fibers, ReleaseHandle(f)
      PROVE  FiberInv'
  <2>1. /\ ~fiber'[f].lease /\ fiber'[f].persist = fiber[f].persist
        /\ \A g \in Fibers : g # f => SameFiber(g)
        /\ fiber'[f].pc = fiber[f].pc /\ fiber'[f].tasks = fiber[f].tasks
        /\ fiber'[f].ids = fiber[f].ids /\ fiber'[f].joined = fiber[f].joined /\ arena' = arena
    BY <1>11, ReleaseHandleEffect
  <2> QED
    BY <2>1 DEF FiberInv, Ended, SameFiber
<1>12. ASSUME NEW f \in Fibers, TakeIds(f)
      PROVE  FiberInv'
  BY <1>12, TakeIdsEffect DEF FiberInv, Ended, SameFiber, OwnTasks
<1>13. ASSUME NEW f \in Fibers, TakeArena(f)
      PROVE  FiberInv'
  BY <1>13, TakeArenaEffect DEF FiberInv, Ended, SameFiber, OwnTasks
<1>14. ASSUME NEW f \in Fibers, GraceExpires(f)
      PROVE  FiberInv'
  BY <1>14 DEF GraceExpires, gate, coord, work, FiberInv, Ended
<1>15. ASSUME NEW f \in Fibers, Drained(f)
      PROVE  FiberInv'
  BY <1>15, DrainedEffect DEF FiberInv, Ended, SameFiber, OwnTasks
<1>16. ASSUME NEW f \in Fibers, NEW t \in Tasks, JoinTask(f, t)
      PROVE  FiberInv'
  BY <1>16, JoinTaskEffect DEF FiberInv, Ended, SameFiber, OwnTasks
<1>17. ASSUME NEW c \in Callers,
             \/ Observe(c) \/ StartAttempt(c) \/ CallerChecks(c) \/ CallerRechecks(c)
             \/ CallerWakes(c) \/ CallerDrops(c)
      PROVE  FiberInv'
  BY <1>17 DEF Observe, StartAttempt, CallerChecks, CallerRechecks, CallerWakes,
         CallerDrops, gate, coord, work, FiberInv, Ended
<1>18. ASSUME NEW a \in Attempts, NEW f \in Fibers, ShutdownDisposes(a, f)
      PROVE  FiberInv'
  BY <1>18, ShutdownDisposesEffect DEF FiberInv, Ended, SameFiber, OwnTasks
<1>19. ASSUME NEW a \in Attempts,
             \/ DeadlinePasses(a) \/ RootDone(a) \/ RootTimedOut(a) \/ DrainWorkers(a)
             \/ AbortWorkers(a) \/ WorkersJoined(a) \/ ResidueDone(a) \/ AuditFibers(a)
             \/ AuditWork(a) \/ AttemptPanics(a) \/ Finish(a) \/ SealAdmission(a)
             \/ NotifyCallers(a)
      PROVE  FiberInv'
  BY <1>19 DEF DeadlinePasses, RootDone, RootTimedOut, DrainWorkers, AbortWorkers,
         WorkersJoined, ResidueDone, AuditFibers, AuditWork, AttemptPanics, Finish,
         SealAdmission, NotifyCallers, gate, coord, work, FiberInv, Ended
<1>20. ASSUME NEW a \in Attempts, NEW w \in Workers, JoinWorker(a, w)
      PROVE  FiberInv'
  BY <1>20 DEF JoinWorker, gate, coord, work, FiberInv, Ended
<1>21. ASSUME NEW f \in Fibers, DisposeFiber(f)
      PROVE  FiberInv'
  BY <1>21, DisposeFiberEffect DEF FiberInv, Ended, SameFiber, OwnTasks
<1>22. ASSUME NEW f \in Fibers, DrainTimesOut(f)
      PROVE  FiberInv'
  BY <1>22, DrainTimesOutEffect DEF FiberInv, Ended, SameFiber, OwnTasks
<1>23. ASSUME NEW a \in Attempts, NEW f \in Fibers, ShutdownJoins(a, f)
      PROVE  FiberInv'
  BY <1>23, ShutdownJoinsEffect DEF FiberInv, Ended, SameFiber, OwnTasks
<1>24. ASSUME NEW f \in Fibers, DisposalPanics(f)
      PROVE  FiberInv'
  BY <1>24, DisposalPanicsEffect DEF FiberInv, Ended, SameFiber, OwnTasks
<1> QED
  BY <1>1, <1>2, <1>3, <1>4, <1>5, <1>6, <1>7, <1>8, <1>9, <1>10, <1>11, <1>12, <1>13,
         <1>14, <1>15, <1>16, <1>17, <1>18, <1>19, <1>20, <1>21, <1>22, <1>23, <1>24
     DEF Next, WorkerStep, TaskStep, DisposalStep, CallerStep, SupervisorStep

\* Every step keeps the task invariant.
LEMMA TaskInvStep ==
  ASSUME Typed, InstallInv, FiberInv, TaskInv, [Next]_vars
  PROVE  TaskInv'
<1> USE ShutdownAssumption
<1>1. CASE UNCHANGED vars
  BY <1>1 DEF vars, gate, coord, work, TaskInv, TaskAt
<1>2. ASSUME NEW w \in Workers,
             \/ WorkerEnter(w) \/ WorkerSpawn(w) \/ WorkerReturns(w) \/ WorkerCancelled(w)
             \/ WorkerComplete(w) \/ WorkerAborted(w)
      PROVE  TaskInv'
  BY <1>2 DEF WorkerEnter, WorkerSpawn, WorkerReturns, WorkerCancelled, WorkerComplete,
         WorkerAborted, gate, coord, work, TaskInv, TaskAt
<1>3. ASSUME NEW w \in Workers, NEW f \in Fibers, InstallCreates(w, f)
      PROVE  TaskInv'
  <2>1. PICK S \in SUBSET OwnTasks(f) :
          /\ fiber' = [fiber EXCEPT ![f].pc = "starting", ![f].tasks = S]
          /\ arena' = arena \cup S
          /\ task' = [u \in Tasks |-> IF u \in S THEN [task[u] EXCEPT !.pc = "barrier"] ELSE task[u]]
    BY <1>3 DEF InstallCreates
  <2>2. /\ arena' = arena \cup S
        /\ \A g \in Fibers : g # f => SameFiber(g)
        /\ fiber'[f].pc = "starting" /\ fiber'[f].tasks = S
        /\ fiber'[f].ids = fiber[f].ids /\ fiber'[f].joined = fiber[f].joined
    BY <2>1, CreatedFiber, S \in SUBSET Tasks DEF OwnTasks
  <2>3. /\ \A u \in Tasks : u \notin S => SameTask(u)
        /\ \A u \in Tasks : u \in S =>
             /\ task'[u].pc = "barrier" /\ task'[u].abort = task[u].abort
             /\ task'[u].recorded = task[u].recorded
    BY <2>1, StagedTasks, S \in SUBSET Tasks DEF OwnTasks
  <2>4. /\ fiber[f].pc = "absent" /\ fiber[f].tasks = {}
        /\ fiber[f].ids = {} /\ fiber[f].joined = {}
    BY <1>3, InstallCreatesEffect DEF FiberInv
  <2>5. /\ \A u \in Tasks : OwnerOf[u] \in Fibers
        /\ \A u \in S : u \in Tasks /\ OwnerOf[u] = f
    BY DEF OwnTasks
  <2>6. \A u \in Tasks : OwnerOf[u] = f =>
          task[u].pc = "unborn" /\ u \notin arena /\ ~task[u].abort /\ task[u].recorded = 0
    BY <2>4 DEF TaskInv, TaskAt
  <2>7. ASSUME NEW u \in Tasks, u \in S
        PROVE  /\ OwnerOf[u] = f /\ u \in arena' /\ task'[u].pc = "barrier"
               /\ ~task'[u].abort /\ task'[u].recorded = 0
               /\ u \in fiber'[OwnerOf[u]].tasks /\ u \notin fiber'[OwnerOf[u]].joined
               /\ fiber'[OwnerOf[u]].pc # "absent"
    BY <2>2, <2>3, <2>4, <2>5, <2>6, <2>7
  <2>8. ASSUME NEW u \in Tasks, u \notin S, OwnerOf[u] = f
        PROVE  /\ u \notin arena' /\ task'[u].pc = "unborn" /\ ~task'[u].abort
               /\ task'[u].recorded = 0 /\ u \notin fiber'[OwnerOf[u]].joined
    BY <2>2, <2>3, <2>4, <2>6, <2>8 DEF SameTask
  <2>9. ASSUME NEW u \in Tasks, OwnerOf[u] # f
        PROVE  /\ SameTask(u) /\ SameFiber(OwnerOf[u]) /\ (u \in arena' <=> u \in arena)
    BY <2>2, <2>3, <2>5, <2>9
  <2> QED
    BY <2>7, <2>8, <2>9 DEF TaskInv, TaskAt, SameFiber, SameTask, TaskLive
<1>4. ASSUME NEW w \in Workers, NEW f \in Fibers, InstallCommits(w, f)
      PROVE  TaskInv'
  BY <1>4, InstallCommitsEffect DEF TaskInv, TaskAt, SameFiber, TaskLive, InstallInv
<1>5. ASSUME NEW w \in Workers, NEW f \in Fibers, InstallRollsBack(w, f)
      PROVE  TaskInv'
  BY <1>5, InstallRollsBackEffect DEF TaskInv, TaskAt, SameFiber, TaskLive, InstallInv
<1>6. ASSUME NEW w \in Workers, NEW f \in Fibers, InstallRolledBack(w, f)
      PROVE  TaskInv'
  BY <1>6 DEF InstallRolledBack, gate, coord, work, TaskInv, TaskAt
<1>7. ASSUME NEW t \in Tasks, SpawnTask(t)
      PROVE  TaskInv'
  BY <1>7, SpawnTaskEffect DEF TaskInv, TaskAt, SameFiber, SameTask, TaskLive
<1>8. ASSUME NEW t \in Tasks, TaskStart(t)
      PROVE  TaskInv'
  BY <1>8, TaskStartEffect DEF TaskInv, TaskAt, SameTask, TaskLive
<1>9. ASSUME NEW t \in Tasks, TaskReturns(t)
      PROVE  TaskInv'
  BY <1>9, TaskReturnsEffect DEF TaskInv, TaskAt, SameTask, TaskLive
<1>10. ASSUME NEW t \in Tasks, TaskCancelled(t)
      PROVE  TaskInv'
  BY <1>10, TaskCancelledEffect DEF TaskInv, TaskAt, SameTask, TaskLive
<1>11. ASSUME NEW t \in Tasks, TaskComplete(t)
      PROVE  TaskInv'
  <2> DEFINE o == OwnerOf[t]
  <2>1. /\ \A g \in Fibers : g # o => SameFiber(g)
        /\ fiber'[o].tasks = IF t \in arena THEN fiber[o].tasks \ {t} ELSE fiber[o].tasks
        /\ fiber'[o].pc = fiber[o].pc /\ fiber'[o].ids = fiber[o].ids
        /\ fiber'[o].joined = fiber[o].joined
        /\ arena' = arena \ {t} /\ o \in Fibers
    BY <1>11, TaskCompleteEffect
  <2>2. /\ \A u \in Tasks : u # t => SameTask(u)
        /\ task[t].pc = "finishing" /\ task'[t].pc = "exited" /\ ~task'[t].abort
        /\ task'[t].recorded = task[t].recorded + (IF t \in arena THEN 1 ELSE 0)
    BY <1>11, TaskCompleteEffect
  <2>3. /\ t \in arena \cup fiber[o].joined /\ fiber[o].pc # "absent"
        /\ t \in arena => t \notin fiber[o].joined
        /\ task[t].recorded = 0
    BY <2>2 DEF TaskInv, TaskAt, TaskLive
  <2>4. task'[t].recorded = IF t \in arena THEN 1 ELSE 0
    BY <2>2, <2>3
  <2>5. OwnerOf \in [Tasks -> Fibers] /\ o = OwnerOf[t]
    OBVIOUS
  <2> HIDE DEF o
  <2> QED
    BY <2>1, <2>2, <2>3, <2>4, <2>5 DEF TaskInv, TaskAt, SameFiber, SameTask, TaskLive
<1>12. ASSUME NEW t \in Tasks, TaskAborted(t)
      PROVE  TaskInv'
  BY <1>12, TaskAbortedEffect DEF TaskInv, TaskAt, SameTask, TaskLive
<1>13. ASSUME NEW f \in Fibers, AcquireHandle(f)
      PROVE  TaskInv'
  <2>1. /\ fiber[f].pc = "active" /\ \A g \in Fibers : g # f => SameFiber(g)
        /\ fiber'[f].pc = fiber[f].pc /\ fiber'[f].tasks = fiber[f].tasks
        /\ fiber'[f].ids = fiber[f].ids /\ fiber'[f].joined = fiber[f].joined
        /\ arena' = arena /\ task' = task
    BY <1>13, AcquireHandleEffect
  <2> QED
    BY <2>1 DEF TaskInv, TaskAt, SameFiber
<1>14. ASSUME NEW f \in Fibers, ReleaseHandle(f)
      PROVE  TaskInv'
  <2>1. /\ \A g \in Fibers : g # f => SameFiber(g)
        /\ fiber'[f].pc = fiber[f].pc /\ fiber'[f].tasks = fiber[f].tasks
        /\ fiber'[f].ids = fiber[f].ids /\ fiber'[f].joined = fiber[f].joined
        /\ arena' = arena /\ task' = task
    BY <1>14, ReleaseHandleEffect
  <2> QED
    BY <2>1 DEF TaskInv, TaskAt, SameFiber
<1>15. ASSUME NEW f \in Fibers, TakeIds(f)
      PROVE  TaskInv'
  BY <1>15, TakeIdsEffect DEF TaskInv, FiberInv, TaskAt, SameFiber, TaskLive
<1>16. ASSUME NEW f \in Fibers, TakeArena(f)
      PROVE  TaskInv'
  BY <1>16, TakeArenaEffect DEF TaskInv, TaskAt, SameFiber, TaskLive, FiberInv, OwnTasks
<1>17. ASSUME NEW f \in Fibers, GraceExpires(f)
      PROVE  TaskInv'
  BY <1>17, GraceExpiresEffect DEF TaskInv, FiberInv, OwnTasks, TaskAt, SameTask, TaskLive
<1>18. ASSUME NEW f \in Fibers, Drained(f)
      PROVE  TaskInv'
  BY <1>18, DrainedEffect DEF TaskInv, TaskAt, SameFiber, TaskLive
<1>19. ASSUME NEW f \in Fibers, NEW t \in Tasks, JoinTask(f, t)
      PROVE  TaskInv'
  BY <1>19, JoinTaskEffect DEF TaskInv, TaskAt, SameFiber, SameTask, TaskLive, FiberInv, OwnTasks
<1>20. ASSUME NEW c \in Callers,
             \/ Observe(c) \/ StartAttempt(c) \/ CallerChecks(c) \/ CallerRechecks(c)
             \/ CallerWakes(c) \/ CallerDrops(c)
      PROVE  TaskInv'
  BY <1>20 DEF Observe, StartAttempt, CallerChecks, CallerRechecks, CallerWakes,
         CallerDrops, gate, coord, work, TaskInv, TaskAt
<1>21. ASSUME NEW a \in Attempts, NEW f \in Fibers, ShutdownDisposes(a, f)
      PROVE  TaskInv'
  BY <1>21, ShutdownDisposesEffect DEF TaskInv, TaskAt, SameFiber, TaskLive
<1>22. ASSUME NEW a \in Attempts,
             \/ DeadlinePasses(a) \/ RootDone(a) \/ RootTimedOut(a) \/ DrainWorkers(a)
             \/ AbortWorkers(a) \/ WorkersJoined(a) \/ ResidueDone(a) \/ AuditFibers(a)
             \/ AuditWork(a) \/ AttemptPanics(a) \/ Finish(a) \/ SealAdmission(a)
             \/ NotifyCallers(a)
      PROVE  TaskInv'
  BY <1>22 DEF DeadlinePasses, RootDone, RootTimedOut, DrainWorkers, AbortWorkers,
         WorkersJoined, ResidueDone, AuditFibers, AuditWork, AttemptPanics, Finish,
         SealAdmission, NotifyCallers, gate, coord, work, TaskInv, TaskAt
<1>23. ASSUME NEW a \in Attempts, NEW w \in Workers, JoinWorker(a, w)
      PROVE  TaskInv'
  BY <1>23 DEF JoinWorker, gate, coord, work, TaskInv, TaskAt
<1>24. ASSUME NEW f \in Fibers, DisposeFiber(f)
      PROVE  TaskInv'
  BY <1>24, DisposeFiberEffect DEF TaskInv, TaskAt, SameFiber, TaskLive
<1>25. ASSUME NEW f \in Fibers, DrainTimesOut(f)
      PROVE  TaskInv'
  BY <1>25, DrainTimesOutEffect DEF TaskInv, TaskAt, SameFiber, TaskLive
<1>26. ASSUME NEW a \in Attempts, NEW f \in Fibers, ShutdownJoins(a, f)
      PROVE  TaskInv'
  BY <1>26, ShutdownJoinsEffect DEF TaskInv, TaskAt, SameFiber, TaskLive
<1>27. ASSUME NEW f \in Fibers, DisposalPanics(f)
      PROVE  TaskInv'
  BY <1>27, DisposalPanicsEffect DEF TaskInv, TaskAt, SameFiber, TaskLive
<1> QED
  BY <1>1, <1>2, <1>3, <1>4, <1>5, <1>6, <1>7, <1>8, <1>9, <1>10, <1>11, <1>12, <1>13,
         <1>14, <1>15, <1>16, <1>17, <1>18, <1>19, <1>20, <1>21, <1>22, <1>23, <1>24, <1>25, <1>26, <1>27
     DEF Next, WorkerStep, TaskStep, DisposalStep, CallerStep, SupervisorStep

\* What stays true once admission is closed.
QuietKept ==
  attempt # 0 =>
    /\ AllEnded => AllEnded'
    /\ AllSettled => AllSettled'
    /\ Abandonment => Abandonment'
    /\ FencedLeft => FencedLeft'
    /\ NoFenced => NoFenced'
    /\ OutsideFence => OutsideFence'

\* The step starts no worker and revives no Fiber.
NoNewWorker(v) ==
  /\ worker'[v].kind = worker[v].kind
  /\ worker[v].pc # "unborn" => worker'[v].pc # "unborn"
  /\ worker[v].pc \in {"unborn", "exited"} => worker'[v].pc = worker[v].pc
  /\ v \in map' => v \in map

NoNewFiber(g) ==
  /\ Ended(g) => Ended(g)'
  /\ \A p \in {"terminated", "panicked"} : fiber[g].pc = p => fiber'[g].pc = p

\* Such a step keeps what is quiet.
LEMMA QuietIf ==
  ASSUME \A v \in Workers : NoNewWorker(v), \A g \in Fibers : NoNewFiber(g), FiberInv'
  PROVE  QuietKept
<1>1. AllEnded => AllEnded'
  BY DEF AllEnded, NoNewFiber
<1>2. FencedLeft => FencedLeft'
  BY DEF FencedLeft, NoNewWorker, HoldsGuard
<1>3. NoFenced => NoFenced'
  BY DEF NoFenced, NoNewWorker, HoldsGuard
<1>4. OutsideFence => OutsideFence'
  BY DEF OutsideFence, NoNewWorker, HoldsGuard
<1>5. AllSettled => AllSettled'
  BY DEF AllSettled, NoNewFiber, Settled, FiberAt
<1>6. Abandonment => Abandonment'
  <2> SUFFICES ASSUME NEW f \in Fibers, Abandoned(f)
               PROVE  Abandonment'
    BY DEF Abandonment
  <2>1. \/ fiber'[f].pc = "panicked"
        \/ fiber'[f].pc = "terminated" /\ ~fiber'[f].persist
    BY DEF NoNewFiber, FiberInv, Abandoned, FiberAt
  <2> QED
    BY <2>1 DEF Abandonment, Abandoned, FiberAt
<1> QED
  BY <1>1, <1>2, <1>3, <1>4, <1>5, <1>6 DEF QuietKept

\* Nothing is admitted once an attempt has started: Fibers, fenced workers and the
\* map of the workers stay as quiet as they are.
LEMMA QuietStable ==
  ASSUME Typed, CoordinatorInv, WorkerInv, InstallInv, FiberInv, [Next]_vars
  PROVE  QuietKept
<1> USE ShutdownAssumption
<1>0. FiberInv'
  BY FiberInvStep
<1>1. CASE UNCHANGED vars
  BY <1>1, <1>0, QuietIf DEF vars, gate, coord, work, NoNewWorker, NoNewFiber, Ended
<1>2. ASSUME NEW w \in Workers, WorkerEnter(w)
      PROVE  QuietKept
  BY <1>2, WorkerEnterEffect DEF QuietKept, CoordinatorInv
<1>3. ASSUME NEW w \in Workers, WorkerSpawn(w)
      PROVE  QuietKept
  <2>1. CASE HoldsGuard(w)
    BY <1>3, <2>1, WorkerSpawnEffect DEF QuietKept, CoordinatorInv, WorkerInv
  <2>2. CASE ~HoldsGuard(w)
    <3>1. /\ \A v \in Workers : v # w => SameWorker(v)
          /\ worker'[w].pc = "running" /\ worker'[w].kind = worker[w].kind
          /\ map' = map \cup {w} /\ fiber' = fiber
      BY <1>3, WorkerSpawnEffect
    <3>2. FencedLeft => FencedLeft'
      BY <2>2, <3>1 DEF FencedLeft, HoldsGuard, SameWorker
    <3>4. (AllEnded => AllEnded') /\ (AllSettled => AllSettled') /\ (Abandonment => Abandonment')
      BY <3>1 DEF AllEnded, AllSettled, Abandonment, Ended, Settled, Abandoned, FiberAt
    <3>3. (NoFenced => NoFenced') /\ OutsideFence'
      BY <2>2, <3>1 DEF NoFenced, OutsideFence, HoldsGuard, SameWorker
    <3> QED
      BY <3>2, <3>3, <3>4 DEF QuietKept
  <2> QED
    BY <2>1, <2>2
<1>4. ASSUME NEW w \in Workers, WorkerReturns(w)
      PROVE  QuietKept
  <2>1. \A v \in Workers : NoNewWorker(v)
    BY <1>4, WorkerReturnsEffect DEF NoNewWorker, SameWorker
  <2>2. \A g \in Fibers : NoNewFiber(g)
    BY <1>4, WorkerReturnsEffect DEF NoNewFiber, Ended
  <2> QED
    BY <1>0, <2>1, <2>2, QuietIf
<1>5. ASSUME NEW w \in Workers, WorkerCancelled(w)
      PROVE  QuietKept
  <2>1. \A v \in Workers : NoNewWorker(v)
    BY <1>5, WorkerCancelledEffect DEF NoNewWorker, SameWorker
  <2>2. \A g \in Fibers : NoNewFiber(g)
    BY <1>5, WorkerCancelledEffect DEF NoNewFiber, Ended
  <2> QED
    BY <1>0, <2>1, <2>2, QuietIf
<1>6. ASSUME NEW w \in Workers, WorkerComplete(w)
      PROVE  QuietKept
  <2>1. \A v \in Workers : NoNewWorker(v)
    BY <1>6, WorkerCompleteEffect DEF NoNewWorker, SameWorker
  <2>2. \A g \in Fibers : NoNewFiber(g)
    BY <1>6, WorkerCompleteEffect DEF NoNewFiber, Ended
  <2> QED
    BY <1>0, <2>1, <2>2, QuietIf
<1>7. ASSUME NEW w \in Workers, WorkerAborted(w)
      PROVE  QuietKept
  <2>1. \A v \in Workers : NoNewWorker(v)
    BY <1>7, WorkerAbortedEffect DEF NoNewWorker, SameWorker
  <2>2. \A g \in Fibers : NoNewFiber(g)
    BY <1>7, WorkerAbortedEffect DEF NoNewFiber, Ended
  <2> QED
    BY <1>0, <2>1, <2>2, QuietIf
<1>8. ASSUME NEW w \in Workers, NEW f \in Fibers, InstallCreates(w, f)
      PROVE  QuietKept
  BY <1>8, InstallCreatesEffect DEF QuietKept, CoordinatorInv
<1>9. ASSUME NEW w \in Workers, NEW f \in Fibers, InstallCommits(w, f)
      PROVE  QuietKept
  <2>1. \A v \in Workers : NoNewWorker(v)
    BY <1>9, InstallCommitsEffect DEF NoNewWorker, SameWorker
  <2>2. \A g \in Fibers : NoNewFiber(g)
    BY <1>9, InstallCommitsEffect DEF NoNewFiber, Ended, InstallInv, SameFiber
  <2> QED
    BY <1>0, <2>1, <2>2, QuietIf
<1>10. ASSUME NEW w \in Workers, NEW f \in Fibers, InstallRollsBack(w, f)
      PROVE  QuietKept
  <2>1. \A v \in Workers : NoNewWorker(v)
    BY <1>10, InstallRollsBackEffect DEF NoNewWorker, SameWorker
  <2>2. \A g \in Fibers : NoNewFiber(g)
    BY <1>10, InstallRollsBackEffect DEF NoNewFiber, Ended, InstallInv, SameFiber
  <2> QED
    BY <1>0, <2>1, <2>2, QuietIf
<1>11. ASSUME NEW w \in Workers, NEW f \in Fibers, InstallRolledBack(w, f)
      PROVE  QuietKept
  <2>1. \A v \in Workers : NoNewWorker(v)
    BY <1>11, InstallRolledBackEffect DEF NoNewWorker, SameWorker
  <2>2. \A g \in Fibers : NoNewFiber(g)
    BY <1>11, InstallRolledBackEffect DEF NoNewFiber, Ended
  <2> QED
    BY <1>0, <2>1, <2>2, QuietIf
<1>12. ASSUME NEW t \in Tasks, SpawnTask(t)
      PROVE  QuietKept
  <2>1. \A v \in Workers : NoNewWorker(v)
    BY <1>12 DEF SpawnTask, work, NoNewWorker
  <2>2. \A g \in Fibers : NoNewFiber(g)
    BY <1>12, SpawnTaskEffect DEF NoNewFiber, Ended, SameFiber
  <2> QED
    BY <1>0, <2>1, <2>2, QuietIf
<1>13. ASSUME NEW t \in Tasks,
             TaskStart(t) \/ TaskReturns(t) \/ TaskCancelled(t) \/ TaskAborted(t)
      PROVE  QuietKept
  BY <1>13, <1>0, QuietIf DEF TaskStart, TaskReturns, TaskCancelled, TaskAborted, NoNewWorker,
         NoNewFiber, Ended, gate, coord, work
<1>14. ASSUME NEW t \in Tasks, TaskComplete(t)
      PROVE  QuietKept
  <2>1. \A v \in Workers : NoNewWorker(v)
    BY <1>14 DEF TaskComplete, work, NoNewWorker
  <2>2. \A g \in Fibers : NoNewFiber(g)
    <3>1. \A g \in Fibers : fiber'[g].pc = fiber[g].pc
      BY <1>14, TaskCompleteEffect DEF SameFiber
    <3> QED
      BY <3>1 DEF NoNewFiber, Ended
  <2> QED
    BY <1>0, <2>1, <2>2, QuietIf
<1>15. ASSUME NEW f \in Fibers, AcquireHandle(f)
      PROVE  QuietKept
  <2>1. \A v \in Workers : NoNewWorker(v)
    BY <1>15 DEF AcquireHandle, work, NoNewWorker
  <2>2. \A g \in Fibers : NoNewFiber(g)
    BY <1>15, AcquireHandleEffect DEF NoNewFiber, Ended, SameFiber
  <2> QED
    BY <1>0, <2>1, <2>2, QuietIf
<1>16. ASSUME NEW f \in Fibers, ReleaseHandle(f)
      PROVE  QuietKept
  <2>1. \A v \in Workers : NoNewWorker(v)
    BY <1>16 DEF ReleaseHandle, work, NoNewWorker
  <2>2. \A g \in Fibers : NoNewFiber(g)
    BY <1>16, ReleaseHandleEffect DEF NoNewFiber, Ended, SameFiber
  <2> QED
    BY <1>0, <2>1, <2>2, QuietIf
<1>17. ASSUME NEW f \in Fibers, TakeIds(f)
      PROVE  QuietKept
  <2>1. \A v \in Workers : NoNewWorker(v)
    BY <1>17 DEF TakeIds, work, NoNewWorker
  <2>2. \A g \in Fibers : NoNewFiber(g)
    BY <1>17, TakeIdsEffect DEF NoNewFiber, Ended, SameFiber
  <2> QED
    BY <1>0, <2>1, <2>2, QuietIf
<1>18. ASSUME NEW f \in Fibers, TakeArena(f)
      PROVE  QuietKept
  <2>1. \A v \in Workers : NoNewWorker(v)
    BY <1>18 DEF TakeArena, work, NoNewWorker
  <2>2. \A g \in Fibers : NoNewFiber(g)
    BY <1>18, TakeArenaEffect DEF NoNewFiber, Ended, SameFiber
  <2> QED
    BY <1>0, <2>1, <2>2, QuietIf
<1>19. ASSUME NEW f \in Fibers, GraceExpires(f)
      PROVE  QuietKept
  BY <1>19, <1>0, QuietIf DEF GraceExpires, NoNewWorker, NoNewFiber, Ended, gate, coord, work
<1>20. ASSUME NEW f \in Fibers, Drained(f)
      PROVE  QuietKept
  <2>1. \A v \in Workers : NoNewWorker(v)
    BY <1>20 DEF Drained, work, NoNewWorker
  <2>2. \A g \in Fibers : NoNewFiber(g)
    BY <1>20, DrainedEffect DEF NoNewFiber, Ended, SameFiber
  <2> QED
    BY <1>0, <2>1, <2>2, QuietIf
<1>21. ASSUME NEW f \in Fibers, NEW t \in Tasks, JoinTask(f, t)
      PROVE  QuietKept
  <2>1. \A v \in Workers : NoNewWorker(v)
    BY <1>21 DEF JoinTask, work, NoNewWorker
  <2>2. \A g \in Fibers : NoNewFiber(g)
    BY <1>21, JoinTaskEffect DEF NoNewFiber, Ended, SameFiber
  <2> QED
    BY <1>0, <2>1, <2>2, QuietIf
<1>22. ASSUME NEW c \in Callers,
             \/ Observe(c) \/ StartAttempt(c) \/ CallerChecks(c) \/ CallerRechecks(c)
             \/ CallerWakes(c) \/ CallerDrops(c)
      PROVE  QuietKept
  BY <1>22, <1>0, QuietIf DEF Observe, StartAttempt, CallerChecks, CallerRechecks, CallerWakes,
         CallerDrops, NoNewWorker, NoNewFiber, Ended, gate, coord, work
<1>23. ASSUME NEW a \in Attempts, NEW f \in Fibers, ShutdownDisposes(a, f)
      PROVE  QuietKept
  <2>1. \A v \in Workers : NoNewWorker(v)
    BY <1>23 DEF ShutdownDisposes, work, NoNewWorker
  <2>2. \A g \in Fibers : NoNewFiber(g)
    BY <1>23, ShutdownDisposesEffect DEF NoNewFiber, Ended, SameFiber
  <2> QED
    BY <1>0, <2>1, <2>2, QuietIf
<1>24. ASSUME NEW a \in Attempts,
             \/ DeadlinePasses(a) \/ RootDone(a) \/ RootTimedOut(a) \/ WorkersJoined(a)
             \/ ResidueDone(a) \/ AuditFibers(a) \/ AuditWork(a) \/ AttemptPanics(a)
             \/ Finish(a) \/ SealAdmission(a) \/ NotifyCallers(a)
      PROVE  QuietKept
  BY <1>24, <1>0, QuietIf DEF DeadlinePasses, RootDone, RootTimedOut, WorkersJoined, ResidueDone,
         AuditFibers, AuditWork, AttemptPanics, Finish, SealAdmission, NotifyCallers,
         NoNewWorker, NoNewFiber, Ended, gate, coord, work
<1>25. ASSUME NEW a \in Attempts, DrainWorkers(a)
      PROVE  QuietKept
  <2>1. \A v \in Workers : NoNewWorker(v)
    BY <1>25, DrainWorkersEffect DEF NoNewWorker, SameWorker
  <2>2. \A g \in Fibers : NoNewFiber(g)
    BY <1>25, DrainWorkersEffect DEF NoNewFiber, Ended
  <2> QED
    BY <1>0, <2>1, <2>2, QuietIf
<1>26. ASSUME NEW a \in Attempts, AbortWorkers(a)
      PROVE  QuietKept
  <2>1. \A v \in Workers : NoNewWorker(v)
    BY <1>26, AbortedWorkers DEF AbortWorkers, NoNewWorker
  <2>2. \A g \in Fibers : NoNewFiber(g)
    BY <1>26 DEF AbortWorkers, NoNewFiber, Ended
  <2> QED
    BY <1>0, <2>1, <2>2, QuietIf
<1>27. ASSUME NEW a \in Attempts, NEW w \in Workers, JoinWorker(a, w)
      PROVE  QuietKept
  <2>1. \A v \in Workers : NoNewWorker(v)
    BY <1>27, RecordedWorker DEF JoinWorker, NoNewWorker, SameWorker
  <2>2. \A g \in Fibers : NoNewFiber(g)
    BY <1>27 DEF JoinWorker, NoNewFiber, Ended
  <2> QED
    BY <1>0, <2>1, <2>2, QuietIf
<1>28. ASSUME NEW f \in Fibers, DisposeFiber(f)
      PROVE  QuietKept
  <2>1. \A v \in Workers : NoNewWorker(v)
    BY <1>28 DEF DisposeFiber, work, NoNewWorker
  <2>2. \A g \in Fibers : NoNewFiber(g)
    BY <1>28, DisposeFiberEffect DEF NoNewFiber, Ended, SameFiber
  <2> QED
    BY <1>0, <2>1, <2>2, QuietIf
<1>29. ASSUME NEW f \in Fibers, DrainTimesOut(f)
      PROVE  QuietKept
  <2>1. \A v \in Workers : NoNewWorker(v)
    BY <1>29 DEF DrainTimesOut, work, NoNewWorker
  <2>2. \A g \in Fibers : NoNewFiber(g)
    BY <1>29, DrainTimesOutEffect DEF NoNewFiber, Ended, SameFiber
  <2> QED
    BY <1>0, <2>1, <2>2, QuietIf
<1>30. ASSUME NEW a \in Attempts, NEW f \in Fibers, ShutdownJoins(a, f)
      PROVE  QuietKept
  <2>1. \A v \in Workers : NoNewWorker(v)
    BY <1>30 DEF ShutdownJoins, work, NoNewWorker
  <2>2. \A g \in Fibers : NoNewFiber(g)
    BY <1>30, ShutdownJoinsEffect DEF NoNewFiber, Ended, SameFiber
  <2> QED
    BY <1>0, <2>1, <2>2, QuietIf
<1>31. ASSUME NEW f \in Fibers, DisposalPanics(f)
      PROVE  QuietKept
  <2>1. \A v \in Workers : NoNewWorker(v)
    BY <1>31 DEF DisposalPanics, work, NoNewWorker
  <2>2. \A g \in Fibers : NoNewFiber(g)
    BY <1>31, DisposalPanicsEffect DEF NoNewFiber, Ended, SameFiber
  <2> QED
    BY <1>0, <2>1, <2>2, QuietIf
<1> QED
  BY <1>1, <1>2, <1>3, <1>4, <1>5, <1>6, <1>7, <1>8, <1>9, <1>10, <1>11, <1>12, <1>13,
         <1>14, <1>15, <1>16, <1>17, <1>18, <1>19, <1>20, <1>21, <1>22, <1>23, <1>24, <1>25,
         <1>26, <1>27, <1>28, <1>29, <1>30, <1>31
     DEF Next, WorkerStep, TaskStep, DisposalStep, CallerStep, SupervisorStep

\* A step that leaves an attempt's own state alone keeps what it has established.
LEMMA AttemptKept ==
  ASSUME Typed, CoordinatorInv, AttemptInv, QuietKept, NEW a \in Attempts,
         sup'[a] = sup[a], expired'[a] = expired[a], blockers'[a] = blockers[a],
         outcome'[a] = outcome[a]
  PROVE  AttemptAt(a)'
<1>1. AttemptAt(a)
  BY DEF AttemptInv
<1>2. CASE sup[a] = "none"
  <2>1. outcome[a] = NONE
    BY <1>2 DEF CoordinatorInv
  <2> QED
    BY <1>2, <2>1, ShutdownAssumption DEF AttemptAt
<1>3. CASE sup[a] # "none"
  <2>1. attempt # 0
    BY <1>3, ShutdownAssumption DEF CoordinatorInv, Attempts
  <2>2. /\ AllEnded => AllEnded'
        /\ AllSettled => AllSettled'
        /\ Abandonment => Abandonment'
        /\ FencedLeft => FencedLeft'
        /\ NoFenced => NoFenced'
        /\ OutsideFence => OutsideFence'
    BY <2>1 DEF QuietKept
  <2> QED
    BY <1>1, <2>2 DEF AttemptAt, Clean, Caused
<1> QED
  BY <1>2, <1>3

\* The same for the attempts whose supervisor does not take the step.
LEMMA OthersKept ==
  ASSUME Typed, CoordinatorInv, AttemptInv, QuietKept, NEW a \in Attempts,
         \A b \in Attempts : b # a => /\ sup'[b] = sup[b] /\ expired'[b] = expired[b]
                                      /\ blockers'[b] = blockers[b] /\ outcome'[b] = outcome[b],
         AttemptAt(a)'
  PROVE  AttemptInv'
BY AttemptKept DEF AttemptInv

\* What one step of an attempt's supervisor does to the attempt itself.
MovesTo(a, p) ==
  /\ sup'[a] = p
  /\ \A b \in Attempts : b # a => sup'[b] = sup[b]

\* An attempt that has started is not the zeroth.
LEMMA SomeAttempt ==
  ASSUME Typed, CoordinatorInv, NEW a \in Attempts, sup[a] # "none"
  PROVE  attempt # 0
BY ShutdownAssumption DEF Typed, CoordinatorInv, Attempts

\* Every step keeps what the attempts have established.
LEMMA AttemptInvStep ==
  ASSUME Typed, CoordinatorInv, WorkerInv, InstallInv, FiberInv, TaskInv, AttemptInv, [Next]_vars
  PROVE  AttemptInv'
<1> USE ShutdownAssumption
<1>0. QuietKept
  BY QuietStable
<1>1. CASE UNCHANGED vars
  BY <1>1, <1>0, AttemptKept DEF vars, gate, coord, work, AttemptInv
<1>2. ASSUME NEW w \in Workers,
             \/ WorkerEnter(w) \/ WorkerSpawn(w) \/ WorkerReturns(w) \/ WorkerCancelled(w)
             \/ WorkerComplete(w) \/ WorkerAborted(w)
      PROVE  AttemptInv'
  BY <1>2, <1>0, AttemptKept DEF WorkerEnter, WorkerSpawn, WorkerReturns, WorkerCancelled,
         WorkerComplete, WorkerAborted, AttemptInv, gate, coord
<1>3. ASSUME NEW w \in Workers, NEW f \in Fibers,
             \/ InstallCreates(w, f) \/ InstallCommits(w, f) \/ InstallRollsBack(w, f)
             \/ InstallRolledBack(w, f)
      PROVE  AttemptInv'
  BY <1>3, <1>0, AttemptKept DEF InstallCreates, InstallCommits, InstallRollsBack,
         InstallRolledBack, AttemptInv, gate, coord
<1>4. ASSUME NEW t \in Tasks,
             \/ SpawnTask(t) \/ TaskStart(t) \/ TaskReturns(t) \/ TaskCancelled(t)
             \/ TaskComplete(t) \/ TaskAborted(t)
      PROVE  AttemptInv'
  BY <1>4, <1>0, AttemptKept DEF SpawnTask, TaskStart, TaskReturns, TaskCancelled,
         TaskComplete, TaskAborted, AttemptInv, gate, coord
<1>5. ASSUME NEW f \in Fibers,
             \/ AcquireHandle(f) \/ ReleaseHandle(f) \/ TakeIds(f) \/ TakeArena(f)
             \/ GraceExpires(f) \/ Drained(f) \/ DisposeFiber(f) \/ DrainTimesOut(f)
             \/ DisposalPanics(f)
      PROVE  AttemptInv'
  BY <1>5, <1>0, AttemptKept DEF AcquireHandle, ReleaseHandle, TakeIds, TakeArena,
         GraceExpires, Drained, DisposeFiber, DrainTimesOut, DisposalPanics, AttemptInv, gate, coord
<1>6. ASSUME NEW f \in Fibers, NEW t \in Tasks, JoinTask(f, t)
      PROVE  AttemptInv'
  BY <1>6, <1>0, AttemptKept DEF JoinTask, AttemptInv, gate, coord
<1>7. ASSUME NEW c \in Callers,
             \/ Observe(c) \/ CallerChecks(c) \/ CallerRechecks(c) \/ CallerWakes(c)
             \/ CallerDrops(c)
      PROVE  AttemptInv'
  BY <1>7, <1>0, AttemptKept DEF Observe, CallerChecks, CallerRechecks, CallerWakes,
         CallerDrops, AttemptInv, gate, coord
<1>8. ASSUME NEW c \in Callers, StartAttempt(c)
      PROVE  AttemptInv'
  <2>0. attempt + 1 \in Attempts /\ sup' = [sup EXCEPT ![attempt + 1] = "root"]
    BY <1>8 DEF StartAttempt, Typed, Attempts
  <2>1. PICK n \in Attempts : n = attempt + 1 /\ sup' = [sup EXCEPT ![n] = "root"]
    BY <2>0
  <2>2. outcome[n] = NONE
    BY <2>1 DEF CoordinatorInv, Typed, Attempts
  <2>3. /\ sup'[n] = "root"
        /\ \A b \in Attempts : b # n => sup'[b] = sup[b]
    BY <2>1 DEF Typed
  <2>4. UNCHANGED <<expired, blockers, outcome>>
    BY <1>8 DEF StartAttempt
  <2>5. AttemptAt(n)'
    BY <2>2, <2>3, <2>4 DEF AttemptAt
  <2> QED
    BY <2>3, <2>4, <2>5, <1>0, OthersKept
<1>9. ASSUME NEW a \in Attempts, NEW f \in Fibers,
             ShutdownDisposes(a, f) \/ ShutdownJoins(a, f)
      PROVE  AttemptInv'
  BY <1>9, <1>0, AttemptKept DEF ShutdownDisposes, ShutdownJoins, AttemptInv, gate, coord
<1>10. ASSUME NEW a \in Attempts, DeadlinePasses(a)
      PROVE  AttemptInv'
  <2>1. /\ sup[a] \in {"root", "drain", "joining", "residue"} /\ UNCHANGED <<sup, blockers, outcome>>
        /\ expired'[a] /\ \A b \in Attempts : b # a => expired'[b] = expired[b]
    BY <1>10 DEF DeadlinePasses, Typed
  <2>2. AttemptAt(a)
    BY DEF AttemptInv
  <2>3. /\ (AllEnded => AllEnded') /\ (FencedLeft => FencedLeft') /\ (NoFenced => NoFenced')
        /\ (OutsideFence => OutsideFence') /\ (AllSettled => AllSettled')
        /\ (Abandonment => Abandonment')
    BY <1>0, <2>1, LastAttempt DEF QuietKept
  <2>9. AttemptAt(a)'
    BY <2>1, <2>2, <2>3 DEF AttemptAt
  <2> QED
    BY <2>1, <2>9, <1>0, OthersKept
<1>11. ASSUME NEW a \in Attempts, RootDone(a)
      PROVE  AttemptInv'
  <2>1. /\ MovesTo(a, "drain")
        /\ sup[a] = "root"
        /\ UNCHANGED <<expired, blockers, outcome>>
    BY <1>11 DEF RootDone, SupAt, MoveSup, MovesTo, Typed
  <2>2. AttemptAt(a)
    BY DEF AttemptInv
  <2>3. /\ (AllEnded => AllEnded') /\ (FencedLeft => FencedLeft') /\ (NoFenced => NoFenced')
        /\ (OutsideFence => OutsideFence') /\ (AllSettled => AllSettled')
        /\ (Abandonment => Abandonment')
    BY <1>0, <2>1, LastAttempt DEF QuietKept
  <2>4. outcome[a] = NONE
    BY <2>1 DEF CoordinatorInv
  <2>5. AllSettled
    BY <1>11 DEF RootDone, AllSettled
  <2>9. AttemptAt(a)'
    BY <2>1, <2>2, <2>3, <2>4, <2>5, ShutdownAssumption DEF MovesTo, AttemptAt, Clean, Caused
  <2> QED
    BY <1>11, <2>1, <2>9, <1>0, OthersKept DEF MovesTo
<1>12. ASSUME NEW a \in Attempts, RootTimedOut(a)
      PROVE  AttemptInv'
  <2>1. /\ MovesTo(a, "audit_fibers")
        /\ sup[a] = "root"
        /\ UNCHANGED <<expired, blockers, outcome>>
    BY <1>12 DEF RootTimedOut, SupAt, MoveSup, MovesTo, Typed
  <2>2. AttemptAt(a)
    BY DEF AttemptInv
  <2>4. outcome[a] = NONE
    BY <2>1 DEF CoordinatorInv
  <2>5. expired[a]
    BY <1>12 DEF RootTimedOut
  <2>9. AttemptAt(a)'
    BY <2>1, <2>2, <2>4, <2>5, ShutdownAssumption DEF MovesTo, AttemptAt, Clean, Caused
  <2> QED
    BY <1>12, <2>1, <2>9, <1>0, OthersKept DEF MovesTo
<1>13. ASSUME NEW a \in Attempts, DrainWorkers(a)
      PROVE  AttemptInv'
  <2>1. /\ MovesTo(a, "joining")
        /\ sup[a] = "drain"
        /\ UNCHANGED <<expired, blockers, outcome>>
    BY <1>13 DEF DrainWorkers, SupAt, MoveSup, MovesTo, Typed
  <2>2. AttemptAt(a)
    BY DEF AttemptInv
  <2>3. /\ (AllEnded => AllEnded') /\ (FencedLeft => FencedLeft') /\ (NoFenced => NoFenced')
        /\ (OutsideFence => OutsideFence') /\ (AllSettled => AllSettled')
        /\ (Abandonment => Abandonment')
    BY <1>0, <2>1, LastAttempt DEF QuietKept
  <2>4. outcome[a] = NONE
    BY <2>1 DEF CoordinatorInv
  <2>5. FencedLeft'
    BY <1>13, DrainWorkersEffect DEF FencedLeft
  <2>9. AttemptAt(a)'
    BY <2>1, <2>2, <2>3, <2>4, <2>5, ShutdownAssumption DEF MovesTo, AttemptAt, Clean, Caused
  <2> QED
    BY <1>13, <2>1, <2>9, <1>0, OthersKept DEF MovesTo
<1>14. ASSUME NEW a \in Attempts, AbortWorkers(a)
      PROVE  AttemptInv'
  BY <1>14, <1>0, AttemptKept DEF AbortWorkers, AttemptInv, gate, coord
<1>15. ASSUME NEW a \in Attempts, WorkersJoined(a)
      PROVE  AttemptInv'
  <2>1. /\ MovesTo(a, "residue")
        /\ sup[a] = "joining"
        /\ UNCHANGED <<expired, blockers, outcome>>
    BY <1>15 DEF WorkersJoined, SupAt, MoveSup, MovesTo, Typed
  <2>2. AttemptAt(a)
    BY DEF AttemptInv
  <2>3. /\ (AllEnded => AllEnded') /\ (FencedLeft => FencedLeft') /\ (NoFenced => NoFenced')
        /\ (OutsideFence => OutsideFence') /\ (AllSettled => AllSettled')
        /\ (Abandonment => Abandonment')
    BY <1>0, <2>1, LastAttempt DEF QuietKept
  <2>4. outcome[a] = NONE
    BY <2>1 DEF CoordinatorInv
  <2>9. AttemptAt(a)'
    BY <2>1, <2>2, <2>3, <2>4, ShutdownAssumption DEF MovesTo, AttemptAt, Clean, Caused
  <2> QED
    BY <1>15, <2>1, <2>9, <1>0, OthersKept DEF MovesTo
<1>16. ASSUME NEW a \in Attempts, ResidueDone(a)
      PROVE  AttemptInv'
  <2>1. /\ MovesTo(a, "audit_fibers")
        /\ sup[a] = "residue"
        /\ UNCHANGED <<expired, blockers, outcome>>
    BY <1>16 DEF ResidueDone, SupAt, MoveSup, MovesTo, Typed
  <2>2. AttemptAt(a)
    BY DEF AttemptInv
  <2>3. /\ (AllEnded => AllEnded') /\ (FencedLeft => FencedLeft') /\ (NoFenced => NoFenced')
        /\ (OutsideFence => OutsideFence') /\ (AllSettled => AllSettled')
        /\ (Abandonment => Abandonment')
    BY <1>0, <2>1, LastAttempt DEF QuietKept
  <2>4. outcome[a] = NONE
    BY <2>1 DEF CoordinatorInv
  <2>9. AttemptAt(a)'
    BY <2>1, <2>2, <2>3, <2>4, ShutdownAssumption DEF MovesTo, AttemptAt, Clean, Caused
  <2> QED
    BY <1>16, <2>1, <2>9, <1>0, OthersKept DEF MovesTo
<1>17. ASSUME NEW a \in Attempts, AuditFibers(a)
      PROVE  AttemptInv'
  <2>1. /\ MovesTo(a, "audit_work")
        /\ sup[a] = "audit_fibers"
        /\ UNCHANGED <<expired, outcome>>
    BY <1>17 DEF AuditFibers, SupAt, MoveSup, MovesTo, Typed
  <2>2. AttemptAt(a)
    BY DEF AttemptInv
  <2>3. /\ (AllEnded => AllEnded') /\ (FencedLeft => FencedLeft') /\ (NoFenced => NoFenced')
        /\ (OutsideFence => OutsideFence') /\ (AllSettled => AllSettled')
        /\ (Abandonment => Abandonment')
    BY <1>0, <2>1, LastAttempt DEF QuietKept
  <2>4. outcome[a] = NONE
    BY <2>1 DEF CoordinatorInv
  <2>5. /\ \A b \in Attempts : b # a => blockers'[b] = blockers[b]
        /\ blockers'[a] = {k \in {"fiber", "generation"} :
                             \E f \in Fibers : \/ k = "fiber" /\ ~Ended(f)
                                               \/ k = "generation" /\ fiber[f].lease}
    BY <1>17 DEF AuditFibers, Typed
  <2>6. blockers'[a] = {} <=> AllEnded
    BY <2>5 DEF AllEnded, FiberInv
  <2>7. blockers'[a] # {} /\ AllSettled => Abandonment
    BY <2>6 DEF AllEnded, AllSettled, Settled, Abandonment, Abandoned, FiberAt, FiberInv
  <2>8. blockers'[a] \subseteq {"fiber", "generation"}
    BY <2>5
  <2>9. AttemptAt(a)'
    BY <2>1, <2>2, <2>3, <2>4, <2>6, <2>7, <2>8, ShutdownAssumption DEF MovesTo, AttemptAt, Clean, Caused
  <2> QED
    BY <1>17, <2>1, <2>9, <2>5, <1>0, OthersKept DEF MovesTo
<1>18. ASSUME NEW a \in Attempts, AuditWork(a)
      PROVE  AttemptInv'
  <2>1. /\ MovesTo(a, "finish")
        /\ sup[a] = "audit_work"
        /\ UNCHANGED <<expired, outcome>>
    BY <1>18 DEF AuditWork, SupAt, MoveSup, MovesTo, Typed
  <2>2. AttemptAt(a)
    BY DEF AttemptInv
  <2>3. /\ (AllEnded => AllEnded') /\ (FencedLeft => FencedLeft') /\ (NoFenced => NoFenced')
        /\ (OutsideFence => OutsideFence') /\ (AllSettled => AllSettled')
        /\ (Abandonment => Abandonment')
    BY <1>0, <2>1, LastAttempt DEF QuietKept
  <2>4. outcome[a] = NONE
    BY <2>1 DEF CoordinatorInv
  <2>5. /\ \A b \in Attempts : b # a => blockers'[b] = blockers[b]
        /\ blockers'[a] = blockers[a] \cup (IF map # {} THEN {"workers"} ELSE {})
                                      \cup (IF arena # {} THEN {"tasks"} ELSE {})
    BY <1>18 DEF AuditWork, Typed
  <2>6. AllSettled \/ AllEnded => arena = {}
    BY ShutdownAssumption DEF Typed, AllSettled, AllEnded, Settled, Ended, FiberAt, TaskInv, FiberInv
  <2>7. map # {} /\ FencedLeft => OutsideFence
    BY DEF Typed, FencedLeft, OutsideFence, WorkerInv, LivePCs
  <2>8. map = {} => NoFenced
    <3>1. a = attempt /\ joins = {} /\ readers = {}
      BY <2>1, LastAttempt DEF CoordinatorInv
    <3> QED
      BY <3>1 DEF NoFenced, WorkerInv, Typed, WorkerRec, WorkerPCs
  <2>9. AttemptAt(a)'
    BY <2>1, <2>2, <2>3, <2>4, <2>5, <2>6, <2>7, <2>8, ShutdownAssumption DEF MovesTo, AttemptAt, Clean, Caused
  <2> QED
    BY <1>18, <2>1, <2>9, <2>5, <1>0, OthersKept DEF MovesTo
<1>19. ASSUME NEW a \in Attempts, AttemptPanics(a)
      PROVE  AttemptInv'
  <2>1. /\ MovesTo(a, "finish")
        /\ UNCHANGED <<expired, outcome>>
    BY <1>19 DEF AttemptPanics, SupAt, MoveSup, MovesTo, Typed
  <2>2. AttemptAt(a)
    BY DEF AttemptInv
  <2>3. /\ \A b \in Attempts : b # a => blockers'[b] = blockers[b]
        /\ blockers'[a] = {"panic"} /\ outcome[a] = NONE
    BY <1>19 DEF AttemptPanics, Typed, CoordinatorInv
  <2>9. AttemptAt(a)'
    BY <2>1, <2>2, <2>3, ShutdownAssumption DEF MovesTo, AttemptAt, Clean, Caused
  <2> QED
    BY <1>19, <2>1, <2>9, <2>3, <1>0, OthersKept DEF MovesTo
<1>20. ASSUME NEW a \in Attempts, Finish(a)
      PROVE  AttemptInv'
  <2>1. /\ MovesTo(a, "seal")
        /\ sup[a] = "finish"
        /\ UNCHANGED <<expired, blockers>>
    BY <1>20 DEF Finish, SupAt, MoveSup, MovesTo, Typed
  <2>2. AttemptAt(a)
    BY DEF AttemptInv
  <2>3. /\ (AllEnded => AllEnded') /\ (FencedLeft => FencedLeft') /\ (NoFenced => NoFenced')
        /\ (OutsideFence => OutsideFence') /\ (AllSettled => AllSettled')
        /\ (Abandonment => Abandonment')
    BY <1>0, <2>1, LastAttempt DEF QuietKept
  <2>4. /\ \A b \in Attempts : b # a => outcome'[b] = outcome[b]
        /\ outcome'[a] = IF blockers[a] = {} THEN "Complete" ELSE "Incomplete"
    BY <1>20 DEF Finish, SupAt, Typed, CoordinatorInv
  <2>9. AttemptAt(a)'
    BY <2>1, <2>2, <2>3, <2>4, ShutdownAssumption DEF MovesTo, AttemptAt, Clean, Caused
  <2> QED
    BY <1>20, <2>1, <2>9, <2>4, <1>0, OthersKept DEF MovesTo
<1>21. ASSUME NEW a \in Attempts, SealAdmission(a)
      PROVE  AttemptInv'
  <2>1. /\ MovesTo(a, "notify")
        /\ sup[a] = "seal"
        /\ UNCHANGED <<expired, blockers, outcome>>
    BY <1>21 DEF SealAdmission, SupAt, MoveSup, MovesTo, Typed
  <2>2. AttemptAt(a)
    BY DEF AttemptInv
  <2>3. /\ (AllEnded => AllEnded') /\ (FencedLeft => FencedLeft') /\ (NoFenced => NoFenced')
        /\ (OutsideFence => OutsideFence') /\ (AllSettled => AllSettled')
        /\ (Abandonment => Abandonment')
    BY <1>0, <2>1, SomeAttempt DEF QuietKept
  <2>9. AttemptAt(a)'
    BY <2>1, <2>2, <2>3 DEF MovesTo, AttemptAt, Clean, Caused
  <2> QED
    BY <1>21, <2>1, <2>9, <1>0, OthersKept DEF MovesTo
<1>22. ASSUME NEW a \in Attempts, NotifyCallers(a)
      PROVE  AttemptInv'
  <2>1. /\ MovesTo(a, "ended")
        /\ sup[a] = "notify"
        /\ UNCHANGED <<outcome>>
    BY <1>22 DEF NotifyCallers, SupAt, MoveSup, MovesTo, Typed
  <2>2. AttemptAt(a)
    BY DEF AttemptInv
  <2>3. /\ (AllEnded => AllEnded') /\ (FencedLeft => FencedLeft') /\ (NoFenced => NoFenced')
        /\ (OutsideFence => OutsideFence') /\ (AllSettled => AllSettled')
        /\ (Abandonment => Abandonment')
    BY <1>0, <2>1, SomeAttempt DEF QuietKept
  <2>9. AttemptAt(a)'
    BY <2>1, <2>2, <2>3 DEF MovesTo, AttemptAt, Clean, Caused
  <2>10. \A b \in Attempts : b # a => expired'[b] = expired[b] /\ blockers'[b] = blockers[b]
    BY <1>22 DEF NotifyCallers, Typed
  <2> QED
    BY <2>1, <2>9, <2>10, <1>0, OthersKept DEF MovesTo
<1>23. ASSUME NEW a \in Attempts, NEW w \in Workers, JoinWorker(a, w)
      PROVE  AttemptInv'
  BY <1>23, <1>0, AttemptKept DEF JoinWorker, AttemptInv, gate, coord
<1> QED
  BY <1>1, <1>2, <1>3, <1>4, <1>5, <1>6, <1>7, <1>8, <1>9, <1>10, <1>11, <1>12, <1>13,
         <1>14, <1>15, <1>16, <1>17, <1>18, <1>19, <1>20, <1>21, <1>22, <1>23
     DEF Next, WorkerStep, TaskStep, DisposalStep, CallerStep, SupervisorStep

-----------------------------------------------------------------------------
\* The initial states satisfy the invariant.
LEMMA InitShutdownInv ==
  ASSUME Init
  PROVE  ShutdownInv
<1> USE ShutdownAssumption
<1>1. PICK kinds \in [Workers -> UNION {KindsOf[w] : w \in Workers}] :
        /\ \A w \in Workers : kinds[w] \in KindsOf[w]
        /\ worker = [w \in Workers |-> [pc |-> "unborn", kind |-> kinds[w], cancel |-> FALSE,
                                        abort |-> FALSE, recorded |-> 0]]
  BY DEF Init
<1>2. /\ worker \in [Workers -> WorkerRec]
      /\ \A w \in Workers : worker[w].pc = "unborn" /\ ~worker[w].abort /\ worker[w].recorded = 0
  BY <1>1 DEF WorkerRec, WorkerKinds, WorkerPCs
<1>3. /\ task \in [Tasks -> TaskRec]
      /\ \A t \in Tasks : task[t].pc = "unborn" /\ ~task[t].abort /\ task[t].recorded = 0
  BY DEF Init, TaskRec, TaskPCs
<1>4. /\ fiber \in [Fibers -> FiberRec]
      /\ \A f \in Fibers : /\ fiber[f].tasks = {} /\ fiber[f].ids = {} /\ fiber[f].joined = {}
                           /\ ~fiber[f].lease /\ ~fiber[f].persist
  BY DEF Init, FiberRec, FiberPCs
<1>5. Typed
  <2>1. /\ sup \in [Attempts -> SupPCs] /\ expired \in [Attempts -> BOOLEAN]
        /\ outcome \in [Attempts -> {NONE, "Incomplete", "Complete"}]
        /\ blockers \in [Attempts -> SUBSET {"fiber", "generation", "workers", "tasks", "panic"}]
    BY DEF Init, SupPCs
  <2>2. /\ admission = "running" /\ readers = {} /\ lifecycle = "Running" /\ attempt = 0
        /\ map = {} /\ joins = {} /\ arena = {}
    BY DEF Init
  <2> QED
    BY <1>2, <1>3, <1>4, <2>1, <2>2 DEF Typed
<1>6. CoordinatorInv
  BY DEF Init, CoordinatorInv, Attempts
<1>7. WorkerInv
  BY <1>2 DEF Init, WorkerInv, LivePCs
<1>8. InstallInv
  BY <1>2 DEF InstallInv
<1>9. FiberInv
  BY <1>4 DEF FiberInv
<1>10. TaskInv
  BY <1>3, <1>4 DEF Init, TaskInv, TaskAt, TaskLive
<1>11. AttemptInv
  BY DEF Init, AttemptInv, AttemptAt
<1> QED
  BY <1>5, <1>6, <1>7, <1>8, <1>9, <1>10, <1>11 DEF ShutdownInv

\* The invariant is inductive: every reachable state satisfies it.
THEOREM ShutdownInvariant == Spec => []ShutdownInv
<1>1. Init => ShutdownInv
  BY InitShutdownInv
<1>2. ShutdownInv /\ [Next]_vars => ShutdownInv'
  <2> SUFFICES ASSUME ShutdownInv, [Next]_vars
               PROVE  ShutdownInv'
    OBVIOUS
  <2>1. Typed /\ CoordinatorInv /\ WorkerInv /\ InstallInv /\ FiberInv /\ TaskInv /\ AttemptInv
    BY DEF ShutdownInv
  <2>2. Typed' /\ CoordinatorInv' /\ WorkerInv'
    BY <2>1, TypedStep, CoordinatorStep, WorkerInvStep
  <2>3. InstallInv' /\ FiberInv' /\ TaskInv'
    BY <2>1, InstallInvStep, FiberInvStep, TaskInvStep
  <2>4. AttemptInv'
    BY <2>1, AttemptInvStep
  <2> QED
    BY <2>2, <2>3, <2>4 DEF ShutdownInv
<1> QED
  BY <1>1, <1>2, PTL DEF Spec

-----------------------------------------------------------------------------
\* The types that Shutdown states: in particular no worker is both in the map
\* and taken by shutdown_until.
THEOREM ShutdownTypes == Spec => []TypeOK
<1>1. ShutdownInv => TypeOK
  BY DEF ShutdownInv, Typed, WorkerInv, FiberInv, TypeOK
<1> QED
  BY <1>1, ShutdownInvariant, PTL

\* Every worker and task is classified exactly once, whoever takes it out of
\* its table: its own completion, shutdown_until or cancel_all.
THEOREM ClassificationIsExact == Spec => []ClassifiedOnce
<1>1. ShutdownInv => ClassifiedOnce
  BY DEF ShutdownInv, WorkerInv, TaskInv, ClassifiedOnce
<1> QED
  BY <1>1, ShutdownInvariant, PTL

\* A published Complete is true and stays true: nothing that the fence covers
\* is alive, and nothing can be admitted.
THEOREM CompleteStaysQuiet == Spec => []CompleteIsQuiet
<1>1. ShutdownInv => CompleteIsQuiet
  <2> SUFFICES ASSUME ShutdownInv, lifecycle = "Complete"
               PROVE  /\ admission # "running" /\ readers = {}
                      /\ \A f \in Fibers : Ended(f) /\ ~fiber[f].lease
                      /\ \A t \in Tasks : task[t].pc \in {"unborn", "exited"}
                      /\ \A w \in Workers :
                           worker[w].kind # "ReloadTransaction" => worker[w].pc \in {"unborn", "exited"}
    BY DEF CompleteIsQuiet
  <2>1. Typed /\ CoordinatorInv /\ FiberInv /\ TaskInv /\ AttemptInv
    BY DEF ShutdownInv
  <2>2. attempt # 0 /\ attempt \in Attempts
    BY <2>1, ShutdownAssumption DEF CoordinatorInv, Typed, Attempts
  <2>3. outcome[attempt] = "Complete"
    BY <2>1, <2>2 DEF CoordinatorInv
  <2>4. AllEnded /\ NoFenced
    BY <2>1, <2>2, <2>3 DEF AttemptInv, AttemptAt
  <2>5. admission # "running" /\ readers = {}
    BY <2>1, <2>2 DEF CoordinatorInv
  <2>6. \A f \in Fibers : Ended(f) /\ ~fiber[f].lease
    BY <2>1, <2>4 DEF AllEnded, FiberInv
  <2>7. \A t \in Tasks : task[t].pc \in {"unborn", "exited"}
    <3> SUFFICES ASSUME NEW t \in Tasks
                 PROVE  task[t].pc \in {"unborn", "exited"}
      OBVIOUS
    <3>1. OwnerOf[t] \in Fibers
      BY ShutdownAssumption
    <3>2. /\ fiber[OwnerOf[t]].tasks = {} /\ fiber[OwnerOf[t]].ids = {}
          /\ fiber[OwnerOf[t]].joined = {}
      BY <2>1, <2>6, <3>1 DEF FiberInv, Ended
    <3>3. task[t].pc \notin TaskLive
      BY <2>1, <3>2 DEF TaskInv
    <3> QED
      BY <2>1, <3>3 DEF Typed, TaskRec, TaskPCs
  <2>8. \A w \in Workers :
          worker[w].kind # "ReloadTransaction" => worker[w].pc \in {"unborn", "exited"}
    BY <2>4 DEF NoFenced, HoldsGuard
  <2> QED
    BY <2>5, <2>6, <2>7, <2>8
<1> QED
  BY <1>1, ShutdownInvariant, PTL

\* An attempt that neither ran into its deadline nor panicked is Incomplete for
\* two causes only: a worker that registered outside the admission fence, and a
\* Fiber whose disposal panicked, or whose drain timed out before any attempt had
\* asked it to persist.
THEOREM IncompleteIsExplained == Spec => []IncompleteHasCause
<1>1. ShutdownInv => IncompleteHasCause
  <2> SUFFICES ASSUME ShutdownInv, NEW a \in Attempts,
                      sup[a] \in {"seal", "notify"}, outcome[a] = "Incomplete",
                      ~expired[a], blockers[a] # {"panic"}
               PROVE  /\ blockers[a] # {} /\ blockers[a] \subseteq {"fiber", "generation", "workers"}
                      /\ "workers" \in blockers[a] => OutsideFence
                      /\ blockers[a] # {"workers"} => Abandonment
    BY DEF IncompleteHasCause, OutsideFence, Abandonment
  <2>1. AttemptAt(a)
    BY DEF ShutdownInv, AttemptInv
  <2>2. blockers[a] # {} /\ Caused(blockers[a])
    BY <2>1 DEF AttemptAt, Clean
  <2>3. blockers[a] # {"workers"} => blockers[a] \cap {"fiber", "generation"} # {}
    BY <2>2 DEF Caused
  <2> QED
    BY <2>2, <2>3 DEF Caused
<1> QED
  BY <1>1, ShutdownInvariant, PTL
=============================================================================
