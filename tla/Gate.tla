-------------------------------- MODULE Gate --------------------------------
(***************************************************************************)
(* The generation gate of a logical plugin (cordis-runtime/src/gate.rs):   *)
(* one GenerationSelector shared by every generation of the plugin, and    *)
(* per generation a CapabilityGate (retired flag) with its                 *)
(* GenerationExecution (a packed word of admission state and in-flight     *)
(* leases, a separate count of service handles and a Notify).              *)
(*                                                                         *)
(* Every atomic load, store and compare-exchange is one step.  A weak      *)
(* compare-exchange that fails spuriously reloads the value it already     *)
(* had, which is a stuttering step.  A thread is a worker that acquires,   *)
(* holds and drops one lease at a time, or a lifecycle operation:          *)
(* commit_activation (publish), dispose_fiber_observation (close),         *)
(* commit_staged_revision (cutover) or the disposal body (drain_until).    *)
(***************************************************************************)
EXTENDS Integers, FiniteSets

CONSTANTS
  Threads,       \* concurrent tasks
  Gens,          \* generations of one logical plugin
  NONE,          \* GenerationId::NONE, and "no owner" of a record lock
  MaxInflight    \* EXECUTION_MAX_INFLIGHT

ASSUME GateAssumption ==
  /\ IsFiniteSet(Threads)
  /\ NONE \notin Gens
  /\ NONE \notin Threads
  /\ MaxInflight \in Nat \ {0}

VARIABLES
  active,           \* GenerationSelector: the visible generation
  retired,          \* CapabilityGate.retired
  word,             \* GenerationExecution.word
  service_handles,  \* GenerationExecution.service_handles
  lock,             \* owner of the write lock of the generation's FiberMutable
  fiber,            \* lifecycle of the Fiber record that owns the gate
  drained,          \* generations for which drain_until returned Drained
  th                \* program point and locals of each thread

vars == <<active, retired, word, service_handles, lock, fiber, drained, th>>

(***************************************************************************)
(* The packed word: two state bits below the in-flight count.              *)
(***************************************************************************)
Accepting == 0
Draining  == 1
Drained   == 2

InflightOne == 4
State(w) == w % 4
Inflight(w) == w \div 4
ExecutionWord(state, inflight) == 4 * inflight + state

(***************************************************************************)
(* What the gate's callers know of the owning Fiber: an ordinary           *)
(* activation about to commit, a staged reload revision, a committed       *)
(* generation, a Fiber whose disposal has left phase Idle.                 *)
(***************************************************************************)
FiberStates == {"Starting", "Staged", "Active", "Disposing"}

(***************************************************************************)
(* Program points.  A thread counts in the in-flight half of the word from *)
(* its successful acquire to its successful release.                       *)
(***************************************************************************)
HoldingPCs == {"count", "holding", "release_load", "release"}
PCs == HoldingPCs \cup
  {"idle", "acquire", "release_notify",
   "drain_load", "drain", "drain_notify", "register", "check", "armed", "wait",
   "publish", "publish_switch", "close", "close_switch",
   "cutover", "cutover_switch", "cutover_retire"}

Kinds == {"lease", "service"}       \* try_acquire, try_acquire_service
Ops == Kinds \cup {"none", "publish", "close", "cutover", "drain"}

Locals == [pc : PCs, op : Ops, gen : Gens \cup {NONE}, old : Gens \cup {NONE},
           seen : Nat, notified : BOOLEAN]

Resting == [pc |-> "idle", op |-> "none", gen |-> NONE, old |-> NONE,
            seen |-> 0, notified |-> FALSE]

Holders(g) == {t \in Threads : th[t].gen = g /\ th[t].pc \in HoldingPCs}

Init ==
  /\ active = NONE
  /\ retired = [g \in Gens |-> FALSE]
  /\ word = [g \in Gens |-> ExecutionWord(Accepting, 0)]
  /\ service_handles = [g \in Gens |-> 0]
  /\ lock = [g \in Gens |-> NONE]
  /\ fiber \in [Gens -> {"Starting", "Staged"}]
  /\ drained = {}
  /\ th = [t \in Threads |-> Resting]

At(t, p) == th[t].pc = p

\* The thread begins operation o on generation g.
Enter(t, p, o, g) ==
  /\ At(t, "idle")
  /\ th' = [th EXCEPT ![t] = [Resting EXCEPT !.pc = p, !.op = o, !.gen = g]]

\* A loaded word is dead once its compare-exchange loop is left.
Goto(t, p) == th' = [th EXCEPT ![t] = [@ EXCEPT !.pc = p, !.seen = 0]]

Load(t, p) ==
  th' = [th EXCEPT ![t] = [@ EXCEPT !.pc = p, !.seen = word[th[t].gen]]]

Return(t) == th' = [th EXCEPT ![t] = Resting]

(***************************************************************************)
(* GenerationSelector::switch, the only way the visible generation moves.  *)
(***************************************************************************)
Switch(expected, next) ==
  active' = IF active = expected THEN next ELSE active

(***************************************************************************)
(* GenerationExecution::try_acquire_kind: load, refuse unless Accepting,   *)
(* compare-exchange the incremented word, then count the service handle.   *)
(* At the counter's limit the assertion panics and no lease exists.        *)
(***************************************************************************)
AcquireLoad(t, g, k) ==
  /\ At(t, "idle")
  /\ th' = [th EXCEPT ![t] = [Resting EXCEPT !.pc = "acquire", !.op = k,
                                             !.gen = g, !.seen = word[g]]]
  /\ UNCHANGED <<active, retired, word, service_handles, lock, fiber, drained>>

\* Mutant: admission no longer looks at the state bits.
MayAcquireAnyState(w) == Inflight(w) < MaxInflight

MayAcquire(w) == State(w) = Accepting /\ Inflight(w) < MaxInflight

AcquireRefuse(t) ==
  /\ At(t, "acquire")
  /\ ~MayAcquire(th[t].seen)
  /\ Return(t)
  /\ UNCHANGED <<active, retired, word, service_handles, lock, fiber, drained>>

\* Mutant: a plain store instead of the compare-exchange.
AcquireStore(t) ==
  /\ At(t, "acquire")
  /\ MayAcquire(th[t].seen)
  /\ word' = [word EXCEPT ![th[t].gen] = th[t].seen + InflightOne]
  /\ Goto(t, IF th[t].op = "service" THEN "count" ELSE "holding")
  /\ UNCHANGED <<active, retired, service_handles, lock, fiber, drained>>

AcquireCas(t) ==
  /\ At(t, "acquire")
  /\ MayAcquire(th[t].seen)
  /\ word[th[t].gen] = th[t].seen
  /\ word' = [word EXCEPT ![th[t].gen] = th[t].seen + InflightOne]
  /\ Goto(t, IF th[t].op = "service" THEN "count" ELSE "holding")
  /\ UNCHANGED <<active, retired, service_handles, lock, fiber, drained>>

CountService(t) ==
  /\ At(t, "count")
  /\ service_handles' = [service_handles EXCEPT ![th[t].gen] = @ + 1]
  /\ Goto(t, "holding")
  /\ UNCHANGED <<active, retired, word, lock, fiber, drained>>

(***************************************************************************)
(* Drop for GenerationLease: first the service handle, then drop_inflight. *)
(***************************************************************************)
\* Mutant: every lease gives back a service handle.
DropLeaseUncounted(t) ==
  /\ At(t, "holding")
  /\ service_handles' = [service_handles EXCEPT ![th[t].gen] = @ - 1]
  /\ Goto(t, "release_load")
  /\ UNCHANGED <<active, retired, word, lock, fiber, drained>>

DropLease(t) ==
  /\ At(t, "holding")
  /\ service_handles' = IF th[t].op = "service"
                          THEN [service_handles EXCEPT ![th[t].gen] = @ - 1]
                          ELSE service_handles
  /\ Goto(t, "release_load")
  /\ UNCHANGED <<active, retired, word, lock, fiber, drained>>

ReleaseLoad(t) ==
  /\ At(t, "release_load")
  /\ Load(t, "release")
  /\ UNCHANGED <<active, retired, word, service_handles, lock, fiber, drained>>

ReleasedState(w) ==
  IF State(w) = Draining /\ Inflight(w) = 1 THEN Drained ELSE State(w)

ReleaseCas(t) ==
  /\ At(t, "release")
  /\ word[th[t].gen] = th[t].seen
  /\ word' = [word EXCEPT ![th[t].gen] =
                ExecutionWord(ReleasedState(th[t].seen),
                              Inflight(th[t].seen) - 1)]
  /\ IF ReleasedState(th[t].seen) = Drained
       THEN Goto(t, "release_notify") ELSE Return(t)
  /\ UNCHANGED <<active, retired, service_handles, lock, fiber, drained>>

(***************************************************************************)
(* A failed compare-exchange returns the actual word and the loop retries. *)
(***************************************************************************)
CasRetry(t) ==
  /\ \/ At(t, "acquire") /\ MayAcquire(th[t].seen)
     \/ At(t, "release")
     \/ At(t, "drain") /\ State(th[t].seen) = Accepting
  /\ word[th[t].gen] # th[t].seen
  /\ Load(t, th[t].pc)
  /\ UNCHANGED <<active, retired, word, service_handles, lock, fiber, drained>>

(***************************************************************************)
(* Notify::notify_waiters wakes every Notified future created before it;   *)
(* the notifying thread then goes on at record r.                          *)
(***************************************************************************)
\* Mutant: only futures that are already awaited are woken.
NotifyAwaited(t, r) ==
  th' = [u \in Threads |->
           IF u = t THEN r
           ELSE IF th[u].gen = th[t].gen /\ th[u].pc = "wait"
             THEN [th[u] EXCEPT !.notified = TRUE]
             ELSE th[u]]

NotifyWaiters(t, r) ==
  th' = [u \in Threads |->
           IF u = t THEN r
           ELSE IF th[u].gen = th[t].gen /\ th[u].pc \in {"check", "armed", "wait"}
             THEN [th[u] EXCEPT !.notified = TRUE]
             ELSE th[u]]

ReleaseNotify(t) ==
  /\ At(t, "release_notify")
  /\ NotifyWaiters(t, Resting)
  /\ UNCHANGED <<active, retired, word, service_handles, lock, fiber, drained>>

(***************************************************************************)
(* GenerationExecution::begin_draining.  op says who called it: close and  *)
(* cutover_from return to a caller that unlocks the record it holds,       *)
(* drain_until goes on with its loop.                                      *)
(***************************************************************************)
DrainLoad(t) ==
  /\ At(t, "drain_load")
  /\ Load(t, "drain")
  /\ UNCHANGED <<active, retired, word, service_handles, lock, fiber, drained>>

Unlock(t) == lock' = [g \in Gens |-> IF lock[g] = t THEN NONE ELSE lock[g]]

AfterDraining(t) ==
  IF th[t].op = "drain"
    THEN [th[t] EXCEPT !.pc = "register", !.seen = 0] ELSE Resting

BeginDrainingReturns(t) ==
  /\ fiber' = IF th[t].op = "close"
                THEN [fiber EXCEPT ![th[t].gen] = "Disposing"] ELSE fiber
  /\ Unlock(t)
  /\ UNCHANGED <<active, retired, service_handles, drained>>

DrainAlready(t) ==
  /\ At(t, "drain")
  /\ State(th[t].seen) # Accepting
  /\ th' = [th EXCEPT ![t] = AfterDraining(t)]
  /\ BeginDrainingReturns(t)
  /\ UNCHANGED word

DrainCasEmpty(t) ==
  /\ At(t, "drain")
  /\ State(th[t].seen) = Accepting /\ Inflight(th[t].seen) = 0
  /\ word[th[t].gen] = th[t].seen
  /\ word' = [word EXCEPT ![th[t].gen] = ExecutionWord(Drained, 0)]
  /\ Goto(t, "drain_notify")
  /\ UNCHANGED <<active, retired, service_handles, lock, fiber, drained>>

\* Mutant: the draining word is stored without comparing.
DrainStoreBusy(t) ==
  /\ At(t, "drain")
  /\ State(th[t].seen) = Accepting /\ Inflight(th[t].seen) # 0
  /\ word' = [word EXCEPT ![th[t].gen] =
                ExecutionWord(Draining, Inflight(th[t].seen))]
  /\ th' = [th EXCEPT ![t] = AfterDraining(t)]
  /\ BeginDrainingReturns(t)

DrainCasBusy(t) ==
  /\ At(t, "drain")
  /\ State(th[t].seen) = Accepting /\ Inflight(th[t].seen) # 0
  /\ word[th[t].gen] = th[t].seen
  /\ word' = [word EXCEPT ![th[t].gen] =
                ExecutionWord(Draining, Inflight(th[t].seen))]
  /\ th' = [th EXCEPT ![t] = AfterDraining(t)]
  /\ BeginDrainingReturns(t)

DrainNotify(t) ==
  /\ At(t, "drain_notify")
  /\ NotifyWaiters(t, AfterDraining(t))
  /\ BeginDrainingReturns(t)
  /\ UNCHANGED word

(***************************************************************************)
(* commit_activation: under the write lock of the Fiber's record, check    *)
(* state Starting and is_staged, then CapabilityGate::publish; success     *)
(* makes the Fiber Active before the lock is released.                     *)
(***************************************************************************)
IsStaged(g) == ~retired[g] /\ active # g

\* Mutant: publication and disposal no longer exclude each other.
LockRecordShared(t, g) == lock' = [lock EXCEPT ![g] = t]

LockRecord(t, g) ==
  /\ lock[g] = NONE
  /\ lock' = [lock EXCEPT ![g] = t]

PublishBegin(t, g) ==
  /\ LockRecord(t, g)
  /\ fiber[g] = "Starting"
  /\ IsStaged(g)
  /\ Enter(t, "publish", "publish", g)
  /\ UNCHANGED <<active, retired, word, service_handles, fiber, drained>>

PublishCheck(t) ==
  /\ At(t, "publish")
  /\ IF retired[th[t].gen]
       THEN Return(t) /\ Unlock(t)
       ELSE Goto(t, "publish_switch") /\ UNCHANGED lock
  /\ UNCHANGED <<active, retired, word, service_handles, fiber, drained>>

PublishSwitch(t) ==
  /\ At(t, "publish_switch")
  /\ Switch(NONE, th[t].gen)
  /\ fiber' = IF active = NONE
                THEN [fiber EXCEPT ![th[t].gen] = "Active"] ELSE fiber
  /\ Unlock(t)
  /\ Return(t)
  /\ UNCHANGED <<retired, word, service_handles, drained>>

(***************************************************************************)
(* dispose_fiber_observation in phase Idle: CapabilityGate::close under    *)
(* the write lock of the Fiber's record, at most once per gate.            *)
(***************************************************************************)
CloseBegin(t, g) ==
  /\ fiber[g] # "Disposing"
  /\ LockRecord(t, g)
  /\ Enter(t, "close", "close", g)
  /\ UNCHANGED <<active, retired, word, service_handles, fiber, drained>>

CloseRetire(t) ==
  /\ At(t, "close")
  /\ retired' = [retired EXCEPT ![th[t].gen] = TRUE]
  /\ Goto(t, "close_switch")
  /\ UNCHANGED <<active, word, service_handles, lock, fiber, drained>>

\* Mutant: close leaves the selector alone.
CloseKeepsSelector(t) ==
  /\ At(t, "close_switch")
  /\ Goto(t, "drain_load")
  /\ UNCHANGED <<active, retired, word, service_handles, lock, fiber, drained>>

CloseSwitch(t) ==
  /\ At(t, "close_switch")
  /\ Switch(th[t].gen, NONE)
  /\ Goto(t, "drain_load")
  /\ UNCHANGED <<retired, word, service_handles, lock, fiber, drained>>

(***************************************************************************)
(* commit_staged_revision: under the write lock of the staged Fiber's      *)
(* record (not of the old one, whose state was read before), check         *)
(* is_staged, then CapabilityGate::cutover_from.                           *)
(***************************************************************************)
CutoverBegin(t, new, g) ==
  /\ new # g
  /\ At(t, "idle")
  /\ fiber[g] = "Active"
  /\ LockRecord(t, new)
  /\ fiber[new] = "Staged"
  /\ IsStaged(new)
  /\ th' = [th EXCEPT ![t] = [Resting EXCEPT !.pc = "cutover", !.op = "cutover",
                                             !.gen = new, !.old = g]]
  /\ UNCHANGED <<active, retired, word, service_handles, fiber, drained>>

CutoverCheck(t) ==
  /\ At(t, "cutover")
  /\ IF retired[th[t].gen]
       THEN Return(t) /\ Unlock(t)
       ELSE Goto(t, "cutover_switch") /\ UNCHANGED lock
  /\ UNCHANGED <<active, retired, word, service_handles, fiber, drained>>

CutoverSwitch(t) ==
  /\ At(t, "cutover_switch")
  /\ Switch(th[t].old, th[t].gen)
  /\ IF active = th[t].old
       THEN /\ fiber' = [fiber EXCEPT ![th[t].gen] = "Active"]
            /\ Goto(t, "cutover_retire")
            /\ UNCHANGED lock
       ELSE Return(t) /\ Unlock(t) /\ UNCHANGED fiber
  /\ UNCHANGED <<retired, word, service_handles, drained>>

\* Mutant: cutover_from returns without draining the old generation.
CutoverRetireOnly(t) ==
  /\ At(t, "cutover_retire")
  /\ retired' = [retired EXCEPT ![th[t].old] = TRUE]
  /\ Return(t)
  /\ Unlock(t)
  /\ UNCHANGED <<active, word, service_handles, fiber, drained>>

CutoverRetire(t) ==
  /\ At(t, "cutover_retire")
  /\ retired' = [retired EXCEPT ![th[t].old] = TRUE]
  /\ th' = [th EXCEPT ![t] = [@ EXCEPT !.pc = "drain_load", !.gen = th[t].old]]
  /\ UNCHANGED <<active, word, service_handles, lock, fiber, drained>>

(***************************************************************************)
(* drain_until, run by the disposal body after close.  The Notified future *)
(* is created before the word is read; a timeout ends the call, and a      *)
(* persistent disposal calls it again.                                     *)
(***************************************************************************)
DrainUntil(t, g) ==
  /\ fiber[g] = "Disposing"
  /\ Enter(t, "drain_load", "drain", g)
  /\ UNCHANGED <<active, retired, word, service_handles, lock, fiber, drained>>

Register(t) ==
  /\ At(t, "register")
  /\ Goto(t, "check")
  /\ UNCHANGED <<active, retired, word, service_handles, lock, fiber, drained>>

CheckDrained(t) ==
  /\ At(t, "check")
  /\ Inflight(word[th[t].gen]) = 0
  /\ drained' = drained \cup {th[t].gen}
  /\ Return(t)
  /\ UNCHANGED <<active, retired, word, service_handles, lock, fiber>>

CheckBusy(t) ==
  /\ At(t, "check")
  /\ Inflight(word[th[t].gen]) # 0
  /\ Goto(t, "armed")
  /\ UNCHANGED <<active, retired, word, service_handles, lock, fiber, drained>>

Await(t) ==
  /\ At(t, "armed")
  /\ Goto(t, "wait")
  /\ UNCHANGED <<active, retired, word, service_handles, lock, fiber, drained>>

Wake(t) ==
  /\ At(t, "wait")
  /\ th[t].notified
  /\ th' = [th EXCEPT ![t] = [@ EXCEPT !.pc = "register", !.notified = FALSE]]
  /\ UNCHANGED <<active, retired, word, service_handles, lock, fiber, drained>>

Timeout(t) ==
  /\ At(t, "wait")
  /\ ~th[t].notified
  /\ Return(t)
  /\ UNCHANGED <<active, retired, word, service_handles, lock, fiber, drained>>

-----------------------------------------------------------------------------

(***************************************************************************)
(* Steps a thread starts by its own choice.                                *)
(***************************************************************************)
Begin(t) ==
  \/ \E g \in Gens : \/ \E k \in Kinds : AcquireLoad(t, g, k)
                     \/ PublishBegin(t, g)
                     \/ CloseBegin(t, g)
                     \/ \E new \in Gens : CutoverBegin(t, new, g)
                     \/ DrainUntil(t, g)

(***************************************************************************)
(* Steps inside a synchronous call, or on a wakeup: the scheduler runs     *)
(* every runnable task, so they are weakly fair.  When a holder drops its  *)
(* lease and when a deadline passes is not the runtime's to decide.        *)
(***************************************************************************)
Continue(t) ==
  \/ AcquireRefuse(t) \/ AcquireCas(t) \/ CountService(t)
  \/ ReleaseLoad(t) \/ ReleaseCas(t) \/ ReleaseNotify(t) \/ CasRetry(t)
  \/ DrainLoad(t) \/ DrainAlready(t) \/ DrainCasEmpty(t)
  \/ DrainCasBusy(t) \/ DrainNotify(t)
  \/ PublishCheck(t) \/ PublishSwitch(t)
  \/ CloseRetire(t) \/ CloseSwitch(t)
  \/ CutoverCheck(t) \/ CutoverSwitch(t)
  \/ CutoverRetire(t)
  \/ Register(t) \/ CheckDrained(t) \/ CheckBusy(t) \/ Await(t)
  \/ Wake(t)

Next == \E t \in Threads : Begin(t) \/ Continue(t) \/ DropLease(t) \/ Timeout(t)

Spec == Init /\ [][Next]_vars

FairSpec == Spec /\ \A t \in Threads : WF_vars(Continue(t))

-----------------------------------------------------------------------------
(***************************************************************************)
(* The type invariant: the execution word and the counter of service       *)
(* handles, which the code decrements, never leave the naturals.           *)
(***************************************************************************)
TypeOK ==
  /\ active \in Gens \cup {NONE}
  /\ retired \in [Gens -> BOOLEAN]
  /\ word \in [Gens -> Nat]
  /\ service_handles \in [Gens -> Nat]
  /\ lock \in [Gens -> Threads \cup {NONE}]
  /\ fiber \in [Gens -> FiberStates]
  /\ drained \in SUBSET Gens
  /\ th \in [Threads -> Locals]

(***************************************************************************)
(* The packed in-flight count is exactly the number of live leases, and    *)
(* the service handle count exactly the number of live service leases,     *)
(* whatever acquires, releases and drains interleave (try_acquire_kind,    *)
(* GenerationLease::drop, begin_draining).                                 *)
(***************************************************************************)
ServiceHolders(g) == {t \in Holders(g) : th[t].pc = "holding" /\ th[t].op = "service"}

LeaseAccounting ==
  \A g \in Gens :
    /\ Inflight(word[g]) = Cardinality(Holders(g))
    /\ service_handles[g] = Cardinality(ServiceHolders(g))

(***************************************************************************)
(* A Drained word means that no lease of the generation is live, and       *)
(* drain_until reports Drained only for such a generation.                 *)
(***************************************************************************)
DrainedIsQuiet ==
  \A g \in Gens :
    /\ State(word[g]) = Drained => Holders(g) = {}
    /\ g \in drained => State(word[g]) = Drained

(***************************************************************************)
(* The assertions of drop_inflight (no underflow, not already Drained) and *)
(* of drain_until (a zero count is only ever seen in state Drained) hold   *)
(* at every point where they are evaluated.                                *)
(***************************************************************************)
AssertionsHold ==
  \A t \in Threads :
    /\ th[t].pc = "release" => Inflight(th[t].seen) # 0 /\ State(th[t].seen) # Drained
    /\ th[t].pc = "check" /\ Inflight(word[th[t].gen]) = 0 =>
         State(word[th[t].gen]) = Drained

(***************************************************************************)
(* The generation the selector publishes still admits work: publication,   *)
(* close and cutover order their stores so that draining never begins      *)
(* while the generation is visible.                                        *)
(***************************************************************************)
VisibleAccepts == active # NONE => State(word[active]) = Accepting

(***************************************************************************)
(* GEN-002: once draining wins, no new lease of that generation starts and *)
(* the admission state never moves back.                                   *)
(***************************************************************************)
AdmissionFence ==
  [][\A g \in Gens : State(word[g]) # Accepting =>
       /\ State(word'[g]) >= State(word[g])
       /\ Holders(g)' \subseteq Holders(g)]_vars

(***************************************************************************)
(* A retired generation that is not visible never becomes visible again,   *)
(* although publish and cutover_from read the flag before the selector     *)
(* moves.                                                                  *)
(***************************************************************************)
RetiredStaysHidden ==
  [][\A g \in Gens : retired[g] /\ active # g => active' # g]_vars

(***************************************************************************)
(* A drain_until waiting on a generation whose last lease is gone is woken *)
(* without help from its deadline.                                         *)
(***************************************************************************)
NoLostWakeup ==
  \A t \in Threads :
    (th[t].pc = "wait" /\ State(word[th[t].gen]) = Drained) ~> (th[t].pc # "wait")

(***************************************************************************)
(* Retiring a generation (close or cutover) eventually closes admission.   *)
(* The loop in begin_draining is lock-free, not wait-free: only acquires   *)
(* of that generation arriving for ever can keep it from winning.          *)
(***************************************************************************)
RetiredDrains ==
  \A g \in Gens :
    \/ retired[g] ~> (State(word[g]) # Accepting)
    \/ []<>(\E t \in Threads : th[t].pc = "acquire" /\ th[t].gen = g)

(***************************************************************************)
(* The gate implements GenerationAdmission: the state bits are the phase,  *)
(* the threads between a successful acquire and a successful release are   *)
(* the holders, and the selector is the visible generation.                *)
(***************************************************************************)
Admission == INSTANCE GenerationAdmission WITH
  phase <- [g \in Gens |-> State(word[g])],
  holders <- [g \in Gens |-> Holders(g)],
  visible <- active

AdmissionSpec == Admission!Spec

=============================================================================
