# A TLA+ model of mloong-agent-kernel

`mloong-agent-kernel` is a plugin runtime in Rust on Tokio. A plugin becomes a *Fiber* inside
a tree of *Scopes*; it provides services to the Scopes below, depends on services of the Scopes
above, is restarted when a dependency comes and goes, is replaced by hot reload, and is disposed
by a Runtime-owned operation whose result every requester shares. A plugin may also
run in a child process behind a session of requests and replies. This directory models the parts
that carry that logic, checks them with TLC on small instances, and proves the safety properties of
the generation gate, hot reload, shutdown, the event bus and the process host session for every
instance with TLAPS; of the Fiber lifecycle it proves the fence, the visibility and the drain for every
topology, and the rest of what the runs check but one invariant for every topology or behaviour that
avoids a named step of the code.

## 1. Inventory

| Component | Source | State | Operations | Hard part |
| --- | --- | --- | --- | --- |
| Generation gate | `gate.rs` | selector (active generation), retired bit, packed word *(state, in-flight)*, service handle count, waiters | `try_acquire`, lease drop, `publish`, `close`, `cutover_from`, `begin_draining`, `drain_until` | lock-free, separate stores, lost wakeups, the counter's limits |
| Admission gate | `gate.rs` | RUNNING / SHUTTING_DOWN / SHUTDOWN, reader-writer lock | `enter`, `begin_shutdown` | work admitted before the fence goes on after it |
| Fibers | `runtime/fiber.rs`, `fiber_registry.rs` | record (state, generation, gate, owned resources, disposal), lifecycle lock | `install`, `activate`, `converge_failed_activation`, `reload` | checks and commits in different lock holds, nested activations |
| Fiber disposal | `runtime/disposal.rs`, `disposal.rs` | phase, wait/persistent flags, issues, completion | request, body, supervisor, finalization | many requesters, partial failure, panics, drain timeouts |
| Scopes | `runtime/scope.rs`, `scope_registry.rs` | state, children, Fibers, completion | create, dispose, finalize | snapshot versus concurrent members |
| Dependencies | `runtime/dependency.rs`, `dependency_graph.rs` | dependents and declared providers by symbol | validate, reconcile, remove | stale reads, first error ends the loop |
| Garbage collection | `runtime/snapshot.rs` | registry membership, a coalescing flag | `collect_garbage`, `request_gc` | reclamation between two steps of others |
| Shutdown | `runtime/shutdown.rs`, `shutdown_coordinator.rs` | attempt, deadline, outcome | `shutdown_detailed`, residue loop, blockers | retry, deadline, shared completion |
| Services | `service_registry.rs`, `service_handle.rs` | entries, interner, epoch, resolution cache | insert, remove, resolve, revise | cache validity against gates |
| Context | `context.rs` | none of its own | provide, get, create_scope, invoke, spawn, ... | admission of a stale generation |
| Tasks and workers | `task.rs` | task and worker maps, counters | spawn, complete, cancel_all, shutdown_until | one classification per task |
| Events, invocations | `event_bus.rs`, `invocation.rs` | handlers by key, middleware, ownership | register, dispatch, revise | dispatch over a snapshot |
| Process host | `host/process.rs`, `host/protocol.rs` | session state, pending table, permits, actors | handshake, load, start, invoke, cancel, shutdown | late and missing responses, process death |
| Plugins | `plugin_registry.rs` | generation counter, selector, Fiber count | allocate, attach, detach, reclaim | reclamation while allocating |

Who calls whom: clients call `install`, `create_scope` and the dispose operations. An install
activates its Fiber or parks it. An activation that published services, and a disposal body that
withdrew some, reconcile the dependents, which activates and disposes further Fibers *while the
first one still holds its own lifecycle lock*. A failed activation and a host failure dispose
their Fiber. A Fiber's disposal disposes the Scopes its plugin created; a Scope's disposal
disposes child Scopes and member Fibers. Everyone who asks for a disposal waits on the same
completion. Shutdown closes admission and disposes the root. Leases of a generation's gate delay
the disposal of its Fiber. Completed disposals ask for garbage collection. A reload installs the
new generation in a hidden Scope, moves what it registered and switches the selector; lookups,
invocations and event dispatches read the selector without any lock of the reload. A hosted
plugin's session reports its failure to the Fiber, whose disposal ends the session.

What makes each part correct:

- gate: no lease after draining won, a Drained generation is quiet, the visible generation
  accepts, waiters wake;
- Fibers: nothing visible before the commit, nothing left after the end, `Disposed` is final,
  a restart is clean, dependencies hold when nothing is in progress;
- disposal: drain before cleanup, one immutable result, everyone is answered, it ends;
- Scopes: descendants end before their ancestor is published;
- dependencies: no cycle survives, dependents follow their providers;
- shutdown: nothing new after the fence, Complete means that nothing is left, every caller gets
  an outcome, every worker and task is classified once;
- reload: at every moment a caller finds the old or the new generation, whole; a failed reload
  leaves the old one as it was; the replaced one ends;
- services: a cached answer is the one a walk over the Scopes would give;
- events: no registration is lost, a dispatch does not mix generations, a removed handler does not
  run;
- host session: every request is answered once and with its own reply, no permit leaks, the first
  terminal state stays, and the child and the actors end.

## 2. Modules

| Module | Models |
| --- | --- |
| `Gate` | `GenerationSelector`, `GenerationExecution`, `GenerationLease` and `CapabilityGate`: one action per atomic operation, a compare-exchange and the load before it being two steps |
| `GenerationAdmission` | the abstract promise of the gate: admit, finish, retire, show, hide |
| `GateProofs`, `FiberLifecycleProofs`, `ReloadProofs`, `ShutdownProofs`, `EventBusProofs`, `HostSessionProofs` | the theorems about `Gate`, `FiberLifecycle`, `Reload`, `Shutdown`, `EventBus` and `HostSession` |
| `FiberDisposalProofs` | what disposals leave behind, whom they answer, which cycles and members they end: the other theorems about `FiberLifecycle` |
| `Retain`, `RetainProofs` | `Vec::retain`, which registries remove with, and what it leaves of a list |
| `FiberLifecycle` | Fibers, Scopes, dependencies, disposal, reclamation and the shutdown fence |
| `Reload` | the reload transaction, its commit and rollback, the disposal of the replaced generation, service lookups with their cache, invocations |
| `Shutdown` | admission fence, coordinator with attempts and retries, worker and task supervisors, composed with the phases of a disposal that shutdown waits for |
| `EventBus` | one event: slot, snapshots, arena, registration, removal, five kinds of dispatch |
| `HostProtocol` | messages, frames, limits, encoding and decoding, which reply answers which request |
| `HostSession` | session, requests, reader, writer, supervisor, owner, failure watcher, and a faulty child |
| `MCGate`, `MCFiber`, `MCReload`, `MCShutdown`, `MCEventBus`, `MCHost` | instances for TLC |

The components meet at the generation gate. `Gate` has its atomic steps; the other modules take
from it what `Gate` establishes: which generation a selector names, which generations still
admit, and that a drain ends when the last lease is gone.

### Gate

`word[g]` is the packed word of generation `g` with the state in its two low bits; `active` is
the selector; `retired`, `service_handles` are the other atomics. `th[t]` is the control of thread
`t`: the operation, the generation and the word it last loaded. `lock[g]` is the write lock of the
Fiber record that owns the gate: `commit_activation`, `dispose_fiber_observation` and
`commit_staged_revision` call the gate while holding it, and `fiber[g]` is what they find there.
The weak compare-exchange may fail spuriously (`CasRetry`). The order of the atomics is `AcqRel` /
`Acquire` on single words, with the cross-word order given by the record lock; the model is
sequentially consistent. `Notify` is external: `notify_waiters` wakes every `Notified` future
that exists, also one that is not yet awaited.

### FiberLifecycle

A step is what one task does under one hold of a synchronous lock. `fib[f]` is the record of a
Fiber with what the registries keep of it (`reg`: its services in the registry, `indexed`: its
entries in the dependency indexes, `visible`: its gate is the selector's generation, `lease`: some
execution is in flight, `lock`: the holder of the async lifecycle lock). `scp[s]` is a Scope
record. `proc` holds the runtime's own tasks: the install worker, the running activation, the
disposal body with its supervisor and the host failure worker of each Fiber, and the disposal
body of each Scope. A task that waits for a completion is at `wait`; publication moves it on.
Clients only issue requests and keep no state. The result of an operation is `ok`, an ordinary
error (`plain`), one of the `DisposalWorker*` errors (`crash`) or one of the `ScopeDisposal*` errors
(`scope`). `is_terminal_cleanup_error` counts the last two alike (`Terminal`), and so does a Scope that
hears one from a member; `finalize_fiber_disposal` keeps a Fiber in its Scope and in the indexes only for
the first, so a Fiber whose one issue is a terminated child Scope is detached like any other.

Merged steps: the Handlers, Services and Effects phases of a body (`BodyRelease`; none of them
waits for another modelled task), the sealing of an activation with its validation (no registration
is possible in between), the detachment of a Fiber from indexes and Scope (`Detach`; the Fiber
stays non-terminal during it, so reclamation cannot intervene), one pass of the collector, and
the removal of an unstarted Fiber. Generations are not numbered: a report about another generation
than the current one has no effect, so only reports about the current one are actions.

The topology (which Scope a Fiber goes to, what it depends on and provides, who creates a Scope)
and what may go wrong (which starts fail, which cleanups fail, which bodies panic, which hosts
fail) are CONSTANTS. `BootScopes`, `BootFibers` and `Running` let a behaviour begin with a topology
that was installed before it; `LifecycleAssumption` requires it to be one the operations can build
(a Scope has its parent, a Scope that a plugin created has a running owner, a Fiber runs exactly if its
dependencies do), and `NoneAssumption` that the marker of a free lock is no process.

### Reload

One logical plugin in the Scope `Target`, with one service, one invocation handler with one
middleware and one child Scope per generation; generation `g` is staged in Scope `g`. `pc[g]` is
the step of transaction `g`: `CreateStaging` ... `FinishStaged` build it, `CommitBegin` ...
`FinishCommit` are `commit_staged_revision`, the `Undo` steps and `rollback_reload` take it back,
the `Cleanup` steps dispose the old generation. A lock that is held over several steps (the
record of the staged Fiber, the Scope map, the service registry, the invocation registry) is read
off the step of its holder (`RecordFree`, `ScopesFree`, `ServicesFree`, `RegistryFree`). The
selector itself is read without a lock by every caller. `log` is a history variable: all values
the selector has had, from which `NoGap` and `NewWorkSeesNew` know what was visible during a call.
`commit_activation` of the first generation publishes before it bumps the epoch (`Publish`,
`PublishBump`), the only window in which a cached absence is wrong. Because every change empties
the cache, the epoch number itself is not a variable. A lookup looks at the visibility of what it
found once more after it has cached it (`service_registry.rs:248`); the model's walk includes that look, and
a disposal in between could only turn the answer into absent. A second attempt of an invocation takes the
registry's lock anew, where the code keeps it, which adds behaviours only. Others may dispose a Fiber, dispose the
Scope, or shut the runtime down (`Plans`). `ServicesPrepared` checks the owners twice, as the code does.

### Shutdown

`admission` and `readers` are the AdmissionGate with the guards that registrations hold;
`lifecycle`, `attempt`, `outcome` the coordinator; `sup[a]` the supervisor task of attempt `a`;
`map` and `joins` the worker map and what `shutdown_until` took out of it; `arena` and
`fiber[f].joined` the same for tasks and `cancel_all`. A worker is an install, a cancellable
reconciliation, or a reload, which gives its admission guard back before it is spawned
(`fiber.rs:277`, `286`). `recorded` counts the classifications of a worker or task. A deadline
passes at any step. A disposal is reduced to what shutdown waits for: tasks, then the drain; the
rounds of the residue loop are one, and `CompleteWithIssues` is `Complete`.

A client or a host failure may begin a disposal at any time (`DisposeFiber`), also after the fence, and
shutdown only joins it (`ShutdownJoins`). `persist` is the record's `persistent_drain`, which every
request of shutdown sets: a drain whose grace is over goes on if it is set, and otherwise ends the
disposal with its Fiber still Disposing (`terminated`). A cleanup that panics after the drain does the same
(`panicked`). Neither is begun again, by whoever asks; they answer at once, so the root disposal and
the rounds of the residue loop end with such a Fiber left (`Settled`) and the audit finds it.

### EventBus

One event key. `slot` is the entry of the map, `snapshot[s]` the copy-on-write list and
`writer[s]` the lock of slot `s`, of which there may be several over time; `arena` are the
handlers by id. `dis[d]` is a dispatch: the list it loaded, the selector values it has already
read (`VisibilityCache`), the handlers it runs, and the history `due`, the handlers that were
registered and visible when it began. Removal comes after the drain, as in the disposal body.

### HostProtocol and HostSession

A message is its kind, id, length, nested length, limits and what it reports; `Encode` and
`Decode` keep tags, category and kind codes, the limit checks and malformed bodies, and leave the
layout of fields out. `HostSession` has the fields of `SessionInner`, the bounded queue, the two
pipes, the three actors, and `call[c]`: a request of the owner or of an invoker between
allocation of its id, entry in the pending map, the second look at the state, the queue and its
oneshot. `owner` goes through handshake, load, start and cleanup, and can be dropped at every await.
`watcher` is the task that reports the failure to the Fiber. The child is external: it answers out
of order, twice, with failures, with the wrong kind, a future id, trailing bytes or the end of
its output, or not at all, and may exit at any time.

## 3. Runs

| Run | Instance | Shows |
| --- | --- | --- |
| `gate` | 2 threads, 2 generations, at most 2 in flight | `LeaseAccounting`, `VisibleAccepts`, `AdmissionFence`, `RetiredStaysHidden`, `AdmissionSpec`; `NoLostWakeup`, `RetiredDrains` |
| `fiber_owned` | a provider whose plugin creates the Scope of its dependent, from nothing; leases, failing start, host failure, panicking body, shutdown | `DrainBeforeCleanup`, `VisibleCommitted`, `NothingLeftBehind`, `ScopeMembersEnd`, `NoOrphanWaiter`, `ClosedAdmitsNothing` |
| `fiber_restart` | provider and dependent running, with a replacement provider; the dependent provides, is leased and has a faulty Effect | `ActiveHasDependencies`, `RestartClean` |
| `fiber_cycle` | two Fibers that depend on each other | `CyclesRejected` |
| `fiber_liveness` | provider running, dependent installed | `DisposalsEnd`, `InstallsEnd` |
| `host_session` | 2 invokers, queue of 1, pipes of 2, the peer offers equal, smaller and zero limits | `PermitsConserved`, `NoOrphanCall`, `IssuedNotFuture`, `Correlated`, `TerminalFinal` (a terminal state stays, and `Closed` is entered only from `Draining` after the acknowledgement and a clean exit) |
| `host_liveness` | 1 invoker | `SessionEnds` |
| `event_bus` | 2 handlers of one generation, 1 of its successor, 1 dispatcher, up to 3 slots | `NoLostRegistration`, `OneGeneration`, `RemovedNotRunning`, `Delivered` |
| `shutdown` | 1 Fiber, 1 task, 1 worker of any kind, 1 caller, 2 attempts; disposals by others, drain timeouts, panics | `ClassifiedOnce`, `CompleteIsQuiet`, `IncompleteHasCause`, `CallersReturn` |
| `reload` | 2 generations, 1 caller (the new generation's Context or another Fiber's), a cache of 1 entry, one kind of interference per behaviour | `NoGap`, `NewWorkSeesNew`, `CommittedTogether`, `RollbackRestores`, `CacheExact`, `ReloadsEnd` |
| `scope_reactivated` | provider, dependent and replacement | refutes `DisposedScopeQuiet` |
| `reload_detached` | the `reload` instance | refutes `CommittedDisposalDetached` |

The type invariants of `Gate` (`gate`) and `FiberLifecycle` (`fiber_owned`) are part of the runs.
`TypeOK` of the other modules also holds on their instances, as adding it to the `INVARIANTS` of the
cfg shows; those runs are kept to what the types do not say. For `Reload`, `Shutdown`,
`EventBus` and `HostSession` it is a theorem, as it is for `Gate` and `FiberLifecycle`.

Bounds. Two threads let a release, an acquire and a drain meet on one word, because a thread keeps
its lease over other operations; two in flight let one release be the last and one not; two
generations are what a cutover involves. The safety properties of the gate, reload, the event bus,
shutdown and the host session are proved for any number of everything, and so are, under the conditions
of section 4, those of the lifecycle but `ActiveHasDependencies`; for these the bounds matter only for
liveness. Two or three Fibers and two Scopes suffice for each race of the lifecycle the hazards
name, which has at most two Fibers and their Scope. Two invokers are what an id watermark, a
permit limit and a full queue need; message sizes are 1 and 2, of which 1 fits every limit and 2
only a whole frame; six ids are one per request of the owner and the rest for the invokers. In the
event bus two handlers make "the last one" differ from "one of them", and three slots let a slot
disappear twice. Two attempts are a failed shutdown and its retry. A reload involves two
generations; its safety properties also pass with all three interferences in one behaviour (1.1
million states), which takes too long together with liveness. A cache of one entry evicts as soon
as a second Scope is asked for.

`CHECK_DEADLOCK FALSE` in the lifecycle, `shutdown` and `reload` runs: when all Fibers have ended,
the attempts are used up or the last generation is gone, nothing more happens. The gate, the event
bus and the host session are checked for deadlock.

Fairness. In `Gate` every step that a thread takes inside an operation is weakly fair: threads are
not suspended for ever. Starting an operation and dropping a lease are not. In `FiberLifecycle`
the steps of each runtime task are weakly fair, because the scheduler polls every task that is
ready and the lifecycle mutex of Tokio is fair; a plugin's `start` is assumed to return. Clients,
installs, leases, panics, host failures, reclamation and shutdown are not fair. A drain ends
without fairness of leases by its timeout, which a non-persistent disposal takes; the liveness run
has no shutdown, whose persistent disposals wait for leases without limit. In `Shutdown` the steps
of workers, task wrappers, disposals, callers and supervisors are weakly fair and a deadline
passes; a plugin's task need not return, a handle need not be dropped, and no cleanup need panic. In
`HostSession` the actors, the owner, the watcher and the requests are weakly fair and a deadline that was set passes;
nothing is asked of the child. In `Reload` callers, Scope disposals and the first activation are
weakly fair, and the transaction and the disposals strongly: they need locks that callers take
again and again, and the `parking_lot` locks are eventually fair. There the callers are assumed to
drop what they hold, since the cleanup of a replaced generation waits for them without limit.

### Disagreements with the documentation

Two runs refute statements of the repository; `PROJECT.json` quotes each with its line.

| Run | What happens |
| --- | --- |
| `scope_reactivated` | a dependent that waits for a restart is activated in a Scope that is Disposed |
| `reload_detached` | a staged activation overwrites Disposing with Active; the disposal then skips the detachment, publishes Disposed as committed, and the Fiber stays in the Scope's list and the provider index |

The model shows more. Each of these is reproduced by checking the named definition on the given
instance:

| Definition | Instance | What happens |
| --- | --- | --- |
| `PermanentDominates` (`disposal.rs:320`, against the comment at `disposal.rs:83`) | `MCFiberRestart.cfg` | a permanent disposal that comes after the decision to restart is answered with success and has no effect |
| `WaitingLacksDependencies` (`fiber.rs:725`, `cordis-core/src/lifecycle.rs:8`) | `MCFiberRestart.cfg` | a provider commits between an install's check and its parking; the Fiber waits for good |
| `ActiveHasDependencies` (`fiber.rs:837`, `docs/LIFECYCLE.md:38`) | `MCFiberLive.cfg` with `Spec` | a provider ends while its dependent is Starting; the dependent stays Active without it |
| the same (`dependency.rs:99`) | two running dependents of one provider, the first with a faulty Effect | the first error ends the reconciliation and the second dependent stays Active |
| `NoOrphanWaiter` (`disposal.rs:365`, CONTRACT_MATRIX.md:68) | `MCFiberCycle.cfg` | a Fiber of a cycle is removed during its disposal; the waiting Scope disposal never ends |
| `VisibleCommitted` without its case `"Gone"` (`dependency.rs:7`) | `ShadowDeps`, `ShadowProvides` with all three Fibers in the root, `BootFibers = <<spare>>`, `Running = {spare}`, `Dropped = {spare, dep}` | a Fiber that was disposed and restarted during its own install is Active when the install, which saw a cycle, removes its record; its gate stays visible |
| `NothingLeftBehind` (`fiber.rs:725`) | `MCFiberRestart.cfg` with `BootFibers <- Nothing`, `Running = {}`, `Dropped = {dep}` | an install parks a Fiber under disposal, a reconciliation activates it, and the publication of the disposal makes it Disposed when the new activation has registered its service |
| `RestartClean` (`fiber.rs:725`) | the same with `spare` in `sub` and `Leased`, `Faulty`, `Closing` empty | that publication is one of a restart: the Fiber is Waiting with a service registered, and the next provider starts it anew |
| `CyclesRejected` (`fiber.rs:710`, `dependency_graph.rs`) | `ShadowDeps`, `ShadowProvides` with all three Fibers in the root, `BootScopes` empty, `BootFibers = <<spare>>`, `Running = {spare}`, `Dropped = {spare}` | two installs find no cycle because a running third provider is visible; when that one is disposed they wait for each other for good, and nothing validates again |
| `DisposalsEnd` (`fiber.rs:855`, CONTRACT_MATRIX.md:60) | `ShadowDeps`, `ShadowProvides`, `BootSpare` with `Dropped = {spare}` and `FairSpec` | an activation waits, through a nested one, for the disposal of its own Fiber |
| `RetryConverges` (`disposal.rs:232`, HARDENING.md:168, V2_CRASH_MATRIX.md:27) | `MCShutdown.cfg` with `Spec` | a client's disposal times out at its drain before the shutdown; the handle is dropped, and the retry is Incomplete all the same, because the disposal is never begun again (`disposal.rs:86`) |
| `ClosedIsAcknowledged` (`process.rs:1207`, HOST_STATE_MACHINE.md:170) | `MCHost.cfg` | a Failure in reply to Shutdown counts as its acknowledgement, and the session closes cleanly |
| `NegotiatedFrameAccepted` (`process.rs:1127`, HOST_PROTOCOL.md:184) | `MCHost.cfg` | the reader fixes the limit of a frame before it waits for it, so the first frame after negotiation is still held to the handshake limit |

So a property that a passing run checks may fail on another instance: `ActiveHasDependencies` holds
with one dependent that was running before (`fiber_restart`), where no candidate of a reconciliation is
Starting and none comes after one that failed, `NoOrphanWaiter` without cycles
(`fiber_owned`), `DisposalsEnd` without a shadowed service (`fiber_liveness`), `NothingLeftBehind`
and `RestartClean` where no install meets a disposal and a provider at once (`fiber_owned`,
`fiber_restart`), `ScopeMembersEnd` where no Fiber is restarted (`fiber_owned`; it fails on the instance of
`scope_reactivated`) and `CyclesRejected` without shadowing (`fiber_cycle`). For all of these but
`ActiveHasDependencies` and `DisposalsEnd` section 4 says on which topologies they hold, or which step has
to be ruled out.

Of the process host the model also shows that a cleanup without a deadline waits for a mute peer
without limit, that the child's exit can be seen before its acknowledgement is read, which turns a
clean shutdown into a failure, and that a request larger than the negotiated frame ends the whole
session in the writer. A reload worker can register after shutdown has audited the worker map
(`fiber.rs:286`); it then fails at the gate. `submit_host_failure` spawns without admission too.
Three smaller ones of the lifecycle are in the model: an install indexes a Fiber that a Scope disposal
has already ended (`InstallIndex`, `fiber.rs:710`); an install parks a Fiber that is being disposed,
and the finalizer, finding `WaitingDependencies -> Disposed` illegal, applies it all the same
(`FinalResult`, `disposal.rs:371` and `432`); a child Scope that others disposed and reclaimed
answers its parent with an error that terminates the parent (`ScopeMemberDone`, `scope.rs:202`).
`ScopeMembersEnd` (`fiber_owned`) is what remains of SCP-003 when no Fiber is restarted: a member of a
Scope that is Disposed has ended, or has left the Scope's list with nothing due but its publication.

## 4. Proofs

`GateProofs` proves, for every finite set of threads, every set of generations and every maximum
(`GateAssumption`), all safety properties of the `gate` run, that `Gate` implements
`GenerationAdmission`, that a Drained generation is quiet (`DrainedIsQuiet`) and that the
assertions of `drop_inflight` and `drain_until` never fail (`AssertionsHold`).

The argument is one inductive invariant, `GateInv`, a conjunction of

- `TypeOK`, and `LocalsOK`: a thread inside an operation knows its generation, and which
  operation reaches which control point;
- `WordsOK`: the state bits are one of the three states, and a Drained word counts nothing;
- `LeaseAccounting`: the count is the cardinality of the holders. The step lemmas add or remove
  one thread of a finite set;
- `LocksOK`: a thread between publication's or closing's first and last step holds the record
  lock, so the two exclude each other on one generation;
- `LifecycleOK`, `SealedOK`: which of selector, retired bit and record state go together. This is
  what makes `VisibleAccepts` and `RetiredStaysHidden` inductive: a retired bit is set before the
  selector moves away and draining begins after, and only under the lock or by the one cutover
  that owns the staged record;
- `SeenOK`: what a loaded word still says when the exchange comes. A thread that holds a lease has
  loaded a positive count, and a word never leaves Drained;
- `DrainedOK`: generations that `drain_until` reported are Drained.

Each action preserves each part it can disturb; `FenceHolds` and `RetiredHidden` follow from the
invariant step by step, and the refinement maps every step to an abstract one or a stutter.

`ReloadProofs` proves all safety properties of the `reload` run for any number of generations, any
callers and owners, any cache size and all interferences together (`ReloadAssumption`: there is a
generation, the cache size is a number, the owners of calls are generations or none). The
invariant `ReloadInv` has these parts:

- `LogInv`: the selector goes from none up through the generations and at most once back to none, so a
  value that was seen twice was there in between. `NoGap` and `NewWorkSeesNew` rest on it;
- `GateInv`, `BootInv`: a retired generation is not visible, a Fiber in disposal is draining, and before
  the first activation is complete transactions only wait;
- `LockInv`, `TxInv`: one transaction at a time holds a Fiber's lifecycle mutex and one the Scope lock,
  and what each step of a transaction may rely on. The selector names the staged generation between
  the switch and the release of its record, whatever others ask for meanwhile;
- `FiberInv`, `RegistryInv`: how the state of a Fiber goes with its disposal, and where it is
  registered (home, indexes, Scope, child Scope, handlers, service) at each step of the
  transaction that moves it, of the undo, and of the disposal that takes it apart;
- `VisibleInv`: the service of the visible generation is the one in the target Scope, except in the two
  windows of the code, the first publication and the exchange of the services under their lock. From
  it a walk over any path of Scopes ends at the visible generation (`Resolves`);
- `ScopeInv`: when a Scope's disposal has passed its members, they have ended or were moved;
- `CacheInv`: an absence is cached only while the selector names nothing, and the cache keeps its size;
- `CallInv`: for each step of a call, what was visible since it began, including the second attempt
  that follows a lost race with a switch.

The step lemmas say first what a class of steps leaves alone (a step of a transaction, of a
disposal, of a Scope, of a call), then each action is shown to be of its class. The general
proof showed what two generations hide: with three, the old generation of a failed reload can be
replaced by another transaction before the failed one's caller looks, so `RollbackRestores` allows
for that (`Replaces`).

`ShutdownProofs` proves all safety properties of the `shutdown` run for any Fibers, tasks, workers,
callers and number of attempts (`ShutdownAssumption`: every task has an owner, every worker a target and
a set of kinds; `NONE` differs from the two outcomes). The invariant `ShutdownInv` has one part per
participant:

- `CoordinatorInv`: only the last attempt runs, the earlier ones published Incomplete, and nothing is
  fenced before the first;
- `WorkerInv`, `TaskInv`: a worker is in exactly one of unregistered, the map, the joins of
  `shutdown_until`, or gone, and only then has it been recorded, once; likewise for tasks between
  arena, the ids a disposal took and its joined ones;
- `FiberInv`, `InstallInv`: where a disposal keeps its tasks, and that one activation at a time
  owns a Starting Fiber (without it a late activation could make a disposed Fiber Active);
- `AttemptInv`: what an attempt has established at each of its steps. It carries the argument: after the
  root disposal no disposal is due (`AllSettled`: each Fiber has ended, or its disposal was terminated), after
  the joins no fenced worker is left in the map, and an audit that blames the workers saw one whose
  registration is outside the fence (a reload). What it finds of a Fiber or a handle belongs to a
  Fiber that was terminated (`Caused`), by a panic or by a drain before anyone asked it to persist: a
  persistent drain does not time out (`FiberInv`).

`EventBusProofs` proves all safety properties of the `event_bus` run for any handlers, generations,
plugins, dispatchers and slots (`EventBusAssumption`: every handler has a generation; the markers `NONE` and
`"unread"` are no generations). `EventBusInv` says which registration holds which slot's writer lock
(`SlotInv`), what the arena is between the steps of a registration or a removal, so that the decision
that the event has become unregistered is still right when it is acted on (`ArenaInv`), that only the
event's slot lists handlers, each published one exactly once (`SnapshotInv`), that a visible
generation admits and only a drained one is taken apart (`GateInv`), and what a dispatch has read and still
owes. A snapshot is a sequence, and what `retain` leaves of it is an induction over positions. The
library's induction theorems take an operator as a parameter, so `Retain` is defined by the positions it
keeps and the induction is an argument about a least counterexample (`LeastElement` in `RetainProofs`,
from `WFMin`), which the lifecycle's Scope lists use too.

`HostSessionProofs` proves all safety properties of the `host_session` run for any invokers, capacities,
limits the peer may offer and message sizes (`HostAssumption`: the capacities are positive, limits are
records of numbers, the control limit fits the local frame). The invariant `SessionInv` relates the
session, the pipes and the requests:

- `FailureInv`: a Failed session has a reason, and an actor that resolves the pending requests has
  decided Failed before. So what `resolve_pending` hands to a caller is always an error;
- `ChannelInv`: the queue and the pipes keep their bounds, and a request that waits in the queue, in
  the writer's hand or in the child's input has an id the watermark covers;
- `OwnerInv`: which state of the session the owner can find at each of its steps; a request for shutdown
  is only under way while the session drains or has ended;
- `CallsInv`: a permit belongs to a request with an id of its own; a registered request has its id in the
  pending map, its reply in the oneshot, or its id in the reader's hand; an id in the map has a
  request that is registered; the free permits and the holders add up to the limit. The bound on the
  pending map (`PendingBound`) is a surjection from requests to ids.

The actions are many, so the step lemmas are about what an action does to the table of requests
(nothing, return, begin, insert, move on, resolve, reply, take); each action is then shown to be one of
these. `TerminalIsFinal` is an action property: it looks at every action from the invariant.

`FiberLifecycleProofs` proves for every topology (`LifecycleAssumption`, `NoneAssumption`), with cycles,
shadowed services, any failures and any number of Fibers and Scopes, the type invariant, that a visible
generation is a committed one that nobody disposes (`VisibleCommitted`), that cleanup waits for
executions (`DrainBeforeCleanup`) and that nothing starts after the fence (`ClosedAdmitsNothing`).
`LifecycleInv` is `TypeOK` and

- `FramesInv`: which step each kind of process can be at, and of what kind its target is;
- `FibersInv`, for each Fiber its record with the frames of its activation and its disposal body:
  `LockOK`, the lifecycle lock names the one of them that is inside; `BodyOK`, an ended disposal has
  no body, and a body that reconciles or publishes has chosen the final state; `StagedOK`, an
  activation that sealed has found no disposal, and one that commits has registered all it declares;
  `VisibleOK`; `LeaseOK`, a body that finds executions in flight is at the drain or on its way out with
  an error; `AbsentOK`;
- `CallersInv`: a running activation has one caller, which waits for it.

An activation runs inside another's reconciliation, so most steps move one process through `activate`,
`dispose_fiber_observation` or `reconcile_symbols`, whoever runs them. `Keeps` says what such a step
leaves of a process's frame and `SameCore` what it leaves of a record; together they preserve every
Fiber's part (`KeptFiber`), and only the steps that touch a record need an argument of their own. The
proof found the case of `VisibleCommitted` that no run reaches: a client's restart can end during the
install that removes the record, so a visible Fiber is Active, Failed or without a record.

`FiberDisposalProofs` proves the other safety properties of the lifecycle runs. Each of them fails on
some topology (see the disagreements above): `CyclesRejected` by shadowing, the others by way of one step
of the code. For these there is a theorem for every topology with a condition `[][P]_vars` that rules out
that step and nothing else, and one without it for topologies whose constants alone exclude the step.

| Property | Ruled out | Without a condition where |
| --- | --- | --- |
| `NothingLeftBehind`, `RestartClean` | `ActivatesClean`: a Fiber that registers something is activated while a disposal of it is at work or was Terminated | Fibers with dependencies register nothing (`IndependentProvidersLeaveNothing`) |
| `NoOrphanWaiter` | `RemovesUndisposed`: `remove_unstarted_fiber` removes a record whose disposal has begun and is not answered | declarations make no cycle (`AcyclicWaitersAreServed`) |
| `ScopeMembersEnd` | `NoneWaits`: a disposal puts its Fiber back to Waiting | no Fiber has the policy Restart and no client disposes one (`FinalScopesOutliveTheirMembers`) |
| `CyclesRejected` | | no two Fibers on one path provide the same service, and the first Fibers make no cycle (`RacingInstallsLeaveNoCycle`) |

The conditions are satisfied by runs that do all the rest: TLC finds as many states on `fiber_owned` with
`NoneWaits` and with `ActivatesClean` as without them, and `RemovesUndisposed` holds on `fiber_owned` and
`fiber_restart`, `ActivatesClean` also on `fiber_restart`. `ActivatesClean` speaks of Fibers that
register something because `fiber_owned` does activate its dependent under a disposal.

The steps are about sixty, and an invariant that looks at records, bodies, callers and registries at
once would need an argument for each. So they are sorted first, once (`NextMoves`, and likewise
`NextFrames` for processes and a lemma for Scopes): in every step a Fiber's record and the frame
of its disposal body make one of 25 moves (`FiberMove`), a process begins, asks, waits, is answered or goes on
(`FrameMove`), a Scope is born, joined, left, asked or ended. The invariants are about moves:

- `GeneralInv`: `LifecycleInv` and how a state goes with the phase and the completion of a disposal;
- `CleanInv`: which parts of a record are empty in which phase (`CleanOK`), and that every Scope a plugin
  created is on its Fiber's list, in the hands of the body, or over (`Kids`);
- `WorkInv`: a disposal that has begun and is not answered has its record and its body, and every
  waiting frame names such a disposal;
- `Index`: a Fiber that can be found, run or seen is in the dependency indexes, and what it registers it
  declared;
- `CycleInv`: every set of live Fibers that depend on each other has a member whose install has still
  to look for a cycle. Without shadowing a dependency comes into being only with an index entry, and
  whoever makes the entry looks afterwards;
- `MembersInv`: a member of a Scope is over or on the Scope's list (`MemberOK`); the body of the Scope
  has each of them on its own copy until it has an answer for it (`TodoOK`), and an answer without an
  error means an ended member (`Answer`). An ordinary error counts as ended when the member looks
  Disposed or Waiting afterwards, and a Fiber whose disposal was refused is never Waiting
  (`Refusal`). That rests on `Race`: a reconciliation that is about to activate a Fiber, and an install
  that has not yet decided where its Fiber goes, exclude each other;
- `Final`: a Fiber that no request may leave waiting is not left waiting. It holds on every topology
  (`FinalInvariant`).

Two of these proofs changed the model. `BootScopes` could name a Scope whose owner never ran, which no
operation builds (`LifecycleAssumption`). And `ScopeMembersEnd` named only the state of a member whose
disposal is at its publication, which is what `CommittedDisposalDetached` is about too: it now says that the
member has left the list.

Only model-checked: the liveness properties (out of TLAPS' reach), the two refutations, and
`ActiveHasDependencies`. That one fails whenever a provider ends while its dependent is starting, a
reconciliation stops at its first error, or a body panics or times out between closing its gate and
reconciling: with all of these ruled out little of the code would be left.

## 5. Not modelled

Configuration, diagnostics, snapshots and error texts have no behaviour of their own. Quotas are
left out: a refused registration or install changes nothing. `schedule_activation` needs a service
that is provided by a Fiber that is already Active, which validation of declared provisions leaves
without a case. Of the wire format the layout of fields and the array limits of descriptors are
left out, of the services the interner, of the plugin registry the Fiber count and the reclamation
of a plugin, of the Context its timers. Of garbage collection the coalescing of requests is left out:
`FiberLifecycle` collects at any time or never, which includes the request that is dropped when its
exchange of 1 for 2 comes after the worker's exchange of 1 for 0 (`snapshot.rs:42`), and so says
nothing about how long a Disposed record stays. `EventBus::activate` is dead code.

In `Reload` nothing is reclaimed, so a late ancestry read of a collected staging Scope does not
occur; a reloaded plugin has no dependencies, and a Fiber that ends is Disposed and never Failed;
the collision of its service with another plugin's is left out. `Reload` and `Shutdown` are
separate: a reload during shutdown is in `Reload` with the fence only, and in `Shutdown` as a
worker that registers late.

## 6. Plan

1. `ActiveHasDependencies` for one dependent that was running before, on every topology around it.
2. `FiberLifecycle` with numbered activations, to tell a stale failure (`fiber.rs:893`) from a current
   one; the coalescing of garbage collection; the plugin registry.
