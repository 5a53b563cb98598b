---------------------------- MODULE HostSession -----------------------------
(***************************************************************************)
(* One session of the process host (cordis-runtime/src/host/process.rs):   *)
(* a child process, the reader, writer and supervisor actors that own its  *)
(* stdout, stdin and handle, the clients that issue requests over them,    *)
(* and the session owner, whose drop forces the child's termination.       *)
(*                                                                         *)
(* The owner runs ProcessHost::load, RemotePluginProxy::start and, as the  *)
(* Fiber's effect, SessionOwner::cleanup.  Invokers run                    *)
(* RemoteInvocationHandler::call while the plugin is active.  A step ends  *)
(* where another actor can see the difference: at an await, or between two *)
(* accesses to shared state.  The child is external; it may answer out of  *)
(* order, with a failure, twice, with a malformed frame or never, and may  *)
(* exit at any time.                                                       *)
(***************************************************************************)
EXTENDS HostProtocol, Sequences, FiniteSets, TLC

CONSTANTS
  Invokers,        \* concurrent RemoteInvocationHandler::call
  LocalLimits,     \* ProcessHostConfig::limits
  ControlMax,      \* max_control_bytes
  HandshakeMax,    \* ABSOLUTE_HANDSHAKE_FRAME_LIMIT
  PeerLimits,      \* limits a HelloAck may offer
  QueueCap,        \* outbound_queue_capacity
  PipeCap,         \* requests the child has not answered before stdin is full
  OutputCap,       \* frames in stdout the reader has not taken
  MaxId,           \* u64::MAX of the request ids
  LoadSizes, InvokeSizes, ReplySizes,   \* message lengths that occur
  PeerReports      \* failures the child reports

ASSUME HostAssumption ==
  /\ "owner" \notin Invokers
  /\ QueueCap \in Nat \ {0} /\ PipeCap \in Nat \ {0} /\ MaxId \in Nat \ {0}
  /\ PeerReports \subseteq Reports \ {"ok"}
  /\ LocalLimits.frame > 0 /\ ControlMax \in 1..LocalLimits.frame
  /\ {LocalLimits} \cup PeerLimits \subseteq
       [frame : Nat, artifact : Nat, request : Nat, response : Nat, inflight : Nat]
  /\ HandshakeMax \in Nat /\ OutputCap \in Nat
  /\ LoadSizes \cup InvokeSizes \cup ReplySizes \subseteq Nat

Callers == Invokers \cup {"owner"}

VARIABLES
  \* SessionInner
  state, terminal_error, limits, pending, permits, next_id, highest_issued,
  force, actor_stop, shutdown_acked, live,
  \* channels: the bounded outbound queue, the child's stdin and stdout
  outq, stdin, stdout,
  \* actors
  reader, writer, supervisor, child,
  \* clients
  call, owner, watcher

inner == <<state, terminal_error, limits, pending, permits, next_id,
           highest_issued, force, actor_stop, shutdown_acked, live>>
channels == <<outq, stdin, stdout>>
actors == <<reader, writer, supervisor, child>>
clients == <<call, owner, watcher>>
vars == <<inner, channels, actors, clients>>

SessionStates == {"Created", "Handshaking", "Ready", "Draining", "Closed", "Failed"}
Terminal == {"Closed", "Failed"}

NoLimits == [frame |-> 0, artifact |-> 0, request |-> 0, response |-> 0, inflight |-> 0]

Msg(kind, id, len, nested, report) ==
  [kind |-> kind, id |-> id, len |-> len, nested |-> nested,
   report |-> report, limits |-> NoLimits]
NoMsg == Msg("none", 0, 0, 0, "ok")
EndOfOutput ==
           [tag |-> 0, id |-> 0, len |-> 0, nested |-> 0, category |-> 0,
            code |-> 0, body |-> "eof", limits |-> NoLimits]

(***************************************************************************)
(* A call: the request under way, where it stands, its id and its oneshot. *)
(***************************************************************************)
Idle == [op |-> "none", pc |-> "idle", id |-> 0, size |-> 0, got |-> NoMsg]
CallPCs == {"idle", "insert", "recheck", "send", "wait", "ended"}
HoldsPermit(c) == call[c].pc \in {"insert", "recheck", "send", "wait"}
Registered(c) == call[c].pc \in {"recheck", "send", "wait"}

OwnerPhases ==
  {"spawned", "hello", "negotiated", "load", "proxy", "start", "running",
   "dispose", "shutdown", "join", "done", "dropped"}
CleanupPhases == {"dispose", "shutdown", "join"}

\* The reader's program point, the limit of the frame it awaits and the request
\* it took out of the pending map and has yet to answer.
Stopped == [pc |-> "exited", limit |-> 0, hand |-> 0]

Init ==
  /\ state = "Created" /\ terminal_error = "none"
  /\ limits = LocalLimits
  /\ pending = {} /\ permits = LocalLimits.inflight
  /\ next_id = 1 /\ highest_issued = 0
  /\ force = FALSE /\ actor_stop = FALSE /\ shutdown_acked = FALSE /\ live = TRUE
  /\ outq = <<>> /\ stdin = {} /\ stdout = <<>>
  /\ reader = [Stopped EXCEPT !.pc = "limit"]
  /\ writer = [pc |-> "recv", msg |-> NoMsg]
  /\ supervisor = "select" /\ child = "running"
  /\ call = [c \in Callers |-> Idle]
  /\ owner = [phase |-> "spawned", deadline |-> FALSE, shutdown |-> "none"]
  /\ watcher = [pc |-> "off", notified |-> FALSE]

-----------------------------------------------------------------------------
(***************************************************************************)
(* Terminal transitions.  The state and its error are decided under the    *)
(* terminal_error lock; the pending requests are resolved and the actors   *)
(* signalled after the lock is released, which is a second step.           *)
(***************************************************************************)
\* Mutant: a late failure replaces the terminal outcome.
TransitionToFailedAlways(error) == state' = "Failed" /\ terminal_error' = error

TransitionToFailed(error) ==
  /\ state' = IF state \in Terminal THEN state ELSE "Failed"
  /\ terminal_error' = IF state \in Terminal THEN terminal_error ELSE error

TransitionToClosed ==
  /\ state' = IF state \in Terminal THEN state ELSE "Closed"
  /\ UNCHANGED terminal_error

ErrorReply(error) == Msg("error", 0, 0, 0, error)

\* Mutant: the watcher is not notified.
ResolvePendingSilently(ids, error) ==
  /\ pending' = {}
  /\ call' = [c \in Callers |->
       IF Registered(c) /\ call[c].id \in ids
       THEN [call[c] EXCEPT !.got = ErrorReply(error)] ELSE call[c]]
  /\ actor_stop' = TRUE
  /\ force' = (force \/ state = "Failed")
  /\ UNCHANGED watcher

\* resolve_pending, actor_stop.cancel, force.cancel (failure only) and
\* notify_waiters; ids are the requests answered with the error.
ResolvePending(ids, error) ==
  /\ pending' = {}
  /\ call' = [c \in Callers |->
       IF Registered(c) /\ call[c].id \in ids
       THEN [call[c] EXCEPT !.got = ErrorReply(error)] ELSE call[c]]
  /\ actor_stop' = TRUE
  /\ force' = (force \/ state = "Failed")
  /\ watcher' = [watcher EXCEPT !.notified = @ \/ watcher.pc \in {"recheck", "wait"}]

\* SessionInner::transition
Transition(expected, next) == state = expected /\ state' = next

-----------------------------------------------------------------------------
(***************************************************************************)
(* Requests.  SessionClient::request checks the required state around its  *)
(* wait for a permit and again once its pending entry is in the map;       *)
(* SessionClient::invoke never waits for a permit or for room in the       *)
(* queue.  Ending a call drops its permit and, unless the response was     *)
(* received, its pending registration.                                     *)
(***************************************************************************)
RequiredState(op) ==
  CASE op = "Hello" -> "Handshaking" [] op = "Shutdown" -> "Draining" [] OTHER -> "Ready"

\* Only the owner's next step reads the outcome of its request.
Outcome(c, m) ==
  IF c = "owner" THEN [Idle EXCEPT !.op = call[c].op, !.pc = "ended", !.got = m] ELSE Idle

\* The call returns m, giving back what it holds.
End(c, m) ==
  /\ call' = [call EXCEPT ![c] = Outcome(c, m)]
  /\ permits' = IF HoldsPermit(c) THEN permits + 1 ELSE permits
  /\ pending' = IF Registered(c) THEN pending \ {call[c].id} ELSE pending

At(c, pc) == call[c].pc = pc
Goto(c, pc) == call' = [call EXCEPT ![c].pc = pc]

\* The permit is taken and the compare-exchange of allocate_request_id succeeds.
AllocateRequestId(c, op, size) ==
  /\ permits > 0 /\ next_id < MaxId
  /\ permits' = permits - 1
  /\ next_id' = next_id + 1
  /\ call' = [call EXCEPT ![c] = [Idle EXCEPT !.op = op, !.size = size,
                                              !.pc = "insert", !.id = next_id]]

\* A lifecycle request in session state st, up to its id: refused, exhausted or issued.
Request(op, size, st) ==
  \/ /\ st = RequiredState(op)
     /\ AllocateRequestId("owner", op, size)
  \/ /\ st # RequiredState(op) \/ (permits > 0 /\ next_id = MaxId)
     /\ call' = [call EXCEPT !["owner"] =
                   [Idle EXCEPT !.op = op, !.pc = "ended", !.got = ErrorReply("Unavailable")]]
     /\ UNCHANGED <<permits, next_id>>

\* Mutant: the watermark is stored, so an older allocation can lower it.
PublishIssuedIdStored(id) == highest_issued' = id

\* publish_issued_id
PublishIssuedId(id) ==
  highest_issued' = IF id > highest_issued THEN id ELSE highest_issued

Insert(c) ==
  /\ At(c, "insert")
  /\ PublishIssuedId(call[c].id)
  /\ pending' = pending \cup {call[c].id}
  /\ Goto(c, "recheck")
  /\ UNCHANGED <<state, terminal_error, limits, permits, next_id, force, actor_stop,
                 shutdown_acked, live, channels, actors, owner, watcher>>

\* Mutant: the state is not looked at again once the entry is in the map.
RecheckSkipped(c) ==
  /\ At(c, "recheck")
  /\ Goto(c, "send")
  /\ UNCHANGED <<inner, channels, actors, owner, watcher>>

Recheck(c) ==
  /\ At(c, "recheck")
  /\ IF state = RequiredState(call[c].op)
     THEN Goto(c, "send") /\ UNCHANGED <<permits, pending>>
     ELSE End(c, ErrorReply("Unavailable"))
  /\ UNCHANGED <<state, terminal_error, limits, next_id, highest_issued, force,
                 actor_stop, shutdown_acked, live, channels, actors, owner,
                 watcher>>

QueueClosed == writer.pc = "exited"

QueueFull == Len(outq) = QueueCap

RequestOf(c) ==
  [Msg(call[c].op, call[c].id, call[c].size,
       IF call[c].op \in {"Load", "Invoke"} THEN call[c].size ELSE 0, "ok")
     EXCEPT !.limits = IF call[c].op = "Hello" THEN limits ELSE NoLimits]

Send(c) ==
  /\ At(c, "send")
  /\ \/ /\ ~QueueClosed /\ ~QueueFull
        /\ outq' = Append(outq, RequestOf(c))
        /\ Goto(c, "wait") /\ UNCHANGED <<permits, pending>>
     \/ /\ QueueClosed
        /\ End(c, ErrorReply("TransportClosed")) /\ UNCHANGED outq
     \/ /\ ~QueueClosed /\ QueueFull /\ call[c].op = "Invoke"
        /\ End(c, ErrorReply("Overloaded")) /\ UNCHANGED outq
  /\ UNCHANGED <<state, terminal_error, limits, next_id, highest_issued, force,
                 actor_stop, shutdown_acked, live, stdin, stdout, actors, owner,
                 watcher>>

\* The oneshot resolves; the registration is disarmed, so pending is left alone.
Receive(c) ==
  /\ At(c, "wait") /\ call[c].got # NoMsg
  /\ call' = [call EXCEPT ![c] = Outcome(c, call[c].got)]
  /\ permits' = permits + 1
  /\ UNCHANGED <<state, terminal_error, limits, pending, next_id, highest_issued,
                 force, actor_stop, shutdown_acked, live, channels, actors, owner,
                 watcher>>

CallStep(c) == Insert(c) \/ Recheck(c) \/ Send(c) \/ Receive(c)

\* A request future can only be dropped where it awaits.
Awaiting(c) == call[c].pc \in {"send", "wait"}

-----------------------------------------------------------------------------
(***************************************************************************)
(* Remote invocations, admitted while the plugin's generation is active.   *)
(***************************************************************************)
\* A request too large, outside Ready, without a permit or without an id
\* returns its error at once and leaves nothing behind.
InvokeBegin(i, size) ==
  /\ owner.phase = "running" /\ At(i, "idle")
  /\ size <= limits.request /\ state = "Ready"
  /\ AllocateRequestId(i, "Invoke", size)
  /\ UNCHANGED <<state, terminal_error, limits, pending, highest_issued, force,
                 actor_stop, shutdown_acked, live, channels, actors, owner, watcher>>

\* RemoteInvokeGuard::drop: the entry goes first, then a Cancel if it fits.
InvokeDrop(i) ==
  /\ At(i, "wait")
  /\ permits' = permits + 1
  /\ pending' = pending \ {call[i].id}
  /\ outq' = IF state \in {"Ready", "Draining"} /\ ~QueueClosed /\ ~QueueFull
             THEN Append(outq, Msg("Cancel", call[i].id, 1, 0, "ok")) ELSE outq
  /\ call' = [call EXCEPT ![i] = Idle]
  /\ UNCHANGED <<state, terminal_error, limits, next_id, highest_issued, force,
                 actor_stop, shutdown_acked, live, stdin, stdout, actors, owner,
                 watcher>>

-----------------------------------------------------------------------------
(***************************************************************************)
(* The session owner.  Its drop cancels the request under way and forces   *)
(* the child's termination.                                                *)
(***************************************************************************)
Phase(p) == owner' = [owner EXCEPT !.phase = p]
Reply == call["owner"].got
Answered == At("owner", "ended")

SessionOwnerDrop ==
  /\ Phase("dropped")
  /\ force' = TRUE
  /\ call' = [call EXCEPT !["owner"] = Idle]
  /\ permits' = IF HoldsPermit("owner") THEN permits + 1 ELSE permits
  /\ pending' = IF Registered("owner") THEN pending \ {call["owner"].id} ELSE pending
  /\ UNCHANGED <<state, terminal_error, limits, next_id, highest_issued, actor_stop,
                 shutdown_acked, live, channels, actors, watcher>>

Handshake ==
  /\ owner.phase = "spawned"
  /\ Transition("Created", "Handshaking")
  /\ Request("Hello", 1, "Handshaking")
  /\ Phase("hello")
  /\ UNCHANGED <<terminal_error, limits, pending, highest_issued, force, actor_stop,
                 shutdown_acked, live, channels, actors, watcher>>

\* The minimum of the local and the offered limits.
Least(a, b) == [f \in DOMAIN a |-> IF a[f] < b[f] THEN a[f] ELSE b[f]]

\* A HelloAck of another version or feature set is refused like a zero limit.
Compatible(l) == l.frame > 0 /\ l.artifact > 0 /\ l.inflight > 0

\* Mutant: the limits are recorded but the semaphore keeps its size.
ApplyNegotiatedUnshrunk ==
  LET l == Least(limits, Reply.limits)
  IN /\ owner.phase = "hello" /\ Answered
     /\ Reply.kind = "HelloAck" /\ Compatible(l)
     /\ UNCHANGED permits
     /\ limits' = l
     /\ Transition("Handshaking", "Ready")
     /\ Phase("negotiated")
     /\ call' = [call EXCEPT !["owner"] = Idle]
     /\ UNCHANGED <<terminal_error, pending, next_id, highest_issued, force,
                    actor_stop, shutdown_acked, live, channels, actors, watcher>>

\* apply_negotiated: shrink the semaphore, fix the limits, become Ready.
ApplyNegotiated ==
  LET l == Least(limits, Reply.limits)
      shrink == limits.inflight - l.inflight
  IN /\ owner.phase = "hello" /\ Answered
     /\ Reply.kind = "HelloAck" /\ Compatible(l) /\ shrink <= permits
     /\ permits' = permits - shrink
     /\ limits' = l
     /\ Transition("Handshaking", "Ready")
     /\ Phase("negotiated")
     /\ call' = [call EXCEPT !["owner"] = Idle]
     /\ UNCHANGED <<terminal_error, pending, next_id, highest_issued, force,
                    actor_stop, shutdown_acked, live, channels, actors, watcher>>

LoadBegin(size) ==
  /\ owner.phase = "negotiated" /\ size <= limits.artifact
  /\ Request("Load", size, state)
  /\ Phase("load")
  /\ UNCHANGED <<state, terminal_error, limits, pending, highest_issued, force,
                 actor_stop, shutdown_acked, live, channels, actors, watcher>>

LoadEnd ==
  /\ owner.phase = "load" /\ Answered /\ Reply.kind = "Loaded"
  /\ Phase("proxy")
  /\ call' = [call EXCEPT !["owner"] = Idle]
  /\ UNCHANGED <<inner, channels, actors, watcher>>

(***************************************************************************)
(* ProcessHost::load returns an error, times out or is dropped by its      *)
(* observer, or the proxy is dropped unstarted, or the Context refuses the *)
(* cleanup effect: in each case the owner is dropped armed.                *)
(***************************************************************************)
LoadAbandoned ==
  /\ owner.phase \in {"spawned", "hello", "negotiated", "load", "proxy"}
  /\ At("owner", "idle") \/ Answered \/ Awaiting("owner")
  /\ SessionOwnerDrop

\* The errors of load that no user causes.
LoadFailed ==
  /\ \/ owner.phase = "spawned" /\ state # "Created"
     \/ /\ owner.phase = "hello" /\ Answered
        /\ \/ Reply.kind # "HelloAck" \/ state # "Handshaking"
           \/ ~Compatible(Least(limits, Reply.limits))
     \/ owner.phase = "negotiated" /\ \E n \in LoadSizes : n > limits.artifact
     \/ owner.phase = "load" /\ Answered /\ Reply.kind # "Loaded"
  /\ LoadAbandoned

\* The owner is in the Fiber's effect before Start is sent.
StartBegin ==
  /\ owner.phase = "proxy"
  /\ Request("Start", 1, state)
  /\ Phase("start")
  /\ UNCHANGED <<state, terminal_error, limits, pending, highest_issued, force,
                 actor_stop, shutdown_acked, live, channels, actors, watcher>>

StartEnd ==
  /\ owner.phase = "start" /\ Answered /\ Reply.kind = "Started"
  /\ Phase("running")
  /\ call' = [call EXCEPT !["owner"] = Idle]
  /\ watcher' = [pc |-> "check", notified |-> FALSE]
  /\ UNCHANGED <<inner, channels, actors>>

(***************************************************************************)
(* SessionOwner::cleanup_until runs as an effect of the disposed Fiber,    *)
(* after the generation's leases drained: Dispose, Shutdown, then join.    *)
(* An error of one request does not skip the next.                         *)
(***************************************************************************)
BeginCleanup ==
  /\ \E d \in BOOLEAN : owner' = [owner EXCEPT !.phase = "dispose", !.deadline = d]
  /\ Request("Dispose", 1, state)
  /\ watcher' = [pc |-> "off", notified |-> FALSE]
  /\ UNCHANGED <<state, terminal_error, limits, pending, highest_issued, force,
                 actor_stop, shutdown_acked, live, channels, actors>>

StartFailed == owner.phase = "start" /\ Answered /\ BeginCleanup

Quiet == \A i \in Invokers : At(i, "idle")
Disposed == owner.phase = "running" /\ Quiet /\ BeginCleanup
FailureConverges == watcher.pc = "reported" /\ Disposed

ShutdownBegin ==
  /\ owner.phase = "dispose" /\ Answered
  /\ IF state = "Ready"
     THEN /\ Transition("Ready", "Draining")
          /\ Request("Shutdown", 1, "Draining")
          /\ Phase("shutdown")
     ELSE /\ owner' = [owner EXCEPT !.phase = "join", !.shutdown = "error"]
          /\ call' = [call EXCEPT !["owner"] = Idle]
          /\ UNCHANGED <<state, permits, next_id>>
  /\ UNCHANGED <<terminal_error, limits, pending, highest_issued, force, actor_stop,
                 shutdown_acked, live, channels, actors, watcher>>

ShutdownEnd ==
  /\ owner.phase = "shutdown" /\ Answered
  /\ owner' = [owner EXCEPT !.phase = "join",
                 !.shutdown = IF Reply.kind = "ShutdownAck" THEN "ok" ELSE "error"]
  /\ shutdown_acked' = (shutdown_acked \/ Reply.kind = "ShutdownAck")
  /\ call' = [call EXCEPT !["owner"] = Idle]
  /\ UNCHANGED <<state, terminal_error, limits, pending, permits, next_id,
                 highest_issued, force, actor_stop, live, channels, actors, watcher>>

\* wait_completion: the supervisor is joined and the owner disarmed.
WaitCompletion ==
  /\ owner.phase = "join" /\ supervisor = "exited"
  /\ Phase("done")
  /\ UNCHANGED <<inner, channels, actors, call, watcher>>

DeadlineExpires ==
  /\ owner.phase \in CleanupPhases /\ owner.deadline
  /\ At("owner", "idle") \/ Answered \/ Awaiting("owner")
  /\ SessionOwnerDrop

OwnerStep ==
  \/ Handshake \/ ApplyNegotiated \/ \E n \in LoadSizes : LoadBegin(n)
  \/ LoadEnd \/ StartEnd \/ StartFailed
  \/ LoadFailed \/ FailureConverges \/ ShutdownBegin \/ ShutdownEnd \/ WaitCompletion

-----------------------------------------------------------------------------
(***************************************************************************)
(* wait_for_failure: the Fiber's watcher task.  A Notified future receives *)
(* every notify_waiters after its creation.                                *)
(***************************************************************************)
WatcherSees(next) ==
  watcher' = [watcher EXCEPT
    !.pc = CASE state = "Failed" -> "reported" [] state = "Closed" -> "off"
             [] OTHER -> next,
    !.notified = FALSE]

WatcherCheck == watcher.pc = "check" /\ WatcherSees("recheck")
WatcherRecheck ==
  /\ watcher.pc = "recheck"
  /\ IF state \in Terminal THEN WatcherSees("off")
     ELSE watcher' = [watcher EXCEPT !.pc = "wait"]
WatcherWake ==
  /\ watcher.pc = "wait" /\ watcher.notified
  /\ watcher' = [pc |-> "check", notified |-> FALSE]

WaitForFailure ==
  /\ WatcherCheck \/ WatcherRecheck \/ WatcherWake
  /\ UNCHANGED <<inner, channels, actors, call, owner>>

-----------------------------------------------------------------------------
(***************************************************************************)
(* writer_task                                                             *)
(***************************************************************************)
WriteLimit(m) ==
  IF state \in {"Created", "Handshaking"}
  THEN IF HandshakeMax < ControlMax THEN HandshakeMax ELSE ControlMax
  ELSE IF IsControl(m.kind) /\ ControlMax < limits.frame THEN ControlMax
  ELSE limits.frame

WriterExit == writer' = [pc |-> "exited", msg |-> NoMsg] /\ outq' = <<>>

WriterStop ==
  /\ writer.pc = "recv" /\ actor_stop
  /\ WriterExit
  /\ UNCHANGED <<inner, stdin, stdout, reader, supervisor, child, clients>>

\* A failed write or encoding ends the task, after the pending requests are
\* resolved if this failure is the one that ended the session.
WriterFails(error, rest) ==
  /\ TransitionToFailed(error)
  /\ outq' = IF state \in Terminal THEN <<>> ELSE rest
  /\ writer' = [pc |-> IF state \in Terminal THEN "exited" ELSE "resolve", msg |-> NoMsg]

WriterRecv ==
  /\ writer.pc = "recv" /\ outq # <<>>
  /\ LET e == Encode(Head(outq), WriteLimit(Head(outq))) IN
     IF e.ok THEN /\ writer' = [pc |-> "write", msg |-> Head(outq)]
                  /\ outq' = Tail(outq)
                  /\ UNCHANGED <<state, terminal_error>>
     ELSE WriterFails(e.error, Tail(outq))
  /\ UNCHANGED <<limits, pending, permits, next_id, highest_issued, force, actor_stop,
                 shutdown_acked, live, stdin, stdout, reader, supervisor, child,
                 clients>>

\* The write is not cancelled by actor_stop: it ends when the pipe takes the
\* frame or breaks.
WriterWrite ==
  /\ writer.pc = "write"
  /\ \/ /\ child = "running" /\ Cardinality(stdin) < PipeCap
        /\ stdin' = stdin \cup {Frame(writer.msg)}
        /\ writer' = [pc |-> "recv", msg |-> NoMsg]
        /\ UNCHANGED <<state, terminal_error, outq>>
     \/ /\ child # "running"
        /\ WriterFails("TransportClosed", outq)
        /\ UNCHANGED stdin
  /\ UNCHANGED <<limits, pending, permits, next_id, highest_issued, force, actor_stop,
                 shutdown_acked, live, stdout, reader, supervisor, child,
                 clients>>

WriterResolve ==
  /\ writer.pc = "resolve"
  /\ ResolvePending(pending, terminal_error)
  /\ WriterExit
  /\ UNCHANGED <<state, terminal_error, limits, permits, next_id, highest_issued,
                 shutdown_acked, live, stdin, stdout, reader, supervisor, child,
                 owner>>

WriterStep == WriterStop \/ WriterRecv \/ WriterWrite \/ WriterResolve

-----------------------------------------------------------------------------
(***************************************************************************)
(* reader_task.  The limit is computed before the frame is awaited.        *)
(***************************************************************************)
ReadLimit ==
  IF state \in {"Created", "Handshaking"}
  THEN IF HandshakeMax < ControlMax THEN HandshakeMax ELSE ControlMax
  ELSE limits.frame

ReaderLimit ==
  /\ reader.pc = "limit"
  /\ reader' = [Stopped EXCEPT !.pc = "read", !.limit = ReadLimit]
  /\ UNCHANGED <<inner, channels, writer, supervisor, child, clients>>

ReaderExit == reader' = Stopped /\ stdout' = <<>>

ReaderStop ==
  /\ reader.pc = "read" /\ actor_stop
  /\ ReaderExit
  /\ UNCHANGED <<inner, outq, stdin, writer, supervisor, child, clients>>

\* The request whose oneshot waits under this id.
Waiter(id) == CHOOSE c \in Callers : Registered(c) /\ call[c].id = id

Answer(id, m) == call' = [call EXCEPT ![Waiter(id)].got = m]

(***************************************************************************)
(* The reader fails the session.  Request id, if not 0, was taken out of   *)
(* the pending map and is answered after the others are.                   *)
(***************************************************************************)
ReaderFails(error, id) ==
  /\ TransitionToFailed(error)
  /\ pending' = pending \ {id}
  /\ IF state \in Terminal
     THEN /\ ReaderExit
          /\ IF id = 0 THEN UNCHANGED call ELSE Answer(id, ErrorReply(error))
     ELSE /\ reader' = [Stopped EXCEPT !.pc = "resolve", !.hand = id]
          /\ stdout' = <<>> /\ UNCHANGED call
  /\ UNCHANGED shutdown_acked

\* read_frame failed: not a failure of a closed or acknowledged session.
ReadError(error) ==
  IF state # "Closed" /\ ~shutdown_acked THEN ReaderFails(error, 0)
  ELSE ReaderExit /\ UNCHANGED <<state, terminal_error, pending, call, shutdown_acked>>

\* The loop goes round: the next frame is awaited under a new limit.
Continue == reader' = [Stopped EXCEPT !.pc = "limit"] /\ stdout' = Tail(stdout)

(***************************************************************************)
(* dispatch_response: a future id is a violation, an id that is no longer  *)
(* pending is a late or duplicate reply, a reply of the wrong kind and a   *)
(* terminal failure reported by the peer end the session.  The reply to    *)
(* Shutdown marks it acknowledged.                                         *)
(***************************************************************************)
DispatchResponse(m) ==
  \/ m.id > highest_issued /\ ReaderFails("ProtocolViolation", 0)
  \/ /\ m.id <= highest_issued /\ m.id \notin pending
     /\ Continue
     /\ UNCHANGED <<state, terminal_error, pending, call, shutdown_acked>>
  \/ /\ m.id <= highest_issued /\ m.id \in pending
     /\ LET op == call[Waiter(m.id)].op IN
        \/ ~Accepts(op, m) /\ ReaderFails("ProtocolViolation", m.id)
        \/ Accepts(op, m) /\ SessionTerminal(m.report) /\ ReaderFails(m.report, m.id)
        \/ /\ Accepts(op, m) /\ ~SessionTerminal(m.report)
           /\ pending' = pending \ {m.id}
           /\ Answer(m.id, m)
           /\ shutdown_acked' = (shutdown_acked \/ op = "Shutdown")
           /\ Continue
           /\ UNCHANGED <<state, terminal_error>>

\* One frame: its length against the limit, the control bound, decode, dispatch.
HandleFrame(f) ==
  IF f.body = "eof" THEN ReadError("TransportClosed")
  ELSE IF f.len > reader.limit THEN ReadError("MessageTooLarge")
  ELSE IF PayloadIsControl(f) /\ f.len > ControlMax THEN ReaderFails("MessageTooLarge", 0)
  ELSE LET d == Decode(f, limits) IN
       IF d.ok THEN DispatchResponse(d.value) ELSE ReaderFails(d.error, 0)

ReadFrame ==
  /\ reader.pc = "read"
  /\ \/ stdout # <<>> /\ HandleFrame(Head(stdout))
     \/ stdout = <<>> /\ child # "running" /\ HandleFrame(EndOfOutput)
  /\ UNCHANGED <<limits, permits, next_id, highest_issued, force, actor_stop, live,
                 outq, stdin, writer, supervisor, child, owner, watcher>>

ReaderResolve ==
  /\ reader.pc = "resolve"
  /\ ResolvePending(pending \cup {reader.hand}, terminal_error)
  /\ ReaderExit
  /\ UNCHANGED <<state, terminal_error, limits, permits, next_id, highest_issued,
                 shutdown_acked, live, outq, stdin, writer, supervisor, child, owner>>

ReaderStep == ReaderLimit \/ ReaderStop \/ ReadFrame \/ ReaderResolve

-----------------------------------------------------------------------------
(***************************************************************************)
(* supervisor_task: the child's exit or the force signal, whichever it     *)
(* takes first; then the actors are stopped and joined.                    *)
(***************************************************************************)
SupervisorEnds(transition) ==
  /\ transition
  /\ IF state \in Terminal
     THEN supervisor' = "join" /\ actor_stop' = TRUE
     ELSE supervisor' = "resolve" /\ UNCHANGED actor_stop

\* The exit status is known when the child is waited for.
ChildWaited ==
  /\ supervisor = "select" /\ child = "exited"
  /\ child' \in {"success", "failure"}
  /\ SupervisorEnds(IF child' = "success" /\ shutdown_acked THEN TransitionToClosed
                    ELSE TransitionToFailed("ProcessExited"))
  /\ UNCHANGED <<limits, pending, permits, next_id, highest_issued, force,
                 shutdown_acked, live, channels, reader, writer, clients>>

\* child.kill and wait; the status is not looked at.
ForceKill ==
  /\ supervisor = "select" /\ force
  /\ child' = "killed"
  /\ stdin' = {}
  /\ supervisor' = "killed"
  /\ UNCHANGED <<inner, outq, stdout, reader, writer, clients>>

ForceReaped ==
  /\ supervisor = "killed"
  /\ SupervisorEnds(TransitionToFailed("ProcessKilled"))
  /\ UNCHANGED <<limits, pending, permits, next_id, highest_issued, force,
                 shutdown_acked, live, channels, reader, writer, child, clients>>

SupervisorResolve ==
  /\ supervisor = "resolve"
  /\ ResolvePending(pending, IF state = "Failed" THEN terminal_error ELSE "Unavailable")
  /\ supervisor' = "join"
  /\ UNCHANGED <<state, terminal_error, limits, permits, next_id, highest_issued,
                 shutdown_acked, live, channels, reader, writer, child, owner>>

\* publish_actors_done, then the flag Runtime's host registry reads
SupervisorJoin ==
  /\ supervisor = "join" /\ reader.pc = "exited" /\ writer.pc = "exited"
  /\ live' = FALSE
  /\ supervisor' = "exited"
  /\ UNCHANGED <<state, terminal_error, limits, pending, permits, next_id,
                 highest_issued, force, actor_stop, shutdown_acked, channels, reader,
                 writer, child, clients>>

SupervisorStep ==
  \/ ChildWaited \/ ForceKill \/ ForceReaped \/ SupervisorResolve \/ SupervisorJoin

-----------------------------------------------------------------------------
(***************************************************************************)
(* The child (external).  It takes requests in any order and answers with  *)
(* the success kind, twice, with a reported failure, with a frame it has   *)
(* no reason to send (another kind, a future id, a body with trailing      *)
(* bytes, the end of its output) or not at all.  What it does after the    *)
(* reader is gone has no effect and is left out.                           *)
(***************************************************************************)
Successes(f) ==
  LET k == KindOfTag(f.tag)
      ok(len) == Msg(SuccessKind[k], f.id, len, IF k = "Invoke" THEN len ELSE 0, "ok")
  IN CASE k = "Hello" -> {[ok(1) EXCEPT !.limits = l] : l \in PeerLimits}
       [] k \in {"Invoke", "Load"} -> {ok(len) : len \in ReplySizes}
       [] k = "Cancel" -> {}
       [] OTHER -> {ok(1)}

Failures(f) ==
  CASE f.tag = Tag["Invoke"] -> {Msg("InvokeResult", f.id, 1, 1, r) : r \in PeerReports}
    [] f.tag = Tag["Cancel"] -> {}
    [] OTHER -> {Msg("Failure", f.id, 1, 0, r) : r \in PeerReports}

Faulty(f) ==
  {Frame(Msg("Started", next_id, 1, 0, "ok")),
   [Frame(Msg("Disposed", f.id, 1, 0, "ok")) EXCEPT
      !.body = IF f.tag = Tag["Dispose"] THEN "trailing" ELSE "whole"],
   EndOfOutput}

Answers(f) ==
  {<<>>} \cup {<<Frame(m)>> : m \in Successes(f) \cup Failures(f)}
         \cup {<<Frame(m), Frame(m)>> : m \in {s \in Successes(f) : f.tag = Tag["Invoke"]}}
         \cup {<<bad>> : bad \in Faulty(f)}

PeerTake(f) ==
  /\ child = "running" /\ f \in stdin /\ reader.pc # "exited"
  /\ stdin' = stdin \ {f}
  /\ \E a \in Answers(f) : /\ Len(stdout) + Len(a) <= OutputCap
                           /\ stdout' = stdout \o a
  /\ UNCHANGED <<inner, outq, actors, clients>>

PeerExit ==
  /\ child = "running"
  /\ child' = "exited"
  /\ stdin' = {}
  /\ UNCHANGED <<inner, outq, stdout, reader, writer, supervisor, clients>>

Peer == PeerExit \/ \E f \in stdin : PeerTake(f)

-----------------------------------------------------------------------------
User ==
  \/ \E i \in Invokers, n \in InvokeSizes : InvokeBegin(i, n)
  \/ \E i \in Invokers : InvokeDrop(i)
  \/ LoadAbandoned \/ StartBegin \/ Disposed \/ DeadlineExpires

\* A session whose owner is done or gone and whose actors ended is over.
Over == supervisor = "exited" /\ owner.phase \in {"done", "dropped"} /\ Quiet
Finished == Over /\ UNCHANGED vars

Next ==
  \/ User \/ Peer \/ OwnerStep \/ WaitForFailure
  \/ ReaderStep \/ WriterStep \/ SupervisorStep
  \/ \E c \in Callers : CallStep(c)
  \/ Finished

Spec == Init /\ [][Next]_vars

(***************************************************************************)
(* Fairness.  The executor polls every ready task: the actors, the owner,  *)
(* the watcher and each call.  Nothing is asked of the child or of users,  *)
(* except that a deadline, once set, passes.                               *)
(***************************************************************************)
FairSpec ==
  /\ Spec
  /\ WF_vars(ReaderStep) /\ WF_vars(WriterStep) /\ WF_vars(SupervisorStep)
  /\ WF_vars(OwnerStep \/ CallStep("owner"))
  /\ WF_vars(WaitForFailure) /\ WF_vars(DeadlineExpires)
  /\ \A i \in Invokers : WF_vars(CallStep(i))

-----------------------------------------------------------------------------
(***************************************************************************)
(* Properties                                                              *)
(***************************************************************************)
Messages == [kind : Kinds \cup {"none", "error"}, id : 0..MaxId, len : Nat,
             nested : Nat, report : Reports, limits : [DOMAIN NoLimits -> Nat]]

\* Every variable has the type its Rust field or task-local gives it.
TypeOK ==
  /\ state \in SessionStates /\ terminal_error \in HostKinds \cup {"none"}
  /\ limits \in [DOMAIN NoLimits -> Nat]
  /\ pending \subseteq 1..MaxId /\ permits \in 0..LocalLimits.inflight
  /\ next_id \in 1..MaxId /\ highest_issued \in 0..MaxId
  /\ {force, actor_stop, shutdown_acked, live} \subseteq BOOLEAN
  /\ Len(outq) <= QueueCap /\ \A n \in DOMAIN outq : outq[n] \in Messages
  /\ Cardinality(stdin) <= PipeCap /\ Len(stdout) <= OutputCap
  /\ reader.pc \in {"limit", "read", "resolve", "exited"}
  /\ writer.pc \in {"recv", "write", "resolve", "exited"}
  /\ supervisor \in {"select", "killed", "resolve", "join", "exited"}
  /\ child \in {"running", "exited", "success", "failure", "killed"}
  /\ \A c \in Callers : call[c].pc \in CallPCs /\ call[c].got \in Messages
  /\ owner.phase \in OwnerPhases
  /\ watcher.pc \in {"off", "check", "recheck", "wait", "reported"}

(***************************************************************************)
(* The semaphore and the requests under way always add up to the inflight  *)
(* limit in force, through cancellation, overload and the shrinking of the *)
(* semaphore at negotiation, so pending never exceeds that limit.          *)
(***************************************************************************)
PermitsConserved ==
  /\ permits + Cardinality({c \in Callers : HoldsPermit(c)}) = limits.inflight
  /\ Cardinality(pending) <= limits.inflight

\* An actor decided the terminal state and has yet to resolve the requests.
Resolving == "resolve" \in {reader.pc, writer.pc, supervisor}

(***************************************************************************)
(* A request that waits has its answer, or its entry is with the reader or *)
(* in the pending map of a session that someone will still read or         *)
(* resolve; and every entry has a request that waits.  No race of a        *)
(* registration with a terminal transition strands a caller.               *)
(***************************************************************************)
NoOrphanCall ==
  /\ \A c \in Callers : At(c, "wait") =>
       \/ call[c].id \in pending /\ (state \notin Terminal \/ Resolving)
       \/ call[c].got # NoMsg
       \/ reader.hand = call[c].id
  /\ \A id \in pending : \E c \in Callers : Registered(c) /\ call[c].id = id

(***************************************************************************)
(* No identity that left the allocator and reached the queue or the child  *)
(* lies above the high-watermark, so an honest reply is never taken for a  *)
(* response with a future id, however allocations interleave.              *)
(***************************************************************************)
IssuedNotFuture ==
  \A id \in {outq[n].id : n \in DOMAIN outq} \cup {f.id : f \in stdin} :
    id <= highest_issued

(***************************************************************************)
(* A caller receives a reply to its own request: of the id it was issued   *)
(* and of a kind that answers it, or a local error.                        *)
(***************************************************************************)
Correlated ==
  \A c \in Callers : call[c].got.kind \notin {"none", "error"} =>
    /\ \/ call[c].got.kind = SuccessKind[call[c].op]
       \/ call[c].op # "Invoke" /\ call[c].got.kind = "Failure"
    /\ call[c].pc = "wait" => call[c].got.id = call[c].id
    /\ ~SessionTerminal(call[c].got.report)

(***************************************************************************)
(* Closed and Failed are final, the error of the first failure stays, and  *)
(* no other state is entered but from its predecessor.  Closed is entered  *)
(* only when the Shutdown request was answered and the child exited        *)
(* successfully.                                                           *)
(***************************************************************************)
TerminalFinal ==
  [][/\ state \in Terminal => state' = state /\ terminal_error' = terminal_error
     /\ state' = "Ready" /\ state # "Ready" => state = "Handshaking"
     /\ state' = "Closed" /\ state # "Closed" =>
          state = "Draining" /\ shutdown_acked /\ child' = "success"]_vars

(***************************************************************************)
(* A session that fails or closes ends: every request is answered, an      *)
(* active plugin is reported to its Fiber and cleaned up, the child and    *)
(* the three actors are gone before the end is published.  Only a proxy    *)
(* nobody started may stay.  Dropping the owner, at whatever point of load *)
(* or cleanup, and a cleanup with a deadline come to that end whatever the *)
(* child does.                                                             *)
(***************************************************************************)
SessionEnds ==
  /\ state \in Terminal ~> /\ ~live /\ Quiet
                           /\ child # "running" /\ reader.pc = "exited" /\ writer.pc = "exited"
                           /\ owner.phase \in {"proxy", "done", "dropped"}
  /\ (owner.phase = "dropped" \/ (owner.phase \in CleanupPhases /\ owner.deadline))
       ~> (~live /\ owner.phase \in {"done", "dropped"})

(***************************************************************************)
(* "Clean Closed requires a matching ShutdownAck, a successful child exit, *)
(* and reap" (HOST_STATE_MACHINE.md): a cleanup that ends in Closed saw    *)
(* its Shutdown request acknowledged.                                      *)
(***************************************************************************)
ClosedIsAcknowledged ==
  state = "Closed" /\ owner.phase = "done" => owner.shutdown = "ok"

(***************************************************************************)
(* "Load/Loaded remain governed by artifact, descriptor, and frame bounds" *)
(* (HOST_PROTOCOL.md): once the session is negotiated, a frame within the  *)
(* frame limit is not refused for its length when the load awaits it.      *)
(***************************************************************************)
NegotiatedFrameAccepted ==
  (reader.pc = "read" /\ owner.phase = "load" /\ stdout # <<>>) =>
    (Head(stdout).len <= limits.frame => Head(stdout).len <= reader.limit)
=============================================================================
