-------------------------- MODULE HostSessionProofs --------------------------
(***************************************************************************)
(* Theorems about one process host session (HostSession): no request is    *)
(* stranded, the semaphore and the pending map stay in step with the       *)
(* requests under way, replies reach the request they answer, no identity  *)
(* in the pipe is in the future and the terminal state is final, for any   *)
(* number of invocations, any limits and any answers of the child.         *)
(***************************************************************************)
EXTENDS HostSession, FiniteSetTheorems, SequenceTheorems, TLAPS

-----------------------------------------------------------------------------
(***************************************************************************)
(* The inductive invariant.  First the types, with the fields of the       *)
(* records.                                                                *)
(***************************************************************************)
LimitRec == [frame : Nat, artifact : Nat, request : Nat, response : Nat, inflight : Nat]
MsgRec == [kind : Kinds \cup {"none", "error"}, id : 0..MaxId, len : Nat,
           nested : Nat, report : Reports, limits : LimitRec]
RequestTags == {1, 3, 5, 7, 9, 12, 14}
Categories == {0, 1, 2}
FrameRec == [tag : 0..14, id : 0..MaxId, len : Nat, nested : Nat, category : Categories,
             code : KnownCodes, body : {"whole", "trailing", "eof"}, limits : LimitRec]
CallRec == [op : Requests \cup {"none"}, pc : CallPCs, id : 0..MaxId, size : Nat,
            got : MsgRec]
ReaderRec == [pc : {"limit", "read", "resolve", "exited"}, limit : Nat, hand : 0..MaxId]
WriterRec == [pc : {"recv", "write", "resolve", "exited"}, msg : MsgRec]
OwnerRec == [phase : OwnerPhases, deadline : BOOLEAN, shutdown : {"none", "ok", "error"}]
WatcherRec == [pc : {"off", "check", "recheck", "wait", "reported"}, notified : BOOLEAN]

SessionTyped ==
  /\ state \in SessionStates /\ terminal_error \in HostKinds \cup {"none"}
  /\ force \in BOOLEAN /\ actor_stop \in BOOLEAN
  /\ shutdown_acked \in BOOLEAN /\ live \in BOOLEAN
TableTyped ==
  /\ limits \in LimitRec /\ pending \subseteq 0..MaxId /\ permits \in Nat
  /\ next_id \in 1..MaxId /\ highest_issued \in 0..MaxId
  /\ call \in [Callers -> CallRec]
ActorsTyped ==
  /\ reader \in ReaderRec /\ writer \in WriterRec
  /\ supervisor \in {"select", "killed", "resolve", "join", "exited"}
  /\ child \in {"running", "exited", "success", "failure", "killed"}
  /\ owner \in OwnerRec /\ watcher \in WatcherRec

\* The channels: requests on their way to the child, its frames on their way
\* back, and no request id above the watermark.
Outbound(m) == m \in MsgRec /\ m.kind \in Requests /\ m.id <= highest_issued
ChannelInv ==
  /\ outq \in Seq(MsgRec) /\ Len(outq) <= QueueCap
  /\ \A n \in DOMAIN outq : Outbound(outq[n])
  /\ writer.pc = "write" => Outbound(writer.msg)
  /\ stdin \subseteq FrameRec /\ IsFiniteSet(stdin) /\ Cardinality(stdin) <= PipeCap
  /\ \A f \in stdin : f.tag \in RequestTags /\ f.id <= highest_issued
  /\ stdout \in Seq(FrameRec) /\ Len(stdout) <= OutputCap

(***************************************************************************)
(* Which requests the owner and the invokers make.  Shutdown is requested  *)
(* by an owner whose session is draining or ended, so an acknowledged      *)
(* session can only end.                                                   *)
(***************************************************************************)
Asking == {"hello", "load", "start", "dispose", "shutdown"}
Leaving == {"Draining"} \cup Terminal
OwnerInv ==
  /\ \A i \in Invokers : call[i].op \in {"none", "Invoke"}
  /\ owner.phase \notin Asking => ~HoldsPermit("owner")
  /\ call["owner"].op = "Shutdown" => owner.phase = "shutdown"
  /\ owner.phase = "shutdown" \/ shutdown_acked => state \in Leaving

(***************************************************************************)
(* The requests under way.  Open says that the pending map will be read or *)
(* resolved; a request that was sent relies on it until it has its answer. *)
(***************************************************************************)
Open == state \notin Terminal \/ Resolving
Answering(op, m) ==
  /\ m.kind = SuccessKind[op] \/ (op # "Invoke" /\ m.kind = "Failure")
  /\ ~SessionTerminal(m.report)
IsReply(m) == m.kind \notin {"none", "error"}

CallOK(c) ==
  /\ HoldsPermit(c) => call[c].id \in 1..(next_id - 1) /\ call[c].op \in Requests \ {"Cancel"}
  /\ call[c].pc = "insert" => call[c].got = NoMsg
  /\ Registered(c) => /\ call[c].id <= highest_issued
                      /\ \/ call[c].id \in pending \/ call[c].got # NoMsg
                         \/ reader.hand = call[c].id
                      /\ call[c].got # NoMsg => call[c].id \notin pending
  /\ call[c].pc \in {"send", "wait"} /\ call[c].id \in pending => Open
  /\ IsReply(call[c].got) => /\ Answering(call[c].op, call[c].got)
                             /\ Registered(c) => call[c].got.id = call[c].id

Distinct ==
  \A c, d \in Callers : HoldsPermit(c) /\ HoldsPermit(d) /\ call[c].id = call[d].id => c = d
Owned == \A id \in pending : \E c \in Callers : Registered(c) /\ call[c].id = id
Holders == {c \in Callers : HoldsPermit(c)}
Counted ==
  /\ IsFiniteSet(Holders) /\ permits + Cardinality(Holders) = limits.inflight
  /\ limits.inflight <= LocalLimits.inflight

CallsInv ==
  /\ \A c \in Callers : CallOK(c)
  /\ Distinct /\ Owned /\ Counted
  /\ highest_issued < next_id
  /\ reader.pc # "resolve" => reader.hand = 0

\* A session failed for a reason, and an actor resolves for the failure it decided.
FailureInv ==
  /\ state = "Failed" => terminal_error # "none"
  /\ reader.pc = "resolve" \/ writer.pc = "resolve" => state = "Failed"

SessionInv ==
  /\ SessionTyped /\ TableTyped /\ ActorsTyped /\ FailureInv
  /\ ChannelInv /\ OwnerInv /\ CallsInv

-----------------------------------------------------------------------------
(***************************************************************************)
(* What a step does to the requests under way.  Each step of the session   *)
(* is one of these; the invariant of the requests is proved for them.      *)
(***************************************************************************)
Others(c) == \A d \in Callers : d # c => call'[d] = call[d]
Same(c) == call'[c].op = call[c].op /\ call'[c].id = call[c].id
IdsStay == next_id' = next_id /\ highest_issued' = highest_issued
HandRight == reader.pc # "resolve" => reader.hand = 0
HandStays == reader'.hand = reader.hand /\ (Open => Open')

\* No request is touched.
Rests ==
  /\ call' = call /\ pending' = pending /\ permits' = permits /\ limits' = limits
  /\ IdsStay /\ HandStays

\* The request of c is over: it gives back its permit and its entry.
Returns(c) ==
  /\ Others(c) /\ call'[c].pc \in {"idle", "ended"}
  /\ IsReply(call'[c].got) => Answering(call'[c].op, call'[c].got)
  /\ pending' = IF Registered(c) THEN pending \ {call[c].id} ELSE pending
  /\ permits' - limits'.inflight
       = (permits - limits.inflight) + (IF HoldsPermit(c) THEN 1 ELSE 0)
  /\ limits'.inflight <= limits.inflight
  /\ IdsStay /\ HandStays

\* A request of c takes a permit and an id.
Begins(c) ==
  /\ ~HoldsPermit(c) /\ Others(c)
  /\ call'[c].pc = "insert" /\ call'[c].id = next_id /\ call'[c].got = NoMsg
  /\ call'[c].op \in Requests \ {"Cancel"}
  /\ permits' = permits - 1 /\ next_id' = next_id + 1
  /\ pending' = pending /\ limits' = limits /\ highest_issued' = highest_issued /\ HandStays

\* The id is published and the entry is made.
Inserts(c) ==
  /\ call[c].pc = "insert" /\ Others(c)
  /\ call'[c].pc = "recheck" /\ Same(c) /\ call'[c].got = call[c].got
  /\ pending' = pending \cup {call[c].id}
  /\ highest_issued' = IF call[c].id > highest_issued THEN call[c].id ELSE highest_issued
  /\ permits' = permits /\ limits' = limits /\ next_id' = next_id /\ HandStays

\* The request is about to be sent, or was; it was still wanted when checked.
MovesOn(c) ==
  /\ Registered(c) /\ Others(c)
  /\ call'[c].pc \in {"send", "wait"} /\ Same(c) /\ call'[c].got = call[c].got
  /\ call[c].pc = "recheck" => Open
  /\ pending' = pending /\ permits' = permits /\ limits' = limits /\ IdsStay /\ HandStays

\* The pending map is emptied and every request in ids has an error.
Resolves(ids) ==
  /\ pending \subseteq ids /\ (reader.hand \in ids \/ reader'.hand = reader.hand)
  /\ \A c \in Callers :
       /\ call'[c].pc = call[c].pc /\ Same(c)
       /\ Registered(c) /\ call[c].id \in ids => call'[c].got.kind = "error"
       /\ ~(Registered(c) /\ call[c].id \in ids) => call'[c].got = call[c].got
  /\ pending' = {} /\ permits' = permits /\ limits' = limits /\ IdsStay

\* The request of c has its answer.
Replied(c) ==
  /\ Registered(c) /\ call[c].id \in pending /\ Others(c)
  /\ call'[c].pc = call[c].pc /\ Same(c) /\ call'[c].got.kind # "none"
  /\ IsReply(call'[c].got) => /\ Answering(call'[c].op, call'[c].got)
                              /\ call'[c].got.id = call'[c].id
  /\ pending' = pending \ {call[c].id}
  /\ permits' = permits /\ limits' = limits /\ IdsStay /\ HandStays

\* The reader ends the session with a request in its hand.
Takes(id) ==
  /\ id \in pending /\ call' = call /\ pending' = pending \ {id}
  /\ reader.hand = 0 /\ reader'.hand = id /\ Open'
  /\ permits' = permits /\ limits' = limits /\ IdsStay

LEMMA NoMsgFacts == NoMsg.kind = "none" /\ NoMsg.id = 0 /\ ~IsReply(NoMsg)
BY DEF NoMsg, Msg, IsReply

\* Nothing but the session's state may change.
LEMMA RestsCalls ==
  ASSUME TableTyped, TableTyped', CallsInv, HandRight', Rests
  PROVE  CallsInv'
<1>0. /\ \A d \in Callers : CallOK(d) /\ call[d] \in CallRec /\ call'[d] \in CallRec
      /\ Distinct /\ Owned /\ Counted /\ highest_issued < next_id
  BY DEF CallsInv, TableTyped
<1>t. /\ next_id \in Nat /\ highest_issued \in Nat /\ pending \subseteq Nat
      /\ \A d \in Callers : call[d].id \in Nat /\ call[d].got \in MsgRec /\ call'[d].got \in MsgRec
  BY <1>0 DEF TableTyped, CallRec
<1>g. /\ call' = call /\ pending' = pending /\ permits' = permits /\ limits' = limits
      /\ next_id' = next_id /\ highest_issued' = highest_issued
      /\ reader'.hand = reader.hand /\ (Open => Open')
  BY DEF Rests, IdsStay, HandStays
<1>h. \A d \in Callers : (HoldsPermit(d)' <=> HoldsPermit(d)) /\ (Registered(d)' <=> Registered(d))
  BY <1>g DEF HoldsPermit, Registered
<1>1. ASSUME NEW d \in Callers PROVE CallOK(d)'
  BY <1>0, <1>g, <1>h DEF CallOK, IsReply, Answering
<1>2. Distinct' /\ Owned'
  BY <1>0, <1>g, <1>h DEF Distinct, Owned
<1>3. highest_issued' < next_id'
  BY <1>0, <1>g
<1>4. Counted'
  <2>1. Holders' = Holders
    BY <1>h DEF Holders
  <2> QED BY <1>0, <1>g, <2>1 DEF Counted
<1> QED BY <1>1, <1>2, <1>3, <1>4 DEF CallsInv, HandRight

\* A request returns.
LEMMA ReturnsCalls ==
  ASSUME TableTyped, TableTyped', CallsInv, HandRight', NEW c \in Callers, Returns(c)
  PROVE  CallsInv'
<1>0. /\ \A d \in Callers : CallOK(d) /\ call[d] \in CallRec /\ call'[d] \in CallRec
      /\ Distinct /\ Owned /\ Counted /\ highest_issued < next_id
  BY DEF CallsInv, TableTyped
<1>t. /\ next_id \in Nat /\ highest_issued \in Nat /\ pending \subseteq Nat
      /\ \A d \in Callers : call[d].id \in Nat /\ call[d].got \in MsgRec /\ call'[d].got \in MsgRec
  BY <1>0 DEF TableTyped, CallRec
<1>g. /\ Others(c) /\ call'[c].pc \in {"idle", "ended"}
      /\ IsReply(call'[c].got) => Answering(call'[c].op, call'[c].got)
      /\ pending' = IF Registered(c) THEN pending \ {call[c].id} ELSE pending
      /\ next_id' = next_id /\ highest_issued' = highest_issued
      /\ reader'.hand = reader.hand /\ (Open => Open')
  BY DEF Returns, IdsStay, HandStays
<1>h. \A d \in Callers : /\ HoldsPermit(d)' <=> HoldsPermit(d) /\ d # c
                         /\ Registered(d)' <=> Registered(d) /\ d # c
  BY <1>g DEF HoldsPermit, Registered, Others
<1>k. \A d \in Callers : Registered(d) => HoldsPermit(d)
  BY DEF HoldsPermit, Registered
<1>1. ASSUME NEW d \in Callers PROVE CallOK(d)'
  <2>1. CASE d = c
    BY <1>g, <1>h, <2>1 DEF CallOK
  <2>2. CASE d # c
    <3>1. call'[d] = call[d] /\ (Registered(d) => (call[d].id \in pending' <=> call[d].id \in pending))
      BY <1>0, <1>g, <1>k, <2>2 DEF Others, Distinct
    <3>2. pending' \subseteq pending
      BY <1>g
    <3> QED BY <1>0, <1>g, <1>h, <2>2, <3>1, <3>2 DEF CallOK, IsReply, Answering
  <2> QED BY <2>1, <2>2
<1>2. Distinct' /\ Owned'
  <2>1. Distinct'
    BY <1>0, <1>g, <1>h DEF Distinct, Others
  <2>2. ASSUME NEW id \in pending' PROVE \E d \in Callers : Registered(d)' /\ call'[d].id = id
    <3>1. PICK d \in Callers : Registered(d) /\ call[d].id = id
      BY <1>0, <1>g DEF Owned
    <3>2. d # c
      BY <1>g, <3>1
    <3> QED BY <1>g, <1>h, <3>1, <3>2 DEF Others
  <2> QED BY <2>1, <2>2 DEF Owned
<1>3. highest_issued' < next_id'
  BY <1>0, <1>g
<1>4. Counted'
  <2>1. /\ permits' - limits'.inflight
             = (permits - limits.inflight) + (IF HoldsPermit(c) THEN 1 ELSE 0)
        /\ limits'.inflight <= limits.inflight
    BY DEF Returns
  <2>2. Holders' = Holders \ {c}
    BY <1>h DEF Holders
  <2>3. c \in Holders <=> HoldsPermit(c)
    BY DEF Holders
  <2>4. /\ IsFiniteSet(Holders \ {c})
        /\ Cardinality(Holders \ {c}) = Cardinality(Holders) - (IF c \in Holders THEN 1 ELSE 0)
        /\ Cardinality(Holders) \in Nat
    BY <1>0, FS_RemoveElement, FS_CardinalityType DEF Counted
  <2>5. permits \in Nat /\ permits' \in Nat /\ limits.inflight \in Nat /\ limits'.inflight \in Nat
    BY DEF TableTyped, LimitRec
  <2>6. LocalLimits.inflight \in Nat
    BY HostAssumption
  <2> QED BY <1>0, <2>1, <2>2, <2>3, <2>4, <2>5, <2>6 DEF Counted
<1> QED BY <1>1, <1>2, <1>3, <1>4 DEF CallsInv, HandRight

\* A request begins.
LEMMA BeginsCalls ==
  ASSUME TableTyped, TableTyped', CallsInv, HandRight', NEW c \in Callers, Begins(c)
  PROVE  CallsInv'
<1>0. /\ \A d \in Callers : CallOK(d) /\ call[d] \in CallRec /\ call'[d] \in CallRec
      /\ Distinct /\ Owned /\ Counted /\ highest_issued < next_id
  BY DEF CallsInv, TableTyped
<1>t. /\ next_id \in Nat /\ highest_issued \in Nat /\ pending \subseteq Nat
      /\ \A d \in Callers : call[d].id \in Nat /\ call[d].got \in MsgRec /\ call'[d].got \in MsgRec
  BY <1>0 DEF TableTyped, CallRec
<1>g. /\ ~HoldsPermit(c) /\ Others(c)
      /\ call'[c].pc = "insert" /\ call'[c].id = next_id /\ call'[c].got = NoMsg
      /\ call'[c].op \in Requests \ {"Cancel"}
      /\ pending' = pending /\ limits' = limits
      /\ next_id' = next_id + 1 /\ highest_issued' = highest_issued
      /\ reader'.hand = reader.hand /\ (Open => Open')
  BY DEF Begins, HandStays
<1>h. \A d \in Callers : /\ HoldsPermit(d)' <=> HoldsPermit(d) \/ d = c
                         /\ Registered(d)' <=> Registered(d)
  BY <1>g DEF HoldsPermit, Registered, Others
<1>1. ASSUME NEW d \in Callers PROVE CallOK(d)'
  <2>1. CASE d = c
    <3>1. ~Registered(c) /\ ~Registered(c)'
      BY <1>g, <1>h DEF Registered, HoldsPermit
    <3>2. next_id \in 1..(next_id' - 1)
      BY <1>g DEF TableTyped
    <3> QED BY <1>g, <2>1, <3>1, <3>2, NoMsgFacts DEF CallOK, IsReply
  <2>2. CASE d # c
    <3>1. call'[d] = call[d]
      BY <1>g, <2>2 DEF Others
    <3> QED BY <1>0, <1>g, <1>h, <1>t, <2>2, <3>1 DEF CallOK, IsReply, Answering
  <2> QED BY <2>1, <2>2
<1>2. Distinct' /\ Owned'
  <2>1. ASSUME NEW d \in Callers, HoldsPermit(d) PROVE d # c /\ call'[d].id = call[d].id /\ call[d].id # next_id
    BY <1>0, <1>g, <1>t, <2>1 DEF CallOK, Others
  <2>2. Distinct'
    BY <1>0, <1>g, <1>h, <2>1 DEF Distinct
  <2>3. Owned'
    <3>1. \A d \in Callers : Registered(d) => HoldsPermit(d)
      BY DEF Registered, HoldsPermit
    <3> QED BY <1>0, <1>g, <1>h, <2>1, <3>1 DEF Owned
  <2> QED BY <2>2, <2>3
<1>3. highest_issued' < next_id'
  BY <1>0, <1>g, <1>t
<1>4. Counted'
  <2>1. permits' = permits - 1
    BY DEF Begins
  <2>2. Holders' = Holders \cup {c} /\ c \notin Holders
    BY <1>g, <1>h DEF Holders
  <2>3. /\ IsFiniteSet(Holders \cup {c})
        /\ Cardinality(Holders \cup {c}) = Cardinality(Holders) + 1
        /\ Cardinality(Holders) \in Nat
    BY <1>0, <2>2, FS_AddElement, FS_CardinalityType DEF Counted
  <2>4. permits \in Nat
    BY DEF TableTyped
  <2> QED BY <1>0, <1>g, <2>1, <2>2, <2>3, <2>4 DEF Counted
<1> QED BY <1>1, <1>2, <1>3, <1>4 DEF CallsInv, HandRight

\* An id is published and its entry made.
LEMMA InsertsCalls ==
  ASSUME TableTyped, TableTyped', CallsInv, HandRight', NEW c \in Callers, Inserts(c)
  PROVE  CallsInv'
<1>0. /\ \A d \in Callers : CallOK(d) /\ call[d] \in CallRec /\ call'[d] \in CallRec
      /\ Distinct /\ Owned /\ Counted /\ highest_issued < next_id
  BY DEF CallsInv, TableTyped
<1>t. /\ next_id \in Nat /\ highest_issued \in Nat /\ pending \subseteq Nat
      /\ \A d \in Callers : call[d].id \in Nat /\ call[d].got \in MsgRec /\ call'[d].got \in MsgRec
  BY <1>0 DEF TableTyped, CallRec
<1>g. /\ call[c].pc = "insert" /\ Others(c)
      /\ call'[c].pc = "recheck" /\ Same(c) /\ call'[c].got = call[c].got
      /\ pending' = pending \cup {call[c].id}
      /\ highest_issued' = IF call[c].id > highest_issued THEN call[c].id ELSE highest_issued
      /\ permits' = permits /\ limits' = limits /\ next_id' = next_id
      /\ reader'.hand = reader.hand /\ (Open => Open')
  BY DEF Inserts, HandStays
<1>h. \A d \in Callers : /\ HoldsPermit(d)' <=> HoldsPermit(d)
                         /\ Registered(d)' <=> Registered(d) \/ d = c
  BY <1>g DEF HoldsPermit, Registered, Others
<1>k. HoldsPermit(c) /\ \A d \in Callers : Registered(d) => HoldsPermit(d)
  BY <1>g DEF HoldsPermit, Registered
<1>n. highest_issued <= highest_issued' /\ call[c].id <= highest_issued'
  BY <1>g, <1>t
<1>1. ASSUME NEW d \in Callers PROVE CallOK(d)'
  <2>1. CASE d = c
    <3>1. call[c].got = NoMsg /\ ~IsReply(call'[c].got)
      BY <1>0, <1>g, NoMsgFacts DEF CallOK
    <3> QED BY <1>0, <1>g, <1>k, <1>n, <2>1, <3>1 DEF CallOK, Same
  <2>2. CASE d # c
    <3>1. call'[d] = call[d] /\ (Registered(d) => (call[d].id \in pending' <=> call[d].id \in pending))
      BY <1>0, <1>g, <1>k, <2>2 DEF Others, Distinct
    <3>2. call[d].pc \in {"send", "wait"} => Registered(d)
      BY DEF Registered
    <3>3. Registered(d) => call[d].id <= highest_issued'
      BY <1>0, <1>g, <1>t, <1>n DEF CallOK
    <3> QED BY <1>0, <1>g, <1>h, <2>2, <3>1, <3>2, <3>3 DEF CallOK, IsReply, Answering
  <2> QED BY <2>1, <2>2
<1>2. Distinct' /\ Owned'
  <2>1. \A d \in Callers : call'[d].id = call[d].id
    BY <1>g DEF Others, Same
  <2>2. Distinct'
    BY <1>0, <1>h, <2>1 DEF Distinct
  <2>3. Owned'
    BY <1>0, <1>g, <1>h, <2>1 DEF Owned
  <2> QED BY <2>2, <2>3
<1>3. highest_issued' < next_id'
  BY <1>0, <1>g, <1>k, <1>t DEF CallOK
<1>4. Counted'
  <2>1. Holders' = Holders
    BY <1>h DEF Holders
  <2> QED BY <1>0, <1>g, <2>1 DEF Counted
<1> QED BY <1>1, <1>2, <1>3, <1>4 DEF CallsInv, HandRight

\* A request is sent.
LEMMA MovesOnCalls ==
  ASSUME TableTyped, TableTyped', CallsInv, HandRight', NEW c \in Callers, MovesOn(c)
  PROVE  CallsInv'
<1>0. /\ \A d \in Callers : CallOK(d) /\ call[d] \in CallRec /\ call'[d] \in CallRec
      /\ Distinct /\ Owned /\ Counted /\ highest_issued < next_id
  BY DEF CallsInv, TableTyped
<1>t. /\ next_id \in Nat /\ highest_issued \in Nat /\ pending \subseteq Nat
      /\ \A d \in Callers : call[d].id \in Nat /\ call[d].got \in MsgRec /\ call'[d].got \in MsgRec
  BY <1>0 DEF TableTyped, CallRec
<1>g. /\ Registered(c) /\ Others(c)
      /\ call'[c].pc \in {"send", "wait"} /\ Same(c) /\ call'[c].got = call[c].got
      /\ call[c].pc = "recheck" => Open
      /\ pending' = pending /\ permits' = permits /\ limits' = limits
      /\ next_id' = next_id /\ highest_issued' = highest_issued
      /\ reader'.hand = reader.hand /\ (Open => Open')
  BY DEF MovesOn, IdsStay, HandStays
<1>h. \A d \in Callers : /\ HoldsPermit(d)' <=> HoldsPermit(d)
                         /\ Registered(d)' <=> Registered(d)
  BY <1>g DEF HoldsPermit, Registered, Others
<1>1. ASSUME NEW d \in Callers PROVE CallOK(d)'
  <2>1. CASE d = c
    <3>1. call[c].pc # "recheck" => call[c].pc \in {"send", "wait"}
      BY <1>g DEF Registered
    <3>2. call[c].id \in pending => Open
      BY <1>0, <1>g, <3>1 DEF CallOK
    <3> QED BY <1>0, <1>g, <1>h, <2>1, <3>2 DEF CallOK, Same, IsReply, Answering
  <2>2. CASE d # c
    <3>1. call'[d] = call[d]
      BY <1>g, <2>2 DEF Others
    <3> QED BY <1>0, <1>g, <1>h, <3>1 DEF CallOK, IsReply, Answering
  <2> QED BY <2>1, <2>2
<1>2. Distinct' /\ Owned'
  <2>1. \A d \in Callers : call'[d].id = call[d].id
    BY <1>g DEF Others, Same
  <2> QED BY <1>0, <1>g, <1>h, <2>1 DEF Distinct, Owned
<1>3. highest_issued' < next_id'
  BY <1>0, <1>g
<1>4. Counted'
  <2>1. Holders' = Holders
    BY <1>h DEF Holders
  <2> QED BY <1>0, <1>g, <2>1 DEF Counted
<1> QED BY <1>1, <1>2, <1>3, <1>4 DEF CallsInv, HandRight

\* The pending requests are resolved.
LEMMA ResolvesCalls ==
  ASSUME TableTyped, TableTyped', CallsInv, HandRight', NEW ids, Resolves(ids)
  PROVE  CallsInv'
<1>0. /\ \A d \in Callers : CallOK(d) /\ call[d] \in CallRec /\ call'[d] \in CallRec
      /\ Distinct /\ Owned /\ Counted /\ highest_issued < next_id
  BY DEF CallsInv, TableTyped
<1>t. /\ next_id \in Nat /\ highest_issued \in Nat /\ pending \subseteq Nat
      /\ \A d \in Callers : call[d].id \in Nat /\ call[d].got \in MsgRec /\ call'[d].got \in MsgRec
  BY <1>0 DEF TableTyped, CallRec
<1>g. /\ pending \subseteq ids /\ (reader.hand \in ids \/ reader'.hand = reader.hand)
      /\ \A c \in Callers :
           /\ call'[c].pc = call[c].pc /\ Same(c)
           /\ Registered(c) /\ call[c].id \in ids => call'[c].got.kind = "error"
           /\ ~(Registered(c) /\ call[c].id \in ids) => call'[c].got = call[c].got
      /\ pending' = {} /\ permits' = permits /\ limits' = limits
      /\ next_id' = next_id /\ highest_issued' = highest_issued
  BY DEF Resolves, IdsStay
<1>h. \A d \in Callers : (HoldsPermit(d)' <=> HoldsPermit(d)) /\ (Registered(d)' <=> Registered(d))
  BY <1>g DEF HoldsPermit, Registered
<1>1. ASSUME NEW d \in Callers PROVE CallOK(d)'
  <2>0. /\ call'[d].pc = call[d].pc /\ call'[d].id = call[d].id /\ call'[d].op = call[d].op
    BY <1>g DEF Same
  <2>1. CASE Registered(d) /\ call[d].id \in ids
    <3>1. call'[d].got.kind = "error" /\ call'[d].got # NoMsg /\ ~IsReply(call'[d].got)
      BY <1>g, <2>1, NoMsgFacts DEF IsReply
    <3>2. call'[d].pc # "insert"
      BY <2>0, <2>1 DEF Registered
    <3> QED BY <1>0, <1>g, <1>h, <2>0, <3>1, <3>2 DEF CallOK
  <2>2. CASE ~(Registered(d) /\ call[d].id \in ids)
    <3>1. call'[d].got = call[d].got
      BY <1>g, <2>2
    <3> QED BY <1>0, <1>g, <1>h, <2>0, <2>2, <3>1 DEF CallOK, IsReply, Answering
  <2> QED BY <2>1, <2>2
<1>2. Distinct' /\ Owned'
  BY <1>0, <1>g, <1>h DEF Distinct, Owned, Same
<1>3. highest_issued' < next_id'
  BY <1>0, <1>g
<1>4. Counted'
  <2>1. Holders' = Holders
    BY <1>h DEF Holders
  <2> QED BY <1>0, <1>g, <2>1 DEF Counted
<1> QED BY <1>1, <1>2, <1>3, <1>4 DEF CallsInv, HandRight

\* A request is answered.
LEMMA AnswersCalls ==
  ASSUME TableTyped, TableTyped', CallsInv, HandRight', NEW c \in Callers, Replied(c)
  PROVE  CallsInv'
<1>0. /\ \A d \in Callers : CallOK(d) /\ call[d] \in CallRec /\ call'[d] \in CallRec
      /\ Distinct /\ Owned /\ Counted /\ highest_issued < next_id
  BY DEF CallsInv, TableTyped
<1>t. /\ next_id \in Nat /\ highest_issued \in Nat /\ pending \subseteq Nat
      /\ \A d \in Callers : call[d].id \in Nat /\ call[d].got \in MsgRec /\ call'[d].got \in MsgRec
  BY <1>0 DEF TableTyped, CallRec
<1>g. /\ Registered(c) /\ call[c].id \in pending /\ Others(c)
      /\ call'[c].pc = call[c].pc /\ Same(c) /\ call'[c].got.kind # "none"
      /\ IsReply(call'[c].got) => /\ Answering(call'[c].op, call'[c].got)
                                  /\ call'[c].got.id = call'[c].id
      /\ pending' = pending \ {call[c].id}
      /\ permits' = permits /\ limits' = limits
      /\ next_id' = next_id /\ highest_issued' = highest_issued
      /\ reader'.hand = reader.hand /\ (Open => Open')
  BY DEF Replied, IdsStay, HandStays
<1>h. \A d \in Callers : (HoldsPermit(d)' <=> HoldsPermit(d)) /\ (Registered(d)' <=> Registered(d))
  BY <1>g DEF HoldsPermit, Registered, Others
<1>k. \A d \in Callers : Registered(d) => HoldsPermit(d)
  BY DEF HoldsPermit, Registered
<1>1. ASSUME NEW d \in Callers PROVE CallOK(d)'
  <2>1. CASE d = c
    <3>1. call'[c].got # NoMsg /\ call'[c].pc # "insert"
      BY <1>g, NoMsgFacts DEF Registered
    <3> QED BY <1>0, <1>g, <1>h, <2>1, <3>1 DEF CallOK, Same
  <2>2. CASE d # c
    <3>1. call'[d] = call[d] /\ (Registered(d) => (call[d].id \in pending' <=> call[d].id \in pending))
      BY <1>0, <1>g, <1>k, <2>2 DEF Others, Distinct
    <3>2. pending' \subseteq pending
      BY <1>g
    <3> QED BY <1>0, <1>g, <1>h, <2>2, <3>1, <3>2 DEF CallOK, IsReply, Answering
  <2> QED BY <2>1, <2>2
<1>2. Distinct' /\ Owned'
  <2>1. \A d \in Callers : call'[d].id = call[d].id
    BY <1>g DEF Others, Same
  <2> QED BY <1>0, <1>g, <1>h, <2>1 DEF Distinct, Owned
<1>3. highest_issued' < next_id'
  BY <1>0, <1>g
<1>4. Counted'
  <2>1. Holders' = Holders
    BY <1>h DEF Holders
  <2> QED BY <1>0, <1>g, <2>1 DEF Counted
<1> QED BY <1>1, <1>2, <1>3, <1>4 DEF CallsInv, HandRight

\* The reader takes a request to answer it after the others.
LEMMA TakesCalls ==
  ASSUME TableTyped, TableTyped', CallsInv, HandRight', NEW id, Takes(id)
  PROVE  CallsInv'
<1>0. /\ \A d \in Callers : CallOK(d) /\ call[d] \in CallRec /\ call'[d] \in CallRec
      /\ Distinct /\ Owned /\ Counted /\ highest_issued < next_id
  BY DEF CallsInv, TableTyped
<1>t. /\ next_id \in Nat /\ highest_issued \in Nat /\ pending \subseteq Nat
      /\ \A d \in Callers : call[d].id \in Nat /\ call[d].got \in MsgRec /\ call'[d].got \in MsgRec
  BY <1>0 DEF TableTyped, CallRec
<1>g. /\ id \in pending /\ call' = call /\ pending' = pending \ {id}
      /\ reader.hand = 0 /\ reader'.hand = id /\ Open'
      /\ permits' = permits /\ limits' = limits
      /\ next_id' = next_id /\ highest_issued' = highest_issued
  BY DEF Takes, IdsStay
<1>h. \A d \in Callers : (HoldsPermit(d)' <=> HoldsPermit(d)) /\ (Registered(d)' <=> Registered(d))
  BY <1>g DEF HoldsPermit, Registered
<1>1. ASSUME NEW d \in Callers PROVE CallOK(d)'
  <2>1. Registered(d) => call[d].id # 0
    <3>1. Registered(d) => HoldsPermit(d)
      BY DEF Registered, HoldsPermit
    <3> QED BY <1>0, <1>t, <3>1 DEF CallOK
  <2> QED BY <1>0, <1>g, <1>h, <2>1 DEF CallOK, IsReply, Answering
<1>2. Distinct' /\ Owned'
  BY <1>0, <1>g, <1>h DEF Distinct, Owned
<1>3. highest_issued' < next_id'
  BY <1>0, <1>g
<1>4. Counted'
  <2>1. Holders' = Holders
    BY <1>h DEF Holders
  <2> QED BY <1>0, <1>g, <2>1 DEF Counted
<1> QED BY <1>1, <1>2, <1>3, <1>4 DEF CallsInv, HandRight

-----------------------------------------------------------------------------
(***************************************************************************)
(* Messages, frames and limits keep their types through the wire format.   *)
(***************************************************************************)
LEMMA NoLimitsTyped == NoLimits \in LimitRec
BY DEF NoLimits, LimitRec

LEMMA MsgTyped ==
  ASSUME NEW kind \in Kinds \cup {"none", "error"}, NEW id \in 0..MaxId, NEW len \in Nat,
         NEW nested \in Nat, NEW report \in Reports
  PROVE  /\ Msg(kind, id, len, nested, report) \in MsgRec
         /\ Msg(kind, id, len, nested, report).kind = kind
         /\ Msg(kind, id, len, nested, report).id = id
BY NoLimitsTyped DEF Msg, MsgRec

\* A message with the limits it offers.
LEMMA OfferTyped ==
  ASSUME NEW m \in MsgRec, NEW l \in LimitRec
  PROVE  /\ [m EXCEPT !.limits = l] \in MsgRec
         /\ [m EXCEPT !.limits = l].kind = m.kind /\ [m EXCEPT !.limits = l].id = m.id
BY DEF MsgRec

LEMMA NoMsgTyped == NoMsg \in MsgRec
<1>1. 0 \in 0..MaxId /\ "ok" \in Reports
  BY HostAssumption DEF Reports
<1> QED BY <1>1, MsgTyped DEF NoMsg

LEMMA ErrorReplyTyped ==
  ASSUME NEW e \in Reports
  PROVE  ErrorReply(e) \in MsgRec /\ ErrorReply(e).kind = "error" /\ ~IsReply(ErrorReply(e))
<1>1. 0 \in 0..MaxId
  BY HostAssumption
<1>2. ErrorReply(e) \in MsgRec /\ ErrorReply(e).kind = "error"
  BY <1>1, MsgTyped DEF ErrorReply
<1> QED BY <1>2 DEF IsReply

LEMMA TagFacts ==
  /\ \A k \in Kinds : Tag[k] \in 1..14
  /\ \A k \in Kinds : Tag[k] \in RequestTags <=> k \in Requests
  /\ \A t \in RequestTags : \E k \in Kinds : Tag[k] = t
BY DEF Tag, Kinds, Requests, Replies, RequestTags

LEMMA KindOfTagFacts ==
  ASSUME NEW t, \E k \in Kinds : Tag[k] = t
  PROVE  KindOfTag(t) \in Kinds /\ Tag[KindOfTag(t)] = t
BY DEF KindOfTag

LEMMA HostCodes ==
  /\ \A k \in HostKinds : HostKindCode(k) \in KnownCodes
  /\ \A n \in KnownCodes : DecodeHostKind(n) \in HostKinds
<1>1. \A k \in HostKinds : HostKindCode(k) \in KnownCodes
  BY DEF HostKindCode, KnownCodes, HostKinds
<1>2. ASSUME NEW n \in KnownCodes PROVE \E k \in HostKinds : HostKindCode(k) = n
  BY DEF HostKindCode, KnownCodes, HostKinds
<1> QED BY <1>1, <1>2 DEF DecodeHostKind

LEMMA FrameTyped ==
  ASSUME NEW m \in MsgRec, m.kind \in Kinds
  PROVE  /\ Frame(m) \in FrameRec /\ Frame(m).id = m.id
         /\ Frame(m).tag \in RequestTags <=> m.kind \in Requests
         /\ Frame(m).body = "whole" /\ Frame(m).tag = Tag[m.kind]
<1> DEFINE tag == Tag[m.kind]
           category == Category(m.kind, m.report)
           code == IF m.report \in HostKinds THEN HostKindCode(m.report) ELSE 0
<1>1. tag \in 0..14 /\ (tag \in RequestTags <=> m.kind \in Requests)
  BY TagFacts
<1>2. category \in Categories
  BY DEF Category, Categories
<1>3. code \in KnownCodes
  BY HostCodes DEF KnownCodes
<1>4. Frame(m) = [tag |-> tag, id |-> m.id, len |-> m.len, nested |-> m.nested,
                  category |-> category, code |-> code, body |-> "whole", limits |-> m.limits]
  BY DEF Frame
<1> HIDE DEF tag, category, code
<1>5. m.id \in 0..MaxId /\ m.len \in Nat /\ m.nested \in Nat /\ m.limits \in LimitRec
  BY DEF MsgRec
<1>6. Frame(m) \in FrameRec
  BY <1>1, <1>2, <1>3, <1>4, <1>5 DEF FrameRec
<1> QED BY <1>1, <1>4, <1>6 DEF tag

LEMMA EndOfOutputTyped == EndOfOutput \in FrameRec /\ EndOfOutput.body = "eof"
<1>1. 0 \in 0..14 /\ 0 \in 0..MaxId /\ 0 \in Nat /\ 0 \in Categories /\ 0 \in KnownCodes
  BY HostAssumption DEF Categories, KnownCodes
<1> QED BY <1>1, NoLimitsTyped DEF EndOfOutput, FrameRec

\* A frame decodes to a message of its id, or the decoder names a host failure.
LEMMA DecodeTyped ==
  ASSUME NEW f \in FrameRec, NEW l
  PROVE  /\ Decode(f, l).ok => /\ Decode(f, l).value \in MsgRec
                               /\ Decode(f, l).value.kind \in Kinds
                               /\ Decode(f, l).value.id = f.id
         /\ ~Decode(f, l).ok => Decode(f, l).error \in HostKinds
<1>0. "ProtocolViolation" \in HostKinds /\ "MessageTooLarge" \in HostKinds
  BY DEF HostKinds
<1>f. /\ Failed("ProtocolViolation").error = "ProtocolViolation" /\ ~Failed("ProtocolViolation").ok
      /\ Failed("MessageTooLarge").error = "MessageTooLarge" /\ ~Failed("MessageTooLarge").ok
  BY DEF Failed
<1> DEFINE kind == KindOfTag(f.tag)
           v == [kind |-> kind, id |-> f.id, len |-> f.len, nested |-> f.nested,
                 report |-> ReportOf(kind, f.category, f.code), limits |-> f.limits]
<1>1. \/ Decode(f, l) = Failed("ProtocolViolation")
      \/ Decode(f, l) = Failed("MessageTooLarge")
      \/ /\ Decode(f, l) = Done(v) /\ \E k \in Kinds : Tag[k] = f.tag
  BY DEF Decode
<1>2. ASSUME \E k \in Kinds : Tag[k] = f.tag PROVE v \in MsgRec /\ v.kind \in Kinds /\ v.id = f.id
  <2>1. kind \in Kinds
    BY <1>2, KindOfTagFacts
  <2>2. ReportOf(kind, f.category, f.code) \in Reports
    <3>1. f.code \in KnownCodes
      BY DEF FrameRec
    <3> QED BY <3>1, HostCodes DEF ReportOf, Reports
  <2>3. f.id \in 0..MaxId /\ f.len \in Nat /\ f.nested \in Nat /\ f.limits \in LimitRec
    BY DEF FrameRec
  <2> HIDE DEF kind
  <2> QED BY <2>1, <2>2, <2>3 DEF MsgRec
<1>3. Done(v).ok /\ Done(v).value = v
  BY DEF Done
<1> HIDE DEF v
<1> QED BY <1>0, <1>f, <1>1, <1>2, <1>3

LEMMA EncodeFacts ==
  ASSUME NEW m, NEW limit
  PROVE  ~Encode(m, limit).ok => Encode(m, limit).error \in HostKinds
BY DEF Encode, Failed, Done, HostKinds

\* The negotiated limits are limits, and no larger than the local ones.
LEMMA LeastTyped ==
  ASSUME NEW a \in LimitRec, NEW b \in LimitRec
  PROVE  Least(a, b) \in LimitRec /\ Least(a, b).inflight <= a.inflight
<1>1. DOMAIN a = {"frame", "artifact", "request", "response", "inflight"}
  BY DEF LimitRec
<1>2. \A f \in DOMAIN a : a[f] \in Nat /\ b[f] \in Nat
  BY <1>1 DEF LimitRec
<1>3. \A f \in DOMAIN a : Least(a, b)[f] = IF a[f] < b[f] THEN a[f] ELSE b[f]
  BY DEF Least
<1>4. Least(a, b) = [frame |-> Least(a, b).frame, artifact |-> Least(a, b).artifact,
                     request |-> Least(a, b).request, response |-> Least(a, b).response,
                     inflight |-> Least(a, b).inflight]
  BY <1>1 DEF Least
<1> QED BY <1>1, <1>2, <1>3, <1>4 DEF LimitRec

-----------------------------------------------------------------------------
(***************************************************************************)
(* How the operations on a call change the table.                          *)
(***************************************************************************)
CallTyped == call \in [Callers -> CallRec]

LEMMA CallFields ==
  ASSUME NEW r \in CallRec
  PROVE  /\ r.op \in Requests \cup {"none"} /\ r.pc \in CallPCs /\ r.id \in 0..MaxId
         /\ r.size \in Nat /\ r.got \in MsgRec
BY DEF CallRec

LEMMA IdleCall ==
  /\ Idle \in CallRec /\ Idle.op = "none" /\ Idle.pc = "idle" /\ Idle.id = 0
  /\ Idle.got = NoMsg /\ ~IsReply(Idle.got)
<1>1. NoMsg \in MsgRec /\ 0 \in 0..MaxId
  BY NoMsgTyped, HostAssumption
<1>2. Idle = [op |-> "none", pc |-> "idle", id |-> 0, size |-> 0, got |-> NoMsg]
  BY DEF Idle
<1>3. Idle \in CallRec
  BY <1>1, <1>2 DEF CallRec, CallPCs
<1>4. ~IsReply(NoMsg)
  BY NoMsgFacts
<1> QED BY <1>2, <1>3, <1>4

\* One call is replaced.
LEMMA Replaced ==
  ASSUME CallTyped, NEW c \in Callers, NEW r \in CallRec, call' = [call EXCEPT ![c] = r]
  PROVE  CallTyped' /\ Others(c) /\ call'[c] = r
BY DEF CallTyped, Others

LEMMA GotoEffect ==
  ASSUME CallTyped, NEW c \in Callers, NEW pc \in CallPCs, Goto(c, pc)
  PROVE  /\ CallTyped' /\ Others(c) /\ Same(c)
         /\ call'[c].pc = pc /\ call'[c].got = call[c].got
<1> DEFINE r == [call[c] EXCEPT !.pc = pc]
<1>1. call[c] \in CallRec
  BY DEF CallTyped
<1>2. r \in CallRec /\ r.pc = pc /\ r.op = call[c].op /\ r.id = call[c].id /\ r.got = call[c].got
  BY <1>1 DEF CallRec
<1>3. call' = [call EXCEPT ![c] = r]
  BY DEF Goto
<1> HIDE DEF r
<1>4. CallTyped' /\ Others(c) /\ call'[c] = r
  BY <1>2, <1>3, Replaced
<1> QED BY <1>2, <1>4 DEF Same

LEMMA GotEffect ==
  ASSUME CallTyped, NEW c \in Callers, NEW m \in MsgRec, call' = [call EXCEPT ![c].got = m]
  PROVE  /\ CallTyped' /\ Others(c) /\ Same(c)
         /\ call'[c].pc = call[c].pc /\ call'[c].got = m
<1> DEFINE r == [call[c] EXCEPT !.got = m]
<1>1. call[c] \in CallRec
  BY DEF CallTyped
<1>2. r \in CallRec /\ r.pc = call[c].pc /\ r.op = call[c].op /\ r.id = call[c].id /\ r.got = m
  BY <1>1 DEF CallRec
<1>3. call' = [call EXCEPT ![c] = r]
  OBVIOUS
<1> HIDE DEF r
<1>4. CallTyped' /\ Others(c) /\ call'[c] = r
  BY <1>2, <1>3, Replaced
<1> QED BY <1>2, <1>4 DEF Same

\* What the caller of c reads: only the owner keeps the reply.
LEMMA OutcomeFacts ==
  ASSUME CallTyped, NEW c \in Callers, NEW m \in MsgRec
  PROVE  /\ Outcome(c, m) \in CallRec /\ Outcome(c, m).pc \in {"idle", "ended"}
         /\ Outcome(c, m).op \in {"none", call[c].op}
         /\ IsReply(Outcome(c, m).got) => Outcome(c, m).got = m /\ Outcome(c, m).op = call[c].op
<1>1. CASE c = "owner"
  <2> DEFINE r == [Idle EXCEPT !.op = call[c].op, !.pc = "ended", !.got = m]
  <2>1. call[c].op \in Requests \cup {"none"}
    BY CallFields DEF CallTyped
  <2>2. r \in CallRec /\ r.pc = "ended" /\ r.op = call[c].op /\ r.got = m
    BY <2>1, IdleCall DEF CallRec, CallPCs
  <2>3. Outcome(c, m) = r
    BY <1>1 DEF Outcome
  <2> HIDE DEF r
  <2> QED BY <2>2, <2>3
<1>2. CASE c # "owner"
  <2>1. Outcome(c, m) = Idle
    BY <1>2 DEF Outcome
  <2> QED BY <2>1, IdleCall
<1> QED BY <1>1, <1>2

\* A call that gives back what it holds: End, and the drops.
GivesBack(c) ==
  /\ permits' = IF HoldsPermit(c) THEN permits + 1 ELSE permits
  /\ pending' = IF Registered(c) THEN pending \ {call[c].id} ELSE pending

LEMMA GivesBackReturns ==
  ASSUME TableTyped, NEW c \in Callers, NEW r \in CallRec,
         call' = [call EXCEPT ![c] = r], r.pc \in {"idle", "ended"},
         IsReply(r.got) => Answering(r.op, r.got),
         GivesBack(c), limits' = limits, IdsStay, HandStays
  PROVE  TableTyped' /\ Returns(c) /\ call'[c] = r
<1>1. CallTyped' /\ Others(c) /\ call'[c] = r
  BY Replaced DEF TableTyped, CallTyped
<1>2. permits \in Nat /\ limits.inflight \in Nat
  BY DEF TableTyped, LimitRec
<1>3. permits' \in Nat
  BY <1>2 DEF GivesBack
<1>4. permits' - limits'.inflight
        = (permits - limits.inflight) + (IF HoldsPermit(c) THEN 1 ELSE 0)
  BY <1>2 DEF GivesBack
<1>5. pending' \subseteq pending
  BY DEF GivesBack
<1>6. TableTyped'
  BY <1>1, <1>3, <1>5 DEF TableTyped, CallTyped, IdsStay
<1>7. limits'.inflight <= limits.inflight
  BY <1>2
<1>8. Returns(c)
  BY <1>1, <1>4, <1>7 DEF Returns, GivesBack
<1> QED BY <1>1, <1>6, <1>8

LEMMA EndReturns ==
  ASSUME TableTyped, NEW c \in Callers, NEW m \in MsgRec, End(c, m),
         IsReply(m) => Answering(call[c].op, m),
         limits' = limits, IdsStay, HandStays
  PROVE  TableTyped' /\ Returns(c) /\ call'[c].op \in {"none", call[c].op}
<1>1. CallTyped
  BY DEF TableTyped, CallTyped
<1>2. /\ Outcome(c, m) \in CallRec /\ Outcome(c, m).pc \in {"idle", "ended"}
      /\ Outcome(c, m).op \in {"none", call[c].op}
      /\ IsReply(Outcome(c, m).got) => Outcome(c, m).got = m /\ Outcome(c, m).op = call[c].op
  BY <1>1, OutcomeFacts
<1>3. call' = [call EXCEPT ![c] = Outcome(c, m)] /\ GivesBack(c)
  BY DEF End, GivesBack
<1>4. IsReply(Outcome(c, m).got) => Answering(Outcome(c, m).op, Outcome(c, m).got)
  BY <1>2
<1> QED BY <1>2, <1>3, <1>4, GivesBackReturns

\* The permit and the id of a new request.
LEMMA AllocateBegins ==
  ASSUME TableTyped, NEW c \in Callers, NEW op \in Requests \ {"Cancel"}, NEW size \in Nat,
         ~HoldsPermit(c), AllocateRequestId(c, op, size),
         pending' = pending, limits' = limits, highest_issued' = highest_issued, HandStays
  PROVE  TableTyped' /\ Begins(c) /\ call'[c].op = op
<1> DEFINE r == [Idle EXCEPT !.op = op, !.size = size, !.pc = "insert", !.id = next_id]
<1>1. /\ permits > 0 /\ next_id < MaxId /\ permits' = permits - 1 /\ next_id' = next_id + 1
      /\ call' = [call EXCEPT ![c] = r]
  BY DEF AllocateRequestId
<1>2. next_id \in 1..MaxId /\ permits \in Nat
  BY DEF TableTyped
<1>3. /\ r \in CallRec /\ r.op = op /\ r.pc = "insert" /\ r.id = next_id /\ r.got = NoMsg
  <2>1. next_id \in 0..MaxId
    BY <1>2, HostAssumption
  <2> QED BY <2>1, IdleCall DEF CallRec, CallPCs
<1> HIDE DEF r
<1>4. CallTyped' /\ Others(c) /\ call'[c] = r
  BY <1>1, <1>3, Replaced DEF TableTyped, CallTyped
<1>5. permits' \in Nat /\ next_id' \in 1..MaxId
  BY <1>1, <1>2, HostAssumption
<1>6. TableTyped'
  BY <1>4, <1>5 DEF TableTyped, CallTyped
<1>7. Begins(c)
  BY <1>1, <1>3, <1>4 DEF Begins
<1> QED BY <1>3, <1>4, <1>6, <1>7

\* A lifecycle request is refused or begins.
LEMMA RequestEffect ==
  ASSUME TableTyped, NEW op \in Requests \ {"Cancel"}, NEW size \in Nat, NEW st,
         ~HoldsPermit("owner"), Request(op, size, st),
         pending' = pending, limits' = limits, highest_issued' = highest_issued, HandStays
  PROVE  /\ TableTyped' /\ (Begins("owner") \/ Returns("owner"))
         /\ call'["owner"].op = op /\ \A i \in Invokers : call'[i] = call[i]
<1>0. "owner" \in Callers /\ \A i \in Invokers : i \in Callers /\ i # "owner"
  BY HostAssumption DEF Callers
<1>1. CASE AllocateRequestId("owner", op, size)
  <2>1. TableTyped' /\ Begins("owner") /\ call'["owner"].op = op
    BY <1>0, <1>1, AllocateBegins
  <2> QED BY <1>0, <2>1 DEF Begins, Others
<1>2. CASE ~AllocateRequestId("owner", op, size)
  <2> DEFINE r == [Idle EXCEPT !.op = op, !.pc = "ended", !.got = ErrorReply("Unavailable")]
  <2>1. call' = [call EXCEPT !["owner"] = r] /\ permits' = permits /\ next_id' = next_id
    BY <1>2 DEF Request
  <2>2. ErrorReply("Unavailable") \in MsgRec /\ ~IsReply(ErrorReply("Unavailable"))
    BY ErrorReplyTyped DEF Reports, HostKinds
  <2>3. r \in CallRec /\ r.pc = "ended" /\ r.op = op /\ ~IsReply(r.got)
    BY <2>2, IdleCall DEF CallRec, CallPCs
  <2> HIDE DEF r
  <2>4. IdsStay /\ GivesBack("owner")
    <3>1. ~Registered("owner")
      BY DEF Registered, HoldsPermit
    <3> QED BY <2>1, <3>1 DEF IdsStay, GivesBack
  <2>5. TableTyped' /\ Returns("owner") /\ call'["owner"] = r
    BY <1>0, <2>1, <2>3, <2>4, GivesBackReturns
  <2> QED BY <1>0, <2>3, <2>5 DEF Returns, Others
<1> QED BY <1>1, <1>2

\* The requests in ids are answered with an error.
LEMMA ResolvePendingEffect ==
  ASSUME TableTyped, NEW ids, NEW e \in Reports, ResolvePending(ids, e), pending \subseteq ids,
         permits' = permits, limits' = limits, IdsStay,
         reader.hand \in ids \/ reader'.hand = reader.hand
  PROVE  TableTyped' /\ Resolves(ids) /\ \A c \in Callers : call'[c].op = call[c].op
<1>1. ASSUME NEW c \in Callers
      PROVE  /\ call'[c] \in CallRec /\ call'[c].pc = call[c].pc /\ Same(c)
             /\ Registered(c) /\ call[c].id \in ids => call'[c].got.kind = "error"
             /\ ~(Registered(c) /\ call[c].id \in ids) => call'[c].got = call[c].got
  <2>1. call[c] \in CallRec
    BY DEF TableTyped
  <2> DEFINE r == [call[c] EXCEPT !.got = ErrorReply(e)]
  <2>2. /\ r \in CallRec /\ r.pc = call[c].pc /\ r.op = call[c].op /\ r.id = call[c].id
        /\ r.got = ErrorReply(e)
    BY <2>1, ErrorReplyTyped DEF CallRec
  <2>3. call'[c] = IF Registered(c) /\ call[c].id \in ids THEN r ELSE call[c]
    BY DEF ResolvePending
  <2> HIDE DEF r
  <2> QED BY <2>1, <2>2, <2>3, ErrorReplyTyped DEF Same
<1>2. CallTyped'
  <2>1. call' = [c \in Callers |-> call'[c]]
    BY DEF ResolvePending
  <2> QED BY <1>1, <2>1 DEF CallTyped
<1>3. pending' = {}
  BY DEF ResolvePending
<1>4. TableTyped'
  BY <1>2, <1>3 DEF TableTyped, CallTyped, IdsStay
<1> QED BY <1>1, <1>3, <1>4 DEF Resolves, Same

-----------------------------------------------------------------------------
(***************************************************************************)
(* The parts of the invariant that most steps leave as they are.           *)
(***************************************************************************)
LEMMA CallersApart == "owner" \in Callers /\ \A i \in Invokers : i \in Callers /\ i # "owner"
BY HostAssumption DEF Callers

\* No request of another operation, and no way back to a live session.
LEMMA OwnerStays ==
  ASSUME OwnerInv, owner'.phase = owner.phase, shutdown_acked' = shutdown_acked,
         \A c \in Callers : call'[c].op \in {"none", call[c].op},
         HoldsPermit("owner")' => HoldsPermit("owner"),
         state \in Leaving => state' \in Leaving
  PROVE  OwnerInv'
BY CallersApart DEF OwnerInv

\* The channels are as they were; the watermark only rises.
LEMMA ChannelsStay ==
  ASSUME TableTyped, TableTyped', ChannelInv, UNCHANGED channels, writer' = writer,
         highest_issued <= highest_issued'
  PROVE  ChannelInv'
<1>1. outq' = outq /\ stdin' = stdin /\ stdout' = stdout
  BY DEF channels
<1>2. \A n \in 0..MaxId : n <= highest_issued => n <= highest_issued'
  BY DEF TableTyped
<1>3. \A m : Outbound(m) => Outbound(m)'
  BY <1>2 DEF Outbound, MsgRec
<1>4. \A f \in FrameRec : f.id \in 0..MaxId
  BY DEF FrameRec
<1> QED BY <1>1, <1>2, <1>3, <1>4 DEF ChannelInv

\* A message more in the outbound queue.
LEMMA QueueGrows ==
  ASSUME TableTyped, ChannelInv, NEW m, Outbound(m), ~QueueFull, outq' = Append(outq, m),
         stdin' = stdin, stdout' = stdout, writer' = writer, highest_issued' = highest_issued
  PROVE  ChannelInv'
<1>1. outq \in Seq(MsgRec) /\ Len(outq) <= QueueCap /\ \A n \in DOMAIN outq : Outbound(outq[n])
  BY DEF ChannelInv
<1>2. m \in MsgRec /\ Len(outq) # QueueCap /\ QueueCap \in Nat
  BY HostAssumption DEF Outbound, QueueFull
<1>3. outq' \in Seq(MsgRec) /\ Len(outq') = Len(outq) + 1 /\ Len(outq') <= QueueCap
  BY <1>1, <1>2
<1>4. \A n \in DOMAIN outq' : outq'[n] = m \/ (n \in DOMAIN outq /\ outq'[n] = outq[n])
  BY <1>1, <1>2
<1>5. \A n \in DOMAIN outq' : Outbound(outq[n])'
  BY <1>1, <1>4 DEF Outbound
<1>6. writer'.pc = "write" => Outbound(writer.msg)'
  BY DEF Outbound, ChannelInv
<1> QED BY <1>3, <1>5, <1>6 DEF ChannelInv

\* The actors, and with them what keeps the pending map open, stay.
LEMMA OpenStays ==
  ASSUME reader' = reader, writer'.pc = writer.pc, supervisor' = supervisor, state' = state
  PROVE  HandStays /\ (HandRight => HandRight')
BY DEF HandStays, Open, Resolving, HandRight

-----------------------------------------------------------------------------
(***************************************************************************)
(* The steps of a request.                                                 *)
(***************************************************************************)
LEMMA Parts ==
  ASSUME SessionInv
  PROVE  /\ SessionTyped /\ TableTyped /\ ActorsTyped /\ FailureInv /\ ChannelInv /\ OwnerInv /\ CallsInv
         /\ HandRight /\ highest_issued \in Nat
         /\ \A c \in Callers : CallOK(c) /\ call[c] \in CallRec
BY DEF SessionInv, CallsInv, HandRight, TableTyped

LEMMA InsertStep ==
  ASSUME SessionInv, NEW c \in Callers, Insert(c)
  PROVE  SessionInv'
<1>g. /\ call[c].pc = "insert" /\ Goto(c, "recheck") /\ pending' = pending \cup {call[c].id}
      /\ highest_issued' = IF call[c].id > highest_issued THEN call[c].id ELSE highest_issued
      /\ UNCHANGED <<state, terminal_error, limits, permits, next_id, force, actor_stop,
                     shutdown_acked, live, channels, actors, owner, watcher>>
  BY DEF Insert, At, PublishIssuedId
<1>0. /\ SessionTyped /\ TableTyped /\ ActorsTyped /\ FailureInv /\ ChannelInv /\ OwnerInv /\ CallsInv
      /\ HandRight /\ highest_issued \in Nat /\ call[c] \in CallRec
  BY Parts
<1>i. call[c].id \in 0..MaxId
  BY <1>0, CallFields
<1>c. /\ CallTyped' /\ Others(c) /\ Same(c)
      /\ call'[c].pc = "recheck" /\ call'[c].got = call[c].got
  BY <1>0, <1>g, GotoEffect DEF CallPCs, CallTyped, TableTyped
<1>a. reader' = reader /\ writer' = writer /\ supervisor' = supervisor /\ child' = child
  BY <1>g DEF actors
<1>1. TableTyped' /\ highest_issued <= highest_issued'
  <2>1. highest_issued' \in 0..MaxId /\ highest_issued <= highest_issued'
    BY <1>0, <1>g, <1>i DEF TableTyped
  <2>2. pending' \subseteq 0..MaxId
    BY <1>0, <1>g, <1>i DEF TableTyped
  <2> QED BY <1>0, <1>c, <1>g, <2>1, <2>2 DEF TableTyped, CallTyped
<1>2. HandStays /\ HandRight'
  BY <1>0, <1>a, <1>g, OpenStays
<1>3. Inserts(c)
  BY <1>2, <1>c, <1>g DEF Inserts
<1>4. CallsInv'
  BY <1>0, <1>1, <1>2, <1>3, InsertsCalls
<1>5. ChannelInv'
  BY <1>0, <1>1, <1>a, <1>g, ChannelsStay
<1>6. OwnerInv'
  <2>1. \A d \in Callers : call'[d].op = call[d].op
    BY <1>c DEF Others, Same
  <2>2. HoldsPermit("owner")' => HoldsPermit("owner")
    BY <1>c, <1>g, CallersApart DEF HoldsPermit, Others
  <2> QED BY <1>0, <1>g, <2>1, <2>2, OwnerStays
<1>7. SessionTyped' /\ ActorsTyped' /\ FailureInv'
  BY <1>0, <1>a, <1>g DEF SessionTyped, ActorsTyped, FailureInv
<1> QED BY <1>1, <1>4, <1>5, <1>6, <1>7 DEF SessionInv

LEMMA RecheckStep ==
  ASSUME SessionInv, NEW c \in Callers, Recheck(c)
  PROVE  SessionInv'
<1>g. /\ call[c].pc = "recheck"
      /\ \/ state = RequiredState(call[c].op) /\ Goto(c, "send") /\ UNCHANGED <<permits, pending>>
         \/ state # RequiredState(call[c].op) /\ End(c, ErrorReply("Unavailable"))
      /\ UNCHANGED <<state, terminal_error, limits, next_id, highest_issued, force, actor_stop,
                     shutdown_acked, live, channels, actors, owner, watcher>>
  BY DEF Recheck, At
<1>0. /\ SessionTyped /\ TableTyped /\ ActorsTyped /\ FailureInv /\ ChannelInv /\ OwnerInv /\ CallsInv
      /\ HandRight /\ highest_issued \in Nat /\ call[c] \in CallRec
  BY Parts
<1>h. HoldsPermit(c) /\ Registered(c)
  BY <1>g DEF HoldsPermit, Registered
<1>a. reader' = reader /\ writer' = writer /\ supervisor' = supervisor /\ child' = child
  BY <1>g DEF actors
<1>2. HandStays /\ HandRight'
  BY <1>0, <1>a, <1>g, OpenStays
<1>3. TableTyped' /\ CallsInv' /\ Others(c) /\ call'[c].op \in {"none", call[c].op}
      /\ (HoldsPermit(c)' => HoldsPermit(c))
  <2>1. CASE state = RequiredState(call[c].op) /\ Goto(c, "send") /\ UNCHANGED <<permits, pending>>
    <3>1. /\ CallTyped' /\ Others(c) /\ Same(c)
          /\ call'[c].pc = "send" /\ call'[c].got = call[c].got
      BY <1>0, <2>1, GotoEffect DEF CallPCs, CallTyped, TableTyped
    <3>2. Open
      <4>1. RequiredState(call[c].op) \notin Terminal
        BY DEF RequiredState, Terminal
      <4> QED BY <2>1, <4>1 DEF Open
    <3>3. MovesOn(c)
      BY <1>2, <1>g, <1>h, <2>1, <3>1, <3>2 DEF MovesOn, IdsStay
    <3>4. TableTyped'
      BY <1>0, <1>g, <2>1, <3>1 DEF TableTyped, CallTyped
    <3>5. CallsInv'
      BY <1>0, <1>2, <3>3, <3>4, MovesOnCalls
    <3> QED BY <1>h, <3>1, <3>4, <3>5 DEF Same
  <2>2. CASE End(c, ErrorReply("Unavailable"))
    <3>1. ErrorReply("Unavailable") \in MsgRec /\ ~IsReply(ErrorReply("Unavailable"))
      BY ErrorReplyTyped DEF Reports, HostKinds
    <3>2. limits' = limits /\ IdsStay
      BY <1>g DEF IdsStay
    <3>3. TableTyped' /\ Returns(c) /\ call'[c].op \in {"none", call[c].op}
      BY <1>0, <1>2, <2>2, <3>1, <3>2, EndReturns
    <3>4. CallsInv'
      BY <1>0, <1>2, <3>3, ReturnsCalls
    <3> QED BY <1>h, <3>3, <3>4 DEF Returns
  <2> QED BY <1>g, <2>1, <2>2
<1>5. ChannelInv'
  BY <1>0, <1>3, <1>a, <1>g, ChannelsStay
<1>6. OwnerInv'
  <2>1. \A d \in Callers : call'[d].op \in {"none", call[d].op}
    BY <1>3 DEF Others
  <2>2. HoldsPermit("owner")' => HoldsPermit("owner")
    BY <1>3, CallersApart DEF HoldsPermit, Others
  <2> QED BY <1>0, <1>g, <2>1, <2>2, OwnerStays
<1>7. SessionTyped' /\ ActorsTyped' /\ FailureInv'
  BY <1>0, <1>a, <1>g DEF SessionTyped, ActorsTyped, FailureInv
<1> QED BY <1>3, <1>5, <1>6, <1>7 DEF SessionInv

\* The message of a request goes out under an id that was issued.
LEMMA RequestOfOutbound ==
  ASSUME SessionInv, NEW c \in Callers, Registered(c)
  PROVE  Outbound(RequestOf(c))
<1>0. CallOK(c) /\ call[c] \in CallRec /\ TableTyped /\ limits \in LimitRec
  BY Parts DEF TableTyped
<1>1. /\ call[c].op \in Requests \ {"Cancel"} /\ call[c].id <= highest_issued
      /\ call[c].id \in 0..MaxId /\ call[c].size \in Nat
  <2>1. HoldsPermit(c)
    BY DEF Registered, HoldsPermit
  <2> QED BY <1>0, <2>1, CallFields DEF CallOK
<1> DEFINE nested == IF call[c].op \in {"Load", "Invoke"} THEN call[c].size ELSE 0
           l == IF call[c].op = "Hello" THEN limits ELSE NoLimits
           m == Msg(call[c].op, call[c].id, call[c].size, nested, "ok")
<1>2. nested \in Nat /\ l \in LimitRec /\ "ok" \in Reports /\ call[c].op \in Kinds
  BY <1>0, <1>1, NoLimitsTyped DEF Reports, Kinds
<1>3. RequestOf(c) = [m EXCEPT !.limits = l]
  BY DEF RequestOf
<1> HIDE DEF nested, l
<1>4. m \in MsgRec /\ m.kind = call[c].op /\ m.id = call[c].id
  BY <1>1, <1>2, MsgTyped
<1> HIDE DEF m
<1>5. RequestOf(c) \in MsgRec /\ RequestOf(c).kind = call[c].op /\ RequestOf(c).id = call[c].id
  BY <1>2, <1>3, <1>4, OfferTyped
<1> QED BY <1>1, <1>5 DEF Outbound

LEMMA SendStep ==
  ASSUME SessionInv, NEW c \in Callers, Send(c)
  PROVE  SessionInv'
<1>g. /\ call[c].pc = "send"
      /\ \/ /\ ~QueueFull /\ outq' = Append(outq, RequestOf(c))
            /\ Goto(c, "wait") /\ UNCHANGED <<permits, pending>>
         \/ /\ \E e \in {"TransportClosed", "Overloaded"} : End(c, ErrorReply(e))
            /\ outq' = outq
      /\ UNCHANGED <<state, terminal_error, limits, next_id, highest_issued, force, actor_stop,
                     shutdown_acked, live, stdin, stdout, actors, owner, watcher>>
  BY DEF Send, At
<1>0. /\ SessionTyped /\ TableTyped /\ ActorsTyped /\ FailureInv /\ ChannelInv /\ OwnerInv /\ CallsInv
      /\ HandRight /\ highest_issued \in Nat /\ call[c] \in CallRec
  BY Parts
<1>h. HoldsPermit(c) /\ Registered(c)
  BY <1>g DEF HoldsPermit, Registered
<1>a. reader' = reader /\ writer' = writer /\ supervisor' = supervisor /\ child' = child
  BY <1>g DEF actors
<1>2. HandStays /\ HandRight'
  BY <1>0, <1>a, <1>g, OpenStays
<1>3. TableTyped' /\ CallsInv' /\ ChannelInv' /\ Others(c) /\ call'[c].op \in {"none", call[c].op}
  <2>1. CASE /\ ~QueueFull /\ outq' = Append(outq, RequestOf(c))
             /\ Goto(c, "wait") /\ UNCHANGED <<permits, pending>>
    <3>1. /\ CallTyped' /\ Others(c) /\ Same(c)
          /\ call'[c].pc = "wait" /\ call'[c].got = call[c].got
      BY <1>0, <2>1, GotoEffect DEF CallPCs, CallTyped, TableTyped
    <3>3. MovesOn(c)
      BY <1>2, <1>g, <1>h, <2>1, <3>1 DEF MovesOn, IdsStay
    <3>4. TableTyped'
      BY <1>0, <1>g, <2>1, <3>1 DEF TableTyped, CallTyped
    <3>5. CallsInv'
      BY <1>0, <1>2, <3>3, <3>4, MovesOnCalls
    <3>6. ChannelInv'
      BY <1>0, <1>a, <1>g, <1>h, <2>1, RequestOfOutbound, QueueGrows
    <3> QED BY <3>1, <3>4, <3>5, <3>6 DEF Same
  <2>2. ASSUME NEW e \in {"TransportClosed", "Overloaded"}, End(c, ErrorReply(e)), outq' = outq
        PROVE  /\ TableTyped' /\ CallsInv' /\ ChannelInv'
               /\ Others(c) /\ call'[c].op \in {"none", call[c].op}
    <3>1. ErrorReply(e) \in MsgRec /\ ~IsReply(ErrorReply(e))
      BY ErrorReplyTyped DEF Reports, HostKinds
    <3>2. limits' = limits /\ IdsStay
      BY <1>g DEF IdsStay
    <3>3. TableTyped' /\ Returns(c) /\ call'[c].op \in {"none", call[c].op}
      BY <1>0, <1>2, <2>2, <3>1, <3>2, EndReturns
    <3>4. CallsInv'
      BY <1>0, <1>2, <3>3, ReturnsCalls
    <3>5. ChannelInv'
      BY <1>0, <1>a, <1>g, <2>2, <3>3, ChannelsStay DEF channels
    <3> QED BY <3>3, <3>4, <3>5 DEF Returns
  <2> QED BY <1>g, <2>1, <2>2
<1>6. OwnerInv'
  <2>1. \A d \in Callers : call'[d].op \in {"none", call[d].op}
    BY <1>3 DEF Others
  <2>2. HoldsPermit("owner")' => HoldsPermit("owner")
    BY <1>3, <1>h, CallersApart DEF HoldsPermit, Others
  <2> QED BY <1>0, <1>g, <2>1, <2>2, OwnerStays
<1>7. SessionTyped' /\ ActorsTyped' /\ FailureInv'
  BY <1>0, <1>a, <1>g DEF SessionTyped, ActorsTyped, FailureInv
<1> QED BY <1>3, <1>6, <1>7 DEF SessionInv

LEMMA ReceiveStep ==
  ASSUME SessionInv, NEW c \in Callers, Receive(c)
  PROVE  SessionInv'
<1>g. /\ call[c].pc = "wait" /\ call[c].got # NoMsg
      /\ call' = [call EXCEPT ![c] = Outcome(c, call[c].got)] /\ permits' = permits + 1
      /\ pending' = pending
      /\ UNCHANGED <<state, terminal_error, limits, next_id, highest_issued, force, actor_stop,
                     shutdown_acked, live, channels, actors, owner, watcher>>
  BY DEF Receive, At
<1>0. /\ SessionTyped /\ TableTyped /\ ActorsTyped /\ FailureInv /\ ChannelInv /\ OwnerInv /\ CallsInv
      /\ HandRight /\ highest_issued \in Nat /\ call[c] \in CallRec /\ CallOK(c)
  BY Parts
<1>h. HoldsPermit(c) /\ Registered(c)
  BY <1>g DEF HoldsPermit, Registered
<1>a. reader' = reader /\ writer' = writer /\ supervisor' = supervisor /\ child' = child
  BY <1>g DEF actors
<1>2. HandStays /\ HandRight'
  BY <1>0, <1>a, <1>g, OpenStays
<1>3. TableTyped' /\ Returns(c) /\ call'[c].op \in {"none", call[c].op}
  <2>1. call[c].got \in MsgRec /\ (IsReply(call[c].got) => Answering(call[c].op, call[c].got))
    BY <1>0, CallFields DEF CallOK
  <2>2. End(c, call[c].got)
    <3>1. call[c].id \notin pending
      BY <1>0, <1>g, <1>h DEF CallOK
    <3> QED BY <1>g, <1>h, <3>1 DEF End
  <2>3. limits' = limits /\ IdsStay
    BY <1>g DEF IdsStay
  <2> QED BY <1>0, <1>2, <2>1, <2>2, <2>3, EndReturns
<1>4. CallsInv'
  BY <1>0, <1>2, <1>3, ReturnsCalls
<1>5. ChannelInv'
  BY <1>0, <1>3, <1>a, <1>g, ChannelsStay
<1>6. OwnerInv'
  <2>1. \A d \in Callers : call'[d].op \in {"none", call[d].op}
    BY <1>3 DEF Others, Returns
  <2>2. HoldsPermit("owner")' => HoldsPermit("owner")
    BY <1>3, <1>h, CallersApart DEF HoldsPermit, Others, Returns
  <2> QED BY <1>0, <1>g, <2>1, <2>2, OwnerStays
<1>7. SessionTyped' /\ ActorsTyped' /\ FailureInv'
  BY <1>0, <1>a, <1>g DEF SessionTyped, ActorsTyped, FailureInv
<1> QED BY <1>3, <1>4, <1>5, <1>6, <1>7 DEF SessionInv

-----------------------------------------------------------------------------
(***************************************************************************)
(* The steps of the invokers.                                              *)
(***************************************************************************)
LEMMA InvokeBeginStep ==
  ASSUME SessionInv, NEW i \in Invokers, NEW size \in InvokeSizes, InvokeBegin(i, size)
  PROVE  SessionInv'
<1>g. /\ call[i].pc = "idle" /\ AllocateRequestId(i, "Invoke", size)
      /\ UNCHANGED <<state, terminal_error, limits, pending, highest_issued, force,
                     actor_stop, shutdown_acked, live, channels, actors, owner, watcher>>
  BY DEF InvokeBegin, At
<1>0. /\ SessionTyped /\ TableTyped /\ ActorsTyped /\ FailureInv /\ ChannelInv /\ OwnerInv /\ CallsInv
      /\ HandRight /\ highest_issued \in Nat /\ i \in Callers
  BY Parts, CallersApart
<1>a. reader' = reader /\ writer' = writer /\ supervisor' = supervisor /\ child' = child
  BY <1>g DEF actors
<1>2. HandStays /\ HandRight'
  BY <1>0, <1>a, <1>g, OpenStays
<1>3. TableTyped' /\ Begins(i) /\ call'[i].op = "Invoke"
  <2>1. size \in Nat /\ "Invoke" \in Requests \ {"Cancel"} /\ ~HoldsPermit(i)
    BY <1>g, HostAssumption DEF Requests, HoldsPermit
  <2> QED BY <1>0, <1>2, <1>g, <2>1, AllocateBegins
<1>4. CallsInv'
  BY <1>0, <1>2, <1>3, BeginsCalls
<1>5. ChannelInv'
  BY <1>0, <1>3, <1>a, <1>g, ChannelsStay
<1>6. OwnerInv'
  <2>1. \A d \in Callers : d # i => call'[d] = call[d]
    BY <1>3 DEF Begins, Others
  <2>2. owner' = owner /\ shutdown_acked' = shutdown_acked /\ state' = state
    BY <1>g
  <2> QED BY <1>0, <1>3, <2>1, <2>2, CallersApart DEF OwnerInv, HoldsPermit
<1>7. SessionTyped' /\ ActorsTyped' /\ FailureInv'
  BY <1>0, <1>a, <1>g DEF SessionTyped, ActorsTyped, FailureInv
<1> QED BY <1>3, <1>4, <1>5, <1>6, <1>7 DEF SessionInv

LEMMA InvokeDropStep ==
  ASSUME SessionInv, NEW i \in Invokers, InvokeDrop(i)
  PROVE  SessionInv'
<1> DEFINE m == Msg("Cancel", call[i].id, 1, 0, "ok")
<1>g. /\ call[i].pc = "wait" /\ permits' = permits + 1 /\ pending' = pending \ {call[i].id}
      /\ call' = [call EXCEPT ![i] = Idle]
      /\ (~QueueFull /\ outq' = Append(outq, m)) \/ outq' = outq
      /\ UNCHANGED <<state, terminal_error, limits, next_id, highest_issued, force, actor_stop,
                     shutdown_acked, live, stdin, stdout, actors, owner, watcher>>
  BY DEF InvokeDrop, At
<1>0. /\ SessionTyped /\ TableTyped /\ ActorsTyped /\ FailureInv /\ ChannelInv /\ OwnerInv /\ CallsInv
      /\ HandRight /\ highest_issued \in Nat /\ i \in Callers /\ CallOK(i) /\ call[i] \in CallRec
  BY Parts, CallersApart
<1>h. HoldsPermit(i) /\ Registered(i)
  BY <1>g DEF HoldsPermit, Registered
<1>m. Outbound(m)
  <2>1. call[i].id \in 0..MaxId /\ call[i].id <= highest_issued
    BY <1>0, <1>h, CallFields DEF CallOK
  <2>2. "Cancel" \in Kinds /\ "Cancel" \in Requests /\ "ok" \in Reports
    BY DEF Kinds, Requests, Reports
  <2>3. m \in MsgRec /\ m.kind = "Cancel" /\ m.id = call[i].id
    BY <2>1, <2>2, MsgTyped
  <2> QED BY <2>1, <2>2, <2>3 DEF Outbound
<1> HIDE DEF m
<1>a. reader' = reader /\ writer' = writer /\ supervisor' = supervisor /\ child' = child
  BY <1>g DEF actors
<1>2. HandStays /\ HandRight'
  BY <1>0, <1>a, <1>g, OpenStays
<1>3. TableTyped' /\ Returns(i) /\ call'[i] = Idle
  <2>1. GivesBack(i) /\ IdsStay /\ limits' = limits
    BY <1>g, <1>h DEF GivesBack, IdsStay
  <2> QED BY <1>0, <1>2, <1>g, <2>1, IdleCall, GivesBackReturns
<1>4. CallsInv'
  BY <1>0, <1>2, <1>3, ReturnsCalls
<1>5. ChannelInv'
  <2>1. CASE outq' = outq
    <3>1. UNCHANGED channels /\ highest_issued <= highest_issued'
      BY <1>0, <1>g, <2>1 DEF channels
    <3> QED BY <1>0, <1>3, <1>a, <3>1, ChannelsStay
  <2>2. CASE ~QueueFull /\ outq' = Append(outq, m)
    BY <1>0, <1>a, <1>g, <1>m, <2>2, QueueGrows
  <2> QED BY <1>g, <2>1, <2>2
<1>6. OwnerInv'
  <2>1. \A d \in Callers : call'[d].op \in {"none", call[d].op}
    BY <1>3, IdleCall DEF Returns, Others
  <2>2. HoldsPermit("owner")' => HoldsPermit("owner")
    BY <1>3, CallersApart DEF HoldsPermit, Others, Returns
  <2> QED BY <1>0, <1>g, <2>1, <2>2, OwnerStays
<1>7. SessionTyped' /\ ActorsTyped' /\ FailureInv'
  BY <1>0, <1>a, <1>g DEF SessionTyped, ActorsTyped, FailureInv
<1> QED BY <1>3, <1>4, <1>5, <1>6, <1>7 DEF SessionInv

-----------------------------------------------------------------------------
(***************************************************************************)
(* The steps of the owner.                                                 *)
(***************************************************************************)
\* The state stays or moves forward, but not by the owner into a terminal one.
Forward ==
  /\ state' \in SessionStates
  /\ state' = state \/ (state \notin Terminal /\ state' \notin Terminal)
Bystanders == UNCHANGED <<terminal_error, actor_stop, live, highest_issued, channels, actors>>

\* The owner makes its next request.
LEMMA OwnerAsks ==
  ASSUME SessionInv, NEW op \in Requests \ {"Cancel"}, NEW size \in Nat, NEW st,
         Request(op, size, st), ~HoldsPermit("owner"),
         Forward, Bystanders, limits' = limits, pending' = pending, force' = force,
         shutdown_acked' = shutdown_acked, owner' \in OwnerRec, watcher' \in WatcherRec,
         owner'.phase \in Asking, op = "Shutdown" => owner'.phase = "shutdown",
         owner'.phase = "shutdown" \/ shutdown_acked => state' \in Leaving
  PROVE  SessionInv'
<1>0. /\ SessionTyped /\ TableTyped /\ ActorsTyped /\ FailureInv /\ ChannelInv /\ OwnerInv /\ CallsInv
      /\ HandRight /\ highest_issued \in Nat /\ "owner" \in Callers
  BY Parts, CallersApart
<1>a. /\ reader' = reader /\ writer' = writer /\ supervisor' = supervisor /\ child' = child
      /\ highest_issued' = highest_issued /\ UNCHANGED channels
  BY DEF actors, Bystanders
<1>2. HandStays /\ HandRight'
  BY <1>0, <1>a DEF HandStays, HandRight, Open, Resolving, Forward
<1>3. /\ TableTyped' /\ (Begins("owner") \/ Returns("owner"))
      /\ call'["owner"].op = op /\ \A i \in Invokers : call'[i] = call[i]
  BY <1>0, <1>2, <1>a, RequestEffect
<1>4. CallsInv'
  BY <1>0, <1>2, <1>3, BeginsCalls, ReturnsCalls
<1>5. ChannelInv'
  BY <1>0, <1>3, <1>a, ChannelsStay
<1>6. OwnerInv'
  BY <1>0, <1>3 DEF OwnerInv
<1>7. SessionTyped' /\ ActorsTyped' /\ FailureInv'
  BY <1>0, <1>a DEF SessionTyped, ActorsTyped, FailureInv, Bystanders, Forward, Terminal
<1> QED BY <1>3, <1>4, <1>5, <1>6, <1>7 DEF SessionInv

\* The owner has its reply, or drops the request it made.
LEMMA OwnerReturns ==
  ASSUME SessionInv, call' = [call EXCEPT !["owner"] = Idle], GivesBack("owner"),
         Forward, Bystanders, limits' = limits, next_id' = next_id, force' \in BOOLEAN,
         shutdown_acked' \in BOOLEAN, owner' \in OwnerRec, watcher' \in WatcherRec,
         owner'.phase = "shutdown" \/ shutdown_acked' => state' \in Leaving
  PROVE  SessionInv'
<1>0. /\ SessionTyped /\ TableTyped /\ ActorsTyped /\ FailureInv /\ ChannelInv /\ OwnerInv /\ CallsInv
      /\ HandRight /\ highest_issued \in Nat /\ "owner" \in Callers
  BY Parts, CallersApart
<1>a. /\ reader' = reader /\ writer' = writer /\ supervisor' = supervisor /\ child' = child
      /\ highest_issued' = highest_issued /\ UNCHANGED channels
  BY DEF actors, Bystanders
<1>2. HandStays /\ HandRight' /\ IdsStay
  BY <1>0, <1>a DEF HandStays, HandRight, Open, Resolving, Forward, IdsStay
<1>3. TableTyped' /\ Returns("owner") /\ call'["owner"] = Idle
  BY <1>0, <1>2, IdleCall, GivesBackReturns
<1>4. CallsInv'
  BY <1>0, <1>2, <1>3, ReturnsCalls
<1>5. ChannelInv'
  BY <1>0, <1>3, <1>a, ChannelsStay
<1>6. OwnerInv'
  <2>1. ~HoldsPermit("owner")' /\ call'["owner"].op = "none"
    BY <1>3, IdleCall DEF HoldsPermit
  <2>2. \A i \in Invokers : call'[i] = call[i]
    BY <1>3, CallersApart DEF Returns, Others
  <2> QED BY <1>0, <2>1, <2>2 DEF OwnerInv
<1>7. SessionTyped' /\ ActorsTyped' /\ FailureInv'
  BY <1>0, <1>a DEF SessionTyped, ActorsTyped, FailureInv, Bystanders, Forward, Terminal
<1> QED BY <1>3, <1>4, <1>5, <1>6, <1>7 DEF SessionInv

\* The owner and the watcher move without a request.
LEMMA OwnerMoves ==
  ASSUME SessionInv, UNCHANGED <<inner, channels, actors, call>>,
         owner' \in OwnerRec, watcher' \in WatcherRec,
         owner'.phase = owner.phase \/ (owner.phase \notin Asking /\ owner'.phase # "shutdown")
  PROVE  SessionInv'
<1>0. /\ SessionTyped /\ TableTyped /\ ActorsTyped /\ FailureInv /\ ChannelInv /\ OwnerInv /\ CallsInv
      /\ HandRight /\ highest_issued \in Nat
  BY Parts
<1>a. /\ reader' = reader /\ writer' = writer /\ supervisor' = supervisor /\ child' = child
      /\ UNCHANGED channels /\ call' = call /\ state' = state
      /\ terminal_error' = terminal_error /\ limits' = limits /\ pending' = pending
      /\ permits' = permits /\ next_id' = next_id /\ highest_issued' = highest_issued
      /\ force' = force /\ actor_stop' = actor_stop /\ shutdown_acked' = shutdown_acked
      /\ live' = live
  BY DEF actors, inner
<1>2. HandStays /\ HandRight'
  BY <1>0, <1>a, OpenStays
<1>3. TableTyped' /\ Rests
  BY <1>0, <1>2, <1>a DEF TableTyped, Rests, IdsStay
<1>4. CallsInv'
  BY <1>0, <1>2, <1>3, RestsCalls
<1>5. ChannelInv'
  BY <1>0, <1>3, <1>a, ChannelsStay
<1>6. OwnerInv'
  BY <1>0, <1>a DEF OwnerInv, HoldsPermit, Asking
<1>7. SessionTyped' /\ ActorsTyped' /\ FailureInv'
  BY <1>0, <1>a DEF SessionTyped, ActorsTyped, FailureInv
<1> QED BY <1>3, <1>4, <1>5, <1>6, <1>7 DEF SessionInv

\* A phase of the owner.
LEMMA PhaseTyped ==
  ASSUME owner \in OwnerRec, NEW p \in OwnerPhases, Phase(p)
  PROVE  owner' \in OwnerRec /\ owner'.phase = p
BY DEF Phase, OwnerRec

LEMMA OwnerHoldsNothing ==
  ASSUME Answered \/ call["owner"].pc = "idle"
  PROVE  /\ ~HoldsPermit("owner")
         /\ permits' = permits /\ pending' = pending => GivesBack("owner")
BY DEF Answered, At, HoldsPermit, Registered, GivesBack


LEMMA OwnerParts ==
  ASSUME SessionInv
  PROVE  /\ owner \in OwnerRec /\ watcher \in WatcherRec /\ OwnerInv /\ state \in SessionStates
         /\ force \in BOOLEAN /\ shutdown_acked \in BOOLEAN /\ limits \in LimitRec
         /\ shutdown_acked => state \in Leaving
BY DEF SessionInv, ActorsTyped, SessionTyped, TableTyped, OwnerInv

LEMMA HandshakeStep ==
  ASSUME SessionInv, Handshake
  PROVE  SessionInv'
<1>g. /\ owner.phase = "spawned" /\ state = "Created" /\ state' = "Handshaking"
      /\ Request("Hello", 1, "Handshaking") /\ Phase("hello")
      /\ UNCHANGED <<terminal_error, limits, pending, highest_issued, force, actor_stop,
                     shutdown_acked, live, channels, actors, watcher>>
  BY DEF Handshake, Transition
<1>1. ~HoldsPermit("owner") /\ ~shutdown_acked
  BY <1>g, OwnerParts DEF OwnerInv, Asking, Leaving, Terminal
<1>2. Forward /\ Bystanders
  BY <1>g DEF Forward, Bystanders, SessionStates, Terminal
<1>3. owner' \in OwnerRec /\ owner'.phase = "hello" /\ watcher' \in WatcherRec
  BY <1>g, OwnerParts, PhaseTyped DEF OwnerPhases
<1>4. "Hello" \in Requests \ {"Cancel"} /\ "hello" \in Asking
  BY DEF Requests, Asking
<1> QED BY <1>g, <1>1, <1>2, <1>3, <1>4, OwnerAsks

\* The limits only shrink, and the semaphore by as much.
LEMMA ApplyNegotiatedStep ==
  ASSUME SessionInv, ApplyNegotiated
  PROVE  SessionInv'
<1> DEFINE l == Least(limits, Reply.limits)
<1>g. /\ Answered /\ limits.inflight - l.inflight <= permits
      /\ permits' = permits - (limits.inflight - l.inflight) /\ limits' = l
      /\ state = "Handshaking" /\ state' = "Ready" /\ Phase("negotiated")
      /\ call' = [call EXCEPT !["owner"] = Idle]
      /\ UNCHANGED <<terminal_error, pending, next_id, highest_issued, force,
                     actor_stop, shutdown_acked, live, channels, actors, watcher>>
  BY DEF ApplyNegotiated, Transition
<1>0. /\ SessionTyped /\ TableTyped /\ ActorsTyped /\ FailureInv /\ ChannelInv /\ OwnerInv /\ CallsInv
      /\ HandRight /\ highest_issued \in Nat /\ "owner" \in Callers /\ call["owner"] \in CallRec
  BY Parts, CallersApart
<1>l. l \in LimitRec /\ l.inflight <= limits.inflight
  <2>1. limits \in LimitRec /\ Reply \in MsgRec
    BY <1>0, CallFields DEF TableTyped, Reply
  <2>2. Reply.limits \in LimitRec
    BY <2>1 DEF MsgRec
  <2> QED BY <2>1, <2>2, LeastTyped
<1> HIDE DEF l
<1>n. permits \in Nat /\ limits.inflight \in Nat /\ l.inflight \in Nat
  BY <1>0, <1>l DEF TableTyped, LimitRec
<1>h. ~HoldsPermit("owner") /\ ~Registered("owner")
  BY <1>g DEF Answered, At, HoldsPermit, Registered
<1>a. /\ reader' = reader /\ writer' = writer /\ supervisor' = supervisor /\ child' = child
      /\ UNCHANGED channels
  BY <1>g DEF actors
<1>2. HandStays /\ HandRight' /\ IdsStay
  BY <1>0, <1>a, <1>g DEF HandStays, HandRight, Open, Resolving, IdsStay, Terminal
<1>3. TableTyped' /\ Others("owner") /\ call'["owner"] = Idle
  <2>1. CallTyped' /\ Others("owner") /\ call'["owner"] = Idle
    BY <1>0, <1>g, IdleCall, Replaced DEF TableTyped, CallTyped
  <2>2. permits' \in Nat
    BY <1>g, <1>n
  <2> QED BY <1>0, <1>g, <1>l, <2>1, <2>2 DEF TableTyped, CallTyped
<1>4. Returns("owner")
  <2>1. /\ permits' - limits'.inflight
             = (permits - limits.inflight) + (IF HoldsPermit("owner") THEN 1 ELSE 0)
        /\ limits'.inflight <= limits.inflight
    BY <1>g, <1>h, <1>l, <1>n
  <2>2. call'["owner"].pc \in {"idle", "ended"} /\ ~IsReply(call'["owner"].got)
    BY <1>3, IdleCall
  <2> QED BY <1>2, <1>3, <1>g, <1>h, <2>1, <2>2 DEF Returns
<1>5. CallsInv'
  BY <1>0, <1>2, <1>3, <1>4, ReturnsCalls
<1>6. ChannelInv'
  BY <1>0, <1>3, <1>a, <1>g, ChannelsStay
<1>o. owner' \in OwnerRec /\ owner'.phase = "negotiated"
  BY <1>0, <1>g, PhaseTyped DEF ActorsTyped, OwnerPhases
<1>7. OwnerInv'
  <2>1. ~HoldsPermit("owner")' /\ call'["owner"].op = "none"
    BY <1>3, IdleCall DEF HoldsPermit
  <2>2. \A i \in Invokers : call'[i] = call[i]
    BY <1>3, CallersApart DEF Others
  <2>3. ~shutdown_acked'
    BY <1>0, <1>g DEF OwnerInv, Leaving, Terminal
  <2> QED BY <1>0, <1>o, <2>1, <2>2, <2>3 DEF OwnerInv
<1>8. SessionTyped' /\ ActorsTyped' /\ FailureInv'
  BY <1>0, <1>a, <1>g, <1>o DEF SessionTyped, ActorsTyped, FailureInv, SessionStates
<1> QED BY <1>3, <1>5, <1>6, <1>7, <1>8 DEF SessionInv

LEMMA LoadBeginStep ==
  ASSUME SessionInv, NEW size \in LoadSizes, LoadBegin(size)
  PROVE  SessionInv'
<1>g. /\ owner.phase = "negotiated" /\ Request("Load", size, state) /\ Phase("load")
      /\ UNCHANGED <<state, terminal_error, limits, pending, highest_issued, force,
                     actor_stop, shutdown_acked, live, channels, actors, watcher>>
  BY DEF LoadBegin
<1>1. ~HoldsPermit("owner")
  BY <1>g, OwnerParts DEF OwnerInv, Asking
<1>2. Forward /\ Bystanders
  BY <1>g, OwnerParts DEF Forward, Bystanders
<1>3. owner' \in OwnerRec /\ owner'.phase = "load" /\ watcher' \in WatcherRec
  BY <1>g, OwnerParts, PhaseTyped DEF OwnerPhases
<1>4. "Load" \in Requests \ {"Cancel"} /\ "load" \in Asking /\ size \in Nat
  BY HostAssumption DEF Requests, Asking
<1>5. shutdown_acked => state' \in Leaving
  BY <1>g, OwnerParts
<1> QED BY <1>g, <1>1, <1>2, <1>3, <1>4, <1>5, OwnerAsks

LEMMA LoadEndStep ==
  ASSUME SessionInv, LoadEnd
  PROVE  SessionInv'
<1>g. /\ Answered /\ Phase("proxy") /\ call' = [call EXCEPT !["owner"] = Idle]
      /\ UNCHANGED <<inner, channels, actors, watcher>>
  BY DEF LoadEnd
<1>1. Forward /\ Bystanders /\ next_id' = next_id /\ limits' = limits /\ state' = state
      /\ permits' = permits /\ pending' = pending /\ force' = force /\ shutdown_acked' = shutdown_acked
  BY <1>g, OwnerParts DEF Forward, Bystanders, inner
<1>2. owner' \in OwnerRec /\ owner'.phase = "proxy" /\ watcher' \in WatcherRec
  BY <1>g, OwnerParts, PhaseTyped DEF OwnerPhases
<1>3. GivesBack("owner")
  BY <1>g, <1>1, OwnerHoldsNothing
<1> QED BY <1>g, <1>1, <1>2, <1>3, OwnerParts, OwnerReturns

\* The owner is dropped armed, wherever it stands.
LEMMA OwnerDropStep ==
  ASSUME SessionInv, SessionOwnerDrop
  PROVE  SessionInv'
<1>g. /\ Phase("dropped") /\ force' = TRUE /\ call' = [call EXCEPT !["owner"] = Idle]
      /\ GivesBack("owner")
      /\ UNCHANGED <<state, terminal_error, limits, next_id, highest_issued, actor_stop,
                     shutdown_acked, live, channels, actors, watcher>>
  BY DEF SessionOwnerDrop, GivesBack
<1>1. Forward /\ Bystanders
  BY <1>g, OwnerParts DEF Forward, Bystanders
<1>2. owner' \in OwnerRec /\ owner'.phase = "dropped" /\ watcher' \in WatcherRec
  BY <1>g, OwnerParts, PhaseTyped DEF OwnerPhases
<1> QED BY <1>g, <1>1, <1>2, OwnerParts, OwnerReturns

LEMMA StartBeginStep ==
  ASSUME SessionInv, StartBegin
  PROVE  SessionInv'
<1>g. /\ owner.phase = "proxy" /\ Request("Start", 1, state) /\ Phase("start")
      /\ UNCHANGED <<state, terminal_error, limits, pending, highest_issued, force,
                     actor_stop, shutdown_acked, live, channels, actors, watcher>>
  BY DEF StartBegin
<1>1. ~HoldsPermit("owner")
  BY <1>g, OwnerParts DEF OwnerInv, Asking
<1>2. Forward /\ Bystanders
  BY <1>g, OwnerParts DEF Forward, Bystanders
<1>3. owner' \in OwnerRec /\ owner'.phase = "start" /\ watcher' \in WatcherRec
  BY <1>g, OwnerParts, PhaseTyped DEF OwnerPhases
<1>4. "Start" \in Requests \ {"Cancel"} /\ "start" \in Asking
  BY DEF Requests, Asking
<1>5. shutdown_acked => state' \in Leaving
  BY <1>g, OwnerParts
<1> QED BY <1>g, <1>1, <1>2, <1>3, <1>4, <1>5, OwnerAsks

LEMMA StartEndStep ==
  ASSUME SessionInv, StartEnd
  PROVE  SessionInv'
<1>g. /\ Answered /\ Phase("running") /\ call' = [call EXCEPT !["owner"] = Idle]
      /\ watcher' = [pc |-> "check", notified |-> FALSE]
      /\ UNCHANGED <<inner, channels, actors>>
  BY DEF StartEnd
<1>1. Forward /\ Bystanders /\ next_id' = next_id /\ limits' = limits /\ state' = state
      /\ permits' = permits /\ pending' = pending /\ force' = force /\ shutdown_acked' = shutdown_acked
  BY <1>g, OwnerParts DEF Forward, Bystanders, inner
<1>2. owner' \in OwnerRec /\ owner'.phase = "running" /\ watcher' \in WatcherRec
  BY <1>g, OwnerParts, PhaseTyped DEF OwnerPhases, WatcherRec
<1>3. GivesBack("owner")
  BY <1>g, <1>1, OwnerHoldsNothing
<1> QED BY <1>g, <1>1, <1>2, <1>3, OwnerParts, OwnerReturns

\* The cleanup begins when Start failed or the running plugin is disposed.
LEMMA BeginCleanupStep ==
  ASSUME SessionInv, BeginCleanup, Answered \/ owner.phase = "running"
  PROVE  SessionInv'
<1>g. /\ \E d \in BOOLEAN : owner' = [owner EXCEPT !.phase = "dispose", !.deadline = d]
      /\ Request("Dispose", 1, state)
      /\ watcher' = [pc |-> "off", notified |-> FALSE]
      /\ UNCHANGED <<state, terminal_error, limits, pending, highest_issued, force,
                     actor_stop, shutdown_acked, live, channels, actors>>
  BY Zenon DEF BeginCleanup
<1>1. ~HoldsPermit("owner")
  BY OwnerParts, OwnerHoldsNothing DEF OwnerInv, Asking
<1>2. Forward /\ Bystanders
  BY <1>g, OwnerParts DEF Forward, Bystanders
<1>3. owner' \in OwnerRec /\ owner'.phase = "dispose" /\ watcher' \in WatcherRec
  BY <1>g, OwnerParts DEF OwnerPhases, OwnerRec, WatcherRec
<1>4. "Dispose" \in Requests \ {"Cancel"} /\ "dispose" \in Asking
  BY DEF Requests, Asking
<1>5. shutdown_acked => state' \in Leaving
  BY <1>g, OwnerParts
<1> QED BY <1>g, <1>1, <1>2, <1>3, <1>4, <1>5, OwnerAsks

LEMMA ShutdownBeginStep ==
  ASSUME SessionInv, ShutdownBegin
  PROVE  SessionInv'
<1>g. /\ Answered
      /\ \/ /\ state = "Ready" /\ state' = "Draining" /\ Request("Shutdown", 1, "Draining")
            /\ Phase("shutdown")
         \/ /\ owner' = [owner EXCEPT !.phase = "join", !.shutdown = "error"]
            /\ call' = [call EXCEPT !["owner"] = Idle]
            /\ UNCHANGED <<state, permits, next_id>>
      /\ UNCHANGED <<terminal_error, limits, pending, highest_issued, force, actor_stop,
                     shutdown_acked, live, channels, actors, watcher>>
  BY DEF ShutdownBegin, Transition
<1>1. /\ ~HoldsPermit("owner")
      /\ permits' = permits /\ pending' = pending => GivesBack("owner")
  BY <1>g, OwnerHoldsNothing
<1>2. Forward /\ Bystanders /\ watcher' \in WatcherRec
  BY <1>g, OwnerParts DEF Forward, Bystanders, SessionStates, Terminal
<1>3. CASE /\ state = "Ready" /\ state' = "Draining" /\ Request("Shutdown", 1, "Draining")
           /\ Phase("shutdown")
  <2>1. owner' \in OwnerRec /\ owner'.phase = "shutdown"
    BY <1>3, OwnerParts, PhaseTyped DEF OwnerPhases
  <2>2. "Shutdown" \in Requests \ {"Cancel"} /\ "shutdown" \in Asking /\ state' \in Leaving
    BY <1>3 DEF Requests, Asking, Leaving
  <2> QED BY <1>g, <1>1, <1>2, <1>3, <2>1, <2>2, OwnerAsks
<1>4. CASE /\ owner' = [owner EXCEPT !.phase = "join", !.shutdown = "error"]
           /\ call' = [call EXCEPT !["owner"] = Idle]
           /\ UNCHANGED <<state, permits, next_id>>
  <2>1. owner' \in OwnerRec /\ owner'.phase = "join"
    BY <1>4, OwnerParts DEF OwnerRec, OwnerPhases
  <2> QED BY <1>g, <1>1, <1>2, <1>4, <2>1, OwnerParts, OwnerReturns
<1> QED BY <1>g, <1>3, <1>4

LEMMA ShutdownEndStep ==
  ASSUME SessionInv, ShutdownEnd
  PROVE  SessionInv'
<1>g. /\ owner.phase = "shutdown" /\ Answered
      /\ owner' = [owner EXCEPT !.phase = "join",
                     !.shutdown = IF Reply.kind = "ShutdownAck" THEN "ok" ELSE "error"]
      /\ shutdown_acked' = (shutdown_acked \/ Reply.kind = "ShutdownAck")
      /\ call' = [call EXCEPT !["owner"] = Idle]
      /\ UNCHANGED <<state, terminal_error, limits, pending, permits, next_id,
                     highest_issued, force, actor_stop, live, channels, actors, watcher>>
  BY DEF ShutdownEnd
<1>1. Forward /\ Bystanders /\ watcher' \in WatcherRec /\ force' \in BOOLEAN
  BY <1>g, OwnerParts DEF Forward, Bystanders
<1>2. owner' \in OwnerRec /\ owner'.phase = "join" /\ shutdown_acked' \in BOOLEAN
  BY <1>g, OwnerParts DEF OwnerRec, OwnerPhases
<1>3. GivesBack("owner")
  BY <1>g, OwnerHoldsNothing
<1>4. state' \in Leaving
  BY <1>g, OwnerParts DEF OwnerInv
<1> QED BY <1>g, <1>1, <1>2, <1>3, <1>4, OwnerReturns

LEMMA WaitCompletionStep ==
  ASSUME SessionInv, WaitCompletion
  PROVE  SessionInv'
<1>g. /\ owner.phase = "join" /\ Phase("done")
      /\ UNCHANGED <<inner, channels, actors, call, watcher>>
  BY DEF WaitCompletion
<1>1. owner' \in OwnerRec /\ owner'.phase = "done" /\ watcher' \in WatcherRec
  BY <1>g, OwnerParts, PhaseTyped DEF OwnerPhases
<1>2. owner.phase \notin Asking /\ owner'.phase # "shutdown"
  BY <1>g, <1>1 DEF Asking
<1>3. UNCHANGED <<inner, channels, actors, call>>
  BY <1>g
<1> QED BY <1>1, <1>2, <1>3, OwnerMoves

LEMMA WaitForFailureStep ==
  ASSUME SessionInv, WaitForFailure
  PROVE  SessionInv'
<1>1. watcher' \in WatcherRec /\ owner' = owner /\ UNCHANGED <<inner, channels, actors, call>>
  <2>0. watcher \in WatcherRec
    BY OwnerParts
  <2>1. ASSUME NEW next \in {"recheck", "off"}, WatcherSees(next) PROVE watcher' \in WatcherRec
    <3> DEFINE turn == CASE state = "Failed" -> "reported" [] state = "Closed" -> "off"
                         [] OTHER -> next
    <3>1. turn \in {"off", "check", "recheck", "wait", "reported"}
      OBVIOUS
    <3>2. watcher' = [watcher EXCEPT !.pc = turn, !.notified = FALSE]
      BY <2>1 DEF WatcherSees
    <3> HIDE DEF turn
    <3> QED BY <2>0, <3>1, <3>2 DEF WatcherRec
  <2>2. ASSUME watcher' = [watcher EXCEPT !.pc = "wait"] PROVE watcher' \in WatcherRec
    BY <2>0, <2>2 DEF WatcherRec
  <2>3. [pc |-> "check", notified |-> FALSE] \in WatcherRec
    BY DEF WatcherRec
  <2>4. WatcherCheck \/ WatcherRecheck \/ WatcherWake => watcher' \in WatcherRec
    BY <2>1, <2>2, <2>3 DEF WatcherCheck, WatcherRecheck, WatcherWake
  <2> QED BY <2>4 DEF WaitForFailure
<1>2. owner' \in OwnerRec
  BY <1>1, OwnerParts
<1> QED BY <1>1, <1>2, OwnerMoves

LEMMA OwnerSteps ==
  ASSUME SessionInv, OwnerStep \/ LoadAbandoned \/ StartBegin \/ Disposed \/ DeadlineExpires
  PROVE  SessionInv'
<1>1. CASE Handshake \/ ApplyNegotiated \/ (\E n \in LoadSizes : LoadBegin(n)) \/ LoadEnd
  BY <1>1, HandshakeStep, ApplyNegotiatedStep, LoadBeginStep, LoadEndStep
<1>2. CASE StartBegin \/ StartEnd
  BY <1>2, StartBeginStep, StartEndStep
<1>3. CASE StartFailed \/ Disposed \/ FailureConverges
  BY <1>3, BeginCleanupStep DEF StartFailed, Disposed, FailureConverges
<1>4. CASE LoadFailed \/ LoadAbandoned \/ DeadlineExpires
  BY <1>4, OwnerDropStep DEF LoadFailed, LoadAbandoned, DeadlineExpires
<1>5. CASE ShutdownBegin \/ ShutdownEnd \/ WaitCompletion
  BY <1>5, ShutdownBeginStep, ShutdownEndStep, WaitCompletionStep
<1> QED BY <1>1, <1>2, <1>3, <1>4, <1>5 DEF OwnerStep

-----------------------------------------------------------------------------
(***************************************************************************)
(* The steps of the actors.                                                *)
(***************************************************************************)
\* The actors decide the state once; a session that failed has its reason.
LEMMA FailureTyped ==
  ASSUME SessionTyped, FailureInv, NEW error \in HostKinds, TransitionToFailed(error)
  PROVE  /\ state' \in SessionStates /\ terminal_error' \in HostKinds \cup {"none"}
         /\ state' = "Failed" => terminal_error' # "none"
         /\ state \in Terminal => state' = state
         /\ state \notin Terminal => state' = "Failed"
         /\ state' \in Terminal /\ state' \in Leaving
BY DEF SessionTyped, FailureInv, TransitionToFailed, SessionStates, Terminal, Leaving, HostKinds

\* An actor leaves the requests alone.
LEMMA ActorStep ==
  ASSUME SessionInv,
         UNCHANGED <<limits, pending, permits, next_id, highest_issued, call, owner, watcher,
                     shutdown_acked>>,
         SessionTyped', ActorsTyped', FailureInv', ChannelInv', HandStays, HandRight',
         state \in Leaving => state' \in Leaving
  PROVE  SessionInv'
<1>0. /\ TableTyped /\ OwnerInv /\ CallsInv
  BY Parts
<1>1. TableTyped' /\ Rests
  BY <1>0 DEF TableTyped, Rests, IdsStay
<1>2. CallsInv'
  BY <1>0, <1>1, RestsCalls
<1>3. OwnerInv'
  BY <1>0 DEF OwnerInv, HoldsPermit
<1> QED BY <1>1, <1>2, <1>3 DEF SessionInv

\* An actor that decided the terminal state answers the pending requests.
LEMMA ResolverStep ==
  ASSUME SessionInv, NEW ids, NEW e \in Reports, ResolvePending(ids, e), pending \subseteq ids,
         UNCHANGED <<state, terminal_error, limits, permits, next_id, highest_issued,
                     shutdown_acked, live, owner>>,
         reader.hand \in ids \/ reader'.hand = reader.hand,
         reader' \in ReaderRec, writer' \in WriterRec, HandRight', ChannelInv',
         supervisor' \in {"select", "killed", "resolve", "join", "exited"}, child' = child,
         reader'.pc = "resolve" => reader.pc = "resolve",
         writer'.pc = "resolve" => writer.pc = "resolve"
  PROVE  SessionInv'
<1>0. /\ SessionTyped /\ TableTyped /\ ActorsTyped /\ FailureInv /\ OwnerInv /\ CallsInv
  BY Parts
<1>1. TableTyped' /\ Resolves(ids) /\ \A c \in Callers : call'[c].op = call[c].op
  <2>1. IdsStay
    BY DEF IdsStay
  <2> QED BY <1>0, <2>1, ResolvePendingEffect
<1>2. CallsInv'
  BY <1>0, <1>1, ResolvesCalls
<1>3. OwnerInv'
  <2>1. \A c \in Callers : call'[c].pc = call[c].pc
    BY <1>1 DEF Resolves
  <2> QED BY <1>0, <1>1, <2>1, CallersApart DEF OwnerInv, HoldsPermit
<1>4. SessionTyped' /\ FailureInv'
  BY <1>0 DEF SessionTyped, FailureInv, ResolvePending
<1>5. watcher' \in WatcherRec
  <2>1. watcher \in WatcherRec
    BY <1>0 DEF ActorsTyped
  <2>2. watcher' = [watcher EXCEPT !.notified = @ \/ watcher.pc \in {"recheck", "wait"}]
    BY DEF ResolvePending
  <2>3. watcher.notified \in BOOLEAN
    BY <2>1 DEF WatcherRec
  <2>4. (watcher.notified \/ watcher.pc \in {"recheck", "wait"}) \in BOOLEAN
    OBVIOUS
  <2> QED BY <2>1, <2>2, <2>4 DEF WatcherRec
<1>6. ActorsTyped'
  BY <1>0, <1>5 DEF ActorsTyped
<1> QED BY <1>1, <1>2, <1>3, <1>4, <1>6 DEF SessionInv

-----------------------------------------------------------------------------
(***************************************************************************)
(* The writer.                                                             *)
(***************************************************************************)
LEMMA WriterTyped ==
  ASSUME NEW pc \in {"recv", "write", "resolve", "exited"}, NEW m \in MsgRec
  PROVE  [pc |-> pc, msg |-> m] \in WriterRec
BY DEF WriterRec

LEMMA EmptyQueue == <<>> \in Seq(MsgRec) /\ Len(<<>>) <= QueueCap /\ DOMAIN <<>> = {}
BY HostAssumption

LEMMA QueueTail ==
  ASSUME ChannelInv, outq # <<>>
  PROVE  /\ Outbound(Head(outq)) /\ Tail(outq) \in Seq(MsgRec) /\ Len(Tail(outq)) <= QueueCap
         /\ \A n \in DOMAIN Tail(outq) : Outbound(Tail(outq)[n])
<1>1. outq \in Seq(MsgRec) /\ Len(outq) <= QueueCap /\ \A n \in DOMAIN outq : Outbound(outq[n])
  BY DEF ChannelInv
<1>2. Len(outq) \in Nat \ {0} /\ DOMAIN outq = 1..Len(outq) /\ QueueCap \in Nat
  BY <1>1, HostAssumption
<1>3. Head(outq) = outq[1] /\ Tail(outq) \in Seq(MsgRec) /\ Len(Tail(outq)) = Len(outq) - 1
  BY <1>1, <1>2
<1>4. \A n \in DOMAIN Tail(outq) : n + 1 \in DOMAIN outq /\ Tail(outq)[n] = outq[n + 1]
  BY <1>1, <1>2, <1>3
<1> QED BY <1>1, <1>2, <1>3, <1>4

\* The queue and the writer move; what is in the pipe stays.
LEMMA WriterChannels ==
  ASSUME ChannelInv, outq' \in Seq(MsgRec), Len(outq') <= QueueCap,
         \A n \in DOMAIN outq' : Outbound(outq'[n]),
         writer'.pc = "write" => Outbound(writer'.msg),
         stdin' = stdin, stdout' = stdout, highest_issued' = highest_issued
  PROVE  ChannelInv'
BY DEF ChannelInv, Outbound

WriterFrame ==
  UNCHANGED <<limits, pending, permits, next_id, highest_issued, force, actor_stop,
              shutdown_acked, live, stdout, reader, supervisor, child, clients>>

\* The writer ends, or goes on to answer the requests of the session it ended.
LEMMA WriterFailsStep ==
  ASSUME SessionInv, NEW error \in HostKinds, NEW rest, WriterFails(error, rest),
         WriterFrame, stdin' = stdin, writer.pc \in {"recv", "write"},
         rest \in Seq(MsgRec), Len(rest) <= QueueCap, \A n \in DOMAIN rest : Outbound(rest[n])
  PROVE  SessionInv'
<1>0. /\ SessionTyped /\ TableTyped /\ ActorsTyped /\ FailureInv /\ ChannelInv /\ HandRight
  BY Parts
<1>g. /\ TransitionToFailed(error)
      /\ outq' = IF state \in Terminal THEN <<>> ELSE rest
      /\ writer' = [pc |-> IF state \in Terminal THEN "exited" ELSE "resolve", msg |-> NoMsg]
  BY DEF WriterFails
<1>u. /\ UNCHANGED <<limits, pending, permits, next_id, highest_issued, call, owner, watcher,
                     shutdown_acked>>
      /\ force' = force /\ actor_stop' = actor_stop /\ live' = live /\ stdout' = stdout
      /\ reader' = reader /\ supervisor' = supervisor /\ child' = child
  BY DEF WriterFrame, clients
<1>s. /\ state' \in SessionStates /\ terminal_error' \in HostKinds \cup {"none"}
      /\ state' = "Failed" => terminal_error' # "none"
      /\ state \in Terminal => state' = state
      /\ state \notin Terminal => state' = "Failed"
      /\ state' \in Terminal /\ state' \in Leaving
  BY <1>0, <1>g, FailureTyped
<1>w. writer' \in WriterRec /\ writer'.pc = IF state \in Terminal THEN "exited" ELSE "resolve"
  BY <1>g, NoMsgTyped, WriterTyped
<1>1. SessionTyped' /\ ActorsTyped'
  BY <1>0, <1>s, <1>u, <1>w DEF SessionTyped, ActorsTyped
<1>2. FailureInv'
  BY <1>0, <1>s, <1>u, <1>w DEF FailureInv, Terminal
<1>3. HandStays /\ HandRight'
  BY <1>0, <1>s, <1>u, <1>w DEF HandStays, HandRight, Open, Resolving
<1>4. ChannelInv'
  <2>1. outq' \in Seq(MsgRec) /\ Len(outq') <= QueueCap /\ \A n \in DOMAIN outq' : Outbound(outq'[n])
    BY <1>g, EmptyQueue
  <2>2. writer'.pc # "write"
    BY <1>w
  <2> QED BY <1>0, <1>u, <2>1, <2>2, WriterChannels
<1> QED BY <1>1, <1>2, <1>3, <1>4, <1>s, <1>u, ActorStep

\* The writer stops, takes a message or has written it.
LEMMA WriterGoes ==
  ASSUME SessionInv, WriterFrame, state' = state, terminal_error' = terminal_error,
         writer.pc # "resolve", writer' \in WriterRec, writer'.pc # "resolve", ChannelInv'
  PROVE  SessionInv'
<1>0. /\ SessionTyped /\ TableTyped /\ ActorsTyped /\ FailureInv /\ ChannelInv /\ HandRight
  BY Parts
<1>u. /\ UNCHANGED <<limits, pending, permits, next_id, highest_issued, call, owner, watcher,
                     shutdown_acked>>
      /\ force' = force /\ actor_stop' = actor_stop /\ live' = live
      /\ reader' = reader /\ supervisor' = supervisor /\ child' = child
  BY DEF WriterFrame, clients
<1>1. SessionTyped' /\ ActorsTyped' /\ FailureInv'
  BY <1>0, <1>u DEF SessionTyped, ActorsTyped, FailureInv
<1>2. HandStays /\ HandRight'
  BY <1>0, <1>u DEF HandStays, HandRight, Open, Resolving
<1> QED BY <1>1, <1>2, <1>u, ActorStep

LEMMA WriterStopStep ==
  ASSUME SessionInv, WriterStop
  PROVE  SessionInv'
<1>g. /\ writer.pc = "recv" /\ writer' = [pc |-> "exited", msg |-> NoMsg] /\ outq' = <<>>
      /\ UNCHANGED <<inner, stdin, stdout, reader, supervisor, child, clients>>
  BY DEF WriterStop, WriterExit
<1>1. WriterFrame /\ state' = state /\ terminal_error' = terminal_error
      /\ stdin' = stdin /\ stdout' = stdout /\ highest_issued' = highest_issued
  BY <1>g DEF WriterFrame, inner
<1>2. writer' \in WriterRec /\ writer'.pc = "exited"
  BY <1>g, NoMsgTyped, WriterTyped
<1>3. outq' \in Seq(MsgRec) /\ Len(outq') <= QueueCap /\ DOMAIN outq' = {}
  BY <1>g, EmptyQueue
<1>4. ChannelInv'
  BY <1>1, <1>2, <1>3, Parts, WriterChannels
<1> QED BY <1>g, <1>1, <1>2, <1>4, WriterGoes

LEMMA WriterRecvStep ==
  ASSUME SessionInv, WriterRecv
  PROVE  SessionInv'
<1> DEFINE e == Encode(Head(outq), WriteLimit(Head(outq)))
<1>g. /\ writer.pc = "recv" /\ outq # <<>>
      /\ \/ /\ writer' = [pc |-> "write", msg |-> Head(outq)] /\ outq' = Tail(outq)
            /\ UNCHANGED <<state, terminal_error>>
         \/ ~e.ok /\ WriterFails(e.error, Tail(outq))
      /\ UNCHANGED <<limits, pending, permits, next_id, highest_issued, force, actor_stop,
                     shutdown_acked, live, stdin, stdout, reader, supervisor, child, clients>>
  BY DEF WriterRecv
<1>1. WriterFrame /\ stdin' = stdin /\ stdout' = stdout /\ highest_issued' = highest_issued
  BY <1>g DEF WriterFrame
<1>2. /\ Outbound(Head(outq)) /\ Tail(outq) \in Seq(MsgRec) /\ Len(Tail(outq)) <= QueueCap
      /\ \A n \in DOMAIN Tail(outq) : Outbound(Tail(outq)[n])
  BY <1>g, Parts, QueueTail
<1>3. CASE /\ writer' = [pc |-> "write", msg |-> Head(outq)] /\ outq' = Tail(outq)
           /\ UNCHANGED <<state, terminal_error>>
  <2>1. Head(outq) \in MsgRec
    BY <1>2 DEF Outbound
  <2>2. writer' \in WriterRec /\ writer'.pc = "write" /\ writer'.msg = Head(outq)
    BY <1>3, <2>1, WriterTyped
  <2>3. ChannelInv'
    BY <1>1, <1>2, <1>3, <2>2, Parts, WriterChannels
  <2> QED BY <1>g, <1>1, <1>3, <2>2, <2>3, WriterGoes
<1>4. CASE ~e.ok /\ WriterFails(e.error, Tail(outq))
  <2>1. e.error \in HostKinds
    BY <1>4, EncodeFacts
  <2> QED BY <1>g, <1>1, <1>2, <1>4, <2>1, WriterFailsStep
<1> QED BY <1>g, <1>3, <1>4

LEMMA WriterWriteStep ==
  ASSUME SessionInv, WriterWrite
  PROVE  SessionInv'
<1>g. /\ writer.pc = "write"
      /\ \/ /\ Cardinality(stdin) < PipeCap /\ stdin' = stdin \cup {Frame(writer.msg)}
            /\ writer' = [pc |-> "recv", msg |-> NoMsg]
            /\ UNCHANGED <<state, terminal_error, outq>>
         \/ WriterFails("TransportClosed", outq) /\ UNCHANGED stdin
      /\ UNCHANGED <<limits, pending, permits, next_id, highest_issued, force, actor_stop,
                     shutdown_acked, live, stdout, reader, supervisor, child, clients>>
  BY DEF WriterWrite
<1>0. ChannelInv
  BY Parts
<1>1. WriterFrame /\ stdout' = stdout /\ highest_issued' = highest_issued
  BY <1>g DEF WriterFrame
<1>2. CASE /\ Cardinality(stdin) < PipeCap /\ stdin' = stdin \cup {Frame(writer.msg)}
           /\ writer' = [pc |-> "recv", msg |-> NoMsg]
           /\ UNCHANGED <<state, terminal_error, outq>>
  <2>1. writer' \in WriterRec /\ writer'.pc = "recv"
    BY <1>2, NoMsgTyped, WriterTyped
  <2>2. /\ writer.msg \in MsgRec /\ writer.msg.kind \in Requests /\ writer.msg.kind \in Kinds
        /\ writer.msg.id <= highest_issued
    BY <1>0, <1>g DEF ChannelInv, Outbound, Kinds
  <2>3. /\ Frame(writer.msg) \in FrameRec /\ Frame(writer.msg).id = writer.msg.id
        /\ Frame(writer.msg).tag \in RequestTags
    BY <2>2, FrameTyped
  <2>4. IsFiniteSet(stdin') /\ Cardinality(stdin') <= PipeCap
    <3>1. IsFiniteSet(stdin)
      BY <1>0 DEF ChannelInv
    <3>2. /\ IsFiniteSet(stdin') /\ Cardinality(stdin) \in Nat
          /\ Cardinality(stdin') = Cardinality(stdin) \/ Cardinality(stdin') = Cardinality(stdin) + 1
      BY <1>2, <3>1, FS_AddElement, FS_CardinalityType
    <3> QED BY <1>2, <3>2, HostAssumption
  <2>5. stdin' \subseteq FrameRec /\ \A f \in stdin' : f.tag \in RequestTags /\ f.id <= highest_issued
    BY <1>0, <1>2, <2>2, <2>3 DEF ChannelInv
  <2>6. ChannelInv'
    BY <1>0, <1>1, <1>2, <2>1, <2>4, <2>5 DEF ChannelInv, Outbound
  <2> QED BY <1>g, <1>1, <1>2, <2>1, <2>6, WriterGoes
<1>3. CASE WriterFails("TransportClosed", outq) /\ UNCHANGED stdin
  <2>1. /\ outq \in Seq(MsgRec) /\ Len(outq) <= QueueCap /\ \A n \in DOMAIN outq : Outbound(outq[n])
        /\ "TransportClosed" \in HostKinds
    BY <1>0 DEF ChannelInv, HostKinds
  <2> QED BY <1>g, <1>1, <1>3, <2>1, WriterFailsStep
<1> QED BY <1>g, <1>2, <1>3

LEMMA WriterResolveStep ==
  ASSUME SessionInv, WriterResolve
  PROVE  SessionInv'
<1>g. /\ writer.pc = "resolve" /\ ResolvePending(pending, terminal_error)
      /\ writer' = [pc |-> "exited", msg |-> NoMsg] /\ outq' = <<>>
      /\ UNCHANGED <<state, terminal_error, limits, permits, next_id, highest_issued,
                     shutdown_acked, live, stdin, stdout, reader, supervisor, child, owner>>
  BY DEF WriterResolve, WriterExit
<1>0. SessionTyped /\ ActorsTyped /\ FailureInv /\ HandRight /\ ChannelInv
  BY Parts
<1>1. terminal_error \in Reports
  BY <1>0, <1>g DEF FailureInv, SessionTyped, Reports
<1>2. writer' \in WriterRec /\ writer'.pc = "exited"
  BY <1>g, NoMsgTyped, WriterTyped
<1>3. outq' \in Seq(MsgRec) /\ Len(outq') <= QueueCap /\ DOMAIN outq' = {}
  BY <1>g, EmptyQueue
<1>4. ChannelInv'
  BY <1>0, <1>g, <1>2, <1>3, WriterChannels
<1>5. /\ reader'.hand = reader.hand /\ reader' \in ReaderRec /\ HandRight'
      /\ supervisor' \in {"select", "killed", "resolve", "join", "exited"} /\ child' = child
  BY <1>0, <1>g DEF ActorsTyped, HandRight
<1> QED BY <1>g, <1>1, <1>2, <1>4, <1>5, ResolverStep

-----------------------------------------------------------------------------
(***************************************************************************)
(* The reader.                                                             *)
(***************************************************************************)
LEMMA StoppedTyped ==
  /\ Stopped \in ReaderRec /\ Stopped.pc = "exited" /\ Stopped.hand = 0
  /\ Stopped = [pc |-> "exited", limit |-> 0, hand |-> 0]
BY HostAssumption DEF Stopped, ReaderRec

\* The reader at a program point, with a limit, or with a request in its hand.
LEMMA ReaderAt ==
  ASSUME NEW pc \in {"limit", "read", "resolve", "exited"}
  PROVE  /\ [Stopped EXCEPT !.pc = pc] \in ReaderRec
         /\ [Stopped EXCEPT !.pc = pc].pc = pc /\ [Stopped EXCEPT !.pc = pc].hand = 0
BY StoppedTyped DEF ReaderRec

LEMMA ReaderWaits ==
  ASSUME NEW n \in Nat
  PROVE  /\ [Stopped EXCEPT !.pc = "read", !.limit = n] \in ReaderRec
         /\ [Stopped EXCEPT !.pc = "read", !.limit = n].pc = "read"
         /\ [Stopped EXCEPT !.pc = "read", !.limit = n].hand = 0
BY StoppedTyped DEF ReaderRec

LEMMA ReaderHolds ==
  ASSUME NEW id \in 0..MaxId
  PROVE  /\ [Stopped EXCEPT !.pc = "resolve", !.hand = id] \in ReaderRec
         /\ [Stopped EXCEPT !.pc = "resolve", !.hand = id].pc = "resolve"
         /\ [Stopped EXCEPT !.pc = "resolve", !.hand = id].hand = id
BY StoppedTyped DEF ReaderRec

\* A frame is awaited next.
LEMMA AwaitsFrame ==
  ASSUME reader' = [Stopped EXCEPT !.pc = "limit"]
  PROVE  reader' \in ReaderRec /\ reader'.pc = "limit" /\ reader'.hand = 0
BY ReaderAt

LEMMA EmptyOutput == <<>> \in Seq(FrameRec) /\ Len(<<>>) <= OutputCap
BY HostAssumption

LEMMA OutputTail ==
  ASSUME ChannelInv, stdout # <<>>
  PROVE  /\ Head(stdout) \in FrameRec /\ Tail(stdout) \in Seq(FrameRec)
         /\ Len(Tail(stdout)) <= OutputCap
<1>1. stdout \in Seq(FrameRec) /\ Len(stdout) <= OutputCap
  BY DEF ChannelInv
<1>2. Len(stdout) \in Nat \ {0} /\ OutputCap \in Nat
  BY <1>1, HostAssumption
<1>3. Head(stdout) \in FrameRec /\ Tail(stdout) \in Seq(FrameRec) /\ Len(Tail(stdout)) = Len(stdout) - 1
  BY <1>1, <1>2
<1> QED BY <1>1, <1>2, <1>3

ReaderFrame ==
  UNCHANGED <<limits, permits, next_id, highest_issued, force, actor_stop, live,
              outq, stdin, writer, supervisor, child, owner, watcher>>

\* What a step of the reader does beside its requests.
ReaderMoves ==
  /\ reader' \in ReaderRec /\ HandRight'
  /\ stdout' \in Seq(FrameRec) /\ Len(stdout') <= OutputCap
  /\ state' \in SessionStates /\ terminal_error' \in HostKinds \cup {"none"}
  /\ state' = "Failed" => terminal_error' # "none"
  /\ state \in Terminal => state' = state
  /\ reader'.pc = "resolve" => state' = "Failed"
  /\ state' # state => state' = "Failed" /\ reader'.pc = "resolve"

LEMMA ReaderStepInv ==
  ASSUME SessionInv, ReaderFrame, ReaderMoves, TableTyped', CallsInv',
         shutdown_acked' \in BOOLEAN, shutdown_acked' => state \in Leaving,
         \A c \in Callers : call'[c].op = call[c].op /\ call'[c].pc = call[c].pc
  PROVE  SessionInv'
<1>0. /\ SessionTyped /\ TableTyped /\ ActorsTyped /\ FailureInv /\ ChannelInv /\ OwnerInv
  BY Parts
<1>1. SessionTyped' /\ ActorsTyped' /\ FailureInv'
  BY <1>0 DEF SessionTyped, ActorsTyped, FailureInv, ReaderFrame, ReaderMoves, Terminal
<1>2. ChannelInv'
  BY <1>0 DEF ChannelInv, Outbound, ReaderFrame, ReaderMoves
<1>3. OwnerInv'
  <2>1. state \in Leaving => state' \in Leaving
    BY DEF ReaderMoves, Leaving, Terminal
  <2>2. owner' = owner
    BY DEF ReaderFrame
  <2> QED BY <1>0, <2>1, <2>2, CallersApart DEF OwnerInv, HoldsPermit
<1> QED BY <1>1, <1>2, <1>3 DEF SessionInv

\* The reader opens a frame or drops it, and no request is answered.
LEMMA ReaderRests ==
  ASSUME SessionInv, ReaderFrame, ReaderMoves, reader.pc # "resolve",
         UNCHANGED <<pending, call, shutdown_acked>>, reader'.hand = 0
  PROVE  SessionInv'
<1>0. /\ TableTyped /\ CallsInv /\ HandRight /\ SessionTyped
  BY Parts
<1>f. /\ limits' = limits /\ permits' = permits /\ next_id' = next_id
      /\ highest_issued' = highest_issued /\ writer' = writer /\ supervisor' = supervisor
  BY DEF ReaderFrame
<1>m. HandRight' /\ (state \in Terminal => state' = state)
      /\ (state' # state => reader'.pc = "resolve")
  BY DEF ReaderMoves
<1>1. HandStays
  <2>1. reader'.hand = reader.hand
    BY <1>0 DEF HandRight
  <2>2. Open => Open'
    BY <1>f, <1>m DEF Open, Resolving
  <2> QED BY <2>1, <2>2 DEF HandStays
<1>2. TableTyped' /\ Rests
  BY <1>0, <1>1, <1>f DEF TableTyped, Rests, IdsStay
<1>3. CallsInv'
  BY <1>0, <1>2, <1>m, RestsCalls
<1>4. shutdown_acked' \in BOOLEAN /\ (shutdown_acked' => state \in Leaving)
  BY OwnerParts
<1> QED BY <1>2, <1>3, <1>4, ReaderStepInv

LEMMA ReaderLimitStep ==
  ASSUME SessionInv, ReaderLimit
  PROVE  SessionInv'
<1>g. /\ reader.pc = "limit" /\ reader' = [Stopped EXCEPT !.pc = "read", !.limit = ReadLimit]
      /\ UNCHANGED <<inner, channels, writer, supervisor, child, clients>>
  BY DEF ReaderLimit
<1>0. SessionTyped /\ FailureInv /\ ChannelInv /\ limits \in LimitRec
  BY Parts DEF TableTyped
<1>1. ReadLimit \in Nat
  <2>1. limits.frame \in Nat /\ LocalLimits.frame \in Nat
    BY <1>0, HostAssumption DEF LimitRec
  <2>2. ControlMax \in Nat /\ HandshakeMax \in Nat
    BY <2>1, HostAssumption
  <2> QED BY <2>1, <2>2 DEF ReadLimit
<1>2. reader' \in ReaderRec /\ reader'.pc = "read" /\ reader'.hand = 0
  BY <1>1, <1>g, ReaderWaits
<1>3. ReaderFrame /\ UNCHANGED <<pending, call, shutdown_acked, state, terminal_error, stdout>>
  BY <1>g DEF ReaderFrame, inner, channels, clients
<1>4. ReaderMoves
  BY <1>0, <1>2, <1>3 DEF ReaderMoves, HandRight, SessionTyped, FailureInv, ChannelInv
<1> QED BY <1>2, <1>3, <1>4, <1>g, ReaderRests

\* What ReaderExit, Continue and an unchanged session give.
LEMMA ReaderGoes ==
  ASSUME SessionInv, ReaderExit \/ (Continue /\ stdout # <<>>),
         UNCHANGED <<state, terminal_error>>
  PROVE  ReaderMoves /\ reader'.hand = 0 /\ reader'.pc # "resolve"
<1>0. SessionTyped /\ FailureInv /\ ChannelInv
  BY Parts
<1>1. reader' \in ReaderRec /\ reader'.hand = 0 /\ reader'.pc # "resolve"
  <2>1. CASE ReaderExit
    BY <2>1, StoppedTyped DEF ReaderExit
  <2>2. CASE Continue
    BY <2>2, AwaitsFrame DEF Continue
  <2> QED BY <2>1, <2>2
<1>2. stdout' \in Seq(FrameRec) /\ Len(stdout') <= OutputCap
  <2>1. CASE ReaderExit
    BY <2>1, EmptyOutput DEF ReaderExit
  <2>2. CASE Continue /\ stdout # <<>>
    BY <1>0, <2>2, OutputTail DEF Continue
  <2> QED BY <2>1, <2>2
<1> QED BY <1>0, <1>1, <1>2 DEF ReaderMoves, HandRight, SessionTyped, FailureInv

LEMMA ReaderStopStep ==
  ASSUME SessionInv, ReaderStop
  PROVE  SessionInv'
<1>1. /\ reader.pc = "read" /\ ReaderExit
      /\ UNCHANGED <<inner, outq, stdin, writer, supervisor, child, clients>>
  BY DEF ReaderStop
<1>2. ReaderFrame /\ UNCHANGED <<pending, call, shutdown_acked, state, terminal_error>>
  BY <1>1 DEF ReaderFrame, inner, clients
<1>3. ReaderMoves /\ reader'.hand = 0
  BY <1>1, <1>2, ReaderGoes
<1> QED BY <1>1, <1>2, <1>3, ReaderRests

\* The pending map leads to the one request that waits under the id.
LEMMA WaiterFacts ==
  ASSUME CallsInv, NEW id \in pending
  PROVE  Waiter(id) \in Callers /\ Registered(Waiter(id)) /\ call[Waiter(id)].id = id
<1>1. \E c \in Callers : Registered(c) /\ call[c].id = id
  BY DEF CallsInv, Owned
<1> QED BY <1>1 DEF Waiter

LEMMA NoEntryZero ==
  ASSUME SessionInv
  PROVE  0 \notin pending
<1>1. SUFFICES ASSUME 0 \in pending PROVE FALSE
  OBVIOUS
<1>0. CallsInv /\ TableTyped
  BY Parts
<1>2. PICK c \in Callers : Registered(c) /\ call[c].id = 0
  BY <1>0, <1>1 DEF CallsInv, Owned
<1>3. CallOK(c) /\ HoldsPermit(c)
  BY <1>0, <1>2 DEF CallsInv, Registered, HoldsPermit
<1>4. 0 \in 1..(next_id - 1) /\ next_id \in Nat
  BY <1>0, <1>2, <1>3 DEF CallOK, TableTyped
<1> QED BY <1>4

\* The reader gives the request with this id its answer.
LEMMA AnswerStep ==
  ASSUME SessionInv, ReaderFrame, ReaderMoves, reader.pc # "resolve", reader'.pc # "resolve",
         reader'.hand = 0, NEW id \in pending, NEW m \in MsgRec, Answer(id, m),
         pending' = pending \ {id}, m.kind # "none",
         IsReply(m) => Answering(call[Waiter(id)].op, m) /\ m.id = id,
         shutdown_acked' \in BOOLEAN, shutdown_acked' => state \in Leaving
  PROVE  SessionInv'
<1>0. /\ TableTyped /\ CallsInv /\ HandRight
  BY Parts
<1>w. Waiter(id) \in Callers /\ Registered(Waiter(id)) /\ call[Waiter(id)].id = id
  BY <1>0, WaiterFacts
<1> DEFINE c == Waiter(id)
<1>1. /\ CallTyped' /\ Others(c) /\ Same(c)
      /\ call'[c].pc = call[c].pc /\ call'[c].got = m
  BY <1>0, <1>w, GotEffect DEF Answer, CallTyped, TableTyped
<1> HIDE DEF c
<1>f. /\ limits' = limits /\ permits' = permits /\ next_id' = next_id
      /\ highest_issued' = highest_issued /\ writer' = writer /\ supervisor' = supervisor
  BY DEF ReaderFrame
<1>2. HandStays
  <2>1. reader'.hand = reader.hand
    BY <1>0 DEF HandRight
  <2>2. state' = state
    BY DEF ReaderMoves
  <2> QED BY <1>f, <2>1, <2>2 DEF HandStays, Open, Resolving
<1>3. TableTyped'
  BY <1>0, <1>1, <1>f DEF TableTyped, CallTyped
<1>4. Replied(c)
  <2>1. IsReply(m) => Answering(call[c].op, m)
    BY DEF c
  <2>2. call[c].id = id /\ Registered(c) /\ call'[c].op = call[c].op /\ call'[c].id = id
    BY <1>1, <1>w DEF c, Same
  <2> QED BY <1>1, <1>2, <1>f, <2>1, <2>2 DEF Replied, IdsStay
<1>5. CallsInv'
  <2>1. c \in Callers /\ HandRight'
    BY <1>w DEF c, ReaderMoves
  <2> QED BY <1>0, <1>3, <1>4, <2>1, AnswersCalls
<1>6. \A d \in Callers : call'[d].op = call[d].op /\ call'[d].pc = call[d].pc
  BY <1>1 DEF Others, Same
<1> QED BY <1>3, <1>5, <1>6, ReaderStepInv

\* The reader ends the session, perhaps with a request it took from the map.
LEMMA ReaderFailsStep ==
  ASSUME SessionInv, ReaderFrame, reader.pc = "read", NEW error \in HostKinds,
         NEW id \in pending \cup {0}, ReaderFails(error, id)
  PROVE  SessionInv'
<1>0. /\ SessionTyped /\ TableTyped /\ FailureInv /\ ChannelInv /\ CallsInv /\ HandRight
  BY Parts
<1>g. /\ TransitionToFailed(error) /\ pending' = pending \ {id}
      /\ shutdown_acked' = shutdown_acked
      /\ state \in Terminal => ReaderExit /\ IF id = 0 THEN call' = call
                                             ELSE Answer(id, ErrorReply(error))
      /\ state \notin Terminal => /\ reader' = [Stopped EXCEPT !.pc = "resolve", !.hand = id]
                                  /\ stdout' = <<>> /\ call' = call
  BY DEF ReaderFails
<1>s. /\ state' \in SessionStates /\ terminal_error' \in HostKinds \cup {"none"}
      /\ state' = "Failed" => terminal_error' # "none"
      /\ state \in Terminal => state' = state
      /\ state \notin Terminal => state' = "Failed"
      /\ state' \in Terminal /\ state' \in Leaving
  BY <1>0, <1>g, FailureTyped
<1>e. state \in Terminal => terminal_error' = terminal_error
  BY <1>g DEF TransitionToFailed
<1>k. shutdown_acked' \in BOOLEAN /\ (shutdown_acked' => state \in Leaving)
  BY <1>g, OwnerParts
<1>i. id \in 0..MaxId /\ 0 \notin pending
  BY <1>0, NoEntryZero, HostAssumption DEF TableTyped
<1>1. CASE state \in Terminal
  <2>1. ReaderMoves /\ reader'.hand = 0 /\ reader'.pc # "resolve"
    BY <1>1, <1>e, <1>g, <1>s, ReaderGoes
  <2>2. CASE id = 0
    <3>1. UNCHANGED <<pending, call, shutdown_acked>>
      BY <1>1, <1>g, <1>i, <2>2
    <3> QED BY <2>1, <3>1, ReaderRests
  <2>3. CASE id # 0
    <3>1. id \in pending /\ Answer(id, ErrorReply(error))
      BY <1>1, <1>g, <2>3
    <3>2. /\ ErrorReply(error) \in MsgRec /\ ErrorReply(error).kind # "none"
          /\ ~IsReply(ErrorReply(error))
      BY ErrorReplyTyped DEF Reports
    <3> QED BY <1>g, <1>k, <2>1, <3>1, <3>2, AnswerStep
  <2> QED BY <2>2, <2>3
<1>2. CASE state \notin Terminal
  <2>1. reader' \in ReaderRec /\ reader'.pc = "resolve" /\ reader'.hand = id
    BY <1>2, <1>g, <1>i, ReaderHolds
  <2>2. ReaderMoves
    <3>1. stdout' \in Seq(FrameRec) /\ Len(stdout') <= OutputCap
      BY <1>2, <1>g, EmptyOutput
    <3> QED BY <1>2, <1>s, <2>1, <3>1 DEF ReaderMoves, HandRight
  <2>3. CASE id = 0
    <3>1. UNCHANGED <<pending, call, shutdown_acked>>
      BY <1>2, <1>g, <1>i, <2>3
    <3> QED BY <2>1, <2>2, <2>3, <3>1, ReaderRests
  <2>4. CASE id # 0
    <3>1. id \in pending /\ call' = call
      BY <1>2, <1>g, <2>4
    <3>2. Takes(id)
      <4>1. reader.hand = 0
        BY <1>0 DEF HandRight
      <4>2. Open'
        BY <2>1 DEF Open, Resolving
      <4> QED BY <1>g, <2>1, <3>1, <4>1, <4>2 DEF Takes, ReaderFrame, IdsStay
    <3>3. TableTyped' /\ HandRight'
      BY <1>0, <1>g, <2>2, <3>1 DEF TableTyped, ReaderFrame, ReaderMoves
    <3>4. CallsInv'
      BY <1>0, <3>2, <3>3, TakesCalls
    <3> QED BY <1>k, <2>2, <3>1, <3>3, <3>4, ReaderStepInv
  <2> QED BY <2>3, <2>4
<1> QED BY <1>1, <1>2

LEMMA DispatchStep ==
  ASSUME SessionInv, ReaderFrame, reader.pc = "read", stdout # <<>>,
         NEW m \in MsgRec, m.kind \in Kinds, DispatchResponse(m)
  PROVE  SessionInv'
<1>v. "ProtocolViolation" \in HostKinds /\ 0 \in pending \cup {0}
  BY DEF HostKinds
<1>1. CASE ReaderFails("ProtocolViolation", 0)
  BY <1>1, <1>v, ReaderFailsStep
<1>2. CASE Continue /\ UNCHANGED <<state, terminal_error, pending, call, shutdown_acked>>
  <2>1. ReaderMoves /\ reader'.hand = 0
    BY <1>2, ReaderGoes
  <2> QED BY <1>2, <2>1, ReaderRests
<1>3. CASE m.id \in pending /\ ReaderFails("ProtocolViolation", m.id)
  BY <1>3, <1>v, ReaderFailsStep
<1>4. CASE m.id \in pending /\ SessionTerminal(m.report) /\ ReaderFails(m.report, m.id)
  <2>1. m.report \in HostKinds
    BY <1>4 DEF SessionTerminal, HostKinds
  <2> QED BY <1>4, <2>1, ReaderFailsStep
<1> DEFINE op == call[Waiter(m.id)].op
<1>5. CASE /\ m.id \in pending /\ Accepts(op, m) /\ ~SessionTerminal(m.report)
           /\ pending' = pending \ {m.id} /\ Answer(m.id, m)
           /\ shutdown_acked' = (shutdown_acked \/ op = "Shutdown")
           /\ Continue /\ UNCHANGED <<state, terminal_error>>
  <2>0. CallsInv /\ OwnerInv
    BY Parts
  <2>1. ReaderMoves /\ reader'.hand = 0 /\ reader'.pc # "resolve"
    BY <1>5, ReaderGoes
  <2>2. Waiter(m.id) \in Callers
    BY <1>5, <2>0, WaiterFacts
  <2>3. shutdown_acked' \in BOOLEAN /\ (shutdown_acked' => state \in Leaving)
    <3>1. op = "Shutdown" => state \in Leaving
      BY <2>0, <2>2 DEF OwnerInv, Callers
    <3>2. shutdown_acked \in BOOLEAN /\ (shutdown_acked => state \in Leaving)
      BY OwnerParts
    <3> HIDE DEF op
    <3> QED BY <1>5, <3>1, <3>2
  <2>4. Answering(op, m)
    BY <1>5 DEF Answering, Accepts
  <2>5. m.kind # "none"
    BY DEF Kinds, Requests, Replies
  <2> QED BY <1>5, <2>1, <2>3, <2>4, <2>5, AnswerStep
<1> QED BY <1>1, <1>2, <1>3, <1>4, <1>5 DEF DispatchResponse

LEMMA ReadErrorStep ==
  ASSUME SessionInv, ReaderFrame, reader.pc = "read", NEW error \in HostKinds, ReadError(error)
  PROVE  SessionInv'
<1>1. CASE ReaderFails(error, 0)
  BY <1>1, ReaderFailsStep
<1>2. CASE ReaderExit /\ UNCHANGED <<state, terminal_error, pending, call, shutdown_acked>>
  <2>1. ReaderMoves /\ reader'.hand = 0
    BY <1>2, ReaderGoes
  <2> QED BY <1>2, <2>1, ReaderRests
<1> QED BY <1>1, <1>2 DEF ReadError

LEMMA HandleFrameStep ==
  ASSUME SessionInv, ReaderFrame, reader.pc = "read", NEW f \in FrameRec,
         stdout # <<>> \/ f.body = "eof", HandleFrame(f)
  PROVE  SessionInv'
<1> DEFINE d == Decode(f, limits)
<1>1. /\ "TransportClosed" \in HostKinds /\ "MessageTooLarge" \in HostKinds
      /\ 0 \in pending \cup {0}
  BY DEF HostKinds
<1>2. /\ d.ok => d.value \in MsgRec /\ d.value.kind \in Kinds
      /\ ~d.ok => d.error \in HostKinds
  BY DecodeTyped
<1>3. \/ ReadError("TransportClosed") \/ ReadError("MessageTooLarge")
      \/ ReaderFails("MessageTooLarge", 0)
      \/ d.ok /\ DispatchResponse(d.value) /\ f.body # "eof"
      \/ ~d.ok /\ ReaderFails(d.error, 0)
  BY DEF HandleFrame
<1> HIDE DEF d
<1>4. CASE ReadError("TransportClosed") \/ ReadError("MessageTooLarge")
  BY <1>1, <1>4, ReadErrorStep
<1>5. CASE ReaderFails("MessageTooLarge", 0)
  BY <1>1, <1>5, ReaderFailsStep
<1>6. CASE d.ok /\ DispatchResponse(d.value) /\ f.body # "eof"
  BY <1>2, <1>6, DispatchStep
<1>7. CASE ~d.ok /\ ReaderFails(d.error, 0)
  BY <1>1, <1>2, <1>7, ReaderFailsStep
<1> QED BY <1>3, <1>4, <1>5, <1>6, <1>7

LEMMA ReadFrameStep ==
  ASSUME SessionInv, ReadFrame
  PROVE  SessionInv'
<1>1. ReaderFrame /\ reader.pc = "read"
  BY DEF ReadFrame, ReaderFrame
<1>2. CASE stdout # <<>> /\ HandleFrame(Head(stdout))
  <2>1. Head(stdout) \in FrameRec
    BY <1>2, Parts, OutputTail
  <2> QED BY <1>1, <1>2, <2>1, HandleFrameStep
<1>3. CASE HandleFrame(EndOfOutput)
  BY <1>1, <1>3, EndOfOutputTyped, HandleFrameStep
<1> QED BY <1>2, <1>3 DEF ReadFrame

LEMMA ReaderResolveStep ==
  ASSUME SessionInv, ReaderResolve
  PROVE  SessionInv'
<1> DEFINE ids == pending \cup {reader.hand}
<1>g. /\ reader.pc = "resolve" /\ ResolvePending(ids, terminal_error)
      /\ reader' = Stopped /\ stdout' = <<>>
      /\ UNCHANGED <<state, terminal_error, limits, permits, next_id, highest_issued,
                     shutdown_acked, live, outq, stdin, writer, supervisor, child, owner>>
  BY DEF ReaderResolve, ReaderExit
<1>0. SessionTyped /\ ActorsTyped /\ FailureInv /\ ChannelInv
  BY Parts
<1>1. terminal_error \in Reports
  BY <1>0, <1>g DEF FailureInv, SessionTyped, Reports
<1>2. reader' \in ReaderRec /\ reader'.pc = "exited" /\ reader'.hand = 0 /\ HandRight'
  BY <1>g, StoppedTyped DEF HandRight
<1>3. ChannelInv'
  BY <1>0, <1>g, EmptyOutput DEF ChannelInv, Outbound
<1>4. /\ writer' \in WriterRec /\ writer'.pc = writer.pc
      /\ supervisor' \in {"select", "killed", "resolve", "join", "exited"} /\ child' = child
  BY <1>0, <1>g DEF ActorsTyped
<1>5. pending \subseteq ids /\ reader.hand \in ids
  OBVIOUS
<1> HIDE DEF ids
<1> QED BY <1>g, <1>1, <1>2, <1>3, <1>4, <1>5, ResolverStep

-----------------------------------------------------------------------------
(***************************************************************************)
(* The supervisor and the child.                                           *)
(***************************************************************************)
\* The supervisor moves; the first to decide the state is the one to resolve.
LEMMA SupervisorMoves ==
  ASSUME SessionInv,
         UNCHANGED <<limits, pending, permits, next_id, highest_issued, force, shutdown_acked,
                     live, channels, reader, writer, clients>>,
         state' \in SessionStates, terminal_error' \in HostKinds \cup {"none"},
         state' = "Failed" => terminal_error' # "none",
         state \in Terminal => state' = state, state' \in Terminal,
         supervisor \notin {"resolve", "join", "exited"}, actor_stop' \in BOOLEAN,
         supervisor' \in {"resolve", "join"}, state \notin Terminal => supervisor' = "resolve",
         child' \in {"running", "exited", "success", "failure", "killed"}
  PROVE  SessionInv'
<1>0. SessionTyped /\ ActorsTyped /\ FailureInv /\ ChannelInv /\ HandRight
  BY Parts
<1>u. /\ UNCHANGED <<limits, pending, permits, next_id, highest_issued, call, owner, watcher,
                     shutdown_acked>>
      /\ reader' = reader /\ writer' = writer /\ outq' = outq /\ stdin' = stdin
      /\ stdout' = stdout /\ force' = force /\ live' = live
  BY DEF clients, channels
<1>1. SessionTyped' /\ ActorsTyped'
  BY <1>0, <1>u DEF SessionTyped, ActorsTyped
<1>2. FailureInv'
  BY <1>0, <1>u DEF FailureInv, Terminal
<1>3. HandStays /\ HandRight'
  BY <1>0, <1>u DEF HandStays, HandRight, Open, Resolving
<1>4. ChannelInv'
  BY <1>0, <1>u DEF ChannelInv, Outbound
<1>5. state \in Leaving => state' \in Leaving
  BY DEF Leaving
<1> QED BY <1>1, <1>2, <1>3, <1>4, <1>5, <1>u, ActorStep

LEMMA ChildWaitedStep ==
  ASSUME SessionInv, ChildWaited
  PROVE  SessionInv'
<1>g. /\ supervisor = "select" /\ child' \in {"success", "failure"}
      /\ TransitionToClosed \/ TransitionToFailed("ProcessExited")
      /\ \/ state \in Terminal /\ supervisor' = "join" /\ actor_stop' = TRUE
         \/ state \notin Terminal /\ supervisor' = "resolve" /\ actor_stop' = actor_stop
      /\ UNCHANGED <<limits, pending, permits, next_id, highest_issued, force, shutdown_acked,
                     live, channels, reader, writer, clients>>
  BY DEF ChildWaited, SupervisorEnds
<1>0. SessionTyped /\ FailureInv
  BY Parts
<1>1. /\ state' \in SessionStates /\ terminal_error' \in HostKinds \cup {"none"}
      /\ state' = "Failed" => terminal_error' # "none"
      /\ state \in Terminal => state' = state
      /\ state' \in Terminal
  <2>1. CASE TransitionToClosed
    BY <1>0, <2>1 DEF TransitionToClosed, SessionTyped, FailureInv, SessionStates, Terminal
  <2>2. CASE TransitionToFailed("ProcessExited")
    BY <1>0, <2>2, FailureTyped DEF HostKinds
  <2> QED BY <1>g, <2>1, <2>2
<1>2. actor_stop' \in BOOLEAN
  BY <1>0, <1>g DEF SessionTyped
<1> QED BY <1>g, <1>1, <1>2, SupervisorMoves

LEMMA ForceReapedStep ==
  ASSUME SessionInv, ForceReaped
  PROVE  SessionInv'
<1>g. /\ supervisor = "killed" /\ TransitionToFailed("ProcessKilled")
      /\ \/ state \in Terminal /\ supervisor' = "join" /\ actor_stop' = TRUE
         \/ state \notin Terminal /\ supervisor' = "resolve" /\ actor_stop' = actor_stop
      /\ child' = child
      /\ UNCHANGED <<limits, pending, permits, next_id, highest_issued, force, shutdown_acked,
                     live, channels, reader, writer, clients>>
  BY DEF ForceReaped, SupervisorEnds
<1>0. SessionTyped /\ FailureInv /\ ActorsTyped
  BY Parts
<1>1. /\ state' \in SessionStates /\ terminal_error' \in HostKinds \cup {"none"}
      /\ state' = "Failed" => terminal_error' # "none"
      /\ state \in Terminal => state' = state
      /\ state' \in Terminal
  BY <1>0, <1>g, FailureTyped DEF HostKinds
<1>2. actor_stop' \in BOOLEAN /\ child' \in {"running", "exited", "success", "failure", "killed"}
  BY <1>0, <1>g DEF SessionTyped, ActorsTyped
<1> QED BY <1>g, <1>1, <1>2, SupervisorMoves

LEMMA SupervisorResolveStep ==
  ASSUME SessionInv, SupervisorResolve
  PROVE  SessionInv'
<1> DEFINE e == IF state = "Failed" THEN terminal_error ELSE "Unavailable"
<1>g. /\ ResolvePending(pending, e) /\ supervisor' = "join"
      /\ UNCHANGED <<state, terminal_error, limits, permits, next_id, highest_issued,
                     shutdown_acked, live, channels, reader, writer, child, owner>>
  BY DEF SupervisorResolve
<1>0. SessionTyped /\ ActorsTyped /\ FailureInv /\ HandRight /\ ChannelInv
  BY Parts
<1>1. e \in Reports
  BY <1>0 DEF FailureInv, SessionTyped, Reports, HostKinds
<1> HIDE DEF e
<1>2. /\ reader' = reader /\ writer' = writer /\ reader' \in ReaderRec /\ writer' \in WriterRec
      /\ HandRight' /\ supervisor' \in {"select", "killed", "resolve", "join", "exited"}
  BY <1>0, <1>g DEF ActorsTyped, HandRight
<1>3. ChannelInv'
  BY <1>0, <1>g DEF channels, ChannelInv, Outbound
<1> QED BY <1>g, <1>1, <1>2, <1>3, ResolverStep

\* Steps that change an actor's or the child's place, and the pipe.
LEMMA PlaceStep ==
  ASSUME SessionInv, state' = state, terminal_error' = terminal_error,
         UNCHANGED <<limits, pending, permits, next_id, highest_issued, force, actor_stop,
                     shutdown_acked, reader, writer, clients>>,
         live' \in BOOLEAN, supervisor = "resolve" => supervisor' = "resolve",
         supervisor' \in {"select", "killed", "resolve", "join", "exited"},
         child' \in {"running", "exited", "success", "failure", "killed"}, ChannelInv'
  PROVE  SessionInv'
<1>0. SessionTyped /\ ActorsTyped /\ FailureInv /\ HandRight
  BY Parts
<1>u. /\ UNCHANGED <<limits, pending, permits, next_id, highest_issued, call, owner, watcher,
                     shutdown_acked>>
      /\ reader' = reader /\ writer' = writer /\ force' = force /\ actor_stop' = actor_stop
  BY DEF clients
<1>1. SessionTyped' /\ ActorsTyped' /\ FailureInv'
  BY <1>0, <1>u DEF SessionTyped, ActorsTyped, FailureInv
<1>2. HandStays /\ HandRight'
  BY <1>0, <1>u DEF HandStays, HandRight, Open, Resolving
<1> QED BY <1>1, <1>2, <1>u, ActorStep

LEMMA EmptyPipe ==
  ASSUME ChannelInv, outq' = outq, stdout' = stdout, stdin' = {}, writer' = writer,
         highest_issued' = highest_issued
  PROVE  ChannelInv'
<1>1. IsFiniteSet({}) /\ Cardinality({}) <= PipeCap
  BY FS_EmptySet, HostAssumption
<1> QED BY <1>1 DEF ChannelInv, Outbound

LEMMA ForceKillStep ==
  ASSUME SessionInv, ForceKill
  PROVE  SessionInv'
<1>g. /\ supervisor = "select" /\ child' = "killed" /\ stdin' = {} /\ supervisor' = "killed"
      /\ UNCHANGED <<inner, outq, stdout, reader, writer, clients>>
  BY DEF ForceKill
<1>1. /\ state' = state /\ terminal_error' = terminal_error /\ live' \in BOOLEAN
      /\ UNCHANGED <<limits, pending, permits, next_id, highest_issued, force, actor_stop,
                     shutdown_acked, reader, writer, clients>>
  BY <1>g, Parts DEF inner, SessionTyped
<1>2. ChannelInv'
  BY <1>g, <1>1, Parts, EmptyPipe
<1> QED BY <1>g, <1>1, <1>2, PlaceStep

LEMMA PeerExitStep ==
  ASSUME SessionInv, PeerExit
  PROVE  SessionInv'
<1>g. /\ child' = "exited" /\ stdin' = {}
      /\ UNCHANGED <<inner, outq, stdout, reader, writer, supervisor, clients>>
  BY DEF PeerExit
<1>1. /\ state' = state /\ terminal_error' = terminal_error /\ live' \in BOOLEAN
      /\ UNCHANGED <<limits, pending, permits, next_id, highest_issued, force, actor_stop,
                     shutdown_acked, reader, writer, clients>>
      /\ supervisor' \in {"select", "killed", "resolve", "join", "exited"}
  BY <1>g, Parts DEF inner, SessionTyped, ActorsTyped
<1>2. ChannelInv'
  BY <1>g, <1>1, Parts, EmptyPipe
<1> QED BY <1>g, <1>1, <1>2, PlaceStep

LEMMA SupervisorJoinStep ==
  ASSUME SessionInv, SupervisorJoin
  PROVE  SessionInv'
<1>g. /\ supervisor = "join" /\ live' = FALSE /\ supervisor' = "exited"
      /\ UNCHANGED <<state, terminal_error, limits, pending, permits, next_id, highest_issued,
                     force, actor_stop, shutdown_acked, channels, reader, writer, child, clients>>
  BY DEF SupervisorJoin
<1>0. ChannelInv /\ ActorsTyped
  BY Parts
<1>1. ChannelInv' /\ child' \in {"running", "exited", "success", "failure", "killed"}
  BY <1>0, <1>g DEF channels, ChannelInv, Outbound, ActorsTyped
<1> QED BY <1>g, <1>1, PlaceStep

-----------------------------------------------------------------------------
(***************************************************************************)
(* The child answers with frames, whatever they say.                       *)
(***************************************************************************)
LEMMA SuccessFrames ==
  ASSUME SessionInv, NEW f \in stdin, NEW m \in Successes(f)
  PROVE  m \in MsgRec /\ m.kind \in Kinds
<1>0. f \in FrameRec /\ f.tag \in RequestTags
  BY Parts DEF ChannelInv
<1> DEFINE k == KindOfTag(f.tag)
           ok(len) == Msg(SuccessKind[k], f.id, len, IF k = "Invoke" THEN len ELSE 0, "ok")
<1>1. k \in Requests
  BY <1>0, TagFacts, KindOfTagFacts
<1>2. CASE k = "Cancel"
  BY <1>2 DEF Successes
<1>3. CASE k # "Cancel"
  <2>1. SuccessKind[k] \in Kinds
    BY <1>1, <1>3 DEF SuccessKind, Requests, Replies, Kinds
  <2>2. f.id \in 0..MaxId /\ "ok" \in Reports
    BY <1>0 DEF FrameRec, Reports
  <2>3. \A len \in Nat : (IF k = "Invoke" THEN len ELSE 0) \in Nat
    OBVIOUS
  <2>4. \A len \in Nat : ok(len) \in MsgRec /\ ok(len).kind \in Kinds
    BY <2>1, <2>2, <2>3, MsgTyped
  <2>5. \/ \E len \in ReplySizes \cup {1} : m = ok(len)
        \/ \E l \in PeerLimits : m = [ok(1) EXCEPT !.limits = l]
    BY <1>3 DEF Successes
  <2> HIDE DEF ok
  <2>6. ReplySizes \cup {1} \subseteq Nat /\ PeerLimits \subseteq LimitRec
    BY HostAssumption DEF LimitRec
  <2>7. CASE \E len \in ReplySizes \cup {1} : m = ok(len)
    BY <2>4, <2>6, <2>7
  <2>8. CASE \E l \in PeerLimits : m = [ok(1) EXCEPT !.limits = l]
    <3>1. PICK l \in LimitRec : m = [ok(1) EXCEPT !.limits = l]
      BY <2>6, <2>8
    <3>2. ok(1) \in MsgRec /\ ok(1).kind \in Kinds
      BY <2>4
    <3> QED BY <3>1, <3>2, OfferTyped
  <2> QED BY <2>5, <2>7, <2>8
<1> QED BY <1>2, <1>3

LEMMA FailureFrames ==
  ASSUME SessionInv, NEW f \in stdin, NEW m \in Failures(f)
  PROVE  m \in MsgRec /\ m.kind \in Kinds
<1>1. f.id \in 0..MaxId
  BY Parts DEF ChannelInv, FrameRec
<1>2. PeerReports \subseteq Reports /\ {"InvokeResult", "Failure"} \subseteq Kinds
  BY HostAssumption DEF Kinds, Replies
<1>3. \E r \in PeerReports, n \in {0, 1}, k \in {"InvokeResult", "Failure"} : m = Msg(k, f.id, 1, n, r)
  BY DEF Failures
<1> QED BY <1>1, <1>2, <1>3, MsgTyped

LEMMA FaultyFrames ==
  ASSUME SessionInv, NEW f \in stdin, NEW b \in Faulty(f)
  PROVE  b \in FrameRec
<1>1. f.id \in 0..MaxId /\ next_id \in 0..MaxId
  BY Parts DEF ChannelInv, FrameRec, TableTyped
<1>2. {"Started", "Disposed"} \subseteq Kinds /\ "ok" \in Reports
  BY DEF Kinds, Replies, Reports
<1>3. Frame(Msg("Started", next_id, 1, 0, "ok")) \in FrameRec
  BY <1>1, <1>2, MsgTyped, FrameTyped
<1>4. Frame(Msg("Disposed", f.id, 1, 0, "ok")) \in FrameRec
  BY <1>1, <1>2, MsgTyped, FrameTyped
<1> DEFINE r == Frame(Msg("Disposed", f.id, 1, 0, "ok"))
           body == IF f.tag = Tag["Dispose"] THEN "trailing" ELSE "whole"
<1>5. b \in {Frame(Msg("Started", next_id, 1, 0, "ok")), [r EXCEPT !.body = body], EndOfOutput}
  BY DEF Faulty
<1>6. body \in {"whole", "trailing", "eof"} /\ r \in FrameRec
  BY <1>4
<1> HIDE DEF r, body
<1>7. [r EXCEPT !.body = body] \in FrameRec
  BY <1>6 DEF FrameRec
<1> QED BY <1>3, <1>5, <1>7, EndOfOutputTyped

LEMMA AnswerFrames ==
  ASSUME SessionInv, NEW f \in stdin, NEW a \in Answers(f)
  PROVE  a \in Seq(FrameRec)
<1>1. ASSUME NEW m \in Successes(f) \cup Failures(f) PROVE Frame(m) \in FrameRec
  <2>1. m \in MsgRec /\ m.kind \in Kinds
    BY <1>1, SuccessFrames, FailureFrames
  <2> QED BY <2>1, FrameTyped
<1>2. CASE a = <<>>
  BY <1>2
<1>3. CASE \E m \in Successes(f) \cup Failures(f) : a = <<Frame(m)>> \/ a = <<Frame(m), Frame(m)>>
  <2>1. PICK m \in Successes(f) \cup Failures(f) : a = <<Frame(m)>> \/ a = <<Frame(m), Frame(m)>>
    BY <1>3
  <2> DEFINE x == Frame(m)
  <2>2. x \in FrameRec /\ (a = <<x>> \/ a = <<x, x>>)
    BY <1>1, <2>1
  <2> HIDE DEF x
  <2>3. <<x>> \in Seq(FrameRec) /\ <<x, x>> \in Seq(FrameRec)
    BY <2>2
  <2> QED BY <2>2, <2>3
<1>4. CASE \E b \in Faulty(f) : a = <<b>>
  BY <1>4, FaultyFrames
<1>5. \/ a = <<>> \/ \E b \in Faulty(f) : a = <<b>>
      \/ \E m \in Successes(f) \cup Failures(f) : a = <<Frame(m)>> \/ a = <<Frame(m), Frame(m)>>
  BY DEF Answers
<1> QED BY <1>2, <1>3, <1>4, <1>5

LEMMA PeerTakeStep ==
  ASSUME SessionInv, NEW f \in stdin, PeerTake(f)
  PROVE  SessionInv'
<1>g. /\ stdin' = stdin \ {f}
      /\ \E a \in Answers(f) : /\ Len(stdout) + Len(a) <= OutputCap
                               /\ stdout' = stdout \o a
      /\ UNCHANGED <<inner, outq, actors, clients>>
  BY DEF PeerTake
<1>0. ChannelInv /\ SessionTyped /\ ActorsTyped
  BY Parts
<1>1. /\ state' = state /\ terminal_error' = terminal_error /\ live' \in BOOLEAN
      /\ UNCHANGED <<limits, pending, permits, next_id, highest_issued, force, actor_stop,
                     shutdown_acked, reader, writer, clients>>
      /\ supervisor' = supervisor /\ child' = child
      /\ supervisor' \in {"select", "killed", "resolve", "join", "exited"}
      /\ child' \in {"running", "exited", "success", "failure", "killed"}
  BY <1>0, <1>g DEF inner, actors, SessionTyped, ActorsTyped
<1>2. stdout' \in Seq(FrameRec) /\ Len(stdout') <= OutputCap
  <2>1. PICK a \in Answers(f) : Len(stdout) + Len(a) <= OutputCap /\ stdout' = stdout \o a
    BY <1>g
  <2>2. a \in Seq(FrameRec) /\ stdout \in Seq(FrameRec)
    BY <1>0, AnswerFrames DEF ChannelInv
  <2> QED BY <2>1, <2>2
<1>3. IsFiniteSet(stdin') /\ Cardinality(stdin') <= PipeCap /\ stdin' \subseteq stdin
  <2>1. IsFiniteSet(stdin) /\ Cardinality(stdin) <= PipeCap
    BY <1>0 DEF ChannelInv
  <2>2. /\ IsFiniteSet(stdin') /\ Cardinality(stdin) \in Nat
        /\ Cardinality(stdin') = Cardinality(stdin) - 1
    BY <1>g, <2>1, FS_RemoveElement, FS_CardinalityType
  <2> QED BY <1>g, <2>1, <2>2, HostAssumption
<1>4. ChannelInv'
  BY <1>0, <1>1, <1>2, <1>3, <1>g DEF ChannelInv, Outbound
<1> QED BY <1>1, <1>4, PlaceStep

-----------------------------------------------------------------------------
(***************************************************************************)
(* The invariant holds at first and is kept by every step.                 *)
(***************************************************************************)
LEMMA SessionInitially == Init => SessionInv
<1> SUFFICES ASSUME Init PROVE SessionInv
  OBVIOUS
<1>c. LocalLimits \in LimitRec /\ 0 \in 0..MaxId /\ 1 \in 1..MaxId /\ MaxId \in Nat
  BY HostAssumption DEF LimitRec
<1>1. SessionTyped /\ FailureInv
  <2>1. reader.pc = "limit" /\ writer.pc = "recv"
    BY StoppedTyped DEF Init
  <2>2. state = "Created" /\ terminal_error = "none"
    BY DEF Init
  <2>3. SessionTyped
    BY DEF Init, SessionTyped, SessionStates
  <2> QED BY <2>1, <2>2, <2>3 DEF FailureInv
<1>2. TableTyped /\ \A c \in Callers : call[c] = Idle
  <2>1. call = [c \in Callers |-> Idle]
    BY DEF Init
  <2>2. LocalLimits.inflight \in Nat
    BY <1>c DEF LimitRec
  <2> QED BY <1>c, <2>1, <2>2, IdleCall DEF Init, TableTyped
<1>3. reader \in ReaderRec /\ reader.pc = "limit" /\ reader.hand = 0
  <2>1. reader = [Stopped EXCEPT !.pc = "limit"]
    BY DEF Init
  <2> QED BY <2>1, ReaderAt
<1>4. writer \in WriterRec /\ writer.pc = "recv"
  BY NoMsgTyped, WriterTyped DEF Init
<1>5. ActorsTyped /\ owner.phase = "spawned"
  BY <1>3, <1>4 DEF Init, ActorsTyped, OwnerRec, OwnerPhases, WatcherRec
<1>6. ChannelInv
  <2>1. outq = <<>> /\ stdin = {} /\ stdout = <<>>
    BY DEF Init
  <2>2. IsFiniteSet({}) /\ Cardinality({}) <= PipeCap
    BY FS_EmptySet, HostAssumption
  <2> QED BY <1>4, <2>1, <2>2, EmptyQueue, EmptyOutput DEF ChannelInv
<1>7. \A c \in Callers : ~HoldsPermit(c) /\ ~Registered(c)
  BY <1>2, IdleCall DEF HoldsPermit, Registered
<1>8. OwnerInv
  BY <1>2, <1>5, <1>7, IdleCall, CallersApart DEF OwnerInv, Asking, Init
<1>9. CallsInv
  <2>1. ASSUME NEW c \in Callers PROVE CallOK(c)
    BY <1>2, <1>7, IdleCall DEF CallOK
  <2>2. Holders = {}
    BY <1>7 DEF Holders
  <2>3. Counted
    <3>1. IsFiniteSet(Holders) /\ Cardinality(Holders) = 0
      BY <2>2, FS_EmptySet
    <3>2. LocalLimits.inflight \in Nat
      BY <1>c DEF LimitRec
    <3> QED BY <3>1, <3>2 DEF Init, Counted
  <2>4. Distinct /\ Owned /\ highest_issued < next_id
    BY <1>7 DEF Init, Distinct, Owned
  <2> QED BY <1>3, <2>1, <2>3, <2>4 DEF CallsInv
<1> QED BY <1>1, <1>2, <1>5, <1>6, <1>8, <1>9 DEF SessionInv

LEMMA SessionStutters ==
  ASSUME SessionInv, UNCHANGED vars
  PROVE  SessionInv'
<1>1. UNCHANGED <<inner, channels, actors, call>> /\ owner' = owner /\ watcher' = watcher
  BY DEF vars, clients
<1> QED BY <1>1, OwnerParts, OwnerMoves

LEMMA SessionKept ==
  ASSUME SessionInv, [Next]_vars
  PROVE  SessionInv'
<1>1. CASE User
  <2>1. CASE \E i \in Invokers, n \in InvokeSizes : InvokeBegin(i, n)
    BY <2>1, InvokeBeginStep
  <2>2. CASE \E i \in Invokers : InvokeDrop(i)
    BY <2>2, InvokeDropStep
  <2>3. CASE LoadAbandoned \/ StartBegin \/ Disposed \/ DeadlineExpires
    BY <2>3, OwnerSteps
  <2> QED BY <1>1, <2>1, <2>2, <2>3 DEF User
<1>2. CASE Peer
  BY <1>2, PeerExitStep, PeerTakeStep DEF Peer
<1>3. CASE OwnerStep
  BY <1>3, OwnerSteps
<1>4. CASE WaitForFailure
  BY <1>4, WaitForFailureStep
<1>5. CASE ReaderStep
  BY <1>5, ReaderLimitStep, ReaderStopStep, ReadFrameStep, ReaderResolveStep DEF ReaderStep
<1>6. CASE WriterStep
  BY <1>6, WriterStopStep, WriterRecvStep, WriterWriteStep, WriterResolveStep DEF WriterStep
<1>7. CASE SupervisorStep
  BY <1>7, ChildWaitedStep, ForceKillStep, ForceReapedStep, SupervisorResolveStep,
     SupervisorJoinStep DEF SupervisorStep
<1>8. CASE \E c \in Callers : CallStep(c)
  BY <1>8, InsertStep, RecheckStep, SendStep, ReceiveStep DEF CallStep
<1>9. CASE UNCHANGED vars
  BY <1>9, SessionStutters
<1> QED BY <1>1, <1>2, <1>3, <1>4, <1>5, <1>6, <1>7, <1>8, <1>9 DEF Next, Finished

\* The inductive invariant of the session: types of every variable, what the
\* channels may hold, and the account of the requests under way.
THEOREM SessionInvariant == Spec => []SessionInv
<1>1. Init => SessionInv
  BY SessionInitially
<1>2. SessionInv /\ [Next]_vars => SessionInv'
  BY SessionKept
<1> QED BY <1>1, <1>2, PTL DEF Spec

-----------------------------------------------------------------------------
(***************************************************************************)
(* What the runs check.                                                    *)
(***************************************************************************)
LEMMA MessagesTyped == MsgRec = Messages
<1>1. [DOMAIN NoLimits -> Nat] = LimitRec
  <2>1. DOMAIN NoLimits = {"frame", "artifact", "request", "response", "inflight"}
    BY DEF NoLimits
  <2>2. ASSUME NEW l \in LimitRec PROVE l \in [DOMAIN NoLimits -> Nat]
    BY <2>1 DEF LimitRec
  <2>3. ASSUME NEW l \in [DOMAIN NoLimits -> Nat] PROVE l \in LimitRec
    <3>1. l = [frame |-> l.frame, artifact |-> l.artifact, request |-> l.request,
               response |-> l.response, inflight |-> l.inflight]
      BY <2>1
    <3>2. l.frame \in Nat /\ l.artifact \in Nat /\ l.request \in Nat /\ l.response \in Nat
          /\ l.inflight \in Nat
      BY <2>1
    <3> QED BY <3>1, <3>2 DEF LimitRec
  <2> QED BY <2>2, <2>3
<1> QED BY <1>1 DEF MsgRec, Messages

\* The bound of the pending map: every entry belongs to a request that holds a permit.
LEMMA PendingBound ==
  ASSUME SessionInv
  PROVE  Cardinality(pending) <= limits.inflight
<1>0. CallsInv /\ TableTyped
  BY Parts
<1> DEFINE id == [c \in Holders |-> call[c].id]
           ids == {id[c] : c \in Holders}
<1>1. IsFiniteSet(Holders) /\ permits + Cardinality(Holders) = limits.inflight
  BY <1>0 DEF CallsInv, Counted
<1>2. IsFiniteSet(ids) /\ Cardinality(ids) <= Cardinality(Holders)
  <2>1. id \in Surjection(Holders, ids)
    BY DEF Surjection
  <2> HIDE DEF ids, id
  <2> QED BY <1>1, <2>1, FS_Surjection
<1>3. pending \subseteq ids
  <2>1. ASSUME NEW n \in pending PROVE n \in ids
    <3>1. PICK c \in Callers : Registered(c) /\ call[c].id = n
      BY <1>0 DEF CallsInv, Owned
    <3>2. c \in Holders /\ id[c] = n
      BY <3>1 DEF Holders, Registered, HoldsPermit
    <3> QED BY <3>2
  <2> QED BY <2>1
<1> HIDE DEF ids
<1>4. Cardinality(pending) <= Cardinality(ids) /\ IsFiniteSet(pending)
  BY <1>2, <1>3, FS_Subset
<1>5. /\ Cardinality(pending) \in Nat /\ Cardinality(ids) \in Nat /\ Cardinality(Holders) \in Nat
      /\ permits \in Nat /\ limits.inflight \in Nat
  BY <1>0, <1>1, <1>2, <1>4, FS_CardinalityType DEF TableTyped, LimitRec
<1> QED BY <1>1, <1>2, <1>4, <1>5

\* Every variable of a session keeps the type its Rust field gives it.
THEOREM SessionTypes == Spec => []TypeOK
<1>1. SessionInv => TypeOK
  <2> SUFFICES ASSUME SessionInv PROVE TypeOK
    OBVIOUS
  <2>0. /\ SessionTyped /\ TableTyped /\ ActorsTyped /\ ChannelInv /\ CallsInv
    BY Parts
  <2>1. limits \in [DOMAIN NoLimits -> Nat]
    BY <2>0 DEF TableTyped, LimitRec, NoLimits
  <2>2. pending \subseteq 1..MaxId
    <3>1. \A id \in 0..MaxId : id # 0 => id \in 1..MaxId
      OBVIOUS
    <3> QED BY <2>0, <3>1, NoEntryZero DEF TableTyped
  <2>3. permits \in 0..LocalLimits.inflight
    <3>1. /\ permits + Cardinality(Holders) = limits.inflight /\ IsFiniteSet(Holders)
          /\ limits.inflight <= LocalLimits.inflight
      BY <2>0 DEF CallsInv, Counted
    <3>2. /\ permits \in Nat /\ limits.inflight \in Nat /\ LocalLimits.inflight \in Nat
          /\ Cardinality(Holders) \in Nat
      BY <2>0, <3>1, HostAssumption, FS_CardinalityType DEF TableTyped, LimitRec
    <3> QED BY <3>1, <3>2
  <2>4. Len(outq) <= QueueCap /\ \A n \in DOMAIN outq : outq[n] \in Messages
    BY <2>0, MessagesTyped DEF ChannelInv, Outbound
  <2>5. Cardinality(stdin) <= PipeCap /\ Len(stdout) <= OutputCap
    BY <2>0 DEF ChannelInv
  <2>6. \A c \in Callers : call[c].pc \in CallPCs /\ call[c].got \in Messages
    BY <2>0, CallFields, MessagesTyped DEF TableTyped
  <2>7. /\ reader.pc \in {"limit", "read", "resolve", "exited"}
        /\ writer.pc \in {"recv", "write", "resolve", "exited"}
        /\ owner.phase \in OwnerPhases
        /\ watcher.pc \in {"off", "check", "recheck", "wait", "reported"}
    BY <2>0 DEF ActorsTyped, ReaderRec, WriterRec, OwnerRec, WatcherRec
  <2>8. /\ state \in SessionStates /\ terminal_error \in HostKinds \cup {"none"}
        /\ {force, actor_stop, shutdown_acked, live} \subseteq BOOLEAN
    BY <2>0 DEF SessionTyped
  <2>9. /\ next_id \in 1..MaxId /\ highest_issued \in 0..MaxId
        /\ supervisor \in {"select", "killed", "resolve", "join", "exited"}
        /\ child \in {"running", "exited", "success", "failure", "killed"}
    BY <2>0 DEF TableTyped, ActorsTyped
  <2> QED BY <2>1, <2>2, <2>3, <2>4, <2>5, <2>6, <2>7, <2>8, <2>9 DEF TypeOK
<1> QED BY <1>1, SessionInvariant, PTL

\* SessionClient::request, the drops, the resolutions and apply_negotiated keep
\* the semaphore and the requests under way in balance with the limit in force.
THEOREM PermitsAreConserved == Spec => []PermitsConserved
<1>1. SessionInv => PermitsConserved
  <2> SUFFICES ASSUME SessionInv PROVE PermitsConserved
    OBVIOUS
  <2>1. permits + Cardinality(Holders) = limits.inflight
    BY Parts DEF CallsInv, Counted
  <2> QED BY <2>1, PendingBound DEF PermitsConserved, Holders
<1> QED BY <1>1, SessionInvariant, PTL

\* A request that was sent has its answer or an actor that will still give it one,
\* whichever way its registration raced with the end of the session.
THEOREM NoCallStranded == Spec => []NoOrphanCall
<1>1. SessionInv => NoOrphanCall
  <2> SUFFICES ASSUME SessionInv PROVE NoOrphanCall
    OBVIOUS
  <2>0. CallsInv
    BY Parts
  <2>1. ASSUME NEW c \in Callers, At(c, "wait")
        PROVE  \/ call[c].id \in pending /\ (state \notin Terminal \/ Resolving)
               \/ call[c].got # NoMsg
               \/ reader.hand = call[c].id
    <3>1. CallOK(c) /\ Registered(c) /\ call[c].pc = "wait"
      BY <2>0, <2>1 DEF CallsInv, At, Registered
    <3> QED BY <3>1 DEF CallOK, Open
  <2>2. \A id \in pending : \E c \in Callers : Registered(c) /\ call[c].id = id
    BY <2>0 DEF CallsInv, Owned
  <2> QED BY <2>1, <2>2 DEF NoOrphanCall
<1> QED BY <1>1, SessionInvariant, PTL

\* publish_issued_id runs before the message is queued, so dispatch_response never
\* takes an honest reply for one of the future.
THEOREM WatermarkCovers == Spec => []IssuedNotFuture
<1>1. SessionInv => IssuedNotFuture
  BY Parts DEF ChannelInv, Outbound, IssuedNotFuture
<1> QED BY <1>1, SessionInvariant, PTL

\* dispatch_response and resolve_pending give a caller a reply to its own request,
\* of a kind that answers it, or a local error.
THEOREM RepliesCorrelate == Spec => []Correlated
<1>1. SessionInv => Correlated
  <2> SUFFICES ASSUME SessionInv, NEW c \in Callers, call[c].got.kind \notin {"none", "error"}
               PROVE  /\ \/ call[c].got.kind = SuccessKind[call[c].op]
                         \/ call[c].op # "Invoke" /\ call[c].got.kind = "Failure"
                      /\ call[c].pc = "wait" => call[c].got.id = call[c].id
                      /\ ~SessionTerminal(call[c].got.report)
    BY DEF Correlated
  <2>1. CallOK(c) /\ IsReply(call[c].got)
    BY Parts DEF IsReply
  <2>2. call[c].pc = "wait" => Registered(c)
    BY DEF Registered
  <2> QED BY <2>1, <2>2 DEF CallOK, Answering
<1> QED BY <1>1, SessionInvariant, PTL

-----------------------------------------------------------------------------
(***************************************************************************)
(* The terminal state.                                                     *)
(***************************************************************************)
Final ==
  /\ state \in Terminal => state' = state /\ terminal_error' = terminal_error
  /\ state' = "Ready" /\ state # "Ready" => state = "Handshaking"
  /\ state' = "Closed" /\ state # "Closed" =>
       state = "Draining" /\ shutdown_acked /\ child' = "success"
StateStays == state' = state /\ terminal_error' = terminal_error

LEMMA StaysFinal == StateStays => Final
BY DEF StateStays, Final, Terminal

LEMMA FailsFinal == \A e : TransitionToFailed(e) => Final
BY DEF TransitionToFailed, Final, Terminal

LEMMA OwnerFinal ==
  OwnerStep \/ LoadAbandoned \/ StartBegin \/ Disposed \/ DeadlineExpires => Final
<1>1. Handshake \/ ApplyNegotiated => Final
  BY DEF Handshake, ApplyNegotiated, Transition, Final, Terminal
<1>2. SessionOwnerDrop \/ BeginCleanup => StateStays
  BY Zenon DEF SessionOwnerDrop, BeginCleanup, StateStays
<1>3. ShutdownBegin => Final
  BY DEF ShutdownBegin, Transition, Final, Terminal
<1>4. (\E n \in LoadSizes : LoadBegin(n)) \/ StartBegin \/ ShutdownEnd => StateStays
  BY DEF LoadBegin, StartBegin, ShutdownEnd, StateStays
<1>5. LoadEnd \/ StartEnd \/ WaitCompletion => StateStays
  BY DEF LoadEnd, StartEnd, WaitCompletion, StateStays, inner
<1> QED BY <1>1, <1>2, <1>3, <1>4, <1>5, StaysFinal
     DEF OwnerStep, LoadAbandoned, LoadFailed, Disposed, DeadlineExpires, StartFailed,
         FailureConverges

LEMMA ReaderFinal == ReaderStep => Final
<1>1. ReaderLimit \/ ReaderStop \/ ReaderResolve => StateStays
  BY DEF ReaderLimit, ReaderStop, ReaderResolve, StateStays, inner
<1>2. \A e, id : ReaderFails(e, id) => Final
  BY FailsFinal DEF ReaderFails
<1>3. \A e : ReadError(e) => Final
  BY <1>2, StaysFinal DEF ReadError, StateStays
<1>4. \A m : DispatchResponse(m) => Final
  <2>1. SUFFICES ASSUME NEW m, DispatchResponse(m) PROVE Final
    OBVIOUS
  <2>2. (\E e, id : ReaderFails(e, id)) \/ StateStays
    BY <2>1 DEF DispatchResponse, StateStays
  <2> QED BY <1>2, <2>2, StaysFinal
<1>5. \A f : HandleFrame(f) => Final
  BY <1>2, <1>3, <1>4 DEF HandleFrame
<1>6. ReadFrame => Final
  BY <1>5 DEF ReadFrame
<1> QED BY <1>1, <1>6, StaysFinal DEF ReaderStep

LEMMA WriterFinal == WriterStep => Final
<1>1. WriterStop \/ WriterResolve => StateStays
  BY DEF WriterStop, WriterResolve, StateStays, inner
<1>2. \A e, rest : WriterFails(e, rest) => Final
  BY FailsFinal DEF WriterFails
<1>3. WriterRecv => (\E e, rest : WriterFails(e, rest)) \/ StateStays
  BY DEF WriterRecv, StateStays
<1>4. WriterWrite => (\E e, rest : WriterFails(e, rest)) \/ StateStays
  BY DEF WriterWrite, StateStays
<1> QED BY <1>1, <1>2, <1>3, <1>4, StaysFinal DEF WriterStep

LEMMA SupervisorFinal ==
  ASSUME SessionInv, SupervisorStep
  PROVE  Final
<1>1. ForceKill \/ SupervisorResolve \/ SupervisorJoin => StateStays
  BY DEF ForceKill, SupervisorResolve, SupervisorJoin, StateStays, inner
<1>2. ForceReaped => Final
  BY FailsFinal DEF ForceReaped, SupervisorEnds
<1>3. ChildWaited => Final
  <2>1. SUFFICES ASSUME ChildWaited PROVE Final
    OBVIOUS
  <2>2. CASE child' = "success" /\ shutdown_acked /\ TransitionToClosed
    <3>1. state \in Leaving
      BY <2>2, OwnerParts
    <3> QED BY <2>2, <3>1 DEF TransitionToClosed, Final, Leaving, Terminal
  <2>3. CASE TransitionToFailed("ProcessExited")
    BY <2>3, FailsFinal
  <2> QED BY <2>1, <2>2, <2>3 DEF ChildWaited, SupervisorEnds
<1> QED BY <1>1, <1>2, <1>3, StaysFinal DEF SupervisorStep

\* TransitionToFailed and TransitionToClosed, under the terminal_error lock, decide
\* the end once; Closed needs the acknowledged Shutdown and the child's success.
THEOREM TerminalIsFinal == Spec => TerminalFinal
<1>1. SessionInv /\ [Next]_vars => [Final]_vars
  <2> SUFFICES ASSUME SessionInv, Next PROVE Final
    OBVIOUS
  <2>1. CASE \E c \in Callers : CallStep(c)
    <3>1. StateStays
      BY <2>1 DEF CallStep, Insert, Recheck, Send, Receive, StateStays
    <3> QED BY <3>1, StaysFinal
  <2>2. CASE User
    <3>1. (\E i \in Invokers, n \in InvokeSizes : InvokeBegin(i, n)) => StateStays
      BY DEF InvokeBegin, StateStays
    <3>2. (\E i \in Invokers : InvokeDrop(i)) => StateStays
      BY DEF InvokeDrop, StateStays
    <3> QED BY <2>2, <3>1, <3>2, StaysFinal, OwnerFinal DEF User
  <2>3. CASE Peer \/ WaitForFailure
    <3>1. PeerExit => StateStays
      BY DEF PeerExit, StateStays, inner
    <3>2. \A f : PeerTake(f) => StateStays
      BY DEF PeerTake, StateStays, inner
    <3>3. WaitForFailure => StateStays
      BY DEF WaitForFailure, StateStays, inner
    <3> QED BY <2>3, <3>1, <3>2, <3>3, StaysFinal DEF Peer
  <2>4. CASE Finished
    <3>1. StateStays
      BY <2>4 DEF Finished, vars, inner, StateStays
    <3> QED BY <3>1, StaysFinal
  <2> QED BY <2>1, <2>2, <2>3, <2>4, OwnerFinal, ReaderFinal, WriterFinal, SupervisorFinal DEF Next
<1> QED BY <1>1, SessionInvariant, PTL DEF Spec, TerminalFinal, Final
=============================================================================
