------------------------- MODULE FiberDisposalProofs -------------------------
(***************************************************************************)
(* What disposals leave behind, whom they answer and what they end, for    *)
(* every topology of Fibers and Scopes (FiberLifecycle).                   *)
(*                                                                         *)
(* The steps of the runtime are first sorted by what they do to one Fiber, *)
(* to one Scope and to one process; the invariants are then proved over    *)
(* these moves.  Where the code has a way around a promise, the theorem    *)
(* names the one step that has to be ruled out.                            *)
(***************************************************************************)
EXTENDS FiberLifecycleProofs

-----------------------------------------------------------------------------
(***************************************************************************)
(* What holds of records and frames without any further condition.         *)
(***************************************************************************)
\* A disposal has not begun, or was answered.
Ended == {"Idle", "Complete", "Terminated"}

\* A Fiber's record x and the frame b of its disposal body.
StateOK(x, b) ==
  /\ x.state = "Disposed" => x.disposal.phase = "Complete"
  /\ x.disposal.phase = "Idle" => x.state \notin {"Disposing", "Disposed"}
  /\ x.state \in {"Absent", "Created"} => x.disposal.phase = "Idle"
  /\ x.disposal.done = "none" <=> x.disposal.phase \notin {"Complete", "Terminated"}
  /\ x.disposal.phase = "Terminated" => x.disposal.done # "ok"
  /\ \A i \in DOMAIN x.disposal.errs : x.disposal.errs[i] # "none"
  /\ b.pc \in {"reconciled", "detach", "publish"} => b.res # "none"
  /\ b.pc \in {"detach", "publish"} /\ b.bad => b.res # "ok" /\ b.goal = NONE

\* A Scope's record x and the frame b of its disposal body.
ScopeOK(x, b) ==
  /\ x.state = "Disposing" <=> b.pc # "idle"
  /\ x.done = "none" <=> x.state \in {"Absent", "Active", "Disposing"}
  /\ x.state = "Terminated" => x.done = "scope"

States == \A f \in Fibers : StateOK(fib[f], proc[Body(f)])
ScopeStates == \A s \in Scopes : ScopeOK(scp[s], proc[ScopeBody(s)])
Replies == \A p \in Procs : At(p, "back") => proc[p].res # "none"

GeneralInv == LifecycleInv /\ States /\ ScopeStates /\ Replies

-----------------------------------------------------------------------------
(***************************************************************************)
(* The moves of a Fiber: its record goes from x to y while the frame of    *)
(* its disposal body goes from b to c.                                     *)
(***************************************************************************)
\* Of the record, only the fields in F change (who holds the lifecycle lock and
\* whether the disposal persists left aside), and no request takes back that a
\* Fiber is not to wait for its dependencies again.
Only(F, x, y) ==
  /\ "state" \in F \/ y.state = x.state
  /\ "phase" \in F \/ y.disposal.phase = x.disposal.phase
  /\ "done" \in F \/ y.disposal.done = x.disposal.done
  /\ "errs" \in F \/ y.disposal.errs = x.disposal.errs
  /\ "wait" \in F \/ (y.disposal.wait => x.disposal.wait)
  /\ "reg" \in F \/ y.reg = x.reg
  /\ "kids" \in F \/ y.kids = x.kids
  /\ "lease" \in F \/ y.lease = x.lease
  /\ "visible" \in F \/ y.visible = x.visible
  /\ "indexed" \in F \/ y.indexed = x.indexed

\* The body does nothing, or goes on with its reconciliation or its call.
Along(b, c) ==
  \/ c = b
  \/ /\ b.pc \in Reconciling /\ c.pc \in Reconciling
     /\ c.goal = b.goal /\ c.bad = b.bad
     /\ Decided(c) => Decided(b)
     /\ c.pc = "reconciled" => c.res # "none"
     /\ c.pc \in {"wait", "back"} /\ c.tgt \in Scopes =>
          b.pc = "wait" /\ c.pc = "back" /\ c.tgt = b.tgt

\* A list of results, to which one may have been added.
More(es, fs) == fs = es \/ \E e \in Results \ {"none"} : fs = Append(es, e)

Rest(x, y, b, c) == Only({}, x, y) /\ Along(b, c)

Created(x, y, b, c) ==
  /\ x.state = "Absent" /\ c = b
  /\ y = [NewFiber EXCEPT !.state = "Created"]

Indexed(x, y, b, c) == Only({"indexed"}, x, y) /\ y.indexed /\ c = b

Removed(x, y, b, c) ==
  /\ x.state \notin {"Absent", "Gone"} /\ y.state = "Gone" /\ ~y.indexed
  /\ Only({"state", "indexed"}, x, y) /\ c = b

Parked(x, y, b, c) ==
  /\ x.state \in {"Created", "Disposing"} /\ y.state = "Waiting"
  /\ Only({"state"}, x, y) /\ c = b

Begun(x, y, b, c) ==
  /\ x.disposal.phase = "Idle" /\ x.state \notin {"Absent", "Disposed", "Gone"}
  /\ y.disposal.phase = "Tasks" /\ y.state = "Disposing" /\ ~y.visible
  /\ Only({"state", "phase", "visible"}, x, y)
  /\ b.pc = "idle" /\ c = [Idle EXCEPT !.pc = "queue"]

Started(x, y, b, c) ==
  /\ x.state \in {"Created", "Waiting"} /\ y.state = "Starting" /\ c = b
  /\ IF x.state = "Waiting" /\ x.disposal.phase = "Complete"
       THEN y.disposal = NewDisposal ELSE y.disposal = x.disposal
  /\ Only({"state", "phase", "done", "errs", "wait"}, x, y)

Committing(f, x, y, b, c) ==
  /\ x.state = "Starting" /\ x.disposal.phase = "Idle" /\ x.reg = Provides[f]
  /\ y.state = "Active" /\ y.visible /\ Only({"state", "visible"}, x, y) /\ c = b

FailedMove(x, y, b, c) ==
  /\ x.state \in {"Starting", "Active"} /\ y.state = "Failed"
  /\ Only({"state"}, x, y) /\ Along(b, c)

Providing(f, x, y, b, c) ==
  /\ x.state = "Starting" /\ Only({"reg"}, x, y) /\ c = b
  /\ \E d \in Provides[f] : y.reg = x.reg \cup {d}

Adopting(f, x, y, b, c) ==
  /\ x.state \in {"Starting", "Active"} /\ Only({"kids"}, x, y) /\ c = b
  /\ \E s \in Scopes : ContextCreateScope(s) /\ Owner[s] = f /\ y.kids = Append(x.kids, s)

Leasing(f, x, y, b, c) ==
  /\ Only({"lease"}, x, y) /\ c = b
  /\ y.lease \in BOOLEAN /\ (y.lease => x.visible /\ f \in Leased)

\* The steps of the disposal body itself.
Draining(x, y, b, c) ==
  /\ b.pc = "queue" /\ c = [b EXCEPT !.pc = "drain"]
  /\ x.state \notin {"Absent", "Gone"} /\ y.disposal.phase = "Draining"
  /\ Only({"phase"}, x, y)

Drained(x, y, b, c) ==
  /\ b.pc = "drain" /\ c = [b EXCEPT !.pc = "kids"]
  /\ ~x.lease /\ y.disposal.phase = "ChildScopes"
  /\ Only({"phase"}, x, y)

AskingScope(x, y, b, c) ==
  /\ b.pc = "kids" /\ x.kids # <<>>
  /\ c.pc \in {"wait", "back"} /\ c.tgt = Last(x.kids) /\ c.tgt \in Scopes
  /\ c.goal = b.goal /\ c.bad = b.bad
  /\ Only({}, x, y)

ScopeDone(x, y, b, c) ==
  /\ b.pc = "back" /\ b.tgt \in Scopes /\ c = [Idle EXCEPT !.pc = "kids"]
  /\ y.kids = Without(x.kids, b.tgt) /\ More(x.disposal.errs, y.disposal.errs)
  /\ Only({"kids", "errs"}, x, y)

ScopesDone(x, y, b, c) ==
  /\ b.pc = "kids" /\ c = [b EXCEPT !.pc = "release"]
  /\ x.kids = <<>> /\ y.disposal.phase = "Release"
  /\ Only({"phase"}, x, y)

Releasing(x, y, b, c) ==
  /\ b.pc = "release" /\ c.pc = "decide"
  /\ x.state \notin {"Absent", "Gone"}
  /\ y.reg = {} /\ More(x.disposal.errs, y.disposal.errs)
  /\ Only({"reg", "errs"}, x, y)

Deciding(x, y, b, c) ==
  /\ b.pc = "decide" /\ c.pc \in {"collect", "reconciled"}
  /\ c.res = "ok" /\ c.goal \in {"Waiting", "Disposed"} /\ c.bad = b.bad
  /\ c.goal = "Waiting" => x.disposal.wait
  /\ y.disposal.phase = "Reconciling"
  /\ Only({"phase"}, x, y)

Finishing(x, y, b, c) ==
  /\ b.pc = "reconciled" /\ x.state \notin {"Absent", "Gone"}
  /\ c.pc = "detach" /\ c.res # "none" /\ ~c.bad /\ c.goal = b.goal
  /\ More(x.disposal.errs, y.disposal.errs)
  /\ Only({"errs"}, x, y)

Quitting(x, y, b, c) ==
  /\ b.pc \in {"queue", "drain", "kids", "release", "decide", "reconciled"}
  /\ c.pc = "detach" /\ c.bad /\ c.goal = NONE
  /\ c.res = "crash" \/ (c.res = "plain" /\ b.pc = "drain" /\ x.lease)
  /\ Only({}, x, y)

Detaching(x, y, b, c) ==
  /\ b.pc = "detach" /\ x.state \notin {"Absent", "Gone"}
  /\ c.pc = "publish" /\ c.goal = b.goal /\ c.bad = b.bad
  /\ c.res \in {b.res, "crash"}
  /\ y.disposal.phase = "Finalizing"
  /\ y.indexed = x.indexed \/ (b.goal = "Disposed" /\ ~b.bad /\ ~y.indexed)
  /\ Only({"phase", "indexed"}, x, y)

Publishing(x, y, b, c) ==
  /\ b.pc = "publish" /\ c = Idle /\ x.state \notin {"Absent", "Gone"}
  /\ y.state = IF b.bad THEN x.state ELSE b.goal
  /\ y.disposal.phase = IF b.bad THEN "Terminated" ELSE "Complete"
  /\ y.disposal.done = b.res
  /\ Only({"state", "phase", "done"}, x, y)

Vanishing(x, y, b, c) ==
  /\ b.pc \in {"detach", "publish"} /\ c = Idle
  /\ x.state = "Gone" /\ Only({}, x, y)

Sweeping(x, y, b, c) ==
  /\ x.state = "Disposed" /\ y.state = "Gone" /\ ~y.indexed
  /\ Only({"state", "indexed"}, x, y) /\ c = b

\* The Fibers that some request may leave waiting for their dependencies.
MayReturn == Restart \cup Dropped

\* The moves that are somebody else's step.
OtherMove(f, x, y, b, c) ==
  \/ Rest(x, y, b, c)
  \/ Install(f) /\ Created(x, y, b, c)
  \/ InstallIndex(f) /\ Indexed(x, y, b, c)
  \/ InstallRemove(f) /\ Removed(x, y, b, c)
  \/ InstallPark(f) /\ Parked(x, y, b, c)
  \/ Begun(x, y, b, c) /\ (y.disposal.wait => f \in MayReturn)
  \/ (\E p \in Procs : Activate(p) /\ proc[p].tgt = f) /\ Started(x, y, b, c)
  \/ At(Activation(f), "commit") /\ Committing(f, x, y, b, c)
  \/ FailedMove(x, y, b, c)
  \/ Providing(f, x, y, b, c)
  \/ Adopting(f, x, y, b, c)
  \/ Leasing(f, x, y, b, c)
  \/ Sweeping(x, y, b, c)

BodyMove(f, x, y, b, c) ==
  \/ Draining(x, y, b, c) \/ Drained(x, y, b, c) \/ AskingScope(x, y, b, c)
  \/ ScopeDone(x, y, b, c) \/ ScopesDone(x, y, b, c) \/ Releasing(x, y, b, c)
  \/ Deciding(x, y, b, c) \/ Finishing(x, y, b, c) \/ Quitting(x, y, b, c)
  \/ Detach(f) /\ Detaching(x, y, b, c)
  \/ Publish(f) /\ Publishing(x, y, b, c)
  \/ Vanishing(x, y, b, c)

FiberMove(f, x, y, b, c) == OtherMove(f, x, y, b, c) \/ BodyMove(f, x, y, b, c)

FiberMoves ==
  \A f \in Fibers : FiberMove(f, fib[f], fib'[f], proc[Body(f)], proc'[Body(f)])

-----------------------------------------------------------------------------
(***************************************************************************)
(* Every step moves every Fiber.                                           *)
(***************************************************************************)
LEMMA BodyProcs ==
  ASSUME NEW p \in Procs, NEW g \in Fibers, p = Body(g)
  PROVE  p[1] = "body" /\ p \in Reconcilers
BY FiberProcs

LEMMA AlongSame == \A b : Along(b, b)
BY DEF Along

LEMMA Records ==
  ASSUME GeneralInv, NEW f \in Fibers
  PROVE  /\ fib \in [Fibers -> FiberRec] /\ fib[f] \in FiberRec
         /\ fib[f].disposal \in DisposalRec /\ fib[f].state \in FiberStates
         /\ proc \in [Procs -> Frames] /\ scp \in [Scopes -> ScopeRec]
         /\ Body(f) \in Procs /\ Body(f)[1] = "body"
         /\ proc[Body(f)] \in Frames /\ proc[Body(f)].res \in Results
         /\ FiberOK(f, fib[f], proc[Activation(f)], proc[Body(f)])
         /\ StateOK(fib[f], proc[Body(f)])
BY Instances, FiberProcs, FrameFields DEF GeneralInv, States, FiberRec

\* No record changes.
LEMMA AllRest ==
  ASSUME fib' = fib, \A g \in Fibers : Along(proc[Body(g)], proc'[Body(g)])
  PROVE  FiberMoves
BY DEF FiberMoves, FiberMove, OtherMove, Rest, Only

\* Only the record of f changes.
LEMMA OneMoves ==
  ASSUME GeneralInv, NEW f \in Fibers, NEW x, fib' = [fib EXCEPT ![f] = x],
         \A g \in Fibers : g # f => Along(proc[Body(g)], proc'[Body(g)]),
         FiberMove(f, fib[f], x, proc[Body(f)], proc'[Body(f)])
  PROVE  FiberMoves
<1> SUFFICES ASSUME NEW g \in Fibers
             PROVE FiberMove(g, fib[g], fib'[g], proc[Body(g)], proc'[Body(g)])
  BY DEF FiberMoves
<1>1. fib'[g] = IF g = f THEN x ELSE fib[g]
  BY Records
<1>2. CASE g = f
  BY <1>1, <1>2
<1>3. CASE g # f
  BY <1>1, <1>3 DEF FiberMove, OtherMove, Rest, Only
<1> QED BY <1>2, <1>3

\* A step of a process that is no disposal body.
LEMMA Foreign ==
  ASSUME GeneralInv, NEW p \in Procs, NEW r, proc' = [proc EXCEPT ![p] = r]
  PROVE  /\ p[1] # "body" => \A g \in Fibers : proc'[Body(g)] = proc[Body(g)]
         /\ Along(proc[p], r) => \A g \in Fibers : Along(proc[Body(g)], proc'[Body(g)])
         /\ \A g \in Fibers : p = Body(g) =>
              proc'[p] = r /\ \A h \in Fibers : h # g => Along(proc[Body(h)], proc'[Body(h)])
<1>1. proc \in [Procs -> Frames]
  BY Instances DEF GeneralInv
<1> QED BY <1>1, FiberProcs DEF Along

\* A request begins the disposal, or leaves the record as these moves see it.
LEMMA JoinedMoves ==
  ASSUME GeneralInv, NEW f \in Fibers, NEW w \in BOOLEAN, NEW d \in BOOLEAN
  PROVE  LET x == Joined(f, w, d) IN
         /\ ~Begins(f) => Only({}, fib[f], x)
         /\ Begins(f) => /\ x.state = "Disposing" /\ ~x.visible /\ x.disposal.phase = "Tasks"
                         /\ Only({"state", "phase", "visible"}, fib[f], x)
         /\ x.disposal.wait => w
<1> DEFINE wait == fib[f].disposal.wait /\ w
           persist == fib[f].disposal.persist \/ d
           r == [fib[f] EXCEPT !.disposal.wait = @ /\ w, !.disposal.persist = @ \/ d]
           y == [r EXCEPT !.state = "Disposing", !.visible = FALSE, !.disposal.phase = "Tasks"]
<1>1. fib[f] \in FiberRec /\ fib[f].disposal \in DisposalRec
  BY Records
<1>2. Joined(f, w, d) = IF Begins(f) THEN y ELSE r
  BY DEF Joined
<1>3. Only({}, fib[f], r) /\ (r.disposal.wait => w)
  BY <1>1 DEF FiberRec, DisposalRec, Only
<1>4. /\ y.state = "Disposing" /\ ~y.visible /\ y.disposal.phase = "Tasks"
      /\ Only({"state", "phase", "visible"}, fib[f], y) /\ (y.disposal.wait => w)
  BY <1>1 DEF FiberRec, DisposalRec, Only
<1> HIDE DEF r, y
<1> QED BY <1>2, <1>3, <1>4

LEMMA BeginsWhere ==
  ASSUME GeneralInv, NEW f \in Fibers
  PROVE  /\ Begins(f) => /\ fib[f].disposal.phase = "Idle"
                         /\ fib[f].state \notin {"Absent", "Disposed", "Gone"}
                         /\ At(Body(f), "idle")
         /\ fib[f].disposal.phase = "Idle" /\ ~Begins(f) => fib[f].state \in {"Absent", "Gone"}
BY Records DEF Begins, CanTransition, StateOK, FiberOK, BodyOK, At, FiberStates

LEMMA DisposeAnswers ==
  ASSUME GeneralInv, NEW f \in Fibers
  PROVE  /\ DisposeAnswer(f) \in Results
         /\ fib[f].state \in {"Absent", "Gone"} => DisposeAnswer(f) = "plain"
         /\ fib[f].state \notin {"Absent", "Gone"} => DisposeAnswer(f) = fib[f].disposal.done
         /\ DisposeAnswer(f) = "none" =>
              /\ Registered(f)
              /\ fib[f].disposal.phase \notin {"Complete", "Terminated"}
              /\ fib[f].disposal.phase = "Idle" => Begins(f)
<1>1. fib[f].disposal.done \in Results
  BY Records DEF DisposalRec
<1> QED BY <1>1, Records, BeginsWhere DEF DisposeAnswer, Registered, Results, StateOK

\* p is a client, or at a call of its own.
LEMMA DisposeMoves ==
  ASSUME GeneralInv, NEW p \in Procs \cup {NONE}, NEW f \in Fibers,
         NEW w \in BOOLEAN, NEW d \in BOOLEAN, DisposeFiber(p, f, w, d),
         p \in Procs => proc[p].pc \in {"rollback", "call"}, w => f \in MayReturn
  PROVE  FiberMoves
<1> DEFINE x == IF Registered(f) THEN Joined(f, w, d) ELSE fib[f]
           r == Called(proc[p], f, DisposeAnswer(f))
           n == [Idle EXCEPT !.pc = "queue"]
           begins == Registered(f) /\ Begins(f)
<1>1. /\ fib' = [fib EXCEPT ![f] = x]
      /\ \A q \in Procs : proc'[q] = IF q = p THEN r ELSE IF q = Body(f) /\ begins THEN n ELSE proc[q]
  <2>1. fib' = [fib EXCEPT ![f] = x]
    BY Records DEF DisposeFiber
  <2>2. \A q \in Procs : proc'[q] = IF q = p THEN r
                                    ELSE IF q = Body(f) /\ begins THEN n ELSE proc[q]
    BY DEF DisposeFiber, Called
  <2> QED BY <2>1, <2>2
<1>2. p \in Procs =>
        /\ r \in Frames /\ r.pc \in {"wait", "back"} /\ r.tgt = f
        /\ r.goal = proc[p].goal /\ r.bad = proc[p].bad
  BY Records, DisposeAnswers, CalledFrame
<1>3. /\ ~begins => Only({}, fib[f], x)
      /\ begins => /\ x.state = "Disposing" /\ ~x.visible /\ x.disposal.phase = "Tasks"
                   /\ Only({"state", "phase", "visible"}, fib[f], x)
                   /\ x.disposal.wait => w
  <2>1. Only({}, fib[f], fib[f])
    BY DEF Only
  <2> QED BY <2>1, JoinedMoves
<1> HIDE DEF x, r
<1>4. p \in Procs /\ p[1] = "body" => Along(proc[p], r)
  <2> SUFFICES ASSUME p \in Procs, p[1] = "body" PROVE Along(proc[p], r)
    OBVIOUS
  <2>1. f \notin Scopes
    BY LifecycleAssumption
  <2> QED BY <1>2, <2>1 DEF Along, Decided, Reconciling, Calling
<1>5. \A g \in Fibers : g # f => Along(proc[Body(g)], proc'[Body(g)])
  BY <1>1, <1>4, FiberProcs DEF Along
<1>6. CASE begins
  <2>1. At(Body(f), "idle") /\ p # Body(f) /\ proc'[Body(f)] = n
    BY <1>1, <1>6, BeginsWhere, FiberProcs DEF At
  <2>2. Begun(fib[f], x, proc[Body(f)], n)
    BY <1>3, <1>6, <2>1, BeginsWhere DEF Begun, At
  <2>3. FiberMove(f, fib[f], x, proc[Body(f)], proc'[Body(f)])
    BY <1>3, <1>6, <2>1, <2>2 DEF FiberMove, OtherMove
  <2> QED BY <1>1, <1>5, <2>3, OneMoves
<1>7. CASE ~begins
  <2>1. Along(proc[Body(f)], proc'[Body(f)])
    BY <1>1, <1>4, <1>7, FiberProcs DEF Along
  <2>2. FiberMove(f, fib[f], x, proc[Body(f)], proc'[Body(f)])
    BY <1>3, <1>7, <2>1 DEF FiberMove, OtherMove, Rest
  <2> QED BY <1>1, <1>5, <2>2, OneMoves
<1> QED BY <1>6, <1>7

LEMMA ScopeAnswers ==
  ASSUME GeneralInv, NEW s \in Scopes
  PROVE  ScopeAnswer(s) \in Results
BY Instances DEF GeneralInv, ScopeAnswer, ScopeRec, Results

\* The disposal of a Scope, requested by p.
LEMMA ScopeAsked ==
  ASSUME GeneralInv, NEW p \in Procs \cup {NONE}, NEW s \in Scopes, NEW d \in BOOLEAN,
         DisposeScope(p, s, d)
  PROVE  /\ p \in Procs =>
              /\ proc'[p] = Called(proc[p], s, ScopeAnswer(s))
              /\ proc'[p] \in Frames /\ proc'[p].pc \in {"wait", "back"} /\ proc'[p].tgt = s
              /\ proc'[p].goal = proc[p].goal /\ proc'[p].bad = proc[p].bad
         /\ \A q \in Procs : q[1] # "scope" /\ q # p => proc'[q] = proc[q]
<1> DEFINE r == Called(proc[p], s, ScopeAnswer(s))
           n == [Idle EXCEPT !.pc = "snapshot"]
<1>1. \A q \in Procs : proc'[q] = IF q = p THEN r
                                  ELSE IF q = ScopeBody(s) /\ scp[s].state = "Active" THEN n
                                  ELSE proc[q]
  BY DEF DisposeScope, Called
<1>2. p \in Procs => /\ r \in Frames /\ r.pc \in {"wait", "back"} /\ r.tgt = s
                     /\ r.goal = proc[p].goal /\ r.bad = proc[p].bad
  BY Instances, ScopeAnswers, CalledFrame DEF GeneralInv
<1> HIDE DEF r, n
<1>3. p \in Procs => proc'[p] = r
  BY <1>1
<1> QED BY <1>1, <1>2, <1>3, ScopeProcs DEF r

LEMMA DisposeScopeMoves ==
  ASSUME GeneralInv, NEW p \in Procs \cup {NONE}, NEW s \in Scopes, NEW d \in BOOLEAN,
         DisposeScope(p, s, d), fib' = fib, p \in Procs => p[1] # "body"
  PROVE  FiberMoves
<1>1. \A g \in Fibers : proc'[Body(g)] = proc[Body(g)]
  BY ScopeAsked, FiberProcs
<1> QED BY <1>1, AllRest DEF Along

LEMMA AskingScopeMoves ==
  ASSUME GeneralInv, NEW f \in Fibers, BodyChildScope(f)
  PROVE  FiberMoves
<1> DEFINE s == Last(fib[f].kids)
           b == proc[Body(f)]
           c == proc'[Body(f)]
<1>1. /\ fib' = fib /\ b.pc = "kids" /\ fib[f].kids # <<>> /\ s \in Scopes
      /\ DisposeScope(Body(f), s, FALSE)
  <2>1. fib[f].kids \in Seq(Scopes)
    BY Records DEF FiberRec
  <2> QED BY <2>1, FrontSeq DEF BodyChildScope, At
<1>2. /\ c.pc \in {"wait", "back"} /\ c.tgt = s /\ c.goal = b.goal /\ c.bad = b.bad
      /\ \A g \in Fibers : g # f => proc'[Body(g)] = proc[Body(g)]
  <2>1. Body(f) \in Procs /\ \A g \in Fibers : Body(g) \in Procs /\ Body(g)[1] # "scope"
        /\ (g # f => Body(g) # Body(f))
    BY FiberProcs
  <2> HIDE DEF s
  <2> QED BY <1>1, <2>1, ScopeAsked
<1>3. AskingScope(fib[f], fib[f], b, c)
  BY <1>1, <1>2 DEF AskingScope, Only
<1>4. fib' = [fib EXCEPT ![f] = fib[f]]
  BY <1>1, Records
<1>5. FiberMove(f, fib[f], fib[f], b, c)
  BY <1>3 DEF FiberMove, BodyMove
<1> QED BY <1>2, <1>4, <1>5, OneMoves DEF Along

\* Whoever gets a result goes on.
LEMMA Delivered ==
  ASSUME GeneralInv, NEW id, NEW res \in Results, NEW p, NEW frame, Deliver(id, res, p, frame)
  PROVE  /\ p \in Procs => proc'[p] = frame
         /\ \A q \in Procs : q # p =>
              proc'[q] = IF proc[q].pc = "wait" /\ proc[q].tgt = id
                           THEN Answered(proc[q], res) ELSE proc[q]
         /\ \A g \in Fibers : Body(g) # p => Along(proc[Body(g)], proc'[Body(g)])
<1>1. /\ p \in Procs => proc'[p] = frame
      /\ \A q \in Procs : q # p =>
           proc'[q] = IF proc[q].pc = "wait" /\ proc[q].tgt = id
                        THEN Answered(proc[q], res) ELSE proc[q]
  BY DEF Deliver
<1>2. ASSUME NEW g \in Fibers, Body(g) # p PROVE Along(proc[Body(g)], proc'[Body(g)])
  <2> DEFINE b == proc[Body(g)]
             c == proc'[Body(g)]
  <2>0. Body(g) \in Procs
    BY FiberProcs
  <2>1. c = IF b.pc = "wait" /\ b.tgt = id THEN Answered(b, res) ELSE b
    BY <1>1, <1>2, <2>0, Zenon
  <2>2. CASE b.pc = "wait" /\ c = Answered(b, res)
    <3>1. c.pc = "back" /\ c.tgt = b.tgt /\ c.goal = b.goal /\ c.bad = b.bad
      BY <2>2, Records, AnsweredFrame
    <3> QED BY <2>2, <3>1 DEF Along, Decided, Reconciling, Calling
  <2> QED BY <2>1, <2>2 DEF Along
<1> QED BY <1>1, <1>2

\* Steps that change no record.
LEMMA QuietMoves ==
  ASSUME GeneralInv, NEW p \in Procs, NEW r, proc' = [proc EXCEPT ![p] = r], fib' = fib,
         p[1] # "body" \/ Along(proc[p], r)
  PROVE  FiberMoves
<1>1. CASE p[1] # "body"
  BY <1>1, Foreign, AllRest DEF Along
<1>2. CASE Along(proc[p], r)
  BY <1>2, Foreign, AllRest
<1> QED BY <1>1, <1>2

LEMMA UnmovedProcs ==
  ASSUME proc' = proc, fib' = fib PROVE FiberMoves
BY AllRest DEF Along

LEMMA ReconcilingMoves ==
  ASSUME GeneralInv, NEW p \in Reconcilers, ReconcileStep(p)
  PROVE  FiberMoves
<1> DEFINE b == proc[p]
<1>1. p \in Procs /\ b \in Frames /\ proc \in [Procs -> Frames] /\ FrameOK(p, b)
  BY Instances, ReconcilerProcs DEF GeneralInv
<1>2. ASSUME NEW r, proc' = [proc EXCEPT ![p] = r], fib' = fib,
             Decided(b), b.pc \in Reconciling, r.pc \in Reconciling, r.goal = b.goal, r.bad = b.bad,
             r.pc \notin {"wait", "back"}, r.pc = "reconciled" => r.res # "none"
      PROVE  FiberMoves
  <2>1. Along(b, r)
    BY <1>2 DEF Along
  <2> QED BY <1>1, <1>2, <2>1, QuietMoves
<1>3. CASE Collect(p)
  <2> DEFINE r == [b EXCEPT !.pc = "pick", !.syms = {},
               !.todo = {g \in Fibers : fib[g].indexed /\ Deps[g] \cap b.syms # {}}]
  <2>0. b \in Frames
    BY <1>1
  <2>1. r.pc = "pick" /\ r.goal = b.goal /\ r.bad = b.bad
    BY <2>0 DEF Frames
  <2>2. proc' = [proc EXCEPT ![p] = r] /\ fib' = fib /\ b.pc = "collect"
    BY <1>1, <1>3 DEF Collect, At
  <2> HIDE DEF r, b
  <2> QED BY <1>2, <2>1, <2>2 DEF Decided, Reconciling, Calling
<1>4. ASSUME NEW g \in Fibers, Pick(p, g) PROVE FiberMoves
  <2> DEFINE pc == IF Registered(g) THEN "judge" ELSE "pick"
             tgt == IF Registered(g) THEN g ELSE NONE
             seen == IF Registered(g) THEN fib[g].state ELSE "Absent"
             r == [b EXCEPT !.todo = @ \ {g}, !.pc = pc, !.tgt = tgt, !.seen = seen]
  <2>1. pc \in {"judge", "pick"} /\ tgt \in Fibers \cup {NONE} /\ seen \in FiberStates
    BY Records DEF FiberStates
  <2>2. proc' = [proc EXCEPT ![p] = r] /\ fib' = fib /\ b.pc = "pick"
    BY <1>1, <1>4 DEF Pick, At
  <2> HIDE DEF pc, tgt, seen
  <2>3. r.pc = pc /\ r.goal = b.goal /\ r.bad = b.bad
    BY <1>1, <2>1 DEF Frames
  <2> HIDE DEF r, b
  <2> QED BY <1>2, <2>1, <2>2, <2>3 DEF Decided, Reconciling, Calling
<1>5. CASE Judge(p)
  <2> DEFINE v == Verdict(b.seen, Met(b.tgt))
             r == [b EXCEPT !.pc = v, !.seen = "Absent", !.tgt = IF v = "pick" THEN NONE ELSE @]
  <2>1. v \in {"call", "lock", "pick"} /\ b.tgt \in Fibers /\ b.pc = "judge"
    BY <1>1, <1>5 DEF Verdict, Judge, At, FrameOK
  <2>2. proc' = [proc EXCEPT ![p] = r] /\ fib' = fib
    BY <1>1, <1>5 DEF Judge
  <2> HIDE DEF v
  <2>0. b \in Frames
    BY <1>1
  <2>3. r.pc = v /\ r.goal = b.goal /\ r.bad = b.bad
    BY <2>0, <2>1 DEF Frames
  <2> HIDE DEF r, b
  <2> QED BY <1>2, <2>1, <2>2, <2>3 DEF Decided, Reconciling, Calling
<1>6. CASE CallDispose(p)
  <2>1. b.tgt \in Fibers /\ (b.tgt \in Restart) \in BOOLEAN /\ b.pc = "call"
    BY <1>1, <1>6 DEF CallDispose, At, FrameOK
  <2>2. DisposeFiber(p, b.tgt, b.tgt \in Restart, FALSE)
    BY <1>6 DEF CallDispose
  <2> QED BY <1>1, <2>1, <2>2, DisposeMoves DEF MayReturn
<1>7. CASE CandidateDone(p)
  <2> DEFINE res == CallResult(p)
             r == [b EXCEPT !.rollback = FALSE, !.res = res, !.tgt = NONE,
                     !.todo = IF res = "ok" THEN @ ELSE {},
                     !.pc = IF res = "ok" THEN "pick" ELSE "reconciled"]
  <2>1. res \in Results /\ res # "none" /\ b.pc = "back" /\ b.tgt \in Fibers
    BY <1>1, <1>7, FrameFields DEF CandidateDone, At, CallResult, Results, GeneralInv, Replies
  <2>2. proc' = [proc EXCEPT ![p] = r] /\ fib' = fib
    BY <1>1, <1>7 DEF CandidateDone
  <2> HIDE DEF res
  <2>3. r.pc \in {"pick", "reconciled"} /\ r.goal = b.goal /\ r.bad = b.bad
        /\ r.res = res
    <3>1. b \in Frames
      BY <1>1
    <3> QED BY <2>1, <3>1 DEF Frames
  <2> HIDE DEF r, b
  <2> QED BY <1>2, <2>1, <2>2, <2>3 DEF Decided, Reconciling, Calling
<1>8. CASE ReconcileDone(p)
  <2> DEFINE r == [b EXCEPT !.pc = "reconciled", !.res = "ok"]
  <2>1. r.pc = "reconciled" /\ r.res = "ok" /\ r.goal = b.goal /\ r.bad = b.bad
    BY <1>1 DEF Frames, Results
  <2>2. proc' = [proc EXCEPT ![p] = r] /\ fib' = fib /\ b.pc = "pick"
    BY <1>1, <1>8 DEF ReconcileDone, At
  <2> HIDE DEF r, b
  <2> QED BY <1>2, <2>1, <2>2 DEF Decided, Reconciling, Calling
<1> QED BY <1>3, <1>4, <1>5, <1>6, <1>7, <1>8 DEF ReconcileStep

LEMMA CallMoves ==
  ASSUME GeneralInv, NEW p \in Procs, CallStep(p)
  PROVE  FiberMoves
<1> DEFINE b == proc[p]
           f == b.tgt
<1>1. b \in Frames /\ proc \in [Procs -> Frames] /\ FrameOK(p, b)
  BY Instances DEF GeneralInv
<1>2. CASE Refused(p)
  <2> DEFINE r == Answered(b, "plain")
  <2>1. /\ r.pc = "back" /\ r.tgt = b.tgt /\ r.goal = b.goal /\ r.bad = b.bad
        /\ b.pc = "lock" /\ b.tgt \in Fibers /\ b.tgt \notin Scopes
    BY <1>1, <1>2, AnsweredFrame, LifecycleAssumption DEF Refused, At, FrameOK, Results
  <2>2. proc' = [proc EXCEPT ![p] = r] /\ fib' = fib
    BY <1>1, <1>2 DEF Refused
  <2> HIDE DEF r, b
  <2>3. Along(b, r)
    BY <2>1 DEF Along, Decided, Reconciling, Calling
  <2> QED BY <2>2, <2>3, QuietMoves DEF b
<1>3. CASE Activate(p)
  <2> DEFINE x == [Restarted(fib[f]) EXCEPT !.state = "Starting", !.lock = Activation(f)]
             r == [b EXCEPT !.pc = "activating"]
             s == [Idle EXCEPT !.pc = "start", !.caller = p]
  <2>1. /\ b.pc = "lock" /\ f \in Fibers /\ fib[f].lock = NONE
        /\ fib[f].state \in {"Created", "Waiting"}
    BY <1>1, <1>3 DEF Activate, At, FrameOK, MayStart
  <2>2. p # Activation(f) /\ p # Body(f)
    <3>1. FiberOK(f, fib[f], proc[Activation(f)], proc[Body(f)])
      BY <2>1, Records
    <3> QED BY <2>1, <3>1, NoneAssumption, FiberProcs DEF FiberOK, LockOK, Outside
  <2>3. fib' = [fib EXCEPT ![f] = x] /\ proc' = [proc EXCEPT ![p] = r, ![Activation(f)] = s]
    <3>1. fib \in [Fibers -> FiberRec]
      BY <2>1, Records
    <3>2. fib' = [fib EXCEPT ![f] = x]
      BY <1>3, <2>1, <3>1 DEF Activate
    <3>3. proc' = [proc EXCEPT ![p] = r, ![Activation(f)] = s]
      BY <1>1, <1>3, <2>2 DEF Activate
    <3> QED BY <3>2, <3>3
  <2>4. r.pc = "activating" /\ r.tgt = f /\ r.goal = b.goal /\ r.bad = b.bad
    BY <1>1 DEF Frames
  <2>5. Started(fib[f], x, proc[Body(f)], proc[Body(f)])
    <3>1. fib[f] \in FiberRec /\ NewDisposal \in DisposalRec
      BY <2>1, Records, NewRecords
    <3>2. CASE fib[f].state = "Waiting" /\ fib[f].disposal.phase = "Complete"
      BY <2>1, <3>1, <3>2 DEF Restarted, FiberRec, Started, Only
    <3>3. CASE ~(fib[f].state = "Waiting" /\ fib[f].disposal.phase = "Complete")
      BY <2>1, <3>1, <3>3 DEF Restarted, FiberRec, Started, Only
    <3> QED BY <3>2, <3>3
  <2> HIDE DEF x, r, s
  <2>6. \A q \in Procs : proc'[q] = IF q = Activation(f) THEN s ELSE IF q = p THEN r ELSE proc[q]
    BY <1>1, <2>2, <2>3
  <2>7. Along(b, r)
    BY <2>1, <2>4 DEF Along, Decided, Reconciling, Calling
  <2>8. \A g \in Fibers : g # f => Along(proc[Body(g)], proc'[Body(g)])
    BY <2>1, <2>6, <2>7, FiberProcs DEF Along
  <2>9. proc'[Body(f)] = proc[Body(f)]
    BY <2>1, <2>2, <2>6, FiberProcs
  <2>10. FiberMove(f, fib[f], x, proc[Body(f)], proc'[Body(f)])
    BY <1>3, <2>5, <2>9 DEF FiberMove, OtherMove
  <2> QED BY <2>1, <2>3, <2>8, <2>10, OneMoves
<1>4. CASE FailActivation(p)
  <2> DEFINE st == IF fib[f].state = "Starting" THEN "Failed" ELSE fib[f].state
             x == [fib[f] EXCEPT !.state = st]
             r == [b EXCEPT !.pc = "rollback", !.rollback = TRUE]
  <2>1. b.pc = "fail" /\ f \in Fibers
    BY <1>1, <1>4 DEF FailActivation, At, FrameOK
  <2>2. fib' = [fib EXCEPT ![f] = x] /\ proc' = [proc EXCEPT ![p] = r]
    <3>1. fib \in [Fibers -> FiberRec]
      BY <2>1, Records
    <3> QED BY <1>1, <1>4, <2>1, <3>1 DEF FailActivation
  <2>3. r.pc = "rollback" /\ r.tgt = f /\ r.goal = b.goal /\ r.bad = b.bad
    BY <1>1 DEF Frames
  <2>4. x.state = st /\ Only({"state"}, fib[f], x)
    BY <2>1, Records DEF FiberRec, Only
  <2> HIDE DEF x, r
  <2>5. Along(b, r)
    BY <2>1, <2>3 DEF Along, Decided, Reconciling, Calling
  <2>6. \A g \in Fibers : Along(proc[Body(g)], proc'[Body(g)])
    BY <2>2, <2>5, Foreign
  <2>7. FiberMove(f, fib[f], x, proc[Body(f)], proc'[Body(f)])
    <3>1. CASE fib[f].state = "Starting"
      BY <2>1, <2>4, <2>6, <3>1 DEF FiberMove, OtherMove, FailedMove
    <3>2. CASE fib[f].state # "Starting"
      <4>1. Only({}, fib[f], x)
        BY <2>4, <3>2 DEF Only
      <4> QED BY <2>1, <2>6, <4>1 DEF FiberMove, OtherMove, Rest
    <3> QED BY <3>1, <3>2
  <2> QED BY <2>1, <2>2, <2>6, <2>7, OneMoves
<1>5. CASE Rollback(p)
  BY <1>1, <1>5, DisposeMoves DEF Rollback, At, FrameOK
<1> QED BY <1>2, <1>3, <1>4, <1>5 DEF CallStep

LEMMA InstallMoves ==
  ASSUME GeneralInv, NEW f \in Fibers, InstallStep(f)
  PROVE  FiberMoves
<1> DEFINE p == Installer(f)
           b == proc[Body(f)]
<1>1. /\ p \in Procs /\ p[1] # "body" /\ p # Body(f) /\ Body(f) \in Procs
      /\ fib \in [Fibers -> FiberRec] /\ fib[f] \in FiberRec /\ proc \in [Procs -> Frames]
  BY Records, FiberProcs
<1>2. ASSUME NEW r, proc' = [proc EXCEPT ![p] = r]
      PROVE  \A g \in Fibers : proc'[Body(g)] = proc[Body(g)]
  BY <1>1, <1>2, Foreign
<1>3. ASSUME NEW x, fib' = [fib EXCEPT ![f] = x], NEW r, proc' = [proc EXCEPT ![p] = r],
             OtherMove(f, fib[f], x, b, b)
      PROVE  FiberMoves
  BY <1>2, <1>3, OneMoves DEF FiberMove, Along
<1>4. CASE InstallIndex(f)
  <2> DEFINE x == [fib[f] EXCEPT !.indexed = TRUE]
             r == [proc[p] EXCEPT !.pc = "validate"]
  <2>1. fib' = [fib EXCEPT ![f] = x] /\ proc' = [proc EXCEPT ![p] = r]
    BY <1>1, <1>4 DEF InstallIndex, Goto
  <2>2. Indexed(fib[f], x, b, b)
    BY <1>1 DEF Indexed, Only, FiberRec
  <2> HIDE DEF x, r
  <2> QED BY <1>3, <1>4, <2>1, <2>2 DEF OtherMove
<1>5. CASE InstallValidate(f) \/ InstallCheck(f) \/ InstallReturn(f)
  <2>1. fib' = fib /\ \E r : proc' = [proc EXCEPT ![p] = r]
    <3>1. CASE InstallValidate(f)
      BY <1>1, <3>1 DEF InstallValidate, Goto
    <3>2. CASE InstallCheck(f)
      <4>1. proc' = [proc EXCEPT ![p] = [proc[p] EXCEPT
                       !.pc = IF Met(f) THEN "lock" ELSE "park", !.tgt = f]]
        BY <1>1, <3>2 DEF InstallCheck
      <4> QED BY <3>2, <4>1 DEF InstallCheck
    <3>3. CASE InstallReturn(f)
      BY <3>3 DEF InstallReturn, End
    <3> QED BY <1>5, <3>1, <3>2, <3>3
  <2> QED BY <1>2, <2>1, AllRest DEF Along
<1>6. CASE InstallRemove(f)
  <2>1. proc' = [proc EXCEPT ![p] = Idle]
    BY <1>6 DEF InstallRemove, End
  <2>2. CASE ~Registered(f)
    <3>1. fib' = fib
      BY <1>6, <2>2 DEF InstallRemove
    <3> QED BY <1>2, <2>1, <3>1, AllRest DEF Along
  <2>3. CASE Registered(f)
    <3> DEFINE x == [fib[f] EXCEPT !.state = "Gone", !.indexed = FALSE]
    <3>1. fib' = [fib EXCEPT ![f] = x]
      BY <1>1, <1>6, <2>3 DEF InstallRemove
    <3>2. Removed(fib[f], x, b, b)
      BY <1>1, <2>3 DEF Removed, Only, FiberRec, Registered
    <3> HIDE DEF x
    <3> QED BY <1>3, <1>6, <2>1, <3>1, <3>2 DEF OtherMove
  <2> QED BY <2>2, <2>3
<1>7. CASE InstallPark(f)
  <2>1. proc' = [proc EXCEPT ![p] = Idle]
    BY <1>7 DEF InstallPark, End
  <2>2. CASE ~CanTransition(fib[f].state, "Waiting")
    <3>1. fib' = fib
      BY <1>7, <2>2 DEF InstallPark
    <3> QED BY <1>2, <2>1, <3>1, AllRest DEF Along
  <2>3. CASE CanTransition(fib[f].state, "Waiting")
    <3> DEFINE x == [fib[f] EXCEPT !.state = "Waiting"]
    <3>1. fib' = [fib EXCEPT ![f] = x]
      BY <1>1, <1>7, <2>3 DEF InstallPark
    <3>2. Parked(fib[f], x, b, b)
      BY <1>1, <2>3 DEF Parked, Only, FiberRec, CanTransition
    <3> HIDE DEF x
    <3> QED BY <1>3, <1>7, <2>1, <3>1, <3>2 DEF OtherMove
  <2> QED BY <2>2, <2>3
<1> QED BY <1>4, <1>5, <1>6, <1>7 DEF InstallStep

\* An activation that returns leaves the record alone.
LEMMA ReturnMoves ==
  ASSUME GeneralInv, NEW f \in Fibers, NEW pc \in {"fail", "back"}, NEW res,
         ~At(Activation(f), "idle"), ActivationReturns(f, pc, res)
  PROVE  FiberMoves
<1> DEFINE a == Activation(f)
           p == proc[a].caller
           b == proc[p]
           x == [fib[f] EXCEPT !.lock = NONE]
           r == [b EXCEPT !.pc = pc, !.res = res]
<1>1. /\ p \in Procs /\ b.pc = "activating" /\ b.tgt = f /\ b \in Frames
      /\ a \in Procs /\ a[1] # "body" /\ proc \in [Procs -> Frames] /\ f \notin Scopes
  BY Instances, Records, FiberProcs, LifecycleAssumption DEF GeneralInv, CallerOK, At
<1>2. fib' = [fib EXCEPT ![f] = x] /\ Only({}, fib[f], x)
  BY Records DEF ActivationReturns, Only, FiberRec
<1>3. /\ r.pc = pc /\ r.tgt = f /\ r.goal = b.goal /\ r.bad = b.bad
      /\ \A q \in Procs : q # a => proc'[q] = IF q = p THEN r ELSE proc[q]
  BY <1>1 DEF ActivationReturns, Frames
<1>4. Along(b, r)
  BY <1>1, <1>3 DEF Along, Decided, Reconciling, Calling
<1> HIDE DEF x, r, p, b
<1>5. \A g \in Fibers : Along(proc[Body(g)], proc'[Body(g)])
  BY <1>3, <1>4, FiberProcs DEF Along, b
<1>6. FiberMove(f, fib[f], x, proc[Body(f)], proc'[Body(f)])
  BY <1>2, <1>5 DEF FiberMove, OtherMove, Rest
<1> QED BY <1>2, <1>5, <1>6, OneMoves

LEMMA ActivationMoves ==
  ASSUME GeneralInv, NEW f \in Fibers, ActivationStep(f) \/ PluginStep(f)
  PROVE  FiberMoves
<1> DEFINE p == Activation(f)
           b == proc[Body(f)]
<1>1. /\ p \in Procs /\ p[1] # "body" /\ fib \in [Fibers -> FiberRec] /\ fib[f] \in FiberRec
      /\ proc \in [Procs -> Frames] /\ FiberOK(f, fib[f], proc[p], b)
  BY Records, FiberProcs
<1>2. ASSUME NEW pc \in {"fail", "back"}, NEW res, ~At(p, "idle"), ActivationReturns(f, pc, res)
      PROVE  FiberMoves
  BY <1>2, ReturnMoves
<1>3. ASSUME NEW r, proc' = [proc EXCEPT ![p] = r], fib' = fib PROVE FiberMoves
  BY <1>1, <1>3, QuietMoves
<1>4. CASE Seal(f)
  <2>1. CASE ActivationReturns(f, "fail", "none")
    BY <1>2, <1>4, <2>1 DEF Seal, At
  <2>2. CASE Goto(Activation(f), "commit") /\ UNCHANGED fib
    BY <1>3, <2>2 DEF Goto
  <2> QED BY <1>4, <2>1, <2>2 DEF Seal
<1>5. CASE Commit(f)
  <2>1. CASE ~(open /\ fib[f].state = "Starting")
    BY <1>2, <1>5, <2>1 DEF Commit, At
  <2>2. CASE open /\ fib[f].state = "Starting"
    <3> DEFINE x == [fib[f] EXCEPT !.state = "Active", !.visible = TRUE]
               pc == IF fib[f].reg = {} THEN "reconciled" ELSE "collect"
               r == [proc[p] EXCEPT !.syms = fib[f].reg, !.pc = pc]
    <3>1. fib' = [fib EXCEPT ![f] = x] /\ proc' = [proc EXCEPT ![p] = r] /\ At(p, "commit")
      BY <1>1, <1>5, <2>2 DEF Commit
    <3>2. Committing(f, fib[f], x, b, b)
      BY <1>1, <2>2, <3>1 DEF Committing, Only, FiberRec, FiberOK, StagedOK, At
    <3> HIDE DEF x, r
    <3>3. \A g \in Fibers : proc'[Body(g)] = proc[Body(g)]
      BY <1>1, <3>1, Foreign
    <3>4. FiberMove(f, fib[f], x, b, b)
      BY <3>1, <3>2 DEF FiberMove, OtherMove
    <3> QED BY <3>1, <3>3, <3>4, OneMoves DEF Along
  <2> QED BY <2>1, <2>2
<1>6. CASE ActivationDone(f)
  BY <1>2, <1>6 DEF ActivationDone, At
<1>7. ASSUME NEW d \in Services, Provide(f, d) PROVE FiberMoves
  <2> DEFINE x == [fib[f] EXCEPT !.reg = @ \cup {d}]
  <2>1. fib' = [fib EXCEPT ![f] = x] /\ proc' = proc
    BY <1>1, <1>7 DEF Provide
  <2>2. Providing(f, fib[f], x, b, b)
    BY <1>1, <1>7 DEF Providing, Only, FiberRec, Provide, Unsealed
  <2> HIDE DEF x
  <2>3. FiberMove(f, fib[f], x, b, b)
    BY <2>2 DEF FiberMove, OtherMove
  <2> QED BY <2>1, <2>3, OneMoves DEF Along
<1>8. CASE StartOk(f)
  BY <1>3, <1>8 DEF StartOk, Goto
<1>9. CASE StartFails(f)
  BY <1>2, <1>9 DEF StartFails, At
<1> QED BY <1>4, <1>5, <1>6, <1>7, <1>8, <1>9 DEF ActivationStep, PluginStep

LEMMA HostMoves ==
  ASSUME GeneralInv, NEW f \in Fibers, HostStep(f)
  PROVE  FiberMoves
<1>1. CASE HostReturn(f)
  BY <1>1, QuietMoves, FiberProcs DEF HostReturn, End
<1>2. CASE HostDispose(f)
  BY <1>2, DisposeMoves, FiberProcs DEF HostDispose, At
<1> QED BY <1>1, <1>2 DEF HostStep

\* A step of the body of f on the record of f alone.
LEMMA OwnMoves ==
  ASSUME GeneralInv, NEW f \in Fibers, NEW x, NEW r,
         fib' = [fib EXCEPT ![f] = x], proc' = [proc EXCEPT ![Body(f)] = r],
         BodyMove(f, fib[f], x, proc[Body(f)], r)
  PROVE  FiberMoves
<1>1. /\ Body(f) \in Procs /\ proc'[Body(f)] = r
      /\ \A h \in Fibers : h # f => Along(proc[Body(h)], proc'[Body(h)])
  BY Records, FiberProcs DEF Along
<1> QED BY <1>1, OneMoves DEF FiberMove

\* The body returns: it goes to its supervisor.
BodyQuits(f, res) == BodyReturns(f, res, NONE, TRUE)

LEMMA QuittingMoves ==
  ASSUME GeneralInv, NEW f \in Fibers, NEW res,
         proc[Body(f)].pc \in {"queue", "drain", "kids", "release", "decide", "reconciled"},
         res = "crash" \/ (res = "plain" /\ At(Body(f), "drain") /\ fib[f].lease),
         BodyQuits(f, res)
  PROVE  FiberMoves
<1> DEFINE x == [fib[f] EXCEPT !.lock = IF @ = Body(f) THEN NONE ELSE @]
           r == [Idle EXCEPT !.pc = "detach", !.res = res, !.goal = NONE, !.bad = TRUE]
<1>1. fib' = [fib EXCEPT ![f] = x] /\ proc' = [proc EXCEPT ![Body(f)] = r]
  BY Records DEF BodyQuits, BodyReturns
<1>2. Only({}, fib[f], x) /\ r.pc = "detach" /\ r.res = res /\ r.goal = NONE /\ r.bad
  BY Records DEF Only, FiberRec, Idle
<1> HIDE DEF x, r
<1>3. Quitting(fib[f], x, proc[Body(f)], r)
  BY <1>2 DEF Quitting, At
<1> QED BY <1>1, <1>3, OwnMoves DEF BodyMove

LEMMA PhaseSet ==
  ASSUME GeneralInv, NEW f \in Fibers, NEW ph, SetPhase(f, ph)
  PROVE  \E x : /\ fib' = [fib EXCEPT ![f] = x] /\ x.disposal.phase = ph
                /\ Only({"phase"}, fib[f], x)
<1> DEFINE x == [fib[f] EXCEPT !.disposal.phase = ph]
<1>1. fib' = [fib EXCEPT ![f] = x]
  BY Records DEF SetPhase
<1>2. x.disposal.phase = ph /\ Only({"phase"}, fib[f], x)
  BY Records DEF Only, FiberRec, DisposalRec
<1> HIDE DEF x
<1> QED BY <1>1, <1>2

LEMMA PhaseMoves ==
  ASSUME GeneralInv, NEW f \in Fibers,
         BodyBegin(f) \/ BodyDrained(f) \/ BodyChildScopesDone(f) \/ BodyDecide(f)
  PROVE  FiberMoves
<1> DEFINE b == proc[Body(f)]
<1>1. b \in Frames /\ proc \in [Procs -> Frames] /\ Body(f) \in Procs
  BY Records
<1>2. CASE BodyBegin(f)
  <2> DEFINE x == [fib[f] EXCEPT !.lock = Body(f), !.disposal.phase = "Draining"]
             r == [b EXCEPT !.pc = "drain"]
  <2>1. fib' = [fib EXCEPT ![f] = x] /\ proc' = [proc EXCEPT ![Body(f)] = r]
    BY <1>1, <1>2, Records DEF BodyBegin, Goto
  <2>2. x.disposal.phase = "Draining" /\ Only({"phase"}, fib[f], x)
    BY Records DEF Only, FiberRec, DisposalRec
  <2>3. Draining(fib[f], x, b, r)
    <3> HIDE DEF x
    <3> QED BY <1>2, <2>2 DEF Draining, BodyBegin, At, Registered
  <2> HIDE DEF x, r
  <2> QED BY <2>1, <2>3, OwnMoves DEF BodyMove
<1>3. CASE BodyDrained(f)
  <2> DEFINE r == [b EXCEPT !.pc = "kids"]
  <2>1. PICK x : /\ fib' = [fib EXCEPT ![f] = x] /\ x.disposal.phase = "ChildScopes"
                 /\ Only({"phase"}, fib[f], x)
    BY <1>3, PhaseSet DEF BodyDrained
  <2>2. proc' = [proc EXCEPT ![Body(f)] = r]
    BY <1>1, <1>3 DEF BodyDrained, Goto
  <2>3. Drained(fib[f], x, b, r)
    BY <1>3, <2>1 DEF Drained, BodyDrained, At
  <2> HIDE DEF r
  <2> QED BY <2>1, <2>2, <2>3, OwnMoves DEF BodyMove
<1>4. CASE BodyChildScopesDone(f)
  <2> DEFINE r == [b EXCEPT !.pc = "release"]
  <2>1. PICK x : /\ fib' = [fib EXCEPT ![f] = x] /\ x.disposal.phase = "Release"
                 /\ Only({"phase"}, fib[f], x)
    BY <1>4, PhaseSet DEF BodyChildScopesDone
  <2>2. proc' = [proc EXCEPT ![Body(f)] = r]
    BY <1>1, <1>4 DEF BodyChildScopesDone, Goto
  <2>3. ScopesDone(fib[f], x, b, r)
    BY <1>4, <2>1 DEF ScopesDone, BodyChildScopesDone, At
  <2> HIDE DEF r
  <2> QED BY <2>1, <2>2, <2>3, OwnMoves DEF BodyMove
<1>5. CASE BodyDecide(f)
  <2> DEFINE goal == IF Registered(f) /\ fib[f].disposal.wait THEN "Waiting" ELSE "Disposed"
             pc == IF b.syms # {} /\ open THEN "collect" ELSE "reconciled"
             r == [b EXCEPT !.goal = goal, !.res = "ok", !.pc = pc]
  <2>1. PICK x : /\ fib' = [fib EXCEPT ![f] = x] /\ x.disposal.phase = "Reconciling"
                 /\ Only({"phase"}, fib[f], x)
    BY <1>5, PhaseSet DEF BodyDecide
  <2>2. proc' = [proc EXCEPT ![Body(f)] = r] /\ b.pc = "decide"
    BY <1>1, <1>5 DEF BodyDecide, At
  <2>3. /\ goal \in {"Waiting", "Disposed"} /\ pc \in {"collect", "reconciled"}
        /\ goal = "Waiting" => fib[f].disposal.wait
    OBVIOUS
  <2> HIDE DEF goal, pc
  <2>4. r.pc = pc /\ r.goal = goal /\ r.res = "ok" /\ r.bad = b.bad
    BY <1>1 DEF Frames
  <2> HIDE DEF r
  <2>5. Deciding(fib[f], x, b, r)
    BY <2>1, <2>2, <2>3, <2>4 DEF Deciding
  <2> QED BY <2>1, <2>2, <2>5, OwnMoves DEF BodyMove
<1> QED BY <1>2, <1>3, <1>4, <1>5

LEMMA ScopeDoneMoves ==
  ASSUME GeneralInv, NEW f \in Fibers, BodyChildScopeDone(f)
  PROVE  FiberMoves
<1> DEFINE b == proc[Body(f)]
           r == [Idle EXCEPT !.pc = "kids"]
           es == IF b.res = "ok" THEN fib[f].disposal.errs
                 ELSE Append(fib[f].disposal.errs, b.res)
           kids == Without(fib[f].kids, b.tgt)
           x == [fib[f] EXCEPT !.kids = kids, !.disposal.errs = es]
<1>1. fib' = [fib EXCEPT ![f] = x] /\ proc' = [proc EXCEPT ![Body(f)] = r]
  BY Records DEF BodyChildScopeDone
<1>2. b.pc = "back" /\ b.tgt \in Scopes /\ b.res \in Results /\ b.res # "none"
  BY Records DEF BodyChildScopeDone, At, GeneralInv, Replies
<1>3. More(fib[f].disposal.errs, es)
  BY <1>2 DEF More
<1> HIDE DEF es, kids
<1>4. x.kids = kids /\ x.disposal.errs = es /\ Only({"kids", "errs"}, fib[f], x)
  BY Records DEF Only, FiberRec, DisposalRec
<1> HIDE DEF x
<1>5. ScopeDone(fib[f], x, b, r)
  BY <1>2, <1>3, <1>4 DEF ScopeDone, kids
<1> QED BY <1>1, <1>5, OwnMoves DEF BodyMove

LEMMA ReleasingMoves ==
  ASSUME GeneralInv, NEW f \in Fibers, NEW failed \in BOOLEAN, BodyRelease(f, failed)
  PROVE  FiberMoves
<1> DEFINE b == proc[Body(f)]
           r == [b EXCEPT !.pc = "decide", !.syms = fib[f].reg]
           es == IF failed THEN Append(fib[f].disposal.errs, "plain") ELSE fib[f].disposal.errs
           x == [fib[f] EXCEPT !.reg = {}, !.disposal.errs = es]
<1>1. fib' = [fib EXCEPT ![f] = x] /\ proc' = [proc EXCEPT ![Body(f)] = r]
  BY Records DEF BodyRelease
<1>2. b.pc = "release" /\ fib[f].state \notin {"Absent", "Gone"} /\ r.pc = "decide"
  BY Records DEF BodyRelease, At, Registered, Frames
<1>3. More(fib[f].disposal.errs, es)
  BY DEF More, Results
<1> HIDE DEF es
<1>4. x.reg = {} /\ x.disposal.errs = es /\ Only({"reg", "errs"}, fib[f], x)
  BY Records DEF Only, FiberRec, DisposalRec
<1> HIDE DEF x, r
<1>5. Releasing(fib[f], x, b, r)
  BY <1>2, <1>3, <1>4 DEF Releasing
<1> QED BY <1>1, <1>5, OwnMoves DEF BodyMove

LEMMA AggregateSome ==
  ASSUME NEW es \in Seq(Results), \A i \in DOMAIN es : es[i] # "none"
  PROVE  Aggregate(es) # "none"
BY DEF Aggregate

LEMMA FinishingMoves ==
  ASSUME GeneralInv, NEW f \in Fibers, BodyFinish(f)
  PROVE  FiberMoves
<1> DEFINE b == proc[Body(f)]
           old == fib[f].disposal.errs
           es == IF b.res = "ok" THEN old ELSE Append(old, b.res)
           res == Aggregate(es)
           r == [Idle EXCEPT !.pc = "detach", !.res = res, !.goal = b.goal]
           x == [fib[f] EXCEPT !.lock = NONE, !.disposal.errs = es]
<1>1. fib' = [fib EXCEPT ![f] = x] /\ proc' = [proc EXCEPT ![Body(f)] = r]
  BY Records DEF BodyFinish
<1>2. /\ b.pc = "reconciled" /\ fib[f].state \notin {"Absent", "Gone"}
      /\ b.res \in Results /\ b.res # "none"
  BY Records DEF BodyFinish, At, Registered, StateOK
<1>3. More(old, es)
  BY <1>2 DEF More
<1>4. res # "none"
  <2>1. old \in Seq(Results) /\ \A i \in DOMAIN old : old[i] # "none"
    BY Records DEF DisposalRec, StateOK
  <2>2. es \in Seq(Results) /\ \A i \in DOMAIN es : es[i] # "none"
    BY <1>2, <2>1
  <2> QED BY <2>2, AggregateSome
<1> HIDE DEF es
<1>5. x.disposal.errs = es /\ Only({"errs"}, fib[f], x)
  BY Records DEF Only, FiberRec, DisposalRec
<1> HIDE DEF x, res
<1>6. r.pc = "detach" /\ r.res = res /\ ~r.bad /\ r.goal = b.goal
  BY DEF Idle
<1> HIDE DEF r
<1>7. Finishing(fib[f], x, b, r)
  BY <1>2, <1>3, <1>4, <1>5, <1>6 DEF Finishing
<1> QED BY <1>1, <1>7, OwnMoves DEF BodyMove

LEMMA DetachingMoves ==
  ASSUME GeneralInv, NEW f \in Fibers, Detach(f)
  PROVE  FiberMoves
<1> DEFINE b == proc[Body(f)]
           res == FinalResult(f)
           ix == fib[f].indexed /\ ~Detaches(f)
           r == [b EXCEPT !.pc = "publish", !.res = res]
           x == [fib[f] EXCEPT !.disposal.phase = "Finalizing", !.indexed = ix]
<1>1. proc' = [proc EXCEPT ![Body(f)] = r]
  BY Records DEF Detach
<1>2. fib' = [fib EXCEPT ![f] = x]
  BY Records DEF Detach
<1>3. /\ b.pc = "detach" /\ fib[f].state \notin {"Absent", "Gone"} /\ res \in {b.res, "crash"}
      /\ ix = fib[f].indexed \/ (b.goal = "Disposed" /\ ~b.bad /\ ~ix)
  BY Records DEF Detach, At, Registered, FinalResult, Detaches, FiberRec
<1> HIDE DEF ix, res
<1>4. /\ x.disposal.phase = "Finalizing" /\ x.indexed = ix
      /\ Only({"phase", "indexed"}, fib[f], x)
  BY Records DEF Only, FiberRec, DisposalRec
<1>5. r.pc = "publish" /\ r.res = res /\ r.goal = b.goal /\ r.bad = b.bad
  BY Records DEF Frames
<1> HIDE DEF x, r
<1>6. Detaching(fib[f], x, b, r)
  BY <1>3, <1>4, <1>5 DEF Detaching
<1> QED BY <1>1, <1>2, <1>6, OwnMoves DEF BodyMove

LEMMA PublishingMoves ==
  ASSUME GeneralInv, NEW f \in Fibers, Publish(f)
  PROVE  FiberMoves
<1> DEFINE b == proc[Body(f)]
           st == IF b.bad THEN fib[f].state ELSE b.goal
           ph == IF b.bad THEN "Terminated" ELSE "Complete"
           x == [fib[f] EXCEPT !.state = st, !.disposal.done = b.res, !.disposal.phase = ph]
<1>1. fib' = [fib EXCEPT ![f] = x]
  BY Records DEF Publish
<1>2. Deliver(f, b.res, Body(f), Idle)
  BY DEF Publish
<1>3. b.pc = "publish" /\ fib[f].state \notin {"Absent", "Gone"}
  BY DEF Publish, At, Registered
<1>4. /\ x.state = st /\ x.disposal.done = b.res /\ x.disposal.phase = ph
      /\ Only({"state", "phase", "done"}, fib[f], x)
  <2> HIDE DEF st, ph
  <2> QED BY Records DEF Only, FiberRec, DisposalRec
<1> HIDE DEF x
<1>5. Publishing(fib[f], x, b, Idle)
  BY <1>3, <1>4 DEF Publishing
<1>6. /\ proc'[Body(f)] = Idle
      /\ \A g \in Fibers : g # f => Along(proc[Body(g)], proc'[Body(g)])
  BY <1>2, Delivered, Records, FiberProcs
<1>7. FiberMove(f, fib[f], x, b, proc'[Body(f)])
  BY <1>5, <1>6 DEF FiberMove, BodyMove
<1> QED BY <1>1, <1>6, <1>7, OneMoves

LEMMA BodyMoves ==
  ASSUME GeneralInv, NEW f \in Fibers, BodyStep(f) \/ BodyCrash(f)
  PROVE  FiberMoves
<1>1. CASE BodyVanished(f) \/ BodyDrainTimeout(f) \/ BodyCrash(f)
  <2>1. CASE BodyVanished(f) \/ BodyCrash(f)
    <3>1. proc[Body(f)].pc \in {"queue", "drain", "kids", "release", "decide", "reconciled"}
      BY <2>1 DEF BodyVanished, BodyCrash
    <3>2. BodyQuits(f, "crash")
      BY <2>1, Zenon DEF BodyVanished, BodyCrash, BodyQuits
    <3> QED BY <3>1, <3>2, QuittingMoves
  <2>2. CASE BodyDrainTimeout(f)
    <3>1. proc[Body(f)].pc = "drain" /\ At(Body(f), "drain") /\ fib[f].lease
      BY <2>2 DEF BodyDrainTimeout, At
    <3>2. BodyQuits(f, "plain")
      BY <2>2, Zenon DEF BodyDrainTimeout, BodyQuits
    <3> QED BY <3>1, <3>2, QuittingMoves
  <2> QED BY <1>1, <2>1, <2>2
<1>2. CASE FinalizeVanished(f)
  <2>1. fib' = [fib EXCEPT ![f] = fib[f]] /\ proc' = [proc EXCEPT ![Body(f)] = Idle]
    BY <1>2, Records DEF FinalizeVanished, End
  <2>2. Vanishing(fib[f], fib[f], proc[Body(f)], Idle)
    BY <1>2 DEF FinalizeVanished, Vanishing, Only
  <2> QED BY <2>1, <2>2, OwnMoves DEF BodyMove
<1> QED BY <1>1, <1>2, PhaseMoves, AskingScopeMoves, ScopeDoneMoves, ReleasingMoves,
           FinishingMoves, DetachingMoves, PublishingMoves DEF BodyStep

LEMMA ScopeFiberMoves ==
  ASSUME GeneralInv, NEW s \in Scopes, ScopeStep(s)
  PROVE  FiberMoves
<1> DEFINE p == ScopeBody(s)
           b == proc[p]
<1>1. /\ p \in Procs /\ p[1] = "scope" /\ b \in Frames /\ FrameOK(p, b)
      /\ b.kids \in Seq(Scopes) /\ b.fibers \in Seq(Fibers) /\ b.persist \in BOOLEAN
      /\ proc \in [Procs -> Frames]
  BY Instances, ScopeProcs, FrameFields DEF GeneralInv
<1>2. CASE ScopeSnapshot(s) \/ ScopeFiber(s) \/ ScopeMemberDone(s)
  <2>1. fib' = fib /\ \E r : proc' = [proc EXCEPT ![p] = r]
    <3>1. CASE ScopeSnapshot(s)
      BY <3>1 DEF ScopeSnapshot
    <3>2. CASE ScopeFiber(s)
      BY <1>1, <3>2 DEF ScopeFiber, Goto
    <3>3. CASE ScopeMemberDone(s)
      BY <3>3 DEF ScopeMemberDone
    <3> QED BY <1>2, <3>1, <3>2, <3>3
  <2> QED BY <1>1, <2>1, QuietMoves
<1>3. CASE ScopeChild(s)
  <2>1. Last(b.kids) \in Scopes
    BY <1>1, <1>3, FrontSeq DEF ScopeChild
  <2> QED BY <1>1, <1>3, <2>1, DisposeScopeMoves DEF ScopeChild
<1>4. CASE ScopeCall(s)
  <2>0. b.pc = "call"
    BY <1>4 DEF ScopeCall, At
  <2>1. b.fibers # <<>>
    BY <1>1, <2>0 DEF FrameOK
  <2>2. Last(b.fibers) \in Fibers
    BY <1>1, <2>1, FrontSeq
  <2> QED BY <1>1, <1>4, <2>0, <2>2, DisposeMoves DEF ScopeCall
<1>5. CASE ScopePublish(s)
  <2>1. Deliver(s, ScopeResult(b), p, Idle) /\ fib' = fib /\ ScopeResult(b) \in Results
    BY <1>5 DEF ScopePublish, ScopeResult, Results
  <2>2. \A g \in Fibers : Body(g) # p
    BY <1>1, FiberProcs
  <2> QED BY <2>1, <2>2, Delivered, AllRest
<1> QED BY <1>2, <1>3, <1>4, <1>5 DEF ScopeStep

LEMMA EnvironmentMoves ==
  ASSUME GeneralInv, Environment
  PROVE  FiberMoves
<1>1. /\ Leased \subseteq Fibers /\ Crashing \subseteq Fibers /\ Hosted \subseteq Fibers
      /\ Dropped \subseteq Fibers /\ Closing \subseteq Scopes /\ Root \in Scopes
      /\ Owner \in [Scopes -> Fibers \cup {NONE}]
  BY LifecycleAssumption
<1>2. ASSUME NEW f \in Fibers, Install(f) PROVE FiberMoves
  <2> DEFINE x == [NewFiber EXCEPT !.state = "Created"]
             r == [proc[Installer(f)] EXCEPT !.pc = "index"]
             b == proc[Body(f)]
  <2>1. fib' = [fib EXCEPT ![f] = x] /\ proc' = [proc EXCEPT ![Installer(f)] = r]
    BY <1>2, Records DEF Install, Goto
  <2>2. Created(fib[f], x, b, b)
    BY <1>2 DEF Created, Install
  <2> HIDE DEF x, r
  <2>3. \A g \in Fibers : proc'[Body(g)] = proc[Body(g)]
    BY <2>1, Foreign, FiberProcs
  <2>4. FiberMove(f, fib[f], x, b, b)
    BY <1>2, <2>2 DEF FiberMove, OtherMove
  <2> QED BY <2>1, <2>3, <2>4, OneMoves DEF Along
<1>3. ASSUME NEW s \in Scopes, CreateScope(s) PROVE FiberMoves
  BY <1>3, UnmovedProcs DEF CreateScope
<1>4. ASSUME NEW s \in Scopes, ContextCreateScope(s) PROVE FiberMoves
  <2> DEFINE f == Owner[s]
             x == [fib[f] EXCEPT !.kids = Append(@, s)]
             b == proc[Body(f)]
  <2>1. f \in Fibers
    BY <1>1, <1>4 DEF ContextCreateScope
  <2>2. fib' = [fib EXCEPT ![f] = x] /\ proc' = proc
    BY <1>4, <2>1, Records DEF ContextCreateScope
  <2>3. fib[f].state \in {"Starting", "Active"}
    BY <1>4 DEF ContextCreateScope, Unsealed
  <2>4. x.kids = Append(fib[f].kids, s) /\ Only({"kids"}, fib[f], x)
    BY <2>1, Records DEF Only, FiberRec
  <2> HIDE DEF x
  <2>5. Adopting(f, fib[f], x, b, b)
    BY <1>4, <2>3, <2>4 DEF Adopting
  <2>6. FiberMove(f, fib[f], x, b, b)
    BY <2>5 DEF FiberMove, OtherMove
  <2> QED BY <2>1, <2>2, <2>6, OneMoves DEF Along
<1>5. ASSUME NEW f \in Dropped, NEW w \in BOOLEAN, ClientDisposeFiber(f, w) PROVE FiberMoves
  BY <1>1, <1>5, DisposeMoves, NoneAssumption DEF ClientDisposeFiber, MayReturn
<1>6. ASSUME NEW s \in Closing, ClientDisposeScope(s) PROVE FiberMoves
  BY <1>1, <1>6, DisposeScopeMoves, NoneAssumption DEF ClientDisposeScope
<1>7. ASSUME NEW f \in Leased, Lease(f) \/ DropLease(f) PROVE FiberMoves
  <2> DEFINE b == proc[Body(f)]
  <2>1. f \in Fibers /\ fib[f].lease \in BOOLEAN
    BY <1>1, Records DEF FiberRec
  <2>2. PICK l \in BOOLEAN : /\ fib' = [fib EXCEPT ![f].lease = l] /\ proc' = proc
                             /\ l => fib[f].visible
    BY <1>7 DEF Lease, DropLease
  <2> DEFINE y == [fib[f] EXCEPT !.lease = l]
  <2>3. fib' = [fib EXCEPT ![f] = y]
    BY <2>1, <2>2, Records
  <2>4. y.lease = l /\ Only({"lease"}, fib[f], y)
    BY <2>1, Records DEF Only, FiberRec
  <2> HIDE DEF y
  <2>5. Leasing(f, fib[f], y, b, b)
    BY <2>2, <2>4 DEF Leasing
  <2>6. FiberMove(f, fib[f], y, b, b)
    BY <2>5 DEF FiberMove, OtherMove
  <2> QED BY <2>1, <2>2, <2>3, <2>6, OneMoves DEF Along
<1>8. ASSUME NEW f \in Crashing, BodyCrash(f) PROVE FiberMoves
  BY <1>1, <1>8, BodyMoves
<1>9. ASSUME NEW f \in Hosted, HostFailure(f) PROVE FiberMoves
  <2> DEFINE x == [fib[f] EXCEPT !.state = "Failed"]
             r == [proc[HostWorker(f)] EXCEPT !.pc = "call"]
             b == proc[Body(f)]
  <2>1. f \in Fibers /\ fib[f].state = "Active"
    BY <1>1, <1>9 DEF HostFailure
  <2>2. fib' = [fib EXCEPT ![f] = x] /\ proc' = [proc EXCEPT ![HostWorker(f)] = r]
    BY <1>9, <2>1, Records DEF HostFailure, Goto
  <2>3. x.state = "Failed" /\ Only({"state"}, fib[f], x)
    BY <2>1, Records DEF Only, FiberRec
  <2> HIDE DEF x, r
  <2>4. FailedMove(fib[f], x, b, b)
    BY <2>1, <2>3 DEF FailedMove, Along
  <2>5. \A g \in Fibers : proc'[Body(g)] = proc[Body(g)]
    BY <2>1, <2>2, Foreign, FiberProcs
  <2>6. FiberMove(f, fib[f], x, b, b)
    BY <2>4 DEF FiberMove, OtherMove
  <2> QED BY <2>1, <2>2, <2>5, <2>6, OneMoves DEF Along
<1>10. CASE BeginShutdown
  BY <1>10, UnmovedProcs DEF BeginShutdown
<1>11. CASE ShutdownRoot
  BY <1>1, <1>11, DisposeScopeMoves, NoneAssumption DEF ShutdownRoot
<1>12. CASE CollectGarbage
  <2> SUFFICES ASSUME NEW f \in Fibers
               PROVE FiberMove(f, fib[f], fib'[f], proc[Body(f)], proc'[Body(f)])
    BY DEF FiberMoves
  <2> DEFINE x == [fib[f] EXCEPT !.state = "Gone", !.indexed = FALSE]
  <2>1. (f \in Dead => fib'[f] = x) /\ (f \notin Dead => fib'[f] = fib[f]) /\ proc' = proc
    <3> DEFINE swept(g) == IF g \in Dead THEN [fib[g] EXCEPT !.state = "Gone", !.indexed = FALSE]
                           ELSE fib[g]
    <3>1. fib' = [g \in Fibers |-> swept(g)] /\ proc' = proc
      BY <1>12, Zenon DEF CollectGarbage
    <3>2. fib'[f] = swept(f)
      <4> HIDE DEF swept
      <4> QED BY <3>1
    <3> QED BY <3>1, <3>2, Zenon
  <2>2. CASE f \in Dead
    <3>1. Sweeping(fib[f], x, proc[Body(f)], proc[Body(f)])
      BY <2>2, Records DEF Sweeping, Dead, Only, FiberRec
    <3> HIDE DEF x
    <3> QED BY <2>1, <2>2, <3>1 DEF FiberMove, OtherMove
  <2>3. CASE f \notin Dead
    BY <2>1, <2>3 DEF FiberMove, OtherMove, Rest, Only, Along
  <2> QED BY <2>2, <2>3
<1> QED BY <1>2, <1>3, <1>4, <1>5, <1>6, <1>7, <1>8, <1>9, <1>10, <1>11, <1>12 DEF Environment

\* The step of any task, of a client, a plugin, a host or the collection of garbage.
LEMMA NextMoves ==
  ASSUME GeneralInv, [Next]_vars
  PROVE  FiberMoves
<1>1. CASE UNCHANGED vars
  BY <1>1, UnmovedProcs DEF vars
<1> QED BY <1>1, EnvironmentMoves, CallMoves, ReconcilingMoves, InstallMoves, ActivationMoves,
           BodyMoves, HostMoves, ScopeFiberMoves DEF Next

-----------------------------------------------------------------------------
(***************************************************************************)
(* Records and frames keep what GeneralInv says of them.                   *)
(***************************************************************************)
LEMMA MoreSome ==
  ASSUME NEW es \in Seq(Results), NEW fs, More(es, fs), \A i \in DOMAIN es : es[i] # "none"
  PROVE  \A i \in DOMAIN fs : fs[i] # "none"
BY DEF More

LEMMA StateKept ==
  ASSUME NEW f, NEW x, NEW y, NEW b \in Frames, NEW c, x.disposal.errs \in Seq(Results),
         BodyOK(x, b), StateOK(x, b), FiberMove(f, x, y, b, c)
  PROVE  StateOK(y, c)
<1> USE DEF StateOK, Only
<1>1. CASE Rest(x, y, b, c) \/ FailedMove(x, y, b, c)
  BY <1>1 DEF Rest, FailedMove, Along, Reconciling, Calling
<1>2. CASE Created(x, y, b, c)
  BY <1>2 DEF Created, NewFiber, NewDisposal
<1>3. CASE \/ Indexed(x, y, b, c) \/ Removed(x, y, b, c) \/ Parked(x, y, b, c)
           \/ Committing(f, x, y, b, c) \/ Providing(f, x, y, b, c) \/ Adopting(f, x, y, b, c)
           \/ Leasing(f, x, y, b, c) \/ Sweeping(x, y, b, c)
  BY <1>3 DEF Indexed, Removed, Parked, Committing, Providing, Adopting, Leasing, Sweeping
<1>4. CASE Begun(x, y, b, c)
  BY <1>4 DEF Begun, Idle
<1>5. CASE Started(x, y, b, c)
  BY <1>5 DEF Started, NewDisposal
<1>6. CASE Draining(x, y, b, c) \/ Drained(x, y, b, c) \/ ScopesDone(x, y, b, c)
  <2>1. c.pc \in {"drain", "kids", "release"}
    BY <1>6 DEF Draining, Drained, ScopesDone, Frames
  <2> QED BY <1>6, <2>1 DEF BodyOK, Draining, Drained, ScopesDone
<1>6a. CASE AskingScope(x, y, b, c) \/ Deciding(x, y, b, c) \/ Quitting(x, y, b, c)
  BY <1>6a DEF BodyOK, AskingScope, Deciding, Quitting
<1>7. CASE ScopeDone(x, y, b, c) \/ Releasing(x, y, b, c) \/ Finishing(x, y, b, c)
  <2>1. More(x.disposal.errs, y.disposal.errs)
    BY <1>7 DEF ScopeDone, Releasing, Finishing
  <2>2. \A i \in DOMAIN y.disposal.errs : y.disposal.errs[i] # "none"
    BY <2>1, MoreSome
  <2> QED BY <1>7, <2>2 DEF ScopeDone, Releasing, Finishing, Idle
<1>8. CASE Detaching(x, y, b, c)
  BY <1>8 DEF BodyOK, Detaching
<1>9. CASE Publishing(x, y, b, c)
  BY <1>9 DEF BodyOK, Decided, Publishing, Idle
<1>10. CASE Vanishing(x, y, b, c)
  BY <1>10 DEF Vanishing, Idle
<1> QED BY <1>1, <1>2, <1>3, <1>4, <1>5, <1>6, <1>6a, <1>7, <1>8, <1>9, <1>10
        DEF FiberMove, OtherMove, BodyMove

LEMMA StatesNext ==
  ASSUME GeneralInv, [Next]_vars PROVE States'
<1> SUFFICES ASSUME NEW f \in Fibers PROVE StateOK(fib'[f], proc'[Body(f)])
  BY DEF States
<1>1. FiberMove(f, fib[f], fib'[f], proc[Body(f)], proc'[Body(f)])
  BY NextMoves DEF FiberMoves
<1>2. /\ fib[f].disposal.errs \in Seq(Results) /\ BodyOK(fib[f], proc[Body(f)])
      /\ StateOK(fib[f], proc[Body(f)]) /\ proc[Body(f)] \in Frames
  BY Records DEF FiberOK, DisposalRec
<1> QED BY <1>1, <1>2, StateKept

-----------------------------------------------------------------------------
(***************************************************************************)
(* The moves of a process q, whose frame goes from b to c.                 *)
(***************************************************************************)
\* It requests a disposal and has the answer, or waits for it.
Asking(q, b, c) ==
  /\ b.pc \in {"rollback", "call", "kids", "next"}
  /\ \/ \E f \in Fibers, w, d \in BOOLEAN :
          /\ DisposeFiber(q, f, w, d) /\ c = Called(b, f, DisposeAnswer(f))
          /\ q[1] = "scope" => b.fibers # <<>> /\ f = Last(b.fibers)
     \/ \E s \in Scopes, d \in BOOLEAN :
          /\ DisposeScope(q, s, d) /\ c = Called(b, s, ScopeAnswer(s))
          /\ q[1] = "scope" => b.kids # <<>> /\ s = Last(b.kids)

\* The disposal it waits for is published.
Answering(b, c) ==
  \/ \E f \in Fibers : /\ Publish(f) /\ b.pc = "wait" /\ b.tgt = f
                       /\ c = Answered(b, proc[Body(f)].res)
  \/ \E s \in Scopes : /\ ScopePublish(s) /\ b.pc = "wait" /\ b.tgt = s
                       /\ c = Answered(b, ScopeResult(proc[ScopeBody(s)]))

\* The activation it called returns.
Returning(q, b, c) ==
  /\ q[1] # "scope" /\ b.pc \in {"lock", "activating"} /\ b.tgt \in Fibers
  /\ c.pc = "back" /\ c.tgt = b.tgt /\ c.res \in {"ok", "plain"} /\ c.todo = b.todo

Early == {"index", "validate", "remove", "check", "park"}

\* An install.
Installing(f, b, c) ==
  \/ Install(f) /\ c.pc = "index"
  \/ InstallIndex(f) /\ c.pc = "validate"
  \/ InstallValidate(f) /\ c.pc = IF Cyclic THEN "remove" ELSE "check"
  \/ InstallRemove(f) /\ c.pc = "idle"
  \/ b.pc = "check" /\ c.pc = "park" /\ ~Met(f)
  \/ c.pc \notin Early /\ b.pc \notin {"index", "validate", "remove"}

\* A reconciliation.
Scanning(b, c) ==
  \/ b.pc = "collect" /\ c.pc = "pick" /\ \A g \in c.todo : fib[g].indexed
  \/ /\ b.pc = "pick" /\ c.pc = "judge" /\ c.todo \subseteq b.todo
     /\ c.tgt \in b.todo /\ Registered(c.tgt) /\ c.seen = fib[c.tgt].state
  \/ /\ b.pc = "judge" /\ c.todo = b.todo /\ c.tgt = b.tgt
     /\ c.pc = "call" \/ (c.pc = "lock" /\ b.seen = "Waiting")
  \/ c.pc \notin {"judge", "call", "lock"} /\ c.todo \subseteq b.todo

\* The disposal body of a Scope.
Disposing(s, b, c) ==
  \/ /\ ScopeSnapshot(s) \/ ScopeFiber(s) \/ ScopeMemberDone(s)
     /\ b.pc # "idle" /\ c.pc \in {"next", "call"}
  \/ ScopePublish(s) /\ c = Idle
  \/ /\ scp[s].state = "Active" /\ scp'[s].state = "Disposing"
     /\ c = [Idle EXCEPT !.pc = "snapshot"]

Going(q, b, c) ==
  /\ c.pc \notin {"wait", "back"}
  /\ \A f \in Fibers : q = Installer(f) => Installing(f, b, c)
  /\ q \in Reconcilers => Scanning(b, c)
  /\ \A s \in Scopes : q = ScopeBody(s) => Disposing(s, b, c)

FrameMove(q, b, c) ==
  \/ c = b \/ Asking(q, b, c) \/ Answering(b, c) \/ Returning(q, b, c) \/ Going(q, b, c)

FrameMoves == \A q \in Procs : FrameMove(q, proc[q], proc'[q])

-----------------------------------------------------------------------------
(***************************************************************************)
(* Every step moves every process.                                         *)
(***************************************************************************)
LEMMA StillFrames ==
  ASSUME proc' = proc PROVE FrameMoves
BY DEF FrameMoves, FrameMove

LEMMA OneFrame ==
  ASSUME GeneralInv, NEW p \in Procs, NEW r, proc' = [proc EXCEPT ![p] = r],
         FrameMove(p, proc[p], r)
  PROVE  FrameMoves
<1>1. proc \in [Procs -> Frames]
  BY Instances DEF GeneralInv
<1> QED BY <1>1 DEF FrameMoves, FrameMove

\* Who is of one kind is of no other.
LEMMA Kinds ==
  ASSUME NEW q \in Procs
  PROVE  /\ \A f \in Fibers : q = Installer(f) => q[1] = "install" /\ q[2] = f
         /\ \A s \in Scopes : q = ScopeBody(s) => q[1] = "scope" /\ q[2] = s
         /\ q \in Reconcilers => q[1] \in {"act", "body"}
BY DEF Procs, Installer, ScopeBody, Reconcilers

LEMMA AskedFrames ==
  ASSUME GeneralInv, NEW p \in Procs \cup {NONE}, NEW f \in Fibers,
         NEW w \in BOOLEAN, NEW d \in BOOLEAN, DisposeFiber(p, f, w, d),
         p \in Procs => proc[p].pc \in {"rollback", "call", "kids", "next"},
         p \in Procs /\ p[1] = "scope" => proc[p].fibers # <<>> /\ f = Last(proc[p].fibers)
  PROVE  FrameMoves
<1> SUFFICES ASSUME NEW q \in Procs PROVE FrameMove(q, proc[q], proc'[q])
  BY DEF FrameMoves
<1> DEFINE n == [Idle EXCEPT !.pc = "queue"]
           r == Called(proc[q], f, DisposeAnswer(f))
<1>1. proc'[q] = IF q = p THEN r
                 ELSE IF q = Body(f) /\ Registered(f) /\ Begins(f) THEN n ELSE proc[q]
  BY DEF DisposeFiber, Called
<1>2. CASE q = p
  <2>1. proc'[q] = r
    BY <1>1, <1>2
  <2> HIDE DEF r
  <2>2. Asking(q, proc[q], proc'[q])
    BY <1>2, <2>1 DEF Asking, r
  <2> QED BY <2>2 DEF FrameMove
<1>3. CASE q = Body(f) /\ proc'[q] = n
  <2>1. n.pc = "queue" /\ n.todo = {} /\ q[1] = "body"
    BY <1>3, FiberProcs DEF Idle
  <2> HIDE DEF n
  <2>2. Going(q, proc[q], n)
    BY <2>1, Kinds DEF Going, Scanning
  <2> QED BY <1>3, <2>2 DEF FrameMove
<1>4. CASE proc'[q] = proc[q]
  BY <1>4 DEF FrameMove
<1> QED BY <1>1, <1>2, <1>3, <1>4

LEMMA ScopeAskedFrames ==
  ASSUME GeneralInv, NEW p \in Procs \cup {NONE}, NEW s \in Scopes,
         NEW d \in BOOLEAN, DisposeScope(p, s, d),
         p \in Procs => proc[p].pc \in {"rollback", "call", "kids", "next"},
         p \in Procs /\ p[1] = "scope" => proc[p].kids # <<>> /\ s = Last(proc[p].kids)
  PROVE  FrameMoves
<1> SUFFICES ASSUME NEW q \in Procs PROVE FrameMove(q, proc[q], proc'[q])
  BY DEF FrameMoves
<1> DEFINE n == [Idle EXCEPT !.pc = "snapshot"]
           r == Called(proc[q], s, ScopeAnswer(s))
<1>1. proc'[q] = IF q = p THEN r
                 ELSE IF q = ScopeBody(s) /\ scp[s].state = "Active" THEN n ELSE proc[q]
  BY DEF DisposeScope, Called
<1>2. CASE q = p
  <2>1. proc'[q] = r
    BY <1>1, <1>2
  <2> HIDE DEF r
  <2>2. Asking(q, proc[q], proc'[q])
    BY <1>2, <2>1 DEF Asking, r
  <2> QED BY <2>2 DEF FrameMove
<1>3. CASE q = ScopeBody(s) /\ proc'[q] = n /\ scp[s].state = "Active"
  <2>1. n.pc = "snapshot" /\ q[1] = "scope" /\ q[2] = s
    BY <1>3, Kinds DEF Idle
  <2>2. scp'[s].state = "Disposing"
    <3>1. scp \in [Scopes -> ScopeRec]
      BY Instances DEF GeneralInv
    <3> QED BY <1>3, <3>1 DEF DisposeScope, ScopeRec
  <2>3. \A t \in Scopes : q = ScopeBody(t) => Disposing(t, proc[q], n)
    BY <1>3, <2>1, <2>2, Kinds DEF Disposing
  <2> HIDE DEF n
  <2>4. Going(q, proc[q], n)
    BY <2>1, <2>3, Kinds DEF Going
  <2> QED BY <1>3, <2>4 DEF FrameMove
<1>4. CASE proc'[q] = proc[q]
  BY <1>4 DEF FrameMove
<1> QED BY <1>1, <1>2, <1>3, <1>4

LEMMA CallFrames ==
  ASSUME GeneralInv, NEW p \in Procs, CallStep(p)
  PROVE  FrameMoves
<1> DEFINE b == proc[p]
           f == b.tgt
<1>1. /\ b \in Frames /\ proc \in [Procs -> Frames] /\ FrameOK(p, b)
      /\ b.pc \in {"lock", "fail", "rollback"} => f \in Fibers /\ p[1] # "scope"
  <2>1. b \in Frames /\ proc \in [Procs -> Frames] /\ FrameOK(p, b)
    BY Instances DEF GeneralInv
  <2>2. b.pc \in {"lock", "fail", "rollback"} => p[1] # "scope"
    BY <2>1, InActivate, ProcKinds
  <2>3. b.pc \in {"lock", "fail", "rollback"} => f \in Fibers
    BY <2>1 DEF FrameOK
  <2> QED BY <2>1, <2>2, <2>3
\* A frame that goes on within activate.
<1>2. ASSUME NEW r, r.pc \in {"activating", "rollback"}, r.todo = b.todo,
             b.pc \in {"lock", "fail", "rollback"}
      PROVE  Going(p, b, r)
  BY <1>1, <1>2, Kinds DEF Going, Installing, Scanning, Early
<1>3. CASE Refused(p)
  <2> DEFINE r == Answered(b, "plain")
  <2>1. proc' = [proc EXCEPT ![p] = r] /\ b.pc = "lock"
    BY <1>1, <1>3 DEF Refused, At
  <2>2. r.pc = "back" /\ r.tgt = b.tgt /\ r.res = "plain" /\ r.todo = b.todo
    BY <1>1 DEF Answered, Frames
  <2> HIDE DEF r
  <2>3. FrameMove(p, b, r)
    BY <1>1, <2>1, <2>2 DEF FrameMove, Returning
  <2> QED BY <2>1, <2>3, OneFrame
<1>4. CASE Activate(p)
  <2> DEFINE r == [b EXCEPT !.pc = "activating"]
             s == [Idle EXCEPT !.pc = "start", !.caller = p]
  <2>1. b.pc = "lock" /\ f \in Fibers /\ fib[f].lock = NONE
    BY <1>1, <1>4 DEF Activate, At
  <2>2. p # Activation(f)
    <3>1. FiberOK(f, fib[f], proc[Activation(f)], proc[Body(f)])
      BY <2>1, Records
    <3> QED BY <2>1, <3>1, NoneAssumption, FiberProcs DEF FiberOK, LockOK
  <2>3. proc' = [proc EXCEPT ![p] = r, ![Activation(f)] = s]
    BY <1>1, <1>4, <2>2 DEF Activate
  <2>4. r.pc = "activating" /\ r.todo = b.todo /\ s.pc = "start" /\ s.todo = {}
    BY <1>1 DEF Frames, Idle
  <2> HIDE DEF r, s
  <2>5. \A q \in Procs : proc'[q] = IF q = Activation(f) THEN s ELSE IF q = p THEN r ELSE proc[q]
    BY <1>1, <2>2, <2>3
  <2>6. Going(p, b, r)
    BY <1>2, <2>1, <2>4
  <2>7. Activation(f) \in Procs /\ Activation(f)[1] = "act"
    BY <2>1, FiberProcs
  <2>8. Going(Activation(f), proc[Activation(f)], s)
    BY <2>4, <2>7, Kinds DEF Going, Scanning
  <2> QED BY <2>5, <2>6, <2>8 DEF FrameMoves, FrameMove
<1>5. CASE FailActivation(p)
  <2> DEFINE r == [b EXCEPT !.pc = "rollback", !.rollback = TRUE]
  <2>1. proc' = [proc EXCEPT ![p] = r] /\ b.pc = "fail"
    BY <1>1, <1>5 DEF FailActivation, At
  <2>2. r.pc = "rollback" /\ r.todo = b.todo
    BY <1>1 DEF Frames
  <2> HIDE DEF r
  <2>3. FrameMove(p, b, r)
    BY <1>2, <2>1, <2>2 DEF FrameMove
  <2> QED BY <2>1, <2>3, OneFrame
<1>6. CASE Rollback(p)
  <2>1. f \in Fibers /\ DisposeFiber(p, f, FALSE, FALSE) /\ b.pc = "rollback"
          /\ p[1] # "scope"
    BY <1>1, <1>6 DEF Rollback, At
  <2> QED BY <2>1, AskedFrames
<1> QED BY <1>3, <1>4, <1>5, <1>6 DEF CallStep

LEMMA ReconcilingFrames ==
  ASSUME GeneralInv, NEW p \in Reconcilers, ReconcileStep(p)
  PROVE  FrameMoves
<1> DEFINE b == proc[p]
<1>1. /\ p \in Procs /\ p[1] \in {"act", "body"} /\ b \in Frames /\ proc \in [Procs -> Frames]
      /\ FrameOK(p, b)
  BY Instances, ReconcilerProcs DEF GeneralInv
<1>2. ASSUME NEW r, proc' = [proc EXCEPT ![p] = r], r.pc \notin {"wait", "back"}, Scanning(b, r)
      PROVE  FrameMoves
  <2>1. Going(p, b, r)
    BY <1>1, <1>2, Kinds DEF Going
  <2> QED BY <1>1, <1>2, <2>1, OneFrame DEF FrameMove
<1>3. CASE Collect(p)
  <2> DEFINE todo == {g \in Fibers : fib[g].indexed /\ Deps[g] \cap b.syms # {}}
             r == [b EXCEPT !.pc = "pick", !.syms = {}, !.todo = todo]
  <2>1. proc' = [proc EXCEPT ![p] = r] /\ b.pc = "collect" /\ \A g \in todo : fib[g].indexed
    BY <1>1, <1>3 DEF Collect, At
  <2> HIDE DEF todo
  <2>2. r.pc = "pick" /\ r.todo = todo
    BY <1>1 DEF Frames
  <2> HIDE DEF r
  <2> QED BY <1>2, <2>1, <2>2 DEF Scanning
<1>4. ASSUME NEW g \in Fibers, Pick(p, g) PROVE FrameMoves
  <2> DEFINE pc == IF Registered(g) THEN "judge" ELSE "pick"
             tgt == IF Registered(g) THEN g ELSE NONE
             seen == IF Registered(g) THEN fib[g].state ELSE "Absent"
             r == [b EXCEPT !.todo = @ \ {g}, !.pc = pc, !.tgt = tgt, !.seen = seen]
  <2>1. proc' = [proc EXCEPT ![p] = r] /\ b.pc = "pick" /\ g \in b.todo
    BY <1>1, <1>4 DEF Pick, At
  <2>2. pc = "pick" \/ (pc = "judge" /\ Registered(g) /\ tgt = g /\ seen = fib[g].state)
    OBVIOUS
  <2> HIDE DEF pc, tgt, seen
  <2>3. r.pc = pc /\ r.tgt = tgt /\ r.seen = seen /\ r.todo = b.todo \ {g}
    BY <1>1 DEF Frames
  <2> HIDE DEF r
  <2> QED BY <1>2, <2>1, <2>2, <2>3 DEF Scanning
<1>5. CASE Judge(p)
  <2> DEFINE v == Verdict(b.seen, Met(b.tgt))
             tgt == IF v = "pick" THEN NONE ELSE b.tgt
             r == [b EXCEPT !.pc = v, !.seen = "Absent", !.tgt = tgt]
  <2>1. proc' = [proc EXCEPT ![p] = r] /\ b.pc = "judge"
    BY <1>1, <1>5 DEF Judge, At
  <2>2. v \in {"call", "pick"} \/ (v = "lock" /\ b.seen = "Waiting")
    BY DEF Verdict
  <2>3. v # "pick" => tgt = b.tgt
    OBVIOUS
  <2> HIDE DEF v, tgt
  <2>4. r.pc = v /\ r.tgt = tgt /\ r.todo = b.todo
    BY <1>1 DEF Frames
  <2> HIDE DEF r
  <2> QED BY <1>2, <2>1, <2>2, <2>3, <2>4 DEF Scanning
<1>6. CASE CallDispose(p)
  <2>1. b.tgt \in Fibers /\ (b.tgt \in Restart) \in BOOLEAN
    BY <1>1, <1>6 DEF CallDispose, At, FrameOK
  <2>2. DisposeFiber(p, b.tgt, b.tgt \in Restart, FALSE) /\ b.pc \in {"rollback", "call", "kids"}
    BY <1>6 DEF CallDispose, At
  <2> QED BY <1>1, <2>1, <2>2, AskedFrames
<1>7. CASE CandidateDone(p)
  <2> DEFINE res == CallResult(p)
             todo == IF res = "ok" THEN b.todo ELSE {}
             pc == IF res = "ok" THEN "pick" ELSE "reconciled"
             r == [b EXCEPT !.rollback = FALSE, !.res = res, !.tgt = NONE, !.todo = todo, !.pc = pc]
  <2>1. proc' = [proc EXCEPT ![p] = r]
    BY <1>1, <1>7 DEF CandidateDone
  <2>2. todo \subseteq b.todo /\ pc \in {"pick", "reconciled"}
    OBVIOUS
  <2> HIDE DEF res, todo, pc
  <2>3. r.pc = pc /\ r.todo = todo
    BY <1>1 DEF Frames
  <2> HIDE DEF r
  <2> QED BY <1>2, <2>1, <2>2, <2>3 DEF Scanning
<1>8. CASE ReconcileDone(p)
  <2> DEFINE r == [b EXCEPT !.pc = "reconciled", !.res = "ok"]
  <2>1. proc' = [proc EXCEPT ![p] = r] /\ r.pc = "reconciled" /\ r.todo = b.todo
    BY <1>1, <1>8 DEF ReconcileDone, Frames
  <2> HIDE DEF r
  <2> QED BY <1>2, <2>1 DEF Scanning
<1> QED BY <1>3, <1>4, <1>5, <1>6, <1>7, <1>8 DEF ReconcileStep

LEMMA InstallFrames ==
  ASSUME GeneralInv, NEW f \in Fibers, InstallStep(f) \/ Install(f)
  PROVE  FrameMoves
<1> DEFINE p == Installer(f)
           b == proc[p]
<1>1. /\ p \in Procs /\ p[1] = "install" /\ p[2] = f /\ b \in Frames
      /\ proc \in [Procs -> Frames]
  BY Instances, FiberProcs DEF GeneralInv
<1>2. ASSUME NEW r, proc' = [proc EXCEPT ![p] = r], r.pc \notin {"wait", "back"},
             Installing(f, b, r)
      PROVE  FrameMoves
  <2>1. Going(p, b, r)
    BY <1>1, <1>2, Kinds DEF Going
  <2> QED BY <1>1, <1>2, <2>1, OneFrame DEF FrameMove
<1>3. ASSUME NEW pc, Goto(p, pc), pc \notin {"wait", "back"},
             \/ Install(f) /\ pc = "index"
             \/ InstallIndex(f) /\ pc = "validate"
             \/ InstallValidate(f) /\ pc = IF Cyclic THEN "remove" ELSE "check"
      PROVE  FrameMoves
  <2> DEFINE r == [b EXCEPT !.pc = pc]
  <2>1. proc' = [proc EXCEPT ![p] = r] /\ r.pc = pc
    BY <1>1, <1>3 DEF Goto, Frames
  <2> HIDE DEF r
  <2> QED BY <1>2, <1>3, <2>1 DEF Installing
<1>4. CASE Install(f)
  BY <1>3, <1>4 DEF Install
<1>5. CASE InstallIndex(f)
  BY <1>3, <1>5 DEF InstallIndex
<1>6. CASE InstallValidate(f)
  <2> DEFINE pc == IF Cyclic THEN "remove" ELSE "check"
  <2>1. Goto(p, pc) /\ pc \notin {"wait", "back"}
    BY <1>6 DEF InstallValidate
  <2> HIDE DEF pc
  <2> QED BY <1>3, <1>6, <2>1 DEF pc
<1>7. CASE InstallCheck(f)
  <2> DEFINE pc == IF Met(f) THEN "lock" ELSE "park"
             r == [b EXCEPT !.pc = pc, !.tgt = f]
  <2>1. proc' = [proc EXCEPT ![p] = r] /\ b.pc = "check"
    BY <1>1, <1>7 DEF InstallCheck, At
  <2>2. pc \in {"lock", "park"} /\ (pc = "park" => ~Met(f))
    OBVIOUS
  <2> HIDE DEF pc
  <2>3. r.pc = pc
    BY <1>1 DEF Frames
  <2> HIDE DEF r
  <2> QED BY <1>2, <2>1, <2>2, <2>3 DEF Installing, Early
<1>8. CASE InstallRemove(f) \/ InstallPark(f) \/ InstallReturn(f)
  <2>1. proc' = [proc EXCEPT ![p] = Idle] /\ Idle.pc = "idle"
    BY <1>8 DEF InstallRemove, InstallPark, InstallReturn, End, Idle
  <2>2. InstallRemove(f) \/ b.pc \in {"park", "back"}
    BY <1>8 DEF InstallPark, InstallReturn, At
  <2>3. Installing(f, b, Idle)
    BY <2>1, <2>2 DEF Installing, Early
  <2> QED BY <1>2, <2>1, <2>3
<1> QED BY <1>4, <1>5, <1>6, <1>7, <1>8 DEF InstallStep

\* The frame of a reconciler, outside the scan of its dependents.
LEMMA OwnFrames ==
  ASSUME GeneralInv, NEW p \in Reconcilers, NEW r, proc' = [proc EXCEPT ![p] = r],
         r.pc \notin {"wait", "back", "judge", "call", "lock"}, r.todo \subseteq proc[p].todo
  PROVE  FrameMoves
<1>1. p \in Procs /\ p[1] \in {"act", "body"}
  BY ReconcilerProcs
<1>2. Going(p, proc[p], r)
  BY <1>1, Kinds DEF Going, Scanning
<1> QED BY <1>1, <1>2, OneFrame DEF FrameMove

LEMMA OwnGoto ==
  ASSUME GeneralInv, NEW p \in Reconcilers, NEW pc, Goto(p, pc),
         pc \notin {"wait", "back", "judge", "call", "lock"}
  PROVE  FrameMoves
<1> DEFINE r == [proc[p] EXCEPT !.pc = pc]
<1>1. p \in Procs /\ proc[p] \in Frames /\ proc \in [Procs -> Frames]
  BY Instances, ReconcilerProcs DEF GeneralInv
<1>2. proc' = [proc EXCEPT ![p] = r] /\ r.pc = pc /\ r.todo = proc[p].todo
  BY <1>1 DEF Goto, Frames
<1> HIDE DEF r
<1> QED BY <1>2, OwnFrames

LEMMA ReturnFrames ==
  ASSUME GeneralInv, NEW f \in Fibers, NEW pc, NEW res,
         proc[Activation(f)].pc \in {"start", "seal", "commit", "reconciled"},
         pc = "fail" \/ (pc = "back" /\ res = "ok"), ActivationReturns(f, pc, res)
  PROVE  FrameMoves
<1> DEFINE a == Activation(f)
           p == proc[a].caller
           b == proc[p]
           r == [b EXCEPT !.pc = pc, !.res = res]
<1>1. /\ p \in Procs /\ b.pc = "activating" /\ b.tgt = f /\ b \in Frames
      /\ a \in Procs /\ a[1] = "act" /\ proc \in [Procs -> Frames]
      /\ p[1] # "scope" /\ p # a
  <2>1. /\ p \in Procs /\ b.pc = "activating" /\ b.tgt = f /\ b \in Frames
        /\ a \in Procs /\ a[1] = "act" /\ proc \in [Procs -> Frames] /\ FrameOK(p, b)
    BY Instances, FiberProcs DEF GeneralInv, CallerOK, At
  <2> QED BY <2>1, InActivate, ProcKinds
<1>2. \A q \in Procs : proc'[q] = IF q = p THEN r ELSE IF q = a THEN Idle ELSE proc[q]
  BY <1>1 DEF ActivationReturns
<1>3. r.pc = pc /\ r.res = res /\ r.tgt = f /\ r.todo = b.todo /\ Idle.pc = "idle" /\ Idle.todo = {}
  BY <1>1 DEF Frames, Idle
<1> HIDE DEF r, b, p
<1>4. FrameMove(p, b, r)
  <2>1. CASE pc = "fail"
    <3>1. Going(p, b, r)
      BY <1>1, <1>3, <2>1, Kinds DEF Going, Installing, Scanning, Early
    <3> QED BY <3>1 DEF FrameMove
  <2>2. CASE pc = "back" /\ res = "ok"
    BY <1>1, <1>3, <2>2 DEF FrameMove, Returning
  <2> QED BY <2>1, <2>2
<1>5. FrameMove(a, proc[a], Idle)
  <2>1. Going(a, proc[a], Idle)
    BY <1>1, <1>3, Kinds DEF Going, Scanning
  <2> QED BY <2>1 DEF FrameMove
<1> QED BY <1>2, <1>4, <1>5 DEF FrameMoves, FrameMove, b

LEMMA ActivationFrames ==
  ASSUME GeneralInv, NEW f \in Fibers, ActivationStep(f) \/ PluginStep(f)
  PROVE  FrameMoves
<1> DEFINE p == Activation(f)
           b == proc[p]
<1>1. p \in Reconcilers /\ b \in Frames /\ proc \in [Procs -> Frames]
  BY Instances, FiberProcs DEF GeneralInv
<1>2. CASE Seal(f)
  <2>1. CASE ActivationReturns(f, "fail", "none")
    BY <1>2, <2>1, ReturnFrames DEF Seal, At
  <2>2. CASE Goto(Activation(f), "commit")
    BY <1>1, <2>2, OwnGoto
  <2> QED BY <1>2, <2>1, <2>2 DEF Seal
<1>3. CASE Commit(f)
  <2>1. CASE ~(open /\ fib[f].state = "Starting")
    BY <1>3, <2>1, ReturnFrames DEF Commit, At
  <2>2. CASE open /\ fib[f].state = "Starting"
    <3> DEFINE pc == IF fib[f].reg = {} THEN "reconciled" ELSE "collect"
               r == [b EXCEPT !.syms = fib[f].reg, !.pc = pc]
    <3>1. proc' = [proc EXCEPT ![p] = r] /\ pc \in {"reconciled", "collect"}
      BY <1>1, <1>3, <2>2 DEF Commit
    <3> HIDE DEF pc
    <3>2. r.pc = pc /\ r.todo = b.todo
      BY <1>1 DEF Frames
    <3> HIDE DEF r
    <3> QED BY <1>1, <3>1, <3>2, OwnFrames
  <2> QED BY <2>1, <2>2
<1>4. CASE ActivationDone(f)
  BY <1>4, ReturnFrames DEF ActivationDone, At
<1>5. ASSUME NEW d \in Services, Provide(f, d) PROVE FrameMoves
  BY <1>5, StillFrames DEF Provide
<1>6. CASE StartOk(f)
  BY <1>1, <1>6, OwnGoto DEF StartOk
<1>7. CASE StartFails(f)
  BY <1>7, ReturnFrames DEF StartFails, At
<1> QED BY <1>2, <1>3, <1>4, <1>5, <1>6, <1>7 DEF ActivationStep, PluginStep

LEMMA PublishingFrames ==
  ASSUME GeneralInv, NEW f \in Fibers, Publish(f)
  PROVE  FrameMoves
<1> SUFFICES ASSUME NEW q \in Procs PROVE FrameMove(q, proc[q], proc'[q])
  BY DEF FrameMoves
<1> DEFINE b == proc[Body(f)]
<1>1. b.res \in Results /\ Deliver(f, b.res, Body(f), Idle) /\ Body(f) \in Procs
  BY Records DEF Publish
<1>2. CASE q = Body(f)
  <2>1. proc'[q] = Idle /\ Idle.pc = "idle" /\ Idle.todo = {} /\ q[1] = "body"
    BY <1>1, <1>2, Delivered, FiberProcs DEF Idle
  <2>2. Going(q, proc[q], Idle)
    BY <2>1, Kinds DEF Going, Scanning
  <2> QED BY <2>1, <2>2 DEF FrameMove
<1>3. CASE q # Body(f)
  <2>1. proc'[q] = IF proc[q].pc = "wait" /\ proc[q].tgt = f
                     THEN Answered(proc[q], b.res) ELSE proc[q]
    BY <1>1, <1>3, Delivered
  <2> QED BY <2>1 DEF FrameMove, Answering
<1> QED BY <1>2, <1>3

LEMMA BodyFrames ==
  ASSUME GeneralInv, NEW f \in Fibers, BodyStep(f) \/ BodyCrash(f)
  PROVE  FrameMoves
<1> DEFINE p == Body(f)
           b == proc[p]
<1>1. p \in Reconcilers /\ b \in Frames /\ proc \in [Procs -> Frames]
  BY Instances, FiberProcs DEF GeneralInv
<1>2. ASSUME NEW pc, Goto(p, pc), pc \in {"drain", "kids", "release"} PROVE FrameMoves
  BY <1>1, <1>2, OwnGoto
<1>3. ASSUME NEW r, proc' = [proc EXCEPT ![p] = r],
             r.pc \in {"kids", "decide", "collect", "reconciled", "detach", "publish", "idle"},
             r.todo \in {{}, b.todo}
      PROVE  FrameMoves
  BY <1>1, <1>3, OwnFrames
<1>4. CASE BodyVanished(f) \/ BodyDrainTimeout(f) \/ BodyCrash(f)
  <2>1. PICK res : BodyQuits(f, res)
    BY <1>4, Zenon DEF BodyVanished, BodyDrainTimeout, BodyCrash, BodyQuits
  <2> DEFINE r == [Idle EXCEPT !.pc = "detach", !.res = res, !.goal = NONE, !.bad = TRUE]
  <2>2. proc' = [proc EXCEPT ![p] = r]
    BY <2>1 DEF BodyQuits, BodyReturns
  <2>3. r.pc = "detach" /\ r.todo = {}
    BY DEF Idle
  <2> HIDE DEF r
  <2> QED BY <1>3, <2>2, <2>3
<1>5. CASE BodyBegin(f)
  BY <1>2, <1>5 DEF BodyBegin
<1>6. CASE BodyDrained(f)
  BY <1>2, <1>6 DEF BodyDrained
<1>7. CASE BodyChildScope(f)
  <2>1. fib[f].kids \in Seq(Scopes) /\ fib[f].kids # <<>>
    BY <1>7, Records DEF FiberRec, BodyChildScope
  <2>2. Last(fib[f].kids) \in Scopes
    BY <2>1, FrontSeq
  <2>3. DisposeScope(p, Last(fib[f].kids), FALSE) /\ p \in Procs /\ p[1] = "body" /\ b.pc = "kids"
    BY <1>7, FiberProcs DEF BodyChildScope, At
  <2> QED BY <2>2, <2>3, ScopeAskedFrames
<1>8. CASE BodyChildScopeDone(f)
  <2> DEFINE r == [Idle EXCEPT !.pc = "kids"]
  <2>1. proc' = [proc EXCEPT ![p] = r] /\ r.pc = "kids" /\ r.todo = {}
    BY <1>8 DEF BodyChildScopeDone, Idle
  <2> HIDE DEF r
  <2> QED BY <1>3, <2>1
<1>9. CASE BodyChildScopesDone(f)
  BY <1>2, <1>9 DEF BodyChildScopesDone
<1>10. ASSUME NEW failed \in BOOLEAN, BodyRelease(f, failed) PROVE FrameMoves
  <2> DEFINE r == [b EXCEPT !.pc = "decide", !.syms = fib[f].reg]
  <2>1. proc' = [proc EXCEPT ![p] = r]
    BY <1>1, <1>10 DEF BodyRelease
  <2>2. r.pc = "decide" /\ r.todo = b.todo
    BY <1>1 DEF Frames
  <2> HIDE DEF r
  <2> QED BY <1>3, <2>1, <2>2
<1>11. CASE BodyDecide(f)
  <2> DEFINE goal == IF Registered(f) /\ fib[f].disposal.wait THEN "Waiting" ELSE "Disposed"
             pc == IF b.syms # {} /\ open THEN "collect" ELSE "reconciled"
             r == [b EXCEPT !.goal = goal, !.res = "ok", !.pc = pc]
  <2>1. proc' = [proc EXCEPT ![p] = r] /\ pc \in {"collect", "reconciled"}
    BY <1>1, <1>11 DEF BodyDecide
  <2> HIDE DEF goal, pc
  <2>2. r.pc = pc /\ r.todo = b.todo
    BY <1>1 DEF Frames
  <2> HIDE DEF r
  <2> QED BY <1>3, <2>1, <2>2
<1>12. CASE BodyFinish(f)
  <2> DEFINE old == fib[f].disposal.errs
             res == Aggregate(IF b.res = "ok" THEN old ELSE Append(old, b.res))
             r == [Idle EXCEPT !.pc = "detach", !.res = res, !.goal = b.goal]
  <2>1. proc' = [proc EXCEPT ![p] = r]
    BY <1>12 DEF BodyFinish
  <2> HIDE DEF res
  <2>2. r.pc = "detach" /\ r.todo = {}
    BY DEF Idle
  <2> HIDE DEF r
  <2> QED BY <1>3, <2>1, <2>2
<1>13. CASE Detach(f)
  <2> DEFINE res == FinalResult(f)
             r == [b EXCEPT !.pc = "publish", !.res = res]
  <2>1. proc' = [proc EXCEPT ![p] = r]
    BY <1>1, <1>13 DEF Detach
  <2> HIDE DEF res
  <2>2. r.pc = "publish" /\ r.todo = b.todo
    BY <1>1 DEF Frames
  <2> HIDE DEF r
  <2> QED BY <1>3, <2>1, <2>2
<1>14. CASE FinalizeVanished(f)
  BY <1>3, <1>14 DEF FinalizeVanished, End, Idle
<1> QED BY <1>4, <1>5, <1>6, <1>7, <1>8, <1>9, <1>10, <1>11, <1>12, <1>13, <1>14, PublishingFrames
        DEF BodyStep

LEMMA ScopePublishFrames ==
  ASSUME GeneralInv, NEW s \in Scopes, ScopePublish(s)
  PROVE  FrameMoves
<1> SUFFICES ASSUME NEW q \in Procs PROVE FrameMove(q, proc[q], proc'[q])
  BY DEF FrameMoves
<1> DEFINE res == ScopeResult(proc[ScopeBody(s)])
<1>1. res \in Results /\ Deliver(s, res, ScopeBody(s), Idle) /\ ScopeBody(s) \in Procs
  BY ScopeProcs DEF ScopePublish, ScopeResult, Results
<1> HIDE DEF res
<1>2. CASE q = ScopeBody(s)
  <2>1. proc'[q] = Idle /\ Idle.pc = "idle" /\ q[1] = "scope" /\ q[2] = s
    BY <1>1, <1>2, Delivered, Kinds DEF Idle
  <2>2. \A t \in Scopes : q = ScopeBody(t) => Disposing(t, proc[q], Idle)
    BY <1>2, <2>1, Kinds DEF Disposing
  <2>3. Going(q, proc[q], Idle)
    BY <2>1, <2>2, Kinds DEF Going
  <2> QED BY <2>1, <2>3 DEF FrameMove
<1>3. CASE q # ScopeBody(s)
  <2>1. proc'[q] = IF proc[q].pc = "wait" /\ proc[q].tgt = s
                     THEN Answered(proc[q], res) ELSE proc[q]
    BY <1>1, <1>3, Delivered
  <2>2. proc[q].pc = "wait" /\ proc[q].tgt = s => Answering(proc[q], proc'[q])
    BY <2>1 DEF Answering, res
  <2> QED BY <2>1, <2>2 DEF FrameMove
<1> QED BY <1>2, <1>3

LEMMA ScopeFrames ==
  ASSUME GeneralInv, NEW s \in Scopes, ScopeStep(s)
  PROVE  FrameMoves
<1> DEFINE p == ScopeBody(s)
           b == proc[p]
<1>1. /\ p \in Procs /\ p[1] = "scope" /\ p[2] = s /\ b \in Frames /\ FrameOK(p, b)
      /\ b.kids \in Seq(Scopes) /\ b.fibers \in Seq(Fibers) /\ b.persist \in BOOLEAN
      /\ proc \in [Procs -> Frames]
  BY Instances, ScopeProcs, Kinds, FrameFields DEF GeneralInv
<1>2. ASSUME NEW r, proc' = [proc EXCEPT ![p] = r], r.pc \in {"next", "call"},
             ScopeSnapshot(s) \/ ScopeFiber(s) \/ ScopeMemberDone(s)
      PROVE  FrameMoves
  <2>0. b.pc # "idle"
    BY <1>2 DEF ScopeSnapshot, ScopeFiber, ScopeMemberDone, At
  <2>1. \A t \in Scopes : p = ScopeBody(t) => Disposing(t, b, r)
    BY <1>1, <1>2, <2>0, Kinds DEF Disposing
  <2>2. Going(p, b, r)
    BY <1>1, <1>2, <2>1, Kinds DEF Going
  <2> QED BY <1>1, <1>2, <2>2, OneFrame DEF FrameMove
<1>3. CASE ScopeSnapshot(s)
  <2> DEFINE r == [b EXCEPT !.pc = "next", !.kids = scp[s].children, !.fibers = scp[s].fibers,
                            !.persist = scp[s].persist]
  <2>1. proc' = [proc EXCEPT ![p] = r]
    BY <1>1, <1>3 DEF ScopeSnapshot
  <2>2. r.pc = "next"
    BY <1>1 DEF Frames
  <2> HIDE DEF r
  <2> QED BY <1>2, <1>3, <2>1, <2>2
<1>4. CASE ScopeFiber(s)
  <2>1. \E r : proc' = [proc EXCEPT ![p] = r] /\ r.pc \in {"next", "call"}
    <3>1. CASE proc' = [proc EXCEPT ![p].fibers = Front(@)]
      <4> DEFINE r == [b EXCEPT !.fibers = Front(@)]
      <4>1. proc' = [proc EXCEPT ![p] = r]
        BY <1>1, <3>1
      <4>2. r.pc = "next"
        BY <1>1, <1>4 DEF Frames, ScopeFiber, At
      <4> HIDE DEF r
      <4> QED BY <4>1, <4>2
    <3>2. CASE Goto(p, "call")
      <4> DEFINE r == [b EXCEPT !.pc = "call"]
      <4>1. proc' = [proc EXCEPT ![p] = r] /\ r.pc = "call"
        BY <1>1, <3>2 DEF Frames, Goto
      <4> HIDE DEF r
      <4> QED BY <4>1
    <3> QED BY <1>4, <3>1, <3>2 DEF ScopeFiber
  <2> QED BY <1>2, <1>4, <2>1
<1>5. CASE ScopeMemberDone(s)
  <2> DEFINE kids == IF b.tgt \in Scopes THEN Front(b.kids) ELSE b.kids
             fibers == IF b.tgt \in Fibers THEN Front(b.fibers) ELSE b.fibers
             issues == b.issues \/ b.res # "ok"
             bad == b.bad \/ (b.res # "ok" /\ (~Committed(b.tgt) \/ b.res \in Terminal))
             r == [b EXCEPT !.pc = "next", !.tgt = NONE, !.res = "none", !.kids = kids,
                            !.fibers = fibers, !.issues = issues, !.bad = bad]
  <2>1. proc' = [proc EXCEPT ![p] = r]
    BY <1>1, <1>5 DEF ScopeMemberDone
  <2> HIDE DEF kids, fibers, issues, bad
  <2>2. r.pc = "next"
    BY <1>1 DEF Frames
  <2> HIDE DEF r
  <2> QED BY <1>2, <1>5, <2>1, <2>2
<1>6. CASE ScopeChild(s)
  <2>1. Last(b.kids) \in Scopes
    BY <1>1, <1>6, FrontSeq DEF ScopeChild
  <2> QED BY <1>1, <1>6, <2>1, ScopeAskedFrames DEF ScopeChild, At
<1>7. CASE ScopeCall(s)
  <2>0. b.pc = "call"
    BY <1>7 DEF ScopeCall, At
  <2>1. b.fibers # <<>>
    BY <1>1, <2>0 DEF FrameOK
  <2>2. Last(b.fibers) \in Fibers
    BY <1>1, <2>1, FrontSeq
  <2>3. DisposeFiber(p, Last(b.fibers), FALSE, b.persist)
    BY <1>7 DEF ScopeCall
  <2> QED BY <1>1, <2>0, <2>1, <2>2, <2>3, AskedFrames
<1>8. CASE ScopePublish(s)
  BY <1>8, ScopePublishFrames
<1> QED BY <1>3, <1>4, <1>5, <1>6, <1>7, <1>8 DEF ScopeStep

LEMMA HostFrames ==
  ASSUME GeneralInv, NEW f \in Fibers, HostStep(f) \/ HostFailure(f)
  PROVE  FrameMoves
<1> DEFINE p == HostWorker(f)
<1>1. p \in Procs /\ p[1] = "host" /\ proc[p] \in Frames /\ proc \in [Procs -> Frames]
  BY Instances, FiberProcs DEF GeneralInv
<1>2. ASSUME NEW r, proc' = [proc EXCEPT ![p] = r], r.pc \in {"call", "idle"} PROVE FrameMoves
  <2>1. Going(p, proc[p], r)
    BY <1>1, <1>2, Kinds DEF Going
  <2> QED BY <1>1, <1>2, <2>1, OneFrame DEF FrameMove
<1>3. CASE HostFailure(f)
  <2> DEFINE r == [proc[p] EXCEPT !.pc = "call"]
  <2>1. proc' = [proc EXCEPT ![p] = r] /\ r.pc = "call"
    BY <1>1, <1>3 DEF HostFailure, Goto, Frames
  <2> HIDE DEF r
  <2> QED BY <1>2, <2>1
<1>4. CASE HostDispose(f)
  BY <1>1, <1>4, AskedFrames DEF HostDispose, At
<1>5. CASE HostReturn(f)
  BY <1>2, <1>5 DEF HostReturn, End, Idle
<1> QED BY <1>3, <1>4, <1>5 DEF HostStep

LEMMA NextFrames ==
  ASSUME GeneralInv, [Next]_vars
  PROVE  FrameMoves
<1>1. CASE UNCHANGED vars
  BY <1>1, StillFrames DEF vars
<1>2. CASE Environment
  <2>1. /\ Leased \subseteq Fibers /\ Crashing \subseteq Fibers /\ Hosted \subseteq Fibers
        /\ Dropped \subseteq Fibers /\ Closing \subseteq Scopes /\ Root \in Scopes
    BY LifecycleAssumption
  <2>2. ASSUME NEW f \in Fibers, Install(f) PROVE FrameMoves
    BY <2>2, InstallFrames
  <2>3. ASSUME NEW s \in Scopes, CreateScope(s) \/ ContextCreateScope(s) PROVE FrameMoves
    BY <2>3, StillFrames DEF CreateScope, ContextCreateScope
  <2>4. ASSUME NEW f \in Dropped, NEW w \in BOOLEAN, ClientDisposeFiber(f, w) PROVE FrameMoves
    BY <2>1, <2>4, AskedFrames, NoneAssumption DEF ClientDisposeFiber
  <2>5. ASSUME NEW s \in Closing, ClientDisposeScope(s) PROVE FrameMoves
    BY <2>1, <2>5, ScopeAskedFrames, NoneAssumption DEF ClientDisposeScope
  <2>6. ASSUME NEW f \in Leased, Lease(f) \/ DropLease(f) PROVE FrameMoves
    BY <2>6, StillFrames DEF Lease, DropLease
  <2>7. ASSUME NEW f \in Crashing, BodyCrash(f) PROVE FrameMoves
    BY <2>1, <2>7, BodyFrames
  <2>8. ASSUME NEW f \in Hosted, HostFailure(f) PROVE FrameMoves
    BY <2>1, <2>8, HostFrames
  <2>9. CASE BeginShutdown \/ CollectGarbage
    <3>1. proc' = proc
      BY <2>9, Zenon DEF BeginShutdown, CollectGarbage
    <3> QED BY <3>1, StillFrames
  <2>10. CASE ShutdownRoot
    BY <2>1, <2>10, ScopeAskedFrames, NoneAssumption DEF ShutdownRoot
  <2> QED BY <1>2, <2>2, <2>3, <2>4, <2>5, <2>6, <2>7, <2>8, <2>9, <2>10 DEF Environment
<1> QED BY <1>1, <1>2, CallFrames, ReconcilingFrames, InstallFrames, ActivationFrames, BodyFrames,
           HostFrames, ScopeFrames DEF Next

\* What a call returned, or a wait was answered with.
LEMMA AskedAnswer ==
  ASSUME GeneralInv, NEW q \in Procs, NEW c, Asking(q, proc[q], c)
  PROVE  \/ \E f \in Fibers, w, d \in BOOLEAN :
              /\ DisposeFiber(q, f, w, d) /\ c.tgt = f /\ c.todo = proc[q].todo
              /\ q[1] = "scope" => proc[q].fibers # <<>> /\ f = Last(proc[q].fibers)
              /\ c.pc = IF DisposeAnswer(f) = "none" THEN "wait" ELSE "back"
              /\ c.pc = "back" => c.res = DisposeAnswer(f)
              /\ c.kids = proc[q].kids /\ c.fibers = proc[q].fibers /\ c.bad = proc[q].bad
         \/ \E s \in Scopes, d \in BOOLEAN :
              /\ DisposeScope(q, s, d) /\ c.tgt = s /\ c.todo = proc[q].todo
              /\ q[1] = "scope" => proc[q].kids # <<>> /\ s = Last(proc[q].kids)
              /\ c.pc = IF ScopeAnswer(s) = "none" THEN "wait" ELSE "back"
              /\ c.pc = "back" => c.res = ScopeAnswer(s)
              /\ c.kids = proc[q].kids /\ c.fibers = proc[q].fibers /\ c.bad = proc[q].bad
<1>1. proc[q] \in Frames
  BY Instances DEF GeneralInv
<1>2. ASSUME NEW t, NEW res, c = Called(proc[q], t, res)
      PROVE  /\ c.tgt = t /\ c.todo = proc[q].todo
             /\ c.pc = IF res = "none" THEN "wait" ELSE "back"
             /\ c.pc = "back" => c.res = res
             /\ c.kids = proc[q].kids /\ c.fibers = proc[q].fibers /\ c.bad = proc[q].bad
  <2>1. CASE res = "none"
    BY <1>1, <1>2, <2>1 DEF Called, Frames
  <2>2. CASE res # "none"
    BY <1>1, <1>2, <2>2 DEF Called, Answered, Frames
  <2> QED BY <2>1, <2>2
<1>3. CASE \E f \in Fibers, w, d \in BOOLEAN :
             /\ DisposeFiber(q, f, w, d) /\ c = Called(proc[q], f, DisposeAnswer(f))
             /\ q[1] = "scope" => proc[q].fibers # <<>> /\ f = Last(proc[q].fibers)
  <2>1. PICK f \in Fibers, w \in BOOLEAN, d \in BOOLEAN :
             /\ DisposeFiber(q, f, w, d) /\ c = Called(proc[q], f, DisposeAnswer(f))
             /\ q[1] = "scope" => proc[q].fibers # <<>> /\ f = Last(proc[q].fibers)
    BY <1>3
  <2>2. /\ c.tgt = f /\ c.todo = proc[q].todo
        /\ c.pc = IF DisposeAnswer(f) = "none" THEN "wait" ELSE "back"
        /\ c.pc = "back" => c.res = DisposeAnswer(f)
        /\ c.kids = proc[q].kids /\ c.fibers = proc[q].fibers /\ c.bad = proc[q].bad
    BY <1>2, <2>1
  <2> QED BY <2>1, <2>2
<1>4. CASE \E s \in Scopes, d \in BOOLEAN :
             /\ DisposeScope(q, s, d) /\ c = Called(proc[q], s, ScopeAnswer(s))
             /\ q[1] = "scope" => proc[q].kids # <<>> /\ s = Last(proc[q].kids)
  <2>1. PICK s \in Scopes, d \in BOOLEAN :
             /\ DisposeScope(q, s, d) /\ c = Called(proc[q], s, ScopeAnswer(s))
             /\ q[1] = "scope" => proc[q].kids # <<>> /\ s = Last(proc[q].kids)
    BY <1>4
  <2>2. /\ c.tgt = s /\ c.todo = proc[q].todo
        /\ c.pc = IF ScopeAnswer(s) = "none" THEN "wait" ELSE "back"
        /\ c.pc = "back" => c.res = ScopeAnswer(s)
        /\ c.kids = proc[q].kids /\ c.fibers = proc[q].fibers /\ c.bad = proc[q].bad
    BY <1>2, <2>1
  <2> QED BY <2>1, <2>2
<1> QED BY <1>3, <1>4 DEF Asking

LEMMA AnsweredWait ==
  ASSUME GeneralInv, NEW q \in Procs, NEW c, Answering(proc[q], c)
  PROVE  /\ proc[q].pc = "wait" /\ c.pc = "back" /\ c.tgt = proc[q].tgt /\ c.todo = proc[q].todo
         /\ c.kids = proc[q].kids /\ c.fibers = proc[q].fibers /\ c.bad = proc[q].bad
         /\ \/ \E f \in Fibers : Publish(f) /\ c.tgt = f /\ c.res = proc[Body(f)].res
            \/ \E s \in Scopes : ScopePublish(s) /\ c.tgt = s
                                 /\ c.res = ScopeResult(proc[ScopeBody(s)])
<1>1. proc[q] \in Frames
  BY Instances DEF GeneralInv
<1>2. ASSUME NEW res, c = Answered(proc[q], res)
      PROVE  /\ c.pc = "back" /\ c.tgt = proc[q].tgt /\ c.todo = proc[q].todo /\ c.res = res
             /\ c.kids = proc[q].kids /\ c.fibers = proc[q].fibers /\ c.bad = proc[q].bad
  BY <1>1, <1>2 DEF Answered, Frames
<1>3. CASE \E f \in Fibers : /\ Publish(f) /\ proc[q].pc = "wait" /\ proc[q].tgt = f
                             /\ c = Answered(proc[q], proc[Body(f)].res)
  <2>1. PICK f \in Fibers : /\ Publish(f) /\ proc[q].pc = "wait" /\ proc[q].tgt = f
                            /\ c = Answered(proc[q], proc[Body(f)].res)
    BY <1>3
  <2> QED BY <1>2, <2>1
<1>4. CASE \E s \in Scopes : /\ ScopePublish(s) /\ proc[q].pc = "wait" /\ proc[q].tgt = s
                             /\ c = Answered(proc[q], ScopeResult(proc[ScopeBody(s)]))
  <2>1. PICK s \in Scopes : /\ ScopePublish(s) /\ proc[q].pc = "wait" /\ proc[q].tgt = s
                            /\ c = Answered(proc[q], ScopeResult(proc[ScopeBody(s)]))
    BY <1>4
  <2> QED BY <1>2, <2>1
<1> QED BY <1>3, <1>4 DEF Answering

LEMMA RepliesNext ==
  ASSUME GeneralInv, [Next]_vars PROVE Replies'
<1> SUFFICES ASSUME NEW q \in Procs, proc'[q].pc = "back" PROVE proc'[q].res # "none"
  BY DEF Replies, At
<1> DEFINE b == proc[q]
           c == proc'[q]
<1>1. FrameMove(q, b, c)
  BY NextFrames DEF FrameMoves
<1>2. CASE c = b
  BY <1>2 DEF GeneralInv, Replies, At
<1>3. CASE Asking(q, b, c)
  BY <1>3, AskedAnswer
<1>4. CASE Answering(b, c)
  <2>1. ASSUME NEW f \in Fibers, Publish(f) PROVE proc[Body(f)].res # "none"
    BY <2>1, Records DEF Publish, At, StateOK
  <2>2. \A s \in Scopes : ScopeResult(proc[ScopeBody(s)]) # "none"
    BY DEF ScopeResult
  <2> QED BY <1>4, <2>1, <2>2, AnsweredWait
<1>5. CASE Returning(q, b, c)
  BY <1>5 DEF Returning
<1>6. CASE Going(q, b, c)
  BY <1>6 DEF Going
<1> QED BY <1>1, <1>2, <1>3, <1>4, <1>5, <1>6 DEF FrameMove

-----------------------------------------------------------------------------
(***************************************************************************)
(* The moves of a Scope s, whose record goes from x to y.                  *)
(***************************************************************************)
\* Of the record, only the fields in F change.
OnlyScope(F, x, y) ==
  /\ "state" \in F \/ y.state = x.state
  /\ "done" \in F \/ y.done = x.done
  /\ "children" \in F \/ y.children = x.children
  /\ "fibers" \in F \/ y.fibers = x.fibers

Born(s, x, y) ==
  /\ CreateScope(s) \/ ContextCreateScope(s)
  /\ x.state = "Absent" /\ y = NewScope("Active")

Joining(s, x, y) ==
  /\ x.state = "Active"
  /\ \/ \E t \in Scopes : /\ InsertScope(t) /\ Parent[t] = s
                          /\ y.children = Append(x.children, t) /\ OnlyScope({"children"}, x, y)
     \/ \E f \in Fibers : /\ Install(f) /\ ScopeOf[f] = s
                          /\ y.fibers = Append(x.fibers, f) /\ OnlyScope({"fibers"}, x, y)

Asked(s, x, y) ==
  /\ x.state = "Active" /\ y.state = "Disposing" /\ OnlyScope({"state"}, x, y)
  /\ At(ScopeBody(s), "idle") => proc'[ScopeBody(s)] = [Idle EXCEPT !.pc = "snapshot"]

ScopeEnding(s, x, y) ==
  LET b == proc[ScopeBody(s)] IN
  /\ ScopePublish(s) /\ b.pc = "next" /\ proc'[ScopeBody(s)] = Idle
  /\ b.kids = <<>> /\ b.fibers = <<>>
  /\ y.state = IF b.bad THEN "Terminated" ELSE "Disposed"
  /\ y.done = ScopeResult(b) /\ OnlyScope({"state", "done"}, x, y)

Unlinking(s, x, y) ==
  \/ \E t \in Scopes : /\ ScopePublish(t) /\ Parent[t] = s /\ ~proc[ScopeBody(t)].bad
                       /\ \A u : Lists(y.children, u) <=> Lists(x.children, u) /\ u # t
                       /\ OnlyScope({"children"}, x, y)
  \/ \E f \in Fibers : /\ ScopeOf[f] = s
                       /\ InstallRemove(f) \/ (Detach(f) /\ Detaches(f))
                       /\ \A g : Lists(y.fibers, g) <=> Lists(x.fibers, g) /\ g # f
                       /\ OnlyScope({"fibers"}, x, y)

Clearing(x, y) ==
  /\ \A g \in Fibers : Lists(y.fibers, g) <=> Lists(x.fibers, g) /\ g \notin Dead
  /\ y.state = x.state \/ (x.state = "Disposed" /\ y.state = "Gone")
  /\ OnlyScope({"state", "fibers"}, x, y)

ScopeMove(s, x, y) ==
  \/ OnlyScope({}, x, y) \/ Born(s, x, y) \/ Joining(s, x, y) \/ Asked(s, x, y)
  \/ ScopeEnding(s, x, y) \/ Unlinking(s, x, y)
  \/ CollectGarbage /\ Clearing(x, y)

ScopeMoves == \A s \in Scopes : ScopeMove(s, scp[s], scp'[s])

-----------------------------------------------------------------------------
(***************************************************************************)
(* Every step moves every Scope.                                           *)
(***************************************************************************)
LEMMA StillScopes ==
  ASSUME scp' = scp PROVE ScopeMoves
BY DEF ScopeMoves, ScopeMove, OnlyScope

\* Only the record of s changes.
LEMMA OneScopeMove ==
  ASSUME GeneralInv, NEW s \in Scopes, NEW y, scp' = [scp EXCEPT ![s] = y],
         ScopeMove(s, scp[s], y)
  PROVE  ScopeMoves
<1>1. scp \in [Scopes -> ScopeRec]
  BY Instances DEF GeneralInv
<1>2. \A t \in Scopes : scp'[t] = IF t = s THEN y ELSE scp[t]
  BY <1>1
<1> QED BY <1>2 DEF ScopeMoves, ScopeMove, OnlyScope

LEMMA InsertMoves ==
  ASSUME GeneralInv, NEW s \in Scopes, s # Root, InsertScope(s),
         CreateScope(s) \/ ContextCreateScope(s)
  PROVE  ScopeMoves
<1> DEFINE p == Parent[s]
           n == NewScope("Active")
           y == [scp[p] EXCEPT !.children = Append(@, s)]
<1>1. p \in Scopes /\ scp \in [Scopes -> ScopeRec] /\ scp[s].state = "Absent"
      /\ scp[p].state = "Active" /\ p # s
  BY LifecycleAssumption, Instances DEF GeneralInv, InsertScope
<1>2. scp' = [scp EXCEPT ![s] = n, ![p] = y]
  BY <1>1 DEF InsertScope
<1>3. y.children = Append(scp[p].children, s) /\ OnlyScope({"children"}, scp[p], y)
  BY <1>1 DEF OnlyScope, ScopeRec
<1> HIDE DEF n, y
<1>4. \A t \in Scopes : scp'[t] = IF t = p THEN y ELSE IF t = s THEN n ELSE scp[t]
  BY <1>1, <1>2
<1>5. ScopeMove(p, scp[p], y)
  BY <1>1, <1>3 DEF ScopeMove, Joining
<1>6. ScopeMove(s, scp[s], n)
  BY <1>1 DEF ScopeMove, Born, n
<1> QED BY <1>4, <1>5, <1>6 DEF ScopeMoves, ScopeMove, OnlyScope

LEMMA AskedMoves ==
  ASSUME GeneralInv, NEW p \in Procs \cup {NONE}, NEW s \in Scopes, NEW d \in BOOLEAN,
         DisposeScope(p, s, d), p \in Procs => ~At(p, "idle")
  PROVE  ScopeMoves
<1>1. scp \in [Scopes -> ScopeRec] /\ scp[s] \in ScopeRec /\ ScopeBody(s) \in Procs
  BY Instances, ScopeProcs DEF GeneralInv
<1>2. CASE scp[s].state \in {"Absent", "Gone"}
  BY <1>2, StillScopes DEF DisposeScope
<1>3. CASE scp[s].state \notin {"Absent", "Gone"}
  <2> DEFINE st == IF scp[s].state = "Active" THEN "Disposing" ELSE scp[s].state
             y == [scp[s] EXCEPT !.persist = @ \/ d, !.state = st]
  <2>1. scp' = [scp EXCEPT ![s] = y]
    BY <1>1, <1>3 DEF DisposeScope
  <2>2. y.state = st /\ OnlyScope({"state"}, scp[s], y)
    <3> HIDE DEF st
    <3> QED BY <1>1 DEF ScopeRec, OnlyScope
  <2> HIDE DEF y
  <2>3. CASE scp[s].state = "Active"
    <3>1. At(ScopeBody(s), "idle") => proc'[ScopeBody(s)] = [Idle EXCEPT !.pc = "snapshot"]
      BY <1>1, <2>3 DEF DisposeScope, At
    <3>2. Asked(s, scp[s], y)
      BY <2>2, <2>3, <3>1 DEF Asked
    <3> QED BY <2>1, <3>2, OneScopeMove DEF ScopeMove
  <2>4. CASE scp[s].state # "Active"
    <3>1. OnlyScope({}, scp[s], y)
      BY <2>2, <2>4 DEF OnlyScope
    <3> QED BY <2>1, <3>1, OneScopeMove DEF ScopeMove
  <2> QED BY <2>3, <2>4
<1> QED BY <1>2, <1>3

\* A Fiber leaves the list of its Scope.
LEMMA UnlinkMoves ==
  ASSUME GeneralInv, NEW f \in Fibers, InstallRemove(f) \/ (Detach(f) /\ Detaches(f)),
         scp' = [scp EXCEPT ![ScopeOf[f]].fibers = Without(@, f)]
  PROVE  ScopeMoves
<1> DEFINE s == ScopeOf[f]
           list == Without(scp[s].fibers, f)
           y == [scp[s] EXCEPT !.fibers = list]
<1>1. s \in Scopes /\ scp \in [Scopes -> ScopeRec] /\ scp[s] \in ScopeRec
  BY LifecycleAssumption, Instances DEF GeneralInv
<1>2. scp' = [scp EXCEPT ![s] = y]
  BY <1>1
<1>3. scp[s].fibers \in Seq(Fibers)
  BY <1>1 DEF ScopeRec
<1>4. \A g : Lists(list, g) <=> Lists(scp[s].fibers, g) /\ g # f
  BY <1>3, WithoutProperties
<1> HIDE DEF list
<1>5. y.fibers = list /\ OnlyScope({"fibers"}, scp[s], y)
  BY <1>1 DEF OnlyScope, ScopeRec
<1> HIDE DEF y
<1>6. Unlinking(s, scp[s], y)
  BY <1>4, <1>5 DEF Unlinking
<1> QED BY <1>1, <1>2, <1>6, OneScopeMove DEF ScopeMove

LEMMA ScopeEndingMoves ==
  ASSUME GeneralInv, NEW s \in Scopes, ScopePublish(s)
  PROVE  ScopeMoves
<1> DEFINE b == proc[ScopeBody(s)]
           st == IF b.bad THEN "Terminated" ELSE "Disposed"
           res == ScopeResult(b)
           y == [scp[s] EXCEPT !.state = st, !.done = res]
           z(x) == [scp[x] EXCEPT !.children = Without(@, s)]
<1>1. /\ scp \in [Scopes -> ScopeRec] /\ scp[s] \in ScopeRec /\ ScopeBody(s) \in Procs
      /\ res \in Results /\ Deliver(s, res, ScopeBody(s), Idle)
  BY Instances, ScopeProcs DEF GeneralInv, ScopePublish, ScopeResult, Results
<1>2. scp' = [x \in Scopes |-> IF x = s THEN y ELSE IF x = Parent[s] /\ ~b.bad THEN z(x) ELSE scp[x]]
  BY DEF ScopePublish
<1>3. b.pc = "next" /\ b.kids = <<>> /\ b.fibers = <<>>
  BY DEF ScopePublish, At
<1>4. proc'[ScopeBody(s)] = Idle
  BY <1>1, Delivered
<1>5. y.state = st /\ y.done = res /\ OnlyScope({"state", "done"}, scp[s], y)
  <2> HIDE DEF st, res
  <2> QED BY <1>1 DEF OnlyScope, ScopeRec
<1> HIDE DEF y
<1>6. ScopeEnding(s, scp[s], y)
  BY <1>3, <1>4, <1>5 DEF ScopeEnding
<1>7. ASSUME NEW x \in Scopes, x = Parent[s], ~b.bad PROVE Unlinking(x, scp[x], z(x))
  <2>1. scp[x] \in ScopeRec /\ scp[x].children \in Seq(Scopes)
    BY <1>1 DEF ScopeRec
  <2>2. \A u : Lists(Without(scp[x].children, s), u) <=> Lists(scp[x].children, u) /\ u # s
    BY <2>1, WithoutProperties
  <2>3. z(x).children = Without(scp[x].children, s) /\ OnlyScope({"children"}, scp[x], z(x))
    BY <2>1 DEF OnlyScope, ScopeRec
  <2> HIDE DEF z
  <2> QED BY <1>7, <2>2, <2>3 DEF Unlinking
<1> HIDE DEF z, b
<1> SUFFICES ASSUME NEW x \in Scopes PROVE ScopeMove(x, scp[x], scp'[x])
  BY DEF ScopeMoves
<1>8. scp'[x] = IF x = s THEN y ELSE IF x = Parent[s] /\ ~b.bad THEN z(x) ELSE scp[x]
  BY <1>2
<1> QED BY <1>6, <1>7, <1>8 DEF ScopeMove, OnlyScope

LEMMA ClearingMoves ==
  ASSUME GeneralInv, CollectGarbage
  PROVE  ScopeMoves
<1> SUFFICES ASSUME NEW s \in Scopes PROVE Clearing(scp[s], scp'[s])
  BY DEF ScopeMoves, ScopeMove
<1> DEFINE x == scp[s]
           list == Retain(x.fibers, Fibers \ Dead)
           r == [x EXCEPT !.fibers = list]
           n == [NewScope("Gone") EXCEPT !.done = r.done]
           goes == s # Root /\ r.state = "Disposed" /\ r.children = <<>> /\ r.fibers = <<>>
<1>1. x \in ScopeRec /\ x.fibers \in Seq(Fibers)
  BY Instances DEF GeneralInv, ScopeRec
<1>2. scp'[s] = IF goes THEN n ELSE r
  <2>1. scp' = [t \in Scopes |-> SweptScope(t)]
    BY Zenon DEF CollectGarbage
  <2>2. scp'[s] = SweptScope(s)
    BY <2>1
  <2> QED BY <2>2, Zenon DEF SweptScope
<1>3. \A g : Lists(list, g) <=> Lists(x.fibers, g) /\ g \in Fibers \ Dead
  BY <1>1, RetainProperties
<1> HIDE DEF list
<1>4. r.fibers = list /\ r.state = x.state /\ r.done = x.done /\ r.children = x.children
  BY <1>1 DEF ScopeRec
<1>5. /\ n.fibers = <<>> /\ n.state = "Gone" /\ n.done = r.done /\ n.children = <<>>
  BY DEF NewScope
<1> HIDE DEF r, n
<1>6. \A g : Lists(scp'[s].fibers, g) <=> Lists(list, g)
  BY <1>2, <1>4, <1>5
<1> QED BY <1>2, <1>3, <1>4, <1>5, <1>6 DEF Clearing, OnlyScope

LEMMA InstallLists ==
  ASSUME GeneralInv, NEW f \in Fibers, Install(f)
  PROVE  ScopeMoves
<1> DEFINE s == ScopeOf[f]
           y == [scp[s] EXCEPT !.fibers = Append(@, f)]
<1>1. s \in Scopes /\ scp \in [Scopes -> ScopeRec] /\ scp[s] \in ScopeRec
      /\ scp[s].state = "Active"
  BY LifecycleAssumption, Instances DEF GeneralInv, Install
<1>2. scp' = [scp EXCEPT ![s] = y]
  BY <1>1 DEF Install
<1>3. y.fibers = Append(scp[s].fibers, f) /\ OnlyScope({"fibers"}, scp[s], y)
  BY <1>1 DEF OnlyScope, ScopeRec
<1> HIDE DEF y
<1>4. Joining(s, scp[s], y)
  BY <1>1, <1>3 DEF Joining
<1> QED BY <1>1, <1>2, <1>4, OneScopeMove DEF ScopeMove

LEMMA FiberProcScopes ==
  ASSUME GeneralInv, NEW f \in Fibers,
         InstallStep(f) \/ ActivationStep(f) \/ BodyStep(f) \/ BodyCrash(f) \/ HostStep(f) \/ PluginStep(f)
  PROVE  ScopeMoves
<1>1. CASE InstallStep(f)
  <2>1. CASE InstallRemove(f)
    <3>1. CASE Registered(f)
      BY <2>1, <3>1, UnlinkMoves DEF InstallRemove
    <3>2. CASE ~Registered(f)
      BY <2>1, <3>2, StillScopes DEF InstallRemove
    <3> QED BY <3>1, <3>2
  <2>2. CASE InstallIndex(f) \/ InstallValidate(f) \/ InstallCheck(f) \/ InstallPark(f) \/ InstallReturn(f)
    <3>1. scp' = scp
      BY <2>2, Zenon DEF InstallIndex, InstallValidate, InstallCheck, InstallPark, InstallReturn
    <3> QED BY <3>1, StillScopes
  <2> QED BY <1>1, <2>1, <2>2 DEF InstallStep
<1>2. CASE ActivationStep(f) \/ PluginStep(f) \/ HostStep(f)
  <2>1. scp' = scp
    BY <1>2, Zenon DEF ActivationStep, Seal, Commit, ActivationDone, PluginStep, Provide, StartOk,
                       StartFails, HostStep, HostDispose, HostReturn
  <2> QED BY <2>1, StillScopes
<1>3. CASE BodyChildScope(f)
  <2>1. fib[f].kids \in Seq(Scopes) /\ fib[f].kids # <<>>
    BY <1>3, Records DEF FiberRec, BodyChildScope
  <2>2. Last(fib[f].kids) \in Scopes
    BY <2>1, FrontSeq
  <2>3. DisposeScope(Body(f), Last(fib[f].kids), FALSE) /\ ~At(Body(f), "idle")
    BY <1>3 DEF BodyChildScope, At
  <2> QED BY <2>2, <2>3, AskedMoves, FiberProcs
<1>4. CASE Detach(f)
  <2>1. CASE Detaches(f)
    BY <1>4, <2>1, UnlinkMoves DEF Detach
  <2>2. CASE ~Detaches(f)
    BY <1>4, <2>2, StillScopes DEF Detach
  <2> QED BY <2>1, <2>2
<1>5. ASSUME BodyStep(f) \/ BodyCrash(f), ~BodyChildScope(f), ~Detach(f)
      PROVE  ScopeMoves
  <2>1. ASSUME NEW failed \in BOOLEAN, BodyRelease(f, failed) PROVE scp' = scp
    BY <2>1, Zenon DEF BodyRelease
  <2>2. CASE BodyDecide(f) \/ BodyFinish(f) \/ Publish(f) \/ FinalizeVanished(f) \/ BodyCrash(f)
    BY <2>2, StillScopes, Zenon DEF BodyDecide, BodyFinish, Publish, FinalizeVanished, BodyCrash
  <2>3. CASE \/ BodyVanished(f) \/ BodyBegin(f) \/ BodyDrained(f) \/ BodyDrainTimeout(f)
             \/ BodyChildScopeDone(f) \/ BodyChildScopesDone(f)
    BY <2>3, StillScopes, Zenon
       DEF BodyVanished, BodyBegin, BodyDrained, BodyDrainTimeout, BodyChildScopeDone,
           BodyChildScopesDone
  <2> QED BY <1>5, <2>1, <2>2, <2>3, StillScopes DEF BodyStep
<1> QED BY <1>1, <1>2, <1>3, <1>4, <1>5 DEF BodyStep

LEMMA ScopeStepMoves ==
  ASSUME GeneralInv, NEW s \in Scopes, ScopeStep(s)
  PROVE  ScopeMoves
<1> DEFINE p == ScopeBody(s)
           b == proc[p]
<1>1. CASE ScopeSnapshot(s) \/ ScopeFiber(s) \/ ScopeMemberDone(s) \/ ScopeCall(s)
  BY <1>1, StillScopes, Zenon DEF ScopeSnapshot, ScopeFiber, ScopeMemberDone, ScopeCall
<1>2. CASE ScopeChild(s)
  <2>1. p \in Procs /\ b \in Frames
    BY ScopeProcs, Instances DEF GeneralInv
  <2>2. b.kids \in Seq(Scopes) /\ b.persist \in BOOLEAN
    BY <2>1, FrameFields
  <2>3. Last(b.kids) \in Scopes
    BY <1>2, <2>2, FrontSeq DEF ScopeChild
  <2> QED BY <1>2, <2>1, <2>2, <2>3, AskedMoves DEF ScopeChild, At
<1> QED BY <1>1, <1>2, ScopeEndingMoves DEF ScopeStep

LEMMA NextScopes ==
  ASSUME GeneralInv, [Next]_vars
  PROVE  ScopeMoves
<1>1. CASE UNCHANGED vars
  BY <1>1, StillScopes DEF vars
<1>2. ASSUME NEW p \in Procs, CallStep(p) PROVE ScopeMoves
  BY <1>2, StillScopes, Zenon DEF CallStep, Refused, Activate, FailActivation, Rollback
<1>3. ASSUME NEW p \in Reconcilers, ReconcileStep(p) PROVE ScopeMoves
  BY <1>3, StillScopes, Zenon
     DEF ReconcileStep, Collect, Pick, Judge, CallDispose, CandidateDone, ReconcileDone
<1>4. CASE Environment
  <2>1. /\ Leased \subseteq Fibers /\ Crashing \subseteq Fibers /\ Hosted \subseteq Fibers
        /\ Dropped \subseteq Fibers /\ Closing \subseteq Scopes /\ Root \in Scopes
    BY LifecycleAssumption
  <2>2. ASSUME NEW f \in Fibers, Install(f) PROVE ScopeMoves
    BY <2>2, InstallLists
  <2>3. ASSUME NEW s \in Scopes, CreateScope(s) PROVE ScopeMoves
    BY <2>3, InsertMoves DEF CreateScope
  <2>4. ASSUME NEW s \in Scopes, ContextCreateScope(s) PROVE ScopeMoves
    <3>1. s # Root
      BY <2>4, LifecycleAssumption DEF ContextCreateScope, InsertScope
    <3> QED BY <2>4, <3>1, InsertMoves DEF ContextCreateScope
  <2>5. ASSUME NEW f \in Dropped, NEW w \in BOOLEAN, ClientDisposeFiber(f, w) PROVE ScopeMoves
    BY <2>5, StillScopes DEF ClientDisposeFiber
  <2>6. ASSUME NEW s \in Closing, ClientDisposeScope(s) PROVE ScopeMoves
    BY <2>1, <2>6, AskedMoves, NoneAssumption DEF ClientDisposeScope
  <2>7. ASSUME NEW f \in Leased, Lease(f) \/ DropLease(f) PROVE ScopeMoves
    BY <2>7, StillScopes, Zenon DEF Lease, DropLease
  <2>8. ASSUME NEW f \in Crashing, BodyCrash(f) PROVE ScopeMoves
    BY <2>1, <2>8, FiberProcScopes
  <2>9. ASSUME NEW f \in Hosted, HostFailure(f) PROVE ScopeMoves
    BY <2>9, StillScopes, Zenon DEF HostFailure
  <2>10. CASE BeginShutdown
    BY <2>10, StillScopes DEF BeginShutdown
  <2>11. CASE ShutdownRoot
    BY <2>1, <2>11, AskedMoves, NoneAssumption DEF ShutdownRoot
  <2>12. CASE CollectGarbage
    BY <2>12, ClearingMoves
  <2> QED BY <1>4, <2>2, <2>3, <2>4, <2>5, <2>6, <2>7, <2>8, <2>9, <2>10, <2>11, <2>12
          DEF Environment
<1> QED BY <1>1, <1>2, <1>3, <1>4, FiberProcScopes, ScopeStepMoves DEF Next

\* A Scope's disposal body starts with its record and ends with it.
LEMMA BodyStarts ==
  ASSUME GeneralInv, [Next]_vars, NEW s \in Scopes
  PROVE  \/ At(ScopeBody(s), "idle") <=> At(ScopeBody(s), "idle")'
         \/ ScopePublish(s)
         \/ /\ scp[s].state = "Active" /\ scp'[s].state = "Disposing"
            /\ proc'[ScopeBody(s)] = [Idle EXCEPT !.pc = "snapshot"]
<1> DEFINE q == ScopeBody(s)
           b == proc[q]
           c == proc'[q]
<1>1. q \in Procs /\ q[1] = "scope"
  BY ScopeProcs
<1>2. FrameMove(q, b, c)
  BY <1>1, NextFrames DEF FrameMoves
<1>3. CASE c = b
  BY <1>3 DEF At
<1>4. CASE Asking(q, b, c)
  <2>1. b.pc # "idle" /\ c.pc \in {"wait", "back"}
    BY <1>1, <1>4, AskedAnswer DEF Asking
  <2> QED BY <2>1 DEF At
<1>5. CASE Answering(b, c)
  <2>1. b.pc = "wait" /\ c.pc = "back"
    BY <1>1, <1>5, AnsweredWait
  <2> QED BY <2>1 DEF At
<1>6. CASE Going(q, b, c)
  <2>1. Disposing(s, b, c)
    BY <1>6 DEF Going
  <2> QED BY <2>1 DEF Disposing, At
<1> QED BY <1>1, <1>2, <1>3, <1>4, <1>5, <1>6 DEF FrameMove, Returning

LEMMA ScopeStatesNext ==
  ASSUME GeneralInv, [Next]_vars PROVE ScopeStates'
<1> SUFFICES ASSUME NEW s \in Scopes PROVE ScopeOK(scp'[s], proc'[ScopeBody(s)])
  BY DEF ScopeStates
<1> DEFINE x == scp[s]
           y == scp'[s]
           b == proc[ScopeBody(s)]
           c == proc'[ScopeBody(s)]
<1>1. ScopeOK(x, b) /\ ScopeMove(s, x, y) /\ ScopeBody(s) \in Procs
  BY NextScopes, ScopeProcs DEF GeneralInv, ScopeStates, ScopeMoves
<1>2. CASE ScopePublish(s)
  <2>1. scp \in [Scopes -> ScopeRec] /\ scp[s] \in ScopeRec
    BY Instances DEF GeneralInv
  <2>2. y = [x EXCEPT !.state = IF b.bad THEN "Terminated" ELSE "Disposed", !.done = ScopeResult(b)]
    BY <1>2 DEF ScopePublish
  <2>3. y.state = (IF b.bad THEN "Terminated" ELSE "Disposed") /\ y.done = ScopeResult(b)
    BY <2>1, <2>2 DEF ScopeRec
  <2>4. c = Idle
    BY <1>1, <1>2 DEF ScopePublish, Deliver
  <2> QED BY <2>3, <2>4 DEF ScopeOK, ScopeResult, Idle
<1>3. CASE ~ScopePublish(s)
  <2>1. \/ (b.pc = "idle") <=> (c.pc = "idle")
        \/ x.state = "Active" /\ y.state = "Disposing" /\ c.pc # "idle"
    BY <1>3, BodyStarts DEF At, Idle
  <2>2. x.state = "Active" => b.pc = "idle"
    BY <1>1 DEF ScopeOK
  <2>3. Asked(s, x, y) => c.pc # "idle" /\ b.pc = "idle"
    BY <2>2 DEF Asked, At, Idle
  <2>4. CASE OnlyScope({}, x, y) \/ Joining(s, x, y) \/ Unlinking(s, x, y) \/ Clearing(x, y)
    BY <1>1, <2>1, <2>4 DEF ScopeOK, OnlyScope, Joining, Unlinking, Clearing
  <2>5. CASE Born(s, x, y)
    BY <1>1, <2>1, <2>5 DEF ScopeOK, Born, NewScope
  <2>6. CASE Asked(s, x, y)
    BY <1>1, <2>3, <2>6 DEF ScopeOK, OnlyScope, Asked
  <2> QED BY <1>1, <1>3, <2>4, <2>5, <2>6 DEF ScopeMove, ScopeEnding
<1> QED BY <1>2, <1>3

\* What a Fiber and a Scope are when the behaviour begins.
LEMMA BootRecords ==
  ASSUME Init
  PROVE  /\ \A p \in Procs : proc[p] = Idle
         /\ \A f \in Fibers : f \notin Elements(BootFibers) => fib[f] = NewFiber
         /\ \A f \in Elements(BootFibers) :
              /\ f \in Fibers /\ fib[f].disposal = NewDisposal /\ fib[f].indexed /\ ~fib[f].lease
              /\ fib[f].state = IF f \in Running THEN "Active" ELSE "Waiting"
              /\ fib[f].reg = IF f \in Running THEN Provides[f] ELSE {}
              /\ fib[f].visible <=> f \in Running
              /\ fib[f].kids = Retain(BootScopes, {s \in Scopes : Owner[s] = f})
         /\ \A s \in Scopes : s \notin Elements(BootScopes) \cup {Root} => scp[s] = NewScope("Absent")
         /\ \A s \in Elements(BootScopes) \cup {Root} :
              /\ s \in Scopes /\ scp[s].state = "Active" /\ scp[s].done = "none"
              /\ scp[s].children = Retain(BootScopes, {x \in Scopes : Parent[x] = s})
              /\ scp[s].fibers = Retain(BootFibers, {f \in Fibers : ScopeOf[f] = s})
<1>1. Elements(BootFibers) \subseteq Fibers /\ Elements(BootScopes) \cup {Root} \subseteq Scopes
  <2>1. BootFibers \in Seq(Fibers) /\ BootScopes \in Seq(Scopes) /\ Root \in Scopes
    BY LifecycleAssumption
  <2> QED BY <2>1 DEF Elements
<1>2. /\ \A p \in Procs : proc[p] = Idle
      /\ \A f \in Fibers : fib[f] = IF f \in Elements(BootFibers) THEN BootedFiber(f) ELSE NewFiber
      /\ \A s \in Scopes : scp[s] = IF s \in Elements(BootScopes) \cup {Root}
                                      THEN BootedScope(s) ELSE NewScope("Absent")
  BY DEF Init
<1>3. ASSUME NEW f
      PROVE  /\ BootedFiber(f).disposal = NewDisposal /\ BootedFiber(f).indexed
             /\ ~BootedFiber(f).lease
             /\ BootedFiber(f).state = IF f \in Running THEN "Active" ELSE "Waiting"
             /\ BootedFiber(f).reg = IF f \in Running THEN Provides[f] ELSE {}
             /\ BootedFiber(f).visible <=> f \in Running
             /\ BootedFiber(f).kids = Retain(BootScopes, {s \in Scopes : Owner[s] = f})
  BY DEF BootedFiber, NewFiber
<1>4. ASSUME NEW s
      PROVE  /\ BootedScope(s).state = "Active" /\ BootedScope(s).done = "none"
             /\ BootedScope(s).children = Retain(BootScopes, {x \in Scopes : Parent[x] = s})
             /\ BootedScope(s).fibers = Retain(BootFibers, {f \in Fibers : ScopeOf[f] = s})
  BY DEF BootedScope, NewScope
<1>5. ASSUME NEW f \in Elements(BootFibers) PROVE f \in Fibers /\ fib[f] = BootedFiber(f)
  BY <1>1, <1>2, <1>5
<1>6. ASSUME NEW s \in Elements(BootScopes) \cup {Root} PROVE s \in Scopes /\ scp[s] = BootedScope(s)
  BY <1>1, <1>2, <1>6
<1>7. \A f \in Elements(BootFibers) :
        /\ f \in Fibers /\ fib[f].disposal = NewDisposal /\ fib[f].indexed /\ ~fib[f].lease
        /\ fib[f].state = IF f \in Running THEN "Active" ELSE "Waiting"
        /\ fib[f].reg = IF f \in Running THEN Provides[f] ELSE {}
        /\ fib[f].visible <=> f \in Running
        /\ fib[f].kids = Retain(BootScopes, {s \in Scopes : Owner[s] = f})
  <2> TAKE f \in Elements(BootFibers)
  <2>1. f \in Fibers /\ fib[f] = BootedFiber(f)
    BY <1>5
  <2> QED BY <1>3, <2>1
<1>8. \A s \in Elements(BootScopes) \cup {Root} :
        /\ s \in Scopes /\ scp[s].state = "Active" /\ scp[s].done = "none"
        /\ scp[s].children = Retain(BootScopes, {x \in Scopes : Parent[x] = s})
        /\ scp[s].fibers = Retain(BootFibers, {f \in Fibers : ScopeOf[f] = s})
  <2> TAKE s \in Elements(BootScopes) \cup {Root}
  <2>1. s \in Scopes /\ scp[s] = BootedScope(s)
    BY <1>6
  <2> QED BY <1>4, <2>1
<1> QED BY <1>2, <1>7, <1>8

LEMMA GeneralInit == Init => GeneralInv
<1> SUFFICES ASSUME Init PROVE GeneralInv
  OBVIOUS
<1>1. LifecycleInv
  BY InitOK
<1>2. NewFiber.disposal = NewDisposal /\ NewFiber.state = "Absent"
      /\ NewScope("Absent").state = "Absent" /\ NewScope("Absent").done = "none"
      /\ Idle.pc = "idle"
  BY DEF NewFiber, NewScope, Idle
<1>4. ASSUME NEW f \in Fibers PROVE StateOK(fib[f], proc[Body(f)])
  <2>1. proc[Body(f)] = Idle
    BY BootRecords, FiberProcs
  <2>2. fib[f].disposal = NewDisposal /\ fib[f].state \in {"Absent", "Active", "Waiting"}
    <3>1. CASE f \in Elements(BootFibers)
      BY <3>1, BootRecords
    <3>2. CASE f \notin Elements(BootFibers)
      BY <1>2, <3>2, BootRecords
    <3> QED BY <3>1, <3>2
  <2> QED BY <1>2, <2>1, <2>2 DEF StateOK, NewDisposal
<1>5. ASSUME NEW s \in Scopes PROVE ScopeOK(scp[s], proc[ScopeBody(s)])
  <2>1. proc[ScopeBody(s)] = Idle
    BY BootRecords, ScopeProcs
  <2>2. scp[s].state \in {"Absent", "Active"} /\ scp[s].done = "none"
    <3>1. CASE s \in Elements(BootScopes) \cup {Root}
      BY <3>1, BootRecords
    <3>2. CASE s \notin Elements(BootScopes) \cup {Root}
      BY <1>2, <3>2, BootRecords
    <3> QED BY <3>1, <3>2
  <2> QED BY <1>2, <2>1, <2>2 DEF ScopeOK
<1>6. Replies
  BY <1>2, BootRecords DEF Replies, At
<1> QED BY <1>1, <1>4, <1>5, <1>6 DEF GeneralInv, States, ScopeStates

LEMMA GeneralNext == GeneralInv /\ [Next]_vars => GeneralInv'
BY NextOK, StatesNext, ScopeStatesNext, RepliesNext DEF GeneralInv

(***************************************************************************)
(* Whatever the runtime does, a committed disposal is Disposed only with   *)
(* its completion, every completion has a result and a Terminated one is   *)
(* no success, and a Scope is being disposed exactly while its body runs.  *)
(***************************************************************************)
THEOREM GeneralInvariant == Spec => []GeneralInv
BY GeneralInit, GeneralNext, PTL DEF Spec

-----------------------------------------------------------------------------
(***************************************************************************)
(* Nothing left behind.  An activation that begins while a disposal of an  *)
(* earlier life of the Fiber is still being worked on, or ended without    *)
(* being committed, shares the record with it; that matters for a Fiber    *)
(* that registers anything.                                                *)
(***************************************************************************)
Registrant(f) == Provides[f] # {} \/ f \in Leased \/ \E s \in Scopes : Owner[s] = f

\* No such Fiber is activated while a disposal of it is not committed.
ActivatesClean ==
  \A p \in Procs : Activate(p) /\ Registrant(proc[p].tgt) =>
    fib[proc[p].tgt].disposal.phase \in {"Idle", "Complete"}

Empty(x) == x.reg = {} /\ x.kids = <<>> /\ ~x.lease

\* When the record x of Fiber f, whose body is at b, holds nothing.
CleanOK(f, x, b) ==
  /\ ~Registrant(f) => Empty(x)
  /\ Registrant(f) =>
       /\ x.disposal.phase \notin {"Idle", "Complete"} => x.state \in {"Disposing", "Waiting", "Gone"}
       /\ x.disposal.phase = "Complete" => x.state \in {"Waiting", "Disposed", "Gone"}
       /\ x.state \in {"Absent", "Created", "Disposed"} => Empty(x)
       /\ x.state = "Waiting" /\ x.disposal.phase \in {"Idle", "Complete"} => Empty(x)
       /\ b.pc = "release" => x.kids = <<>>
       /\ b.pc = "decide" \/ Decided(b) => Empty(x)

\* A move that changes nothing CleanOK speaks of, but for what is given up.
LEMMA CleanSame ==
  ASSUME NEW f, NEW x, NEW b, NEW y, NEW c, CleanOK(f, x, b),
         \/ y.disposal.phase = x.disposal.phase
         \/ /\ x.disposal.phase \notin {"Idle", "Complete"}
            /\ y.disposal.phase \notin {"Idle", "Complete"},
         \/ y.state \in {x.state, "Gone"}
         \/ y.state = "Failed" /\ x.disposal.phase = "Idle",
         y.reg = x.reg, y.kids = x.kids, y.lease => x.lease,
         c.pc = "release" => b.pc = "release",
         c.pc = "decide" \/ Decided(c) => b.pc = "decide" \/ Decided(b)
  PROVE  CleanOK(f, y, c)
BY DEF CleanOK, Empty

LEMMA NotDecided ==
  ASSUME NEW b, b.pc \in {"idle", "queue", "drain", "kids", "release", "decide"}
  PROVE  ~Decided(b)
BY DEF Decided, Reconciling, Calling

LEMMA AlongClean ==
  ASSUME NEW b, NEW c, Along(b, c)
  PROVE  /\ c.pc = "release" => b.pc = "release"
         /\ c.pc = "decide" \/ Decided(c) => b.pc = "decide" \/ Decided(b)
BY DEF Along, Reconciling, Calling

LEMMA CleanKept ==
  ASSUME NEW f \in Fibers, NEW x \in FiberRec, NEW b \in Frames, NEW y, NEW c,
         BodyOK(x, b), VisibleOK(f, x), LeaseOK(f, x, b), StateOK(x, b), CleanOK(f, x, b),
         FiberMove(f, x, y, b, c),
         (\E p \in Procs : Activate(p) /\ proc[p].tgt = f) /\ Registrant(f) =>
           x.disposal.phase \in {"Idle", "Complete"}
  PROVE  CleanOK(f, y, c)
<1>1. x.kids \in Seq(Scopes) /\ Fibers \cap Scopes = {}
  <2>1. x.kids \in Seq(Scopes)
    BY DEF FiberRec
  <2> QED BY <2>1, LifecycleAssumption
<1>2. CASE Rest(x, y, b, c)
  <2>1. /\ c.pc = "release" => b.pc = "release"
        /\ c.pc = "decide" \/ Decided(c) => b.pc = "decide" \/ Decided(b)
    BY <1>2, AlongClean DEF Rest
  <2>2. /\ y.disposal.phase = x.disposal.phase /\ y.state = x.state /\ y.reg = x.reg
        /\ y.kids = x.kids /\ y.lease = x.lease
    BY <1>2 DEF Rest, Only
  <2> QED BY <2>1, <2>2, CleanSame
<1>3. CASE Created(x, y, b, c)
  <2>1. y.disposal.phase = "Idle" /\ y.state = "Created" /\ y.reg = {} /\ y.kids = <<>> /\ ~y.lease
    BY <1>3 DEF Created, NewFiber, NewDisposal
  <2>2. b.pc = "idle" /\ c = b
    BY <1>3 DEF Created, StateOK, BodyOK
  <2>3. Empty(y) /\ ~Decided(c) /\ c.pc = "idle"
    BY <2>1, <2>2, NotDecided DEF Empty
  <2> QED BY <2>1, <2>3 DEF CleanOK
<1>4. CASE Indexed(x, y, b, c)
  BY <1>4, CleanSame DEF Indexed, Only
<1>5. CASE Removed(x, y, b, c)
  BY <1>5, CleanSame DEF Removed, Only
<1>6. CASE Parked(x, y, b, c)
  <2>1. x.state = "Created" => x.disposal.phase = "Idle"
    BY DEF StateOK
  <2>2. x.state = "Disposing" => x.disposal.phase # "Idle"
    BY DEF StateOK
  <2> QED BY <1>6, <2>1, <2>2 DEF Parked, Only, CleanOK, Empty
<1>7. CASE Begun(x, y, b, c)
  <2>1. c.pc = "queue"
    BY <1>7 DEF Begun, Idle
  <2> QED BY <1>7, <2>1 DEF Begun, Only, CleanOK, Empty, Decided, Reconciling, Calling
<1>8. CASE (\E p \in Procs : Activate(p) /\ proc[p].tgt = f) /\ Started(x, y, b, c)
  <2>1. y.state = "Starting" /\ y.reg = x.reg /\ y.kids = x.kids /\ y.lease = x.lease /\ c = b
    BY <1>8 DEF Started, Only
  <2>2. CASE ~Registrant(f)
    BY <2>1, <2>2 DEF CleanOK, Empty
  <2>3. CASE Registrant(f)
    <3>1. x.disposal.phase \in {"Idle", "Complete"} /\ b.pc = "idle"
      BY <1>8, <2>3 DEF BodyOK
    <3>2. y.disposal.phase = "Idle"
      BY <1>8, <2>3, <3>1 DEF Started, CleanOK, NewDisposal, StateOK
    <3> QED BY <2>1, <2>3, <3>1, <3>2 DEF CleanOK, Decided, Reconciling, Calling
  <2> QED BY <2>2, <2>3
<1>9. CASE Committing(f, x, y, b, c)
  BY <1>9 DEF Committing, Only, CleanOK, Empty, StateOK, BodyOK
<1>10. CASE FailedMove(x, y, b, c)
  <2>1. CASE ~Registrant(f)
    BY <1>10, <2>1 DEF FailedMove, Only, CleanOK, Empty
  <2>2. CASE Registrant(f)
    <3>1. x.disposal.phase = "Idle"
      BY <1>10, <2>2 DEF FailedMove, CleanOK
    <3> QED BY <1>10, <3>1, AlongClean, CleanSame DEF FailedMove, Only
  <2> QED BY <2>1, <2>2
\* What only the start of a registrant does.
<1>11. CASE \/ Providing(f, x, y, b, c) \/ Adopting(f, x, y, b, c)
            \/ (Leasing(f, x, y, b, c) /\ y.lease)
  <2>1. Registrant(f) /\ c = b
    BY <1>11 DEF Providing, Adopting, Leasing, Registrant
  <2>2. /\ x.state \notin {"Absent", "Created", "Waiting", "Disposed"}
        /\ y.state = x.state /\ y.disposal.phase = x.disposal.phase
    BY <1>11 DEF Providing, Adopting, Leasing, Only, VisibleOK
  <2>3. b.pc = "idle"
    BY <1>11, <2>1 DEF Providing, Adopting, Leasing, VisibleOK, CleanOK, BodyOK
  <2>4. ~Decided(c) /\ c.pc = "idle"
    BY <2>1, <2>3, NotDecided
  <2> QED BY <2>1, <2>2, <2>4 DEF CleanOK
<1>12. CASE Leasing(f, x, y, b, c) /\ ~y.lease
  BY <1>12, CleanSame DEF Leasing, Only
<1>13. CASE Sweeping(x, y, b, c)
  BY <1>13, CleanSame DEF Sweeping, Only
<1>14. CASE Draining(x, y, b, c) \/ Drained(x, y, b, c) \/ AskingScope(x, y, b, c)
  <2>1. x.disposal.phase \notin {"Idle", "Complete"}
    BY <1>14 DEF Draining, Drained, AskingScope, BodyOK
  <2>2. /\ y.disposal.phase \notin {"Idle", "Complete"}
        /\ y.state = x.state /\ y.reg = x.reg /\ y.kids = x.kids /\ y.lease = x.lease
    BY <1>14, <2>1 DEF Draining, Drained, AskingScope, Only
  <2>3. c.pc # "release" /\ c.pc # "decide" /\ ~Decided(c)
    BY <1>1, <1>14 DEF Draining, Drained, AskingScope, Decided, Reconciling, Calling, Frames
  <2> QED BY <2>1, <2>2, <2>3 DEF CleanOK, Empty
<1>15. CASE ScopeDone(x, y, b, c)
  <2>1. x.disposal.phase \notin {"Idle", "Complete"}
    BY <1>15 DEF ScopeDone, BodyOK
  <2>2. c.pc = "kids" /\ y.disposal.phase = x.disposal.phase /\ y.state = x.state
        /\ y.reg = x.reg /\ y.lease = x.lease /\ y.kids = Without(x.kids, b.tgt)
    BY <1>15 DEF ScopeDone, Only, Idle
  <2>3. x.kids = <<>> => y.kids = <<>>
    <3> SUFFICES ASSUME x.kids = <<>>, y.kids # <<>> PROVE FALSE
      OBVIOUS
    <3>1. y.kids \in Seq(Scopes) /\ \A t : Lists(y.kids, t) => Lists(x.kids, t)
      <4>1. /\ Without(x.kids, b.tgt) \in Seq(Scopes)
            /\ \A t : Lists(Without(x.kids, b.tgt), t) <=> Lists(x.kids, t) /\ t # b.tgt
        BY <1>1, WithoutProperties, Zenon
      <4> QED BY <2>2, <4>1
    <3>2. 1 \in DOMAIN y.kids
      BY <3>1
    <3>3. Lists(y.kids, y.kids[1])
      BY <3>2 DEF Lists
    <3>4. ~Lists(<<>>, y.kids[1])
      BY DEF Lists
    <3> QED BY <3>1, <3>3, <3>4
  <2>4. CASE ~Registrant(f)
    BY <2>2, <2>3, <2>4 DEF CleanOK, Empty
  <2>5. CASE Registrant(f)
    BY <2>1, <2>2, <2>5, <1>15 DEF CleanOK, ScopeDone, Decided, Reconciling, Calling, StateOK
  <2> QED BY <2>4, <2>5
<1>16. CASE ScopesDone(x, y, b, c) \/ Releasing(x, y, b, c)
  <2>1. x.disposal.phase \notin {"Idle", "Complete"}
    BY <1>16 DEF ScopesDone, Releasing, BodyOK
  <2>2. y.disposal.phase \notin {"Idle", "Complete"} /\ y.state = x.state /\ y.lease = x.lease
        /\ y.kids = x.kids /\ y.reg \in {x.reg, {}}
    BY <1>16, <2>1 DEF ScopesDone, Releasing, Only
  <2>3. CASE ScopesDone(x, y, b, c)
    <3>1. c.pc = "release" /\ y.kids = <<>> /\ y.reg = x.reg
      BY <2>3 DEF ScopesDone, Frames, Only
    <3> QED BY <2>1, <2>2, <3>1 DEF CleanOK, Empty, Decided, Reconciling, Calling
  <2>4. CASE Releasing(x, y, b, c)
    <3>1. c.pc = "decide" /\ ~x.lease /\ y.reg = {}
      BY <2>4 DEF Releasing, LeaseOK, Outside
    <3>2. Registrant(f) => y.kids = <<>>
      BY <2>2, <2>4 DEF Releasing, CleanOK
    <3> QED BY <2>1, <2>2, <3>1, <3>2 DEF CleanOK, Empty
  <2> QED BY <1>16, <2>3, <2>4
<1>17. CASE Deciding(x, y, b, c) \/ Finishing(x, y, b, c) \/ (Detach(f) /\ Detaching(x, y, b, c))
  <2>1. x.disposal.phase \notin {"Idle", "Complete"}
    BY <1>17 DEF Deciding, Finishing, Detaching, BodyOK
  <2>2. y.disposal.phase \notin {"Idle", "Complete"} /\ y.state = x.state /\ y.lease = x.lease
        /\ y.kids = x.kids /\ y.reg = x.reg
    BY <1>17, <2>1 DEF Deciding, Finishing, Detaching, Only
  <2>3. c.pc # "release" /\ (c.pc = "decide" \/ Decided(c) => b.pc = "decide" \/ Decided(b))
    BY <1>17 DEF Deciding, Finishing, Detaching, Decided, Reconciling, Calling
  <2> QED BY <2>1, <2>2, <2>3, CleanSame
<1>18. CASE Quitting(x, y, b, c)
  BY <1>18, CleanSame DEF Quitting, Only, Decided, Reconciling, Calling
<1>19. CASE Publish(f) /\ Publishing(x, y, b, c)
  <2>1. x.disposal.phase \notin {"Idle", "Complete"} /\ c.pc = "idle"
    BY <1>19 DEF Publishing, BodyOK, Idle
  <2>2. y.reg = x.reg /\ y.kids = x.kids /\ y.lease = x.lease
    BY <1>19 DEF Publishing, Only
  <2>3. CASE b.bad
    BY <1>19, <2>1, <2>2, <2>3 DEF Publishing, CleanOK, Empty, Decided, Reconciling, Calling, StateOK
  <2>4. CASE ~b.bad
    <3>1. Decided(b) /\ y.state \in {"Waiting", "Disposed"} /\ y.disposal.phase = "Complete"
      BY <1>19, <2>4 DEF Publishing, Decided, BodyOK
    <3> QED BY <2>1, <2>2, <3>1 DEF CleanOK, Empty, Decided, Reconciling, Calling
  <2> QED BY <2>3, <2>4
<1>20. CASE Vanishing(x, y, b, c)
  <2>1. c.pc = "idle" /\ y.state = "Gone" /\ y.disposal.phase = x.disposal.phase
        /\ y.reg = x.reg /\ y.kids = x.kids /\ y.lease = x.lease
    BY <1>20 DEF Vanishing, Only, Idle
  <2> QED BY <2>1, CleanSame DEF Decided, Reconciling, Calling
<1> QED BY <1>2, <1>3, <1>4, <1>5, <1>6, <1>7, <1>8, <1>9, <1>10, <1>11, <1>12, <1>13, <1>14,
           <1>15, <1>16, <1>17, <1>18, <1>19, <1>20 DEF FiberMove, OtherMove, BodyMove, Leasing

\* The Scopes that the plugin of Fiber f created, and the one its body waited for.
KidsOK(f) ==
  /\ \A s \in Scopes : Owner[s] = f /\ scp[s].state \in {"Active", "Disposing"} => Lists(fib[f].kids, s)
  /\ \A s \in Scopes : Lists(fib[f].kids, s) => Owner[s] = f /\ scp[s].state # "Absent"
  /\ At(Body(f), "back") /\ proc[Body(f)].tgt \in Scopes =>
       scp[proc[Body(f)].tgt].state \in {"Disposed", "Terminated", "Gone"}

Clean == \A f \in Fibers : CleanOK(f, fib[f], proc[Body(f)])
Kids == \A f \in Fibers : KidsOK(f)
CleanInv == GeneralInv /\ Clean /\ Kids

\* The life of a Scope: it is created once, and what has ended remains so.
LEMMA ScopeLife ==
  ASSUME GeneralInv, [Next]_vars, NEW s \in Scopes
  PROVE  /\ scp'[s].state \in {"Active", "Disposing"} =>
              scp[s].state \in {"Active", "Disposing"} \/ CreateScope(s) \/ ContextCreateScope(s)
         /\ scp[s].state # "Absent" => scp'[s].state # "Absent"
         /\ scp[s].state \in {"Disposed", "Terminated", "Gone"} =>
              scp'[s].state \in {"Disposed", "Terminated", "Gone"}
         /\ ScopePublish(s) => scp'[s].state \in {"Disposed", "Terminated"}
<1>1. ScopeMove(s, scp[s], scp'[s])
  BY NextScopes DEF ScopeMoves
<1>2. scp \in [Scopes -> ScopeRec] /\ scp[s] \in ScopeRec /\ ScopeOK(scp[s], proc[ScopeBody(s)])
  BY Instances DEF GeneralInv, ScopeStates
<1>3. ScopeEnding(s, scp[s], scp'[s]) => scp[s].state = "Disposing"
  BY <1>2 DEF ScopeEnding, ScopeOK
<1>4. ScopePublish(s) => scp'[s].state \in {"Disposed", "Terminated"}
  <2>1. ASSUME ScopePublish(s) PROVE scp'[s].state \in {"Disposed", "Terminated"}
    <3>1. scp'[s] = [scp[s] EXCEPT !.state = IF proc[ScopeBody(s)].bad THEN "Terminated" ELSE "Disposed",
                                   !.done = ScopeResult(proc[ScopeBody(s)])]
      BY <2>1 DEF ScopePublish
    <3> QED BY <1>2, <3>1 DEF ScopeRec
  <2> QED BY <2>1
<1>5. CASE ScopeEnding(s, scp[s], scp'[s])
  BY <1>3, <1>4, <1>5 DEF ScopeEnding
<1>6. CASE Born(s, scp[s], scp'[s])
  BY <1>4, <1>6 DEF Born, NewScope
<1>7. CASE ~ScopeEnding(s, scp[s], scp'[s]) /\ ~Born(s, scp[s], scp'[s])
  BY <1>1, <1>4, <1>7 DEF ScopeMove, OnlyScope, Joining, Asked, Unlinking, Clearing
<1> QED BY <1>5, <1>6, <1>7

\* A Scope that a plugin creates is listed with its Fiber.
LEMMA ContextCreates ==
  ASSUME GeneralInv, NEW s \in Scopes, ContextCreateScope(s)
  PROVE  /\ Owner[s] \in Fibers /\ scp[s].state = "Absent" /\ scp'[s].state = "Active"
         /\ \A f \in Fibers : fib'[f].kids = IF f = Owner[s] THEN Append(fib[f].kids, s) ELSE fib[f].kids
         /\ proc' = proc
<1>1. Owner[s] \in Fibers /\ Parent[s] \in Scopes \cup {NONE} /\ Owner[s] # NONE
  BY LifecycleAssumption DEF ContextCreateScope
<1>2. fib \in [Fibers -> FiberRec] /\ scp \in [Scopes -> ScopeRec]
  BY Instances DEF GeneralInv
<1>3. /\ scp[s].state = "Absent" /\ proc' = proc
      /\ fib' = [fib EXCEPT ![Owner[s]].kids = Append(@, s)]
  BY DEF ContextCreateScope, InsertScope
<1>4. \A f \in Fibers : fib'[f].kids = IF f = Owner[s] THEN Append(fib[f].kids, s) ELSE fib[f].kids
  BY <1>1, <1>2, <1>3 DEF FiberRec
<1>5. s # Root
  BY LifecycleAssumption DEF ContextCreateScope, InsertScope
<1>6. ScopeMoves
  BY <1>5, InsertMoves DEF ContextCreateScope
<1>7. scp'[s].state = "Active"
  BY <1>1, <1>2 DEF ContextCreateScope, InsertScope, NewScope, ScopeRec
<1> QED BY <1>1, <1>3, <1>4, <1>7

LEMMA AppendLists ==
  ASSUME NEW T, NEW list \in Seq(T), NEW t
  PROVE  \A x : Lists(Append(list, t), x) <=> Lists(list, x) \/ x = t
<1> DEFINE l == Append(list, t)
<1>1. DOMAIN l = 1..(Len(list) + 1) /\ DOMAIN list = 1..Len(list) /\ Len(list) \in Nat
  OBVIOUS
<1>2. l[Len(list) + 1] = t /\ \A i \in 1..Len(list) : l[i] = list[i]
  OBVIOUS
<1> HIDE DEF l
<1>3. ASSUME NEW x, Lists(l, x) PROVE Lists(list, x) \/ x = t
  BY <1>1, <1>2, <1>3 DEF Lists
<1>4. ASSUME NEW x, Lists(list, x) \/ x = t PROVE Lists(l, x)
  BY <1>1, <1>2, <1>4 DEF Lists
<1> QED BY <1>3, <1>4 DEF l

LEMMA KidsNext ==
  ASSUME CleanInv, [Next]_vars
  PROVE  Kids'
<1> SUFFICES ASSUME NEW f \in Fibers PROVE KidsOK(f)'
  BY DEF Kids
<1> DEFINE x == fib[f]
           y == fib'[f]
           b == proc[Body(f)]
           c == proc'[Body(f)]
<1>1. /\ GeneralInv /\ KidsOK(f) /\ CleanOK(f, x, b) /\ x \in FiberRec /\ b \in Frames
      /\ x.kids \in Seq(Scopes) /\ f \notin Scopes /\ f # NONE
  <2>1. GeneralInv /\ KidsOK(f) /\ CleanOK(f, x, b)
    BY DEF CleanInv, Clean, Kids
  <2>2. x \in FiberRec /\ b \in Frames
    BY <2>1, Records
  <2>3. f \notin Scopes /\ f # NONE
    BY LifecycleAssumption
  <2> QED BY <2>1, <2>2, <2>3 DEF FiberRec
<1>2. FiberMove(f, x, y, b, c)
  BY <1>1, NextMoves DEF FiberMoves
<1>3. FrameMove(Body(f), b, c) /\ Body(f) \in Procs
  BY <1>1, NextFrames, FiberProcs DEF FrameMoves
\* What becomes of the list.
<1>4. \/ y.kids = x.kids
      \/ x.state = "Absent" /\ y.kids = <<>>
      \/ \E s \in Scopes : ContextCreateScope(s) /\ Owner[s] = f /\ y.kids = Append(x.kids, s)
      \/ /\ b.pc = "back" /\ b.tgt \in Scopes /\ y.kids = Without(x.kids, b.tgt)
  <2>1. Created(x, y, b, c) => x.state = "Absent" /\ y.kids = <<>>
    BY DEF Created, NewFiber
  <2>2. ASSUME \/ Rest(x, y, b, c) \/ Indexed(x, y, b, c) \/ Removed(x, y, b, c) \/ Parked(x, y, b, c)
               \/ Committing(f, x, y, b, c) \/ FailedMove(x, y, b, c) \/ Providing(f, x, y, b, c)
               \/ Leasing(f, x, y, b, c) \/ Sweeping(x, y, b, c)
       PROVE  y.kids = x.kids
    BY <2>2 DEF Rest, Indexed, Removed, Parked, Committing, FailedMove, Providing, Leasing, Sweeping, Only
  <2>3. ASSUME Begun(x, y, b, c) \/ Started(x, y, b, c)
       PROVE  y.kids = x.kids
    BY <2>3, Zenon DEF Begun, Started, Only
  <2>4. ASSUME \/ AskingScope(x, y, b, c) \/ Releasing(x, y, b, c) \/ Deciding(x, y, b, c)
               \/ Finishing(x, y, b, c) \/ Quitting(x, y, b, c) \/ Detaching(x, y, b, c)
               \/ Publishing(x, y, b, c) \/ Vanishing(x, y, b, c)
       PROVE  y.kids = x.kids
    BY <2>4 DEF AskingScope, Releasing, Deciding, Finishing, Quitting, Detaching, Publishing, Vanishing, Only
  <2>5. ASSUME Draining(x, y, b, c) \/ Drained(x, y, b, c) \/ ScopesDone(x, y, b, c)
       PROVE  y.kids = x.kids
    BY <2>5 DEF Draining, Drained, ScopesDone, Only
  <2>6. Adopting(f, x, y, b, c) =>
          \E s \in Scopes : ContextCreateScope(s) /\ Owner[s] = f /\ y.kids = Append(x.kids, s)
    BY DEF Adopting
  <2>7. ScopeDone(x, y, b, c) =>
          b.pc = "back" /\ b.tgt \in Scopes /\ y.kids = Without(x.kids, b.tgt)
    BY DEF ScopeDone
  <2> QED BY <1>2, <2>1, <2>2, <2>3, <2>4, <2>5, <2>6, <2>7 DEF FiberMove, OtherMove, BodyMove
<1>5. ASSUME NEW s \in Scopes, Lists(y.kids, s)
      PROVE  Owner[s] = f /\ scp'[s].state # "Absent"
  <2>1. CASE Lists(x.kids, s)
    BY <1>1, <2>1, ScopeLife DEF KidsOK
  <2>2. CASE ~Lists(x.kids, s)
    <3>1. y.kids # x.kids /\ y.kids # <<>>
      BY <1>5, <2>2 DEF Lists
    <3>2. b.tgt \in Scopes /\ y.kids = Without(x.kids, b.tgt) => Lists(x.kids, s)
      <4>1. \A t : Lists(Without(x.kids, b.tgt), t) <=> Lists(x.kids, t) /\ t # b.tgt
        BY <1>1, WithoutProperties, Zenon
      <4> QED BY <1>5, <4>1
    <3>3. PICK t \in Scopes : ContextCreateScope(t) /\ Owner[t] = f /\ y.kids = Append(x.kids, t)
      BY <1>4, <2>2, <3>1, <3>2
    <3>4. s = t
      BY <1>1, <1>5, <2>2, <3>3, AppendLists
    <3> QED BY <1>1, <3>3, <3>4, ContextCreates
  <2> QED BY <2>1, <2>2
<1>6. ASSUME NEW s \in Scopes, Owner[s] = f, scp'[s].state \in {"Active", "Disposing"}
      PROVE  Lists(y.kids, s)
  <2>1. CASE scp[s].state \in {"Active", "Disposing"}
    <3>1. Lists(x.kids, s)
      BY <1>1, <1>6, <2>1 DEF KidsOK
    <3>2. x.state # "Absent"
      <4>1. x.state = "Absent" => x.kids = <<>>
        BY <1>1 DEF CleanOK, Empty
      <4> QED BY <3>1, <4>1 DEF Lists
    <3>3. \A t : Lists(Append(x.kids, t), s)
      BY <1>1, <3>1, AppendLists
    <3>4. b.pc = "back" /\ b.tgt \in Scopes => s # b.tgt
      BY <1>1, <2>1 DEF KidsOK, At
    <3>5. b.pc = "back" /\ b.tgt \in Scopes => Lists(Without(x.kids, b.tgt), s)
      <4>1. \A t : Lists(Without(x.kids, b.tgt), t) <=> Lists(x.kids, t) /\ t # b.tgt
        BY <1>1, WithoutProperties, Zenon
      <4> QED BY <3>1, <3>4, <4>1
    <3> QED BY <1>4, <3>1, <3>2, <3>3, <3>5
  <2>2. CASE scp[s].state \notin {"Active", "Disposing"}
    <3>1. CreateScope(s) \/ ContextCreateScope(s)
      BY <1>1, <1>6, <2>2, ScopeLife
    <3>2. ContextCreateScope(s)
      BY <1>1, <1>6, <3>1 DEF CreateScope
    <3>3. y.kids = Append(x.kids, s)
      BY <1>1, <1>6, <3>2, ContextCreates
    <3> QED BY <1>1, <3>3, AppendLists
  <2> QED BY <2>1, <2>2
<1>7. ASSUME c.pc = "back", c.tgt \in Scopes
      PROVE  scp'[c.tgt].state \in {"Disposed", "Terminated", "Gone"}
  <2>1. CASE c = b
    BY <1>1, <1>7, <2>1, ScopeLife DEF KidsOK, At
  <2>2. CASE Asking(Body(f), b, c)
    <3>1. PICK s \in Scopes : c.tgt = s /\ ScopeAnswer(s) # "none"
      BY <1>1, <1>3, <1>7, <2>2, AskedAnswer, LifecycleAssumption
    <3>2. AskingScope(x, y, b, c)
      <4>1. b.pc \in {"rollback", "call", "kids", "next"}
        BY <2>2 DEF Asking
      <4>2. ~Along(b, c)
        BY <1>7, <4>1 DEF Along
      <4>3. c # b
        BY <1>7, <4>1
      <4>4. ~Begun(x, y, b, c) /\ ~Publishing(x, y, b, c) /\ ~Vanishing(x, y, b, c)
        BY <4>1 DEF Begun, Publishing, Vanishing
      <4>5. ~OtherMove(f, x, y, b, c)
        BY <4>2, <4>3, <4>4, Zenon DEF OtherMove, Rest, Created, Indexed, Removed, Parked, Started,
           Committing, FailedMove, Providing, Adopting, Leasing, Sweeping
      <4>6. ~Draining(x, y, b, c) /\ ~Drained(x, y, b, c) /\ ~ScopeDone(x, y, b, c)
        BY <4>1 DEF Draining, Drained, ScopeDone
      <4>7. ~ScopesDone(x, y, b, c)
        BY <1>1, <1>7 DEF ScopesDone, Frames
      <4>8. ~Releasing(x, y, b, c) /\ ~Deciding(x, y, b, c) /\ ~Finishing(x, y, b, c)
            /\ ~Quitting(x, y, b, c) /\ ~Detaching(x, y, b, c)
        BY <1>7 DEF Releasing, Deciding, Finishing, Quitting, Detaching
      <4> QED BY <1>2, <4>4, <4>5, <4>6, <4>7, <4>8 DEF FiberMove, BodyMove
    <3>3. Lists(x.kids, s)
      <4>1. x.kids # <<>> /\ s = x.kids[Len(x.kids)]
        BY <3>1, <3>2 DEF AskingScope, Last
      <4>2. Len(x.kids) \in DOMAIN x.kids
        BY <1>1, <4>1
      <4> QED BY <4>1, <4>2 DEF Lists
    <3>4. scp[s].state # "Absent"
      BY <1>1, <3>3 DEF KidsOK
    <3>5. scp[s] \in ScopeRec /\ ScopeOK(scp[s], proc[ScopeBody(s)])
      BY <1>1, Instances DEF GeneralInv, ScopeStates
    <3>6. scp[s].state \in {"Disposed", "Terminated", "Gone"}
      BY <3>1, <3>4, <3>5 DEF ScopeAnswer, ScopeOK, ScopeRec
    <3> QED BY <1>1, <3>1, <3>6, ScopeLife
  <2>3. CASE Answering(b, c)
    <3>1. ScopePublish(c.tgt)
      BY <1>1, <1>3, <1>7, <2>3, AnsweredWait, LifecycleAssumption
    <3> QED BY <1>1, <1>7, <3>1, ScopeLife
  <2>4. ~Returning(Body(f), b, c) /\ ~Going(Body(f), b, c)
    BY <1>7, LifecycleAssumption DEF Returning, Going
  <2> QED BY <1>3, <2>1, <2>2, <2>3, <2>4 DEF FrameMove
<1> QED BY <1>5, <1>6, <1>7 DEF KidsOK, At

LEMMA CleanNext ==
  ASSUME CleanInv, Next, ActivatesClean
  PROVE  Clean'
<1> SUFFICES ASSUME NEW f \in Fibers PROVE CleanOK(f, fib'[f], proc'[Body(f)])
  BY DEF Clean
<1> DEFINE x == fib[f]
           b == proc[Body(f)]
<1>1. GeneralInv /\ CleanOK(f, x, b)
  BY DEF CleanInv, Clean
<1>2. x \in FiberRec /\ b \in Frames /\ StateOK(x, b) /\ FiberOK(f, x, proc[Activation(f)], b)
  BY <1>1, Records
<1>3. FiberMove(f, x, fib'[f], b, proc'[Body(f)])
  BY <1>1, NextMoves DEF FiberMoves
<1>4. (\E p \in Procs : Activate(p) /\ proc[p].tgt = f) /\ Registrant(f) =>
        x.disposal.phase \in {"Idle", "Complete"}
  BY DEF ActivatesClean
<1> HIDE DEF x, b
<1>5. BodyOK(x, b) /\ VisibleOK(f, x) /\ LeaseOK(f, x, b)
  BY <1>2 DEF FiberOK
<1> QED BY <1>1, <1>2, <1>3, <1>4, <1>5, CleanKept

LEMMA CleanInit == Init => CleanInv
<1> SUFFICES ASSUME Init PROVE CleanInv
  OBVIOUS
<1>1. NewFiber.disposal = NewDisposal /\ NewFiber.state = "Absent" /\ Empty(NewFiber)
      /\ NewFiber.kids = <<>> /\ NewScope("Absent").state = "Absent" /\ Idle.pc = "idle"
      /\ NewDisposal.phase = "Idle"
  BY DEF NewFiber, NewScope, Idle, Empty, NewDisposal
<1>2. BootScopes \in Seq(Scopes) /\ Running \subseteq Elements(BootFibers)
      /\ \A s \in Elements(BootScopes) : Owner[s] # NONE => Owner[s] \in Running
  BY LifecycleAssumption
<1>3. \A s \in Scopes : Owner[s] # NONE => s # Root
  BY LifecycleAssumption
<1>4. \A f \in Fibers : f # NONE
  BY LifecycleAssumption
\* What is listed with a Fiber that was installed.
<1>5. ASSUME NEW f \in Elements(BootFibers)
      PROVE  /\ fib[f].kids \in Seq(Scopes)
             /\ \A s : Lists(fib[f].kids, s) <=>
                        s \in Elements(BootScopes) /\ s \in Scopes /\ Owner[s] = f
  <2>1. fib[f].kids = Retain(BootScopes, {s \in Scopes : Owner[s] = f})
    BY BootRecords
  <2>2. /\ Retain(BootScopes, {t \in Scopes : Owner[t] = f}) \in Seq(Scopes)
        /\ \A s : Lists(Retain(BootScopes, {t \in Scopes : Owner[t] = f}), s)
                  <=> Lists(BootScopes, s) /\ s \in {t \in Scopes : Owner[t] = f}
    BY <1>2, RetainProperties, Zenon
  <2> QED BY <2>1, <2>2 DEF Lists, Elements
<1>6. ASSUME NEW f \in Fibers PROVE CleanOK(f, fib[f], proc[Body(f)])
  <2>1. proc[Body(f)].pc = "idle" /\ ~Decided(proc[Body(f)])
    BY <1>1, BootRecords, FiberProcs, NotDecided
  <2>2. CASE f \notin Elements(BootFibers)
    BY <1>1, <2>1, <2>2, BootRecords DEF CleanOK
  <2>3. CASE f \in Elements(BootFibers)
    <3>1. fib[f].kids \in Seq(Scopes)
      BY <1>5, <2>3
    <3>2. f \notin Running \/ ~Registrant(f) => fib[f].kids = <<>>
      <4> SUFFICES ASSUME f \notin Running \/ ~Registrant(f), fib[f].kids # <<>> PROVE FALSE
        OBVIOUS
      <4>1. 1 \in DOMAIN fib[f].kids
        BY <3>1
      <4>2. Lists(fib[f].kids, fib[f].kids[1])
        BY <4>1 DEF Lists
      <4>3. PICK s \in Elements(BootScopes) : s \in Scopes /\ Owner[s] = f
        <5>1. \A s : Lists(fib[f].kids, s) => s \in Elements(BootScopes) /\ s \in Scopes /\ Owner[s] = f
          BY <1>5, <2>3
        <5> QED BY <4>2, <5>1
      <4>4. f \in Running
        BY <1>2, <1>4, <4>3
      <4> QED BY <4>3, <4>4 DEF Registrant
    <3>3. ~Registrant(f) => Provides[f] = {}
      BY DEF Registrant
    <3>4. /\ fib[f].disposal.phase = "Idle" /\ ~fib[f].lease
          /\ fib[f].state = IF f \in Running THEN "Active" ELSE "Waiting"
          /\ fib[f].reg = IF f \in Running THEN Provides[f] ELSE {}
      BY <1>1, <2>3, BootRecords
    <3> QED BY <2>1, <3>2, <3>3, <3>4 DEF CleanOK, Empty
  <2> QED BY <2>2, <2>3
<1>7. ASSUME NEW f \in Fibers PROVE KidsOK(f)
  <2>1. ~At(Body(f), "back")
    BY <1>1, BootRecords, FiberProcs DEF At
  <2>2. ASSUME NEW s \in Scopes, Owner[s] = f, scp[s].state \in {"Active", "Disposing"}
        PROVE  Lists(fib[f].kids, s)
    <3>1. s \in Elements(BootScopes)
      BY <1>1, <1>3, <1>4, <2>2, BootRecords
    <3>2. f \in Elements(BootFibers)
      BY <1>2, <1>4, <2>2, <3>1
    <3> QED BY <1>5, <2>2, <3>1, <3>2
  <2>3. ASSUME NEW s \in Scopes, Lists(fib[f].kids, s)
        PROVE  Owner[s] = f /\ scp[s].state # "Absent"
    <3>1. f \in Elements(BootFibers)
      BY <1>1, <2>3, BootRecords DEF Lists
    <3> QED BY <1>5, <2>3, <3>1, BootRecords
  <2> QED BY <2>1, <2>2, <2>3 DEF KidsOK
<1> QED BY <1>6, <1>7, GeneralInit DEF CleanInv, Clean, Kids

LEMMA CleanStep == CleanInv /\ [Next /\ ActivatesClean]_vars => CleanInv'
<1>1. ASSUME CleanInv, Next, ActivatesClean PROVE CleanInv'
  BY <1>1, CleanNext, KidsNext, GeneralNext DEF CleanInv
<1>2. ASSUME CleanInv, UNCHANGED vars PROVE CleanInv'
  <2>1. GeneralInv' /\ Kids'
    BY <1>2, KidsNext, GeneralNext DEF CleanInv
  <2>2. Clean'
    BY <1>2 DEF CleanInv, Clean, vars
  <2> QED BY <2>1, <2>2 DEF CleanInv
<1> QED BY <1>1, <1>2

LEMMA CleanHolds == Spec /\ [][ActivatesClean]_vars => []CleanInv
<1>1. [Next]_vars /\ [ActivatesClean]_vars => [Next /\ ActivatesClean]_vars
  OBVIOUS
<1> QED BY <1>1, CleanInit, CleanStep, PTL DEF Spec

LEMMA CleanLeaves == CleanInv => NothingLeftBehind
<1> SUFFICES ASSUME CleanInv, NEW f \in Fibers, fib[f].state = "Disposed"
             PROVE  /\ fib[f].reg = {} /\ fib[f].kids = <<>> /\ ~fib[f].visible
                    /\ \A s \in Scopes : Owner[s] = f =>
                         scp[s].state \in {"Absent", "Disposed", "Terminated", "Gone"}
  BY DEF NothingLeftBehind
<1>1. GeneralInv /\ CleanOK(f, fib[f], proc[Body(f)]) /\ KidsOK(f)
  BY DEF CleanInv, Clean, Kids
<1>2. Empty(fib[f])
  BY <1>1 DEF CleanOK
<1>3. ~fib[f].visible
  BY <1>1, Records DEF FiberOK, VisibleOK
<1>4. ASSUME NEW s \in Scopes, Owner[s] = f
      PROVE  scp[s].state \in {"Absent", "Disposed", "Terminated", "Gone"}
  <2>1. scp[s] \in ScopeRec
    BY <1>1, Instances DEF GeneralInv
  <2>2. ~Lists(fib[f].kids, s)
    BY <1>2 DEF Empty, Lists
  <2>3. scp[s].state \notin {"Active", "Disposing"}
    BY <1>1, <1>4, <2>2 DEF KidsOK
  <2> QED BY <2>1, <2>3 DEF ScopeRec
<1> QED BY <1>2, <1>3, <1>4 DEF Empty

\* Only an activation that begins makes a Fiber Starting.
LEMMA StartingMoves ==
  ASSUME NEW f \in Fibers, NEW x, NEW y, NEW b, NEW c, FiberMove(f, x, y, b, c), BodyOK(x, b),
         x.state # "Starting", y.state = "Starting"
  PROVE  (\E p \in Procs : Activate(p) /\ proc[p].tgt = f) /\ Started(x, y, b, c)
<1>1. ~Publishing(x, y, b, c)
  <2> SUFFICES ASSUME Publishing(x, y, b, c) PROVE FALSE
    OBVIOUS
  <2>1. y.state = (IF b.bad THEN x.state ELSE b.goal) /\ b.pc = "publish"
    BY DEF Publishing
  <2> QED BY <2>1 DEF BodyOK, Decided
<1>2. ~Created(x, y, b, c)
  BY DEF Created, NewFiber
<1>3. ~Begun(x, y, b, c)
  BY DEF Begun
<1>4. /\ ~Rest(x, y, b, c) /\ ~Indexed(x, y, b, c) /\ ~Removed(x, y, b, c) /\ ~Parked(x, y, b, c)
      /\ ~Committing(f, x, y, b, c) /\ ~FailedMove(x, y, b, c) /\ ~Providing(f, x, y, b, c)
      /\ ~Adopting(f, x, y, b, c) /\ ~Leasing(f, x, y, b, c) /\ ~Sweeping(x, y, b, c)
  BY DEF Rest, Indexed, Removed, Parked, Committing, FailedMove, Providing, Adopting, Leasing,
         Sweeping, Only
<1>5. /\ ~AskingScope(x, y, b, c) /\ ~Releasing(x, y, b, c) /\ ~Deciding(x, y, b, c)
      /\ ~Finishing(x, y, b, c) /\ ~Quitting(x, y, b, c) /\ ~Detaching(x, y, b, c)
      /\ ~Vanishing(x, y, b, c)
  BY DEF AskingScope, Releasing, Deciding, Finishing, Quitting, Detaching, Vanishing, Only
<1>6. /\ ~Draining(x, y, b, c) /\ ~Drained(x, y, b, c) /\ ~ScopesDone(x, y, b, c)
      /\ ~ScopeDone(x, y, b, c)
  BY Zenon DEF Draining, Drained, ScopesDone, ScopeDone, Only
<1> QED BY <1>1, <1>2, <1>3, <1>4, <1>5, <1>6 DEF FiberMove, OtherMove, BodyMove

LEMMA CleanRestarts ==
  ASSUME CleanInv, Next, ActivatesClean, NEW f \in Fibers,
         fib[f].state # "Starting", fib'[f].state = "Starting"
  PROVE  /\ fib'[f].reg = {} /\ fib'[f].kids = <<>>
         /\ ~fib'[f].lease /\ ~fib'[f].visible
<1> DEFINE x == fib[f]
           b == proc[Body(f)]
<1>1. GeneralInv /\ CleanOK(f, x, b)
  BY DEF CleanInv, Clean
<1>2. StateOK(x, b) /\ BodyOK(x, b) /\ VisibleOK(f, x)
  BY <1>1, Records DEF FiberOK
<1>3. FiberMove(f, x, fib'[f], b, proc'[Body(f)])
  BY <1>1, NextMoves DEF FiberMoves
<1> HIDE DEF x, b
<1>4. (\E p \in Procs : Activate(p) /\ proc[p].tgt = f) /\ Started(x, fib'[f], b, proc'[Body(f)])
  BY <1>2, <1>3, StartingMoves DEF x
<1>5. Registrant(f) => x.disposal.phase \in {"Idle", "Complete"}
  BY <1>4 DEF ActivatesClean, x
<1>6. x.state \in {"Created", "Waiting"} /\ fib'[f].reg = x.reg /\ fib'[f].kids = x.kids
      /\ fib'[f].lease = x.lease /\ fib'[f].visible = x.visible
  BY <1>4 DEF Started, Only
<1>7. Empty(x)
  BY <1>1, <1>2, <1>5, <1>6 DEF CleanOK
<1> QED BY <1>2, <1>6, <1>7 DEF Empty, VisibleOK

(***************************************************************************)
(* A committed disposal leaves nothing behind (run_fiber_disposal_body,    *)
(* finalize_fiber_disposal), on every topology, as long as no Fiber that   *)
(* registers anything is activated under a disposal of it that is at work  *)
(* or was Terminated: activate looks at the state alone, and a record that *)
(* transition(fiber, WaitingDependencies) put from Disposing to Waiting    *)
(* passes.                                                                 *)
(***************************************************************************)
THEOREM CommittedDisposalLeavesNothing ==
  Spec /\ [][ActivatesClean]_vars => []NothingLeftBehind
BY CleanHolds, CleanLeaves, PTL

(***************************************************************************)
(* Under the same condition a restart (activate_body) finds no service, no *)
(* child Scope, no lease and no visible gate of the generation before.     *)
(***************************************************************************)
THEOREM RestartsAreClean == Spec /\ [][ActivatesClean]_vars => RestartClean
<1>1. CleanInv /\ [Next /\ ActivatesClean]_vars =>
        [\A f \in Fibers : fib[f].state # "Starting" /\ fib'[f].state = "Starting" =>
           /\ fib'[f].reg = {} /\ fib'[f].kids = <<>>
           /\ ~fib'[f].lease /\ ~fib'[f].visible]_vars
  BY CleanRestarts
<1>2. [Next]_vars /\ [ActivatesClean]_vars => [Next /\ ActivatesClean]_vars
  OBVIOUS
<1> QED BY <1>1, <1>2, CleanHolds, PTL DEF Spec, RestartClean

-----------------------------------------------------------------------------
(***************************************************************************)
(* Where the condition needs no look at the behaviours: when no Fiber with *)
(* dependencies registers anything.  A Fiber without them never waits for  *)
(* them, so it is Waiting only after a committed disposal.                 *)
(***************************************************************************)
Independent(f) == Deps[f] = {}

NeverParks(f) ==
  Independent(f) =>
    /\ ~At(Installer(f), "park")
    /\ fib[f].state = "Waiting" => fib[f].disposal.phase = "Complete"

WaitsInv == \A f \in Fibers : NeverParks(f)

LEMMA WaitingMoves ==
  ASSUME NEW f \in Fibers, NEW x, NEW y, NEW b, NEW c, FiberMove(f, x, y, b, c), BodyOK(x, b),
         x.state = "Waiting" => x.disposal.phase = "Complete", ~InstallPark(f),
         y.state = "Waiting"
  PROVE  y.disposal.phase = "Complete"
<1>1. CASE Rest(x, y, b, c) \/ Indexed(x, y, b, c) \/ Leasing(f, x, y, b, c)
  BY <1>1 DEF Rest, Indexed, Leasing, Only
<1>2. /\ ~Created(x, y, b, c) /\ ~Begun(x, y, b, c)
  BY DEF Created, Begun, NewFiber
<1>3. /\ ~Removed(x, y, b, c) /\ ~Started(x, y, b, c) /\ ~Committing(f, x, y, b, c)
      /\ ~FailedMove(x, y, b, c) /\ ~Sweeping(x, y, b, c)
  BY DEF Removed, Started, Committing, FailedMove, Sweeping
<1>4. ~Providing(f, x, y, b, c) /\ ~Adopting(f, x, y, b, c)
  BY DEF Providing, Adopting, Only
<1>5. CASE Publishing(x, y, b, c)
  <2>1. /\ y.state = IF b.bad THEN x.state ELSE b.goal
        /\ y.disposal.phase = IF b.bad THEN "Terminated" ELSE "Complete"
        /\ b.pc = "publish"
    BY <1>5 DEF Publishing
  <2> QED BY <2>1 DEF BodyOK
\* The other steps of the body find the record under disposal.
<1>6. ASSUME b.pc # "idle", y.state = x.state PROVE FALSE
  BY <1>6 DEF BodyOK
<1>7. /\ ~AskingScope(x, y, b, c) /\ ~Releasing(x, y, b, c) /\ ~Deciding(x, y, b, c)
      /\ ~Finishing(x, y, b, c) /\ ~Quitting(x, y, b, c) /\ ~Detaching(x, y, b, c)
      /\ ~Vanishing(x, y, b, c)
  BY <1>6 DEF AskingScope, Releasing, Deciding, Finishing, Quitting, Detaching, Vanishing, Only
<1>8. /\ ~Draining(x, y, b, c) /\ ~Drained(x, y, b, c) /\ ~ScopesDone(x, y, b, c)
      /\ ~ScopeDone(x, y, b, c)
  <2>1. Draining(x, y, b, c) \/ Drained(x, y, b, c) \/ ScopesDone(x, y, b, c)
        \/ ScopeDone(x, y, b, c) => b.pc # "idle" /\ y.state = x.state
    BY DEF Draining, Drained, ScopesDone, ScopeDone, Only
  <2> QED BY <1>6, <2>1
<1> QED BY <1>1, <1>2, <1>3, <1>4, <1>5, <1>7, <1>8 DEF FiberMove, OtherMove, BodyMove

LEMMA WaitsNext ==
  ASSUME GeneralInv, WaitsInv, [Next]_vars
  PROVE  WaitsInv'
<1> SUFFICES ASSUME NEW f \in Fibers, Independent(f)
             PROVE  /\ ~At(Installer(f), "park")'
                    /\ fib'[f].state = "Waiting" => fib'[f].disposal.phase = "Complete"
  BY DEF WaitsInv, NeverParks
<1> DEFINE q == Installer(f)
           b == proc[q]
           c == proc'[q]
<1>1. /\ b.pc # "park" /\ ~InstallPark(f)
      /\ fib[f].state = "Waiting" => fib[f].disposal.phase = "Complete"
  BY DEF WaitsInv, NeverParks, At, InstallPark
<1>2. /\ FrameMove(q, b, c) /\ q \in Procs
      /\ FiberMove(f, fib[f], fib'[f], proc[Body(f)], proc'[Body(f)])
      /\ BodyOK(fib[f], proc[Body(f)])
  BY NextFrames, NextMoves, FiberProcs, Records DEF FrameMoves, FiberMoves, FiberOK
<1>3. c.pc # "park"
  <2>1. Met(f)
    BY DEF Met, Independent
  <2>2. CASE Going(q, b, c)
    <3>1. Installing(f, b, c)
      BY <2>2 DEF Going
    <3> QED BY <2>1, <3>1 DEF Installing, Early
  <2>3. CASE Asking(q, b, c)
    BY <1>2, <2>3, AskedAnswer
  <2>4. CASE Answering(b, c)
    BY <1>2, <2>4, AnsweredWait
  <2> QED BY <1>1, <1>2, <2>2, <2>3, <2>4 DEF FrameMove, Returning
<1>4. fib'[f].state = "Waiting" => fib'[f].disposal.phase = "Complete"
  BY <1>1, <1>2, WaitingMoves
<1> QED BY <1>3, <1>4 DEF At

LEMMA WaitsInit == Init => WaitsInv
<1> SUFFICES ASSUME Init, NEW f \in Fibers, Independent(f)
             PROVE  ~At(Installer(f), "park") /\ fib[f].state # "Waiting"
  BY DEF WaitsInv, NeverParks
<1>1. ~At(Installer(f), "park")
  BY BootRecords, FiberProcs DEF At, Idle
<1>2. f \in Elements(BootFibers) => f \in Running
  BY LifecycleAssumption DEF Independent
<1>3. NewFiber.state = "Absent"
  BY DEF NewFiber
<1> QED BY <1>1, <1>2, <1>3, BootRecords

LEMMA IndependentClean ==
  ASSUME \A f \in Fibers : Independent(f) \/ ~Registrant(f), GeneralInv, WaitsInv
  PROVE  ActivatesClean
<1> SUFFICES ASSUME NEW p \in Procs, Activate(p), Registrant(proc[p].tgt)
             PROVE  fib[proc[p].tgt].disposal.phase \in {"Idle", "Complete"}
  BY DEF ActivatesClean
<1> DEFINE f == proc[p].tgt
<1>1. At(p, "lock") /\ fib[f].state \in {"Created", "Waiting"}
  BY DEF Activate, MayStart
<1>2. f \in Fibers
  BY <1>1, Instances DEF GeneralInv, FrameOK, At
<1>3. Independent(f) /\ StateOK(fib[f], proc[Body(f)]) /\ NeverParks(f)
  BY <1>2, Records DEF WaitsInv
<1> QED BY <1>1, <1>3 DEF StateOK, NeverParks

(***************************************************************************)
(* So on a topology where the Fibers with dependencies register nothing,   *)
(* no behaviour has to be ruled out.                                       *)
(***************************************************************************)
THEOREM IndependentProvidersLeaveNothing ==
  ASSUME \A f \in Fibers : Independent(f) \/ ~Registrant(f)
  PROVE  Spec => []NothingLeftBehind /\ RestartClean
<1>1. GeneralInv /\ WaitsInv => ActivatesClean
  BY IndependentClean
<1>2. GeneralInv /\ WaitsInv /\ [Next]_vars => WaitsInv'
  BY WaitsNext
<1>3. Spec => [][ActivatesClean]_vars
  BY <1>1, <1>2, WaitsInit, GeneralInvariant, PTL DEF Spec
<1> QED BY <1>3, CommittedDisposalLeavesNothing, RestartsAreClean, PTL

-----------------------------------------------------------------------------
(***************************************************************************)
(* Nobody waits for a disposal that no one works on.  The one way around   *)
(* it is remove_unstarted_fiber, which takes the record away from under    *)
(* whatever disposal has begun.                                            *)
(***************************************************************************)
RemovesUndisposed ==
  \A f \in Fibers : InstallRemove(f) => fib[f].disposal.phase \in Ended

\* A disposal that has begun and is not answered has its body, and its record.
WorkOK(x, b) ==
  /\ x.state = "Gone" => x.disposal.phase \in Ended
  /\ x.disposal.phase \notin Ended => b.pc # "idle"

\* Frame r waits for a disposal at work.
WaitOK(r) ==
  r.pc = "wait" =>
    /\ r.tgt \in Fibers => fib[r.tgt].disposal.phase \notin Ended
    /\ r.tgt \in Scopes => scp[r.tgt].state = "Disposing"

Work == \A f \in Fibers : WorkOK(fib[f], proc[Body(f)])
Waits == \A p \in Procs : WaitOK(proc[p])
WorkInv == GeneralInv /\ Work /\ Waits

LEMMA AlongWorks ==
  ASSUME NEW b, NEW c, Along(b, c), b.pc # "idle"
  PROVE  c.pc # "idle"
BY DEF Along, Reconciling, Calling

LEMMA WorkKept ==
  ASSUME NEW f \in Fibers, NEW x, NEW b \in Frames, NEW y, NEW c,
         BodyOK(x, b), StateOK(x, b), WorkOK(x, b), FiberMove(f, x, y, b, c),
         InstallRemove(f) => x.disposal.phase \in Ended
  PROVE  WorkOK(y, c)
<1>1. CASE Rest(x, y, b, c) \/ FailedMove(x, y, b, c)
  BY <1>1, AlongWorks DEF Rest, FailedMove, Only, WorkOK
<1>2. CASE Created(x, y, b, c)
  <2>1. y.disposal.phase = "Idle"
    BY <1>2 DEF Created, NewFiber, NewDisposal
  <2> QED BY <2>1 DEF WorkOK, Ended
<1>3. CASE \/ Indexed(x, y, b, c) \/ (InstallRemove(f) /\ Removed(x, y, b, c))
           \/ Parked(x, y, b, c) \/ Committing(f, x, y, b, c) \/ Providing(f, x, y, b, c)
           \/ Adopting(f, x, y, b, c) \/ Leasing(f, x, y, b, c) \/ Sweeping(x, y, b, c)
  <2>1. /\ y.disposal.phase = x.disposal.phase /\ c = b
        /\ y.state = "Gone" => x.disposal.phase \in Ended
    BY <1>3 DEF Indexed, Removed, Parked, Committing, Providing, Adopting, Leasing, Sweeping, Only,
                WorkOK, StateOK, Ended
  <2> QED BY <2>1 DEF WorkOK
<1>4. CASE Begun(x, y, b, c)
  <2>1. y.state = "Disposing" /\ c.pc = "queue"
    BY <1>4 DEF Begun, Idle
  <2> QED BY <2>1 DEF WorkOK
<1>5. CASE Started(x, y, b, c)
  <2>1. y.state = "Starting" /\ c = b /\ y.disposal \in {NewDisposal, x.disposal}
    BY <1>5 DEF Started
  <2> QED BY <2>1 DEF WorkOK, NewDisposal, Ended
\* A body at work keeps the record that it found under disposal.
<1>6. b.pc # "idle" => x.disposal.phase \notin Ended /\ x.state # "Gone"
  BY DEF BodyOK, WorkOK, Ended
<1>7. CASE \/ Draining(x, y, b, c) \/ Drained(x, y, b, c) \/ ScopeDone(x, y, b, c)
           \/ ScopesDone(x, y, b, c)
  <2>1. b.pc # "idle" /\ c.pc \in {"drain", "kids", "release"} /\ y.state = x.state
    BY <1>7 DEF Draining, Drained, ScopeDone, ScopesDone, Only, Idle, Frames
  <2> QED BY <1>6, <2>1 DEF WorkOK
<1>8. CASE \/ AskingScope(x, y, b, c) \/ Releasing(x, y, b, c) \/ Deciding(x, y, b, c)
           \/ Finishing(x, y, b, c) \/ Quitting(x, y, b, c) \/ Detaching(x, y, b, c)
  <2>1. b.pc # "idle" /\ c.pc # "idle" /\ y.state = x.state
    BY <1>8 DEF AskingScope, Releasing, Deciding, Finishing, Quitting, Detaching, Only
  <2> QED BY <1>6, <2>1 DEF WorkOK
<1>9. CASE Publishing(x, y, b, c)
  <2>1. y.disposal.phase \in Ended
    BY <1>9 DEF Publishing, Ended
  <2> QED BY <2>1 DEF WorkOK
<1>10. ~Vanishing(x, y, b, c)
  BY <1>6 DEF Vanishing
<1> QED BY <1>1, <1>2, <1>3, <1>4, <1>5, <1>7, <1>8, <1>9, <1>10
        DEF FiberMove, OtherMove, BodyMove

\* A disposal at work goes on until it is published.
LEMMA WorkLasts ==
  ASSUME NEW f \in Fibers, NEW x, NEW b, NEW y, NEW c, StateOK(x, b),
         FiberMove(f, x, y, b, c), x.disposal.phase \notin Ended, ~Publish(f)
  PROVE  y.disposal.phase \notin Ended
<1>1. CASE \/ Rest(x, y, b, c) \/ Indexed(x, y, b, c) \/ Removed(x, y, b, c) \/ Parked(x, y, b, c)
           \/ Committing(f, x, y, b, c) \/ FailedMove(x, y, b, c) \/ Providing(f, x, y, b, c)
           \/ Adopting(f, x, y, b, c) \/ Leasing(f, x, y, b, c) \/ Sweeping(x, y, b, c)
  BY <1>1 DEF Rest, Indexed, Removed, Parked, Committing, FailedMove, Providing, Adopting, Leasing,
              Sweeping, Only
<1>2. ~Created(x, y, b, c) /\ ~Begun(x, y, b, c)
  BY DEF Created, Begun, StateOK, Ended
<1>3. CASE Started(x, y, b, c)
  <2>1. y.disposal = x.disposal
    BY <1>3 DEF Started, Ended
  <2> QED BY <2>1
<1>4. CASE \/ Draining(x, y, b, c) \/ Drained(x, y, b, c) \/ ScopeDone(x, y, b, c)
           \/ ScopesDone(x, y, b, c)
  <2>1. y.disposal.phase \in {x.disposal.phase, "Draining", "ChildScopes", "Release"}
    BY <1>4 DEF Draining, Drained, ScopeDone, ScopesDone, Only
  <2> QED BY <2>1 DEF Ended
<1>5. CASE \/ AskingScope(x, y, b, c) \/ Releasing(x, y, b, c) \/ Deciding(x, y, b, c)
           \/ Finishing(x, y, b, c) \/ Quitting(x, y, b, c) \/ Detaching(x, y, b, c)
           \/ Vanishing(x, y, b, c)
  <2>1. y.disposal.phase \in {x.disposal.phase, "Reconciling", "Finalizing"}
    BY <1>5 DEF AskingScope, Releasing, Deciding, Finishing, Quitting, Detaching, Vanishing, Only
  <2> QED BY <2>1 DEF Ended
<1> QED BY <1>1, <1>2, <1>3, <1>4, <1>5 DEF FiberMove, OtherMove, BodyMove

\* Who waits for what is published does not go on waiting.
LEMMA PublishAnswers ==
  ASSUME GeneralInv, NEW q \in Procs, proc[q].pc = "wait", proc'[q] = proc[q]
  PROVE  /\ \A f \in Fibers : Publish(f) => proc[q].tgt # f
         /\ \A s \in Scopes : ScopePublish(s) => proc[q].tgt # s
<1>1. proc[q] \in Frames /\ Idle.pc = "idle"
  BY Instances DEF GeneralInv, Idle
<1>2. ASSUME NEW id, NEW res, NEW p, Deliver(id, res, p, Idle) PROVE proc[q].tgt # id
  <2>1. proc'[q] = IF q = p THEN Idle
                   ELSE IF proc[q].pc = "wait" /\ proc[q].tgt = id
                     THEN Answered(proc[q], res) ELSE proc[q]
    BY <1>2 DEF Deliver
  <2>2. Answered(proc[q], res).pc = "back"
    BY <1>1 DEF Answered, Frames
  <2> QED BY <1>1, <2>1, <2>2
<1>3. ASSUME NEW f \in Fibers, Publish(f) PROVE proc[q].tgt # f
  BY <1>2, <1>3 DEF Publish
<1>4. ASSUME NEW s \in Scopes, ScopePublish(s) PROVE proc[q].tgt # s
  BY <1>2, <1>4 DEF ScopePublish
<1> QED BY <1>3, <1>4

\* What was asked for, and not answered at once, is at work.
LEMMA AskedWorks ==
  ASSUME GeneralInv, NEW q \in Procs \cup {NONE}
  PROVE  /\ \A f \in Fibers, w, d \in BOOLEAN :
              DisposeFiber(q, f, w, d) /\ DisposeAnswer(f) = "none" =>
                fib'[f].disposal.phase \notin Ended
         /\ \A s \in Scopes, d \in BOOLEAN :
              DisposeScope(q, s, d) /\ ScopeAnswer(s) = "none" => scp'[s].state = "Disposing"
<1>1. ASSUME NEW f \in Fibers, NEW w \in BOOLEAN, NEW d \in BOOLEAN,
             DisposeFiber(q, f, w, d), DisposeAnswer(f) = "none"
      PROVE  fib'[f].disposal.phase \notin Ended
  <2>1. /\ Registered(f) /\ fib[f].disposal.phase \notin {"Complete", "Terminated"}
        /\ fib[f].disposal.phase = "Idle" => Begins(f)
    BY <1>1, DisposeAnswers
  <2>2. fib'[f] = Joined(f, w, d)
    BY <1>1, <2>1, Records DEF DisposeFiber
  <2>3. /\ ~Begins(f) => Only({}, fib[f], Joined(f, w, d))
        /\ Begins(f) => Joined(f, w, d).disposal.phase = "Tasks"
    BY JoinedMoves
  <2> QED BY <2>1, <2>2, <2>3 DEF Only, Ended
<1>2. ASSUME NEW s \in Scopes, NEW d \in BOOLEAN, DisposeScope(q, s, d), ScopeAnswer(s) = "none"
      PROVE  scp'[s].state = "Disposing"
  <2>1. scp \in [Scopes -> ScopeRec] /\ scp[s] \in ScopeRec /\ ScopeOK(scp[s], proc[ScopeBody(s)])
    BY Instances DEF GeneralInv, ScopeStates
  <2>2. scp[s].state \in {"Active", "Disposing"}
    BY <1>2, <2>1 DEF ScopeAnswer, ScopeOK
  <2>3. scp' = [scp EXCEPT ![s] = [scp[s] EXCEPT !.persist = @ \/ d,
                                   !.state = IF @ = "Active" THEN "Disposing" ELSE @]]
    BY <1>2, <2>2, Zenon DEF DisposeScope
  <2> QED BY <2>1, <2>2, <2>3 DEF ScopeRec
<1> QED BY <1>1, <1>2

LEMMA WaitsKept ==
  ASSUME WorkInv, [Next]_vars, NEW q \in Procs, proc'[q].pc = "wait"
  PROVE  /\ proc'[q].tgt \in Fibers => fib'[proc'[q].tgt].disposal.phase \notin Ended
         /\ proc'[q].tgt \in Scopes => scp'[proc'[q].tgt].state = "Disposing"
<1> DEFINE b == proc[q]
           c == proc'[q]
<1>1. GeneralInv /\ WaitOK(b) /\ FrameMove(q, b, c)
  BY NextFrames DEF WorkInv, Waits, FrameMoves
<1>2. CASE c = b
  <2>1. ASSUME c.tgt \in Fibers PROVE fib'[c.tgt].disposal.phase \notin Ended
    <3> DEFINE f == c.tgt
    <3>1. StateOK(fib[f], proc[Body(f)]) /\ FiberMove(f, fib[f], fib'[f], proc[Body(f)], proc'[Body(f)])
      BY <1>1, <2>1, Records, NextMoves DEF FiberMoves
    <3>2. ~Publish(f)
      BY <1>1, <1>2, <2>1, PublishAnswers
    <3>3. fib[f].disposal.phase \notin Ended
      BY <1>1, <1>2, <2>1 DEF WaitOK
    <3> HIDE DEF f
    <3>4. fib'[f].disposal.phase \notin Ended
      BY <2>1, <3>1, <3>2, <3>3, WorkLasts DEF f
    <3> QED BY <3>4 DEF f
  <2>2. ASSUME c.tgt \in Scopes PROVE scp'[c.tgt].state = "Disposing"
    <3> DEFINE s == c.tgt
    <3>1. ScopeMove(s, scp[s], scp'[s])
      BY <1>1, <2>2, NextScopes DEF ScopeMoves
    <3>2. ~ScopePublish(s)
      BY <1>1, <1>2, <2>2, PublishAnswers
    <3>3. scp[s].state = "Disposing"
      BY <1>1, <1>2, <2>2 DEF WaitOK
    <3> QED BY <3>1, <3>2, <3>3
            DEF ScopeMove, OnlyScope, Born, Joining, Asked, ScopeEnding, Unlinking, Clearing
  <2> QED BY <2>1, <2>2
<1>3. CASE Asking(q, b, c)
  <2>1. CASE \E f \in Fibers, w, d \in BOOLEAN :
               DisposeFiber(q, f, w, d) /\ c.tgt = f /\ DisposeAnswer(f) = "none"
    BY <1>1, <2>1, AskedWorks, LifecycleAssumption
  <2>2. CASE \E s \in Scopes, d \in BOOLEAN :
               DisposeScope(q, s, d) /\ c.tgt = s /\ ScopeAnswer(s) = "none"
    BY <1>1, <2>2, AskedWorks, LifecycleAssumption
  <2> QED BY <1>1, <1>3, <2>1, <2>2, AskedAnswer
<1>4. CASE Answering(b, c)
  BY <1>1, <1>4, AnsweredWait
<1> QED BY <1>1, <1>2, <1>3, <1>4 DEF FrameMove, Returning, Going

LEMMA WorkNext ==
  ASSUME WorkInv, Next, RemovesUndisposed
  PROVE  WorkInv'
<1>1. GeneralInv'
  BY GeneralNext DEF WorkInv
<1>2. ASSUME NEW f \in Fibers PROVE WorkOK(fib'[f], proc'[Body(f)])
  <2> DEFINE x == fib[f]
             b == proc[Body(f)]
  <2>1. GeneralInv /\ WorkOK(x, b)
    BY DEF WorkInv, Work
  <2>2. b \in Frames /\ StateOK(x, b) /\ BodyOK(x, b)
    BY <2>1, Records DEF FiberOK
  <2>3. FiberMove(f, x, fib'[f], b, proc'[Body(f)])
    BY <2>1, NextMoves DEF FiberMoves
  <2>4. InstallRemove(f) => x.disposal.phase \in Ended
    BY DEF RemovesUndisposed
  <2> HIDE DEF x, b
  <2> QED BY <2>1, <2>2, <2>3, <2>4, WorkKept
<1>3. Waits'
  BY WaitsKept DEF Waits, WaitOK
<1> QED BY <1>1, <1>2, <1>3 DEF WorkInv, Work

LEMMA WorkInit == Init => WorkInv
<1> SUFFICES ASSUME Init PROVE WorkInv
  OBVIOUS
<1>1. Idle.pc = "idle" /\ NewFiber.disposal = NewDisposal /\ NewDisposal.phase = "Idle"
      /\ NewFiber.state = "Absent"
  BY DEF Idle, NewFiber, NewDisposal
<1>2. ASSUME NEW f \in Fibers PROVE WorkOK(fib[f], proc[Body(f)])
  BY <1>1, BootRecords DEF WorkOK, Ended
<1>3. ASSUME NEW p \in Procs PROVE WaitOK(proc[p])
  BY <1>1, BootRecords DEF WaitOK
<1> QED BY <1>2, <1>3, GeneralInit DEF WorkInv, Work, Waits

LEMMA WorkStep == WorkInv /\ [Next /\ RemovesUndisposed]_vars => WorkInv'
<1>1. ASSUME WorkInv, UNCHANGED vars PROVE WorkInv'
  <2>1. GeneralInv' /\ Waits'
    BY <1>1, GeneralNext, WaitsKept DEF WorkInv, Waits, WaitOK
  <2>2. Work'
    BY <1>1 DEF WorkInv, Work, vars
  <2> QED BY <2>1, <2>2 DEF WorkInv
<1> QED BY <1>1, WorkNext

LEMMA WorkAnswers == WorkInv => NoOrphanWaiter
<1> SUFFICES ASSUME WorkInv, NEW q \in Procs, At(q, "wait")
             PROVE  IF proc[q].tgt \in Fibers
                      THEN fib[proc[q].tgt].disposal.done = "none" /\ ~At(Body(proc[q].tgt), "idle")
                      ELSE scp[proc[q].tgt].done = "none" /\ ~At(ScopeBody(proc[q].tgt), "idle")
  BY DEF NoOrphanWaiter
<1> DEFINE t == proc[q].tgt
<1>1. GeneralInv /\ WaitOK(proc[q]) /\ t \in Fibers \cup Scopes
  BY Instances DEF WorkInv, Waits, GeneralInv, FrameOK, At
<1>2. CASE t \in Fibers
  <2>1. StateOK(fib[t], proc[Body(t)]) /\ WorkOK(fib[t], proc[Body(t)])
    BY <1>1, <1>2, Records DEF WorkInv, Work
  <2> QED BY <1>1, <1>2, <2>1 DEF WaitOK, StateOK, WorkOK, Ended, At
<1>3. CASE t \in Scopes /\ t \notin Fibers
  <2>1. ScopeOK(scp[t], proc[ScopeBody(t)])
    BY <1>1, <1>3 DEF GeneralInv, ScopeStates
  <2> QED BY <1>1, <1>3, <2>1 DEF WaitOK, ScopeOK, At
<1> QED BY <1>1, <1>2, <1>3

(***************************************************************************)
(* Whoever waits for a completion waits for a disposal that is still being *)
(* worked on (DisposalCompletion), on every topology, as long as           *)
(* remove_unstarted_fiber meets no disposal that has begun and is not      *)
(* answered: its supervisor would find the record gone and publish nothing.*)
(***************************************************************************)
THEOREM WaitersAreServed == Spec /\ [][RemovesUndisposed]_vars => []NoOrphanWaiter
<1>1. [Next]_vars /\ [RemovesUndisposed]_vars => [Next /\ RemovesUndisposed]_vars
  OBVIOUS
<1> QED BY <1>1, WorkInit, WorkStep, WorkAnswers, PTL DEF Spec

-----------------------------------------------------------------------------
(***************************************************************************)
(* The dependency indexes.  A Fiber is in them from its InstallIndex until *)
(* it is detached, and neither a reconciliation nor an activation knows a  *)
(* Fiber before.                                                           *)
(***************************************************************************)
\* The record x of Fiber f, its body at b and its installer at the point q.
IndexRec(f, x, b, q) ==
  /\ x.state \notin {"Absent", "Gone"} /\ ~x.indexed =>
       \/ q = "index"
       \/ b.pc = "publish" /\ b.goal = "Disposed" /\ ~b.bad
       \/ x.state = "Disposed"
  /\ q = "index" => x.state \notin {"Absent", "Starting", "Active", "Failed"}
  /\ x.reg \subseteq Provides[f]
  /\ x.visible /\ x.state # "Gone" => x.indexed
  /\ x.indexed => q # "index" /\ x.state # "Absent"

\* A reconciliation that has found Fiber f.
Found(f, b) == f \in b.todo \/ (b.tgt = f /\ b.pc \in {"judge", "lock", "call"})

IndexOK(f) ==
  /\ IndexRec(f, fib[f], proc[Body(f)], proc[Installer(f)].pc)
  /\ \A p \in Reconcilers : Found(f, proc[p]) =>
       ~At(Installer(f), "index") /\ fib[f].state # "Absent"

Index == \A f \in Fibers : IndexOK(f)

\* What the installer of f does about the index.
LEMMA InstallerSteps ==
  ASSUME GeneralInv, [Next]_vars, NEW f \in Fibers
  PROVE  /\ At(Installer(f), "index")' => At(Installer(f), "index") \/ Install(f)
         /\ At(Installer(f), "index") => At(Installer(f), "index")' \/ InstallIndex(f)
         /\ Install(f) => /\ fib[f].state = "Absent" /\ At(Installer(f), "index")'
                          /\ fib'[f] = [NewFiber EXCEPT !.state = "Created"]
         /\ InstallIndex(f) => /\ At(Installer(f), "index") /\ At(Installer(f), "validate")'
                               /\ fib'[f].indexed
<1> DEFINE q == Installer(f)
           b == proc[q]
           c == proc'[q]
<1>1. /\ FrameMove(q, b, c) /\ q \in Procs /\ proc \in [Procs -> Frames] /\ fib \in [Fibers -> FiberRec]
  BY NextFrames, FiberProcs, Records DEF FrameMoves
<1>2. Install(f) => /\ fib[f].state = "Absent" /\ c.pc = "index"
                    /\ fib'[f] = [NewFiber EXCEPT !.state = "Created"]
  BY <1>1 DEF Install, Goto, Frames
<1>3. InstallIndex(f) => b.pc = "index" /\ c.pc = "validate" /\ fib'[f].indexed
  BY <1>1 DEF InstallIndex, Goto, Frames, FiberRec, At
<1>4. Asking(q, b, c) => b.pc \in {"rollback", "call", "kids", "next"} /\ c.pc \in {"wait", "back"}
  <2> SUFFICES ASSUME Asking(q, b, c) PROVE c.pc \in {"wait", "back"}
    BY DEF Asking
  <2> QED BY <1>1, AskedAnswer
<1>5. Answering(b, c) => b.pc = "wait" /\ c.pc = "back"
  BY <1>1, AnsweredWait
<1>6. Going(q, b, c) => Installing(f, b, c)
  BY DEF Going
<1>7. InstallValidate(f) \/ InstallRemove(f) => b.pc # "index"
  BY DEF InstallValidate, InstallRemove, At
<1>8. c.pc = "index" => b.pc = "index" \/ Install(f)
  BY <1>1, <1>4, <1>5, <1>6 DEF FrameMove, Returning, Installing, Early
<1>9. b.pc = "index" => c.pc = "index" \/ InstallIndex(f)
  BY <1>1, <1>2, <1>4, <1>5, <1>6, <1>7 DEF FrameMove, Returning, Installing
<1> QED BY <1>2, <1>3, <1>8, <1>9 DEF At

LEMMA IndexKept ==
  ASSUME NEW f \in Fibers, NEW x, NEW b, NEW y, NEW c, NEW q, NEW r,
         IndexRec(f, x, b, q), BodyOK(x, b), StateOK(x, b), VisibleOK(f, x),
         FiberMove(f, x, y, b, c),
         r = "index" => q = "index" \/ Install(f),
         q = "index" => r = "index" \/ InstallIndex(f),
         Install(f) => x.state = "Absent" /\ r = "index" /\ y = [NewFiber EXCEPT !.state = "Created"],
         InstallIndex(f) => q = "index" /\ r = "validate" /\ y.indexed,
         (\E p \in Procs : Activate(p) /\ proc[p].tgt = f) => q # "index"
  PROVE  IndexRec(f, y, c, r)
<1>1. CASE Install(f)
  <2>1. /\ y.state = "Created" /\ ~y.indexed /\ ~y.visible /\ y.reg = {}
    BY <1>1 DEF NewFiber
  <2> QED BY <1>1, <2>1 DEF IndexRec
<1>2. CASE ~Install(f)
  <2>1. r = "index" => q = "index"
    BY <1>2
  <2>2. q = "index" => r = "index" \/ y.indexed
    OBVIOUS
  <2>3. CASE Rest(x, y, b, c) \/ FailedMove(x, y, b, c)
    <3>1. b.pc = "publish" => c = b
      BY <2>3 DEF Rest, FailedMove, Along, Reconciling, Calling
    <3>2. /\ y.reg = x.reg /\ y.visible = x.visible /\ y.indexed = x.indexed
          /\ y.state = x.state \/ (x.state \in {"Starting", "Active"} /\ y.state = "Failed")
      BY <2>3 DEF Rest, FailedMove, Only
    <3> QED BY <2>1, <2>2, <3>1, <3>2 DEF IndexRec
  <2>4. CASE InstallIndex(f) /\ Indexed(x, y, b, c)
    <3>1. y.state = x.state /\ y.reg = x.reg /\ y.indexed /\ r = "validate" /\ q = "index"
      BY <2>4 DEF Indexed, Only
    <3> QED BY <3>1 DEF IndexRec
  <2>5. CASE Removed(x, y, b, c) \/ Sweeping(x, y, b, c)
    BY <2>1, <2>5 DEF Removed, Sweeping, Only, IndexRec
  <2>6. CASE Parked(x, y, b, c)
    BY <2>1, <2>2, <2>6 DEF Parked, Only, IndexRec
  <2>7. CASE Begun(x, y, b, c)
    <3>1. b.pc = "idle" /\ y.state = "Disposing" /\ ~y.visible
          /\ y.reg = x.reg /\ y.indexed = x.indexed /\ x.state \notin {"Absent", "Gone", "Disposed"}
      BY <2>7, Zenon DEF Begun, Only
    <3> QED BY <2>1, <2>2, <3>1 DEF IndexRec
  <2>8. CASE (\E p \in Procs : Activate(p) /\ proc[p].tgt = f) /\ Started(x, y, b, c)
    <3>1. /\ x.state \in {"Created", "Waiting"} /\ y.state = "Starting" /\ c = b /\ q # "index"
          /\ y.reg = x.reg /\ y.indexed = x.indexed /\ y.visible = x.visible
      BY <2>8 DEF Started, Only
    <3> QED BY <2>1, <3>1 DEF IndexRec
  <2>9. CASE Committing(f, x, y, b, c)
    <3>1. /\ x.state = "Starting" /\ b.pc = "idle" /\ y.state = "Active"
          /\ y.reg = x.reg /\ y.indexed = x.indexed /\ c = b
      BY <2>9 DEF Committing, Only, BodyOK
    <3>2. x.indexed /\ q # "index"
      BY <3>1 DEF IndexRec
    <3> QED BY <2>1, <3>1, <3>2 DEF IndexRec
  <2>10. CASE Providing(f, x, y, b, c) \/ Adopting(f, x, y, b, c) \/ Leasing(f, x, y, b, c)
    <3>1. /\ y.state = x.state /\ y.visible = x.visible /\ y.indexed = x.indexed /\ c = b
          /\ y.reg = x.reg \/ \E d \in Provides[f] : y.reg = x.reg \cup {d}
      BY <2>10 DEF Providing, Adopting, Leasing, Only
    <3> QED BY <2>1, <2>2, <3>1 DEF IndexRec
  <2>11. CASE \/ Draining(x, y, b, c) \/ Drained(x, y, b, c) \/ ScopeDone(x, y, b, c)
              \/ ScopesDone(x, y, b, c)
    <3>1. /\ y.state = x.state /\ y.visible = x.visible /\ y.indexed = x.indexed /\ y.reg = x.reg
          /\ b.pc # "publish"
      BY <2>11 DEF Draining, Drained, ScopeDone, ScopesDone, Only
    <3> QED BY <2>1, <2>2, <3>1 DEF IndexRec
  <2>12. CASE \/ AskingScope(x, y, b, c) \/ Releasing(x, y, b, c) \/ Deciding(x, y, b, c)
              \/ Finishing(x, y, b, c) \/ Quitting(x, y, b, c)
    <3>1. /\ y.state = x.state /\ y.visible = x.visible /\ y.indexed = x.indexed
          /\ y.reg \in {x.reg, {}} /\ b.pc # "publish"
      BY <2>12 DEF AskingScope, Releasing, Deciding, Finishing, Quitting, Only
    <3> QED BY <2>1, <2>2, <3>1 DEF IndexRec
  <2>13. CASE Detaching(x, y, b, c)
    <3>1. ~x.visible
      BY <2>13 DEF Detaching, VisibleOK, BodyOK
    <3>2. /\ y.state = x.state /\ y.visible = x.visible /\ y.reg = x.reg /\ b.pc # "publish"
          /\ c.pc = "publish" /\ c.goal = b.goal /\ c.bad = b.bad
          /\ y.indexed = x.indexed \/ (b.goal = "Disposed" /\ ~b.bad /\ ~y.indexed)
      BY <2>13 DEF Detaching, Only
    <3> QED BY <2>1, <2>2, <3>1, <3>2 DEF IndexRec
  <2>14. CASE Publishing(x, y, b, c)
    <3>1. /\ b.pc = "publish" /\ y.state = IF b.bad THEN x.state ELSE b.goal
          /\ x.state \notin {"Absent", "Gone"}
      BY <2>14 DEF Publishing
    <3>2. ~b.bad => b.goal \in {"Waiting", "Disposed"}
      BY <3>1 DEF BodyOK, Decided
    <3>3. y.visible = x.visible /\ y.reg = x.reg /\ y.indexed = x.indexed
      BY <2>14 DEF Publishing, Only
    <3>4. ~x.visible /\ x.state # "Disposed"
      BY <3>1 DEF VisibleOK, StateOK, BodyOK
    <3> QED BY <2>1, <2>2, <3>1, <3>2, <3>3, <3>4 DEF IndexRec
  <2>15. CASE Vanishing(x, y, b, c)
    BY <2>1, <2>15 DEF Vanishing, Only, IndexRec
  <2> QED BY <1>2, <2>3, <2>4, <2>5, <2>6, <2>7, <2>8, <2>9, <2>10, <2>11, <2>12, <2>13, <2>14,
             <2>15 DEF FiberMove, OtherMove, BodyMove
<1> QED BY <1>1, <1>2

\* No step makes a record Absent.
LEMMA NeverAbsent ==
  ASSUME GeneralInv, [Next]_vars, NEW f \in Fibers, fib[f].state # "Absent"
  PROVE  fib'[f].state # "Absent"
<1> DEFINE x == fib[f]
           y == fib'[f]
           b == proc[Body(f)]
           c == proc'[Body(f)]
<1>1. FiberMove(f, x, y, b, c) /\ BodyOK(x, b) /\ x.state # "Absent"
  BY NextMoves, Records DEF FiberMoves, FiberOK
<1> HIDE DEF x, y, b, c
<1>2. ~Created(x, y, b, c)
  BY <1>1 DEF Created
<1>3. CASE \/ Rest(x, y, b, c) \/ Indexed(x, y, b, c) \/ Removed(x, y, b, c) \/ Parked(x, y, b, c)
           \/ Committing(f, x, y, b, c) \/ FailedMove(x, y, b, c) \/ Providing(f, x, y, b, c)
           \/ Adopting(f, x, y, b, c) \/ Leasing(f, x, y, b, c) \/ Sweeping(x, y, b, c)
  BY <1>1, <1>3 DEF y, Rest, Indexed, Removed, Parked, Committing, FailedMove, Providing, Adopting, Leasing,
         Sweeping, Only
<1>4. CASE Begun(x, y, b, c) \/ Started(x, y, b, c)
  BY <1>4, Zenon DEF y, Begun, Started
<1>5. CASE \/ AskingScope(x, y, b, c) \/ Releasing(x, y, b, c) \/ Deciding(x, y, b, c)
           \/ Finishing(x, y, b, c) \/ Quitting(x, y, b, c) \/ Detaching(x, y, b, c)
           \/ Vanishing(x, y, b, c)
  BY <1>1, <1>5 DEF y, AskingScope, Releasing, Deciding, Finishing, Quitting, Detaching, Vanishing, Only
<1>6. CASE \/ Draining(x, y, b, c) \/ Drained(x, y, b, c) \/ ScopesDone(x, y, b, c)
           \/ ScopeDone(x, y, b, c)
  BY <1>1, <1>6 DEF y, Draining, Drained, ScopesDone, ScopeDone, Only
<1>7. CASE Publishing(x, y, b, c)
  <2>1. y.state = (IF b.bad THEN x.state ELSE b.goal) /\ b.pc = "publish"
    BY <1>7 DEF Publishing
  <2> QED BY <1>1, <2>1 DEF y, BodyOK, Decided
<1> QED BY <1>1, <1>2, <1>3, <1>4, <1>5, <1>6, <1>7 DEF FiberMove, OtherMove, BodyMove

\* Who finds a Fiber finds an indexed one.
LEMMA FoundIndexed ==
  ASSUME GeneralInv, Index, [Next]_vars, NEW f \in Fibers, NEW p \in Reconcilers,
         Found(f, proc'[p])
  PROVE  ~At(Installer(f), "index") /\ fib[f].state # "Absent"
<1> DEFINE b == proc[p]
           c == proc'[p]
<1>1. p \in Procs /\ FrameMove(p, b, c)
  BY NextFrames, ReconcilerProcs DEF FrameMoves
<1>2. /\ Found(f, b) => ~At(Installer(f), "index") /\ fib[f].state # "Absent"
      /\ fib[f].indexed => ~At(Installer(f), "index") /\ fib[f].state # "Absent"
  BY DEF Index, IndexOK, IndexRec, At
<1>3. Asking(p, b, c) => c.todo = b.todo /\ c.pc \in {"wait", "back"}
  BY <1>1, AskedAnswer
<1>4. Answering(b, c) => c.todo = b.todo /\ c.pc \in {"wait", "back"}
  BY <1>1, AnsweredWait
<1>5. Going(p, b, c) => Scanning(b, c)
  BY DEF Going
<1>6. CASE Scanning(b, c)
  BY <1>2, <1>6 DEF Scanning, Found
<1> QED BY <1>1, <1>2, <1>3, <1>4, <1>5, <1>6 DEF FrameMove, Returning, Found

LEMMA IndexNext ==
  ASSUME GeneralInv, Index, [Next]_vars
  PROVE  Index'
<1> SUFFICES ASSUME NEW f \in Fibers PROVE IndexOK(f)'
  BY DEF Index
<1> DEFINE x == fib[f]
           b == proc[Body(f)]
           q == proc[Installer(f)].pc
           r == proc'[Installer(f)].pc
<1>1. IndexRec(f, x, b, q) /\ BodyOK(x, b) /\ StateOK(x, b) /\ VisibleOK(f, x)
  BY Records DEF Index, IndexOK, FiberOK
<1>2. FiberMove(f, x, fib'[f], b, proc'[Body(f)])
  BY NextMoves DEF FiberMoves
<1>3. /\ r = "index" => q = "index" \/ Install(f)
      /\ q = "index" => r = "index" \/ InstallIndex(f)
      /\ Install(f) => /\ x.state = "Absent" /\ r = "index"
                       /\ fib'[f] = [NewFiber EXCEPT !.state = "Created"]
      /\ InstallIndex(f) => q = "index" /\ r = "validate" /\ fib'[f].indexed
  BY InstallerSteps DEF At
<1>4. ASSUME NEW p \in Procs, Activate(p), proc[p].tgt = f PROVE q # "index"
  <2>1. proc[p].pc = "lock" /\ FrameOK(p, proc[p]) /\ p[1] \in {"install", "act", "body", "host", "scope"}
    BY <1>4, Instances, ProcKinds DEF Activate, At, GeneralInv
  <2>2. p[1] \in {"install", "act", "body"}
    BY <2>1, InActivate
  <2>3. CASE p \in Reconcilers
    BY <1>4, <2>1, <2>3 DEF Index, IndexOK, Found, At
  <2>4. CASE p[1] = "install"
    <3>1. p[2] = f
      BY <1>4, <2>1, <2>4 DEF FrameOK, Calling
    <3>2. p = Installer(f)
      BY <2>4, <3>1 DEF Procs, Installer
    <3> QED BY <2>1, <3>2
  <2> QED BY <2>2, <2>3, <2>4, ProcKinds
<1>5. IndexRec(f, fib'[f], proc'[Body(f)], r)
  <2> HIDE DEF x, b, q, r
  <2> QED BY <1>1, <1>2, <1>3, <1>4, IndexKept
<1>6. ASSUME NEW p \in Reconcilers, Found(f, proc'[p])
      PROVE  ~At(Installer(f), "index")' /\ fib'[f].state # "Absent"
  <2>1. ~At(Installer(f), "index") /\ x.state # "Absent"
    BY <1>6, FoundIndexed
  <2> QED BY <1>3, <2>1, NeverAbsent DEF At
<1> QED BY <1>5, <1>6 DEF IndexOK

LEMMA IndexInit == Init => Index
<1> SUFFICES ASSUME Init, NEW f \in Fibers PROVE IndexOK(f)
  BY DEF Index
<1>1. /\ Idle.pc = "idle" /\ Idle.todo = {} /\ NewFiber.state = "Absent" /\ NewFiber.reg = {}
      /\ ~NewFiber.visible /\ ~NewFiber.indexed
  BY DEF Idle, NewFiber
<1>2. \A p \in Reconcilers : ~Found(f, proc[p])
  BY <1>1, BootRecords, ReconcilerProcs DEF Found
<1>3. IndexRec(f, fib[f], proc[Body(f)], proc[Installer(f)].pc)
  <2>1. proc[Installer(f)].pc = "idle"
    BY <1>1, BootRecords, FiberProcs
  <2>2. CASE f \in Elements(BootFibers)
    BY <2>1, <2>2, BootRecords DEF IndexRec
  <2>3. CASE f \notin Elements(BootFibers)
    BY <1>1, <2>1, <2>3, BootRecords DEF IndexRec
  <2> QED BY <2>2, <2>3
<1> QED BY <1>2, <1>3 DEF IndexOK

(***************************************************************************)
(* A Fiber that can be found, run or seen is in the dependency indexes     *)
(* (DependencyGraph::index_fiber), and what it registers it declared.      *)
(***************************************************************************)
THEOREM IndexInvariant == Spec => []Index
BY GeneralInvariant, IndexInit, IndexNext, PTL DEF Spec

-----------------------------------------------------------------------------
(***************************************************************************)
(* No cycle is left behind where the nearest provider of a service is the  *)
(* only one: no two Fibers that can both be seen from a Scope declare the  *)
(* same service.  Otherwise an edge of the graph may move from a provider  *)
(* that is disposed to another declaration, and nothing is validated then. *)
(***************************************************************************)
NoShadowing ==
  \A s \in Scopes, f, g \in Fibers :
    {ScopeOf[f], ScopeOf[g]} \subseteq Chain(s) /\ Provides[f] \cap Provides[g] # {} => f = g

\* f depends on what g declares, in a Scope that is still on the way.
Needs(f, g) ==
  /\ fib[g].indexed /\ Deps[f] \cap Provides[g] # {}
  /\ ScopeOf[g] \in Walk(ScopeOf[f])

Live == {f \in Fibers : Registered(f) /\ fib[f].state # "Disposed"}
Knot(S) == S # {} /\ \A f \in S : Edges(f) \cap S # {}

\* Whoever closes a cycle is about to find it.
CycleInv ==
  \A S \in SUBSET Live : Knot(S) =>
    \E f \in S : proc[Installer(f)].pc \in {"validate", "remove"}

LEMMA EdgeIn ==
  ASSUME NEW f \in Fibers, NEW g \in Edges(f)
  PROVE  /\ g \in Fibers
         /\ \E d \in Deps[f], a \in Walk(ScopeOf[f]) :
              /\ ScopeOf[g] = a
              /\ (d \in fib[g].reg /\ fib[g].visible) \/ (d \in Provides[g] /\ fib[g].indexed)
<1>1. PICK d \in Deps[f] :
        g \in UNION {IF Offers(a, d) # {} THEN Offers(a, d) ELSE Declares(a, d) :
                       a \in Nearest(ScopeOf[f], d)}
  BY DEF Edges
<1>2. PICK a \in Nearest(ScopeOf[f], d) :
        g \in IF Offers(a, d) # {} THEN Offers(a, d) ELSE Declares(a, d)
  BY <1>1
<1>3. a \in Walk(ScopeOf[f])
  BY DEF Nearest
<1>4. g \in Offers(a, d) \cup Declares(a, d)
  BY <1>2
<1> QED BY <1>3, <1>4 DEF Offers, Declares

\* An edge leads to a declaration of an indexed Fiber.
Pointed == \A f \in Fibers, g \in Live : g \in Edges(f) => Needs(f, g)

LEMMA EdgesNeed == Index => Pointed
<1> SUFFICES ASSUME Index, NEW f \in Fibers, NEW g \in Live, g \in Edges(f) PROVE Needs(f, g)
  BY DEF Pointed
<1>1. PICK d \in Deps[f] : \E a \in Walk(ScopeOf[f]) :
        /\ ScopeOf[g] = a
        /\ (d \in fib[g].reg /\ fib[g].visible) \/ (d \in Provides[g] /\ fib[g].indexed)
  BY EdgeIn
<1>2. g \in Fibers /\ fib[g].state # "Gone"
  BY DEF Live, Registered
<1>3. fib[g].reg \subseteq Provides[g] /\ (fib[g].visible => fib[g].indexed)
  BY <1>2 DEF Index, IndexOK, IndexRec
<1> QED BY <1>1, <1>3 DEF Needs

LEMMA NeedsEdge ==
  ASSUME NoShadowing, Index, NEW f \in Fibers, NEW g \in Fibers, Needs(f, g)
  PROVE  g \in Edges(f)
<1> DEFINE a == ScopeOf[g]
           s == ScopeOf[f]
<1>1. PICK d \in Deps[f] : d \in Provides[g]
  BY DEF Needs
<1>2. a \in Walk(s) /\ Walk(s) \subseteq Chain(s) /\ s \in Scopes /\ fib[g].indexed
  BY LifecycleAssumption DEF Needs, Walk
<1>3. g \in Declares(a, d)
  BY <1>1, <1>2 DEF Declares
\* Any other provider on the way is g.
<1>4. ASSUME NEW b \in Walk(s), NEW h \in Offers(b, d) \cup Declares(b, d)
      PROVE  h = g
  <2>1. h \in Fibers /\ ScopeOf[h] = b /\ (d \in fib[h].reg \/ d \in Provides[h])
    BY DEF Offers, Declares
  <2>2. d \in Provides[h]
    BY <2>1 DEF Index, IndexOK, IndexRec
  <2> QED BY <1>1, <1>2, <2>1, <2>2 DEF NoShadowing
<1>5. a \in Nearest(s, d)
  <2>1. \A b \in Walk(s) : Offers(b, d) \cup Declares(b, d) # {} => b = a
    <3> SUFFICES ASSUME NEW b \in Walk(s), NEW h \in Offers(b, d) \cup Declares(b, d) PROVE b = a
      OBVIOUS
    <3>1. ScopeOf[h] = b
      BY DEF Offers, Declares
    <3> QED BY <1>4, <3>1
  <2> HIDE DEF a, s
  <2> QED BY <1>2, <1>3, <2>1 DEF Nearest
<1>6. g \in IF Offers(a, d) # {} THEN Offers(a, d) ELSE Declares(a, d)
  <2>1. Offers(a, d) # {} => g \in Offers(a, d)
    BY <1>2, <1>4
  <2> QED BY <1>3, <2>1
<1>7. g \in UNION {IF Offers(b, d) # {} THEN Offers(b, d) ELSE Declares(b, d) : b \in Nearest(s, d)}
  BY <1>5, <1>6
<1> QED BY <1>1, <1>7 DEF Edges

\* Before the step, there was what a need of afterwards needs.
LEMMA NeedsBack ==
  ASSUME GeneralInv, [Next]_vars, NEW f \in Fibers, NEW g \in Fibers, Needs(f, g)',
         fib[g].indexed
  PROVE  Needs(f, g)
<1>1. ScopeOf[g] \in Walk(ScopeOf[f])' /\ Deps[f] \cap Provides[g] # {}
  BY DEF Needs
<1>2. \A b \in Scopes : scp[b].state = "Gone" => scp'[b].state = "Gone"
  <2> SUFFICES ASSUME NEW b \in Scopes, scp[b].state = "Gone" PROVE scp'[b].state = "Gone"
    OBVIOUS
  <2>1. ScopeMove(b, scp[b], scp'[b]) /\ ScopeOK(scp[b], proc[ScopeBody(b)])
    BY NextScopes DEF ScopeMoves, GeneralInv, ScopeStates
  <2> QED BY <2>1 DEF ScopeMove, ScopeOK, OnlyScope, Born, Joining, Asked, ScopeEnding, Unlinking, Clearing
<1>3. ScopeOf[g] \in Walk(ScopeOf[f])
  BY <1>1, <1>2 DEF Walk, Chain
<1> QED BY <1>1, <1>3 DEF Needs

\* A live Fiber that is indexed was so, unless it has just been indexed.
LEMMA LiveBack ==
  ASSUME GeneralInv, Index, [Next]_vars, NEW f \in Fibers, f \in Live', fib'[f].indexed,
         ~At(Installer(f), "validate")'
  PROVE  f \in Live /\ fib[f].indexed
<1> DEFINE x == fib[f]
           y == fib'[f]
           b == proc[Body(f)]
           c == proc'[Body(f)]
<1>1. /\ FiberMove(f, x, y, b, c) /\ IndexRec(f, x, b, proc[Installer(f)].pc)
      /\ y.state \notin {"Absent", "Gone", "Disposed"} /\ y.indexed
  BY NextMoves DEF FiberMoves, Index, IndexOK, Live, Registered
<1>2. ~InstallIndex(f)
  BY InstallerSteps
<1>3. StateOK(x, b) /\ BodyOK(x, b)
  BY Records DEF FiberOK
<1> HIDE DEF x, y, b, c
<1>4. x.indexed /\ x.state \notin {"Gone", "Disposed"}
  <2>1. CASE \/ Rest(x, y, b, c) \/ Removed(x, y, b, c) \/ Parked(x, y, b, c)
             \/ Committing(f, x, y, b, c) \/ FailedMove(x, y, b, c) \/ Providing(f, x, y, b, c)
             \/ Adopting(f, x, y, b, c) \/ Leasing(f, x, y, b, c) \/ Sweeping(x, y, b, c)
    BY <1>1, <2>1 DEF Rest, Removed, Parked, Committing, FailedMove, Providing, Adopting,
                      Leasing, Sweeping, Only
  <2>2. ~Created(x, y, b, c)
    BY <1>1 DEF Created, NewFiber
  <2>3. CASE Begun(x, y, b, c) \/ Started(x, y, b, c)
    BY <1>1, <2>3, Zenon DEF Begun, Started, Only
  <2>4. CASE \/ AskingScope(x, y, b, c) \/ Releasing(x, y, b, c) \/ Deciding(x, y, b, c)
             \/ Finishing(x, y, b, c) \/ Quitting(x, y, b, c) \/ Vanishing(x, y, b, c)
    BY <1>1, <2>4 DEF AskingScope, Releasing, Deciding, Finishing, Quitting, Vanishing, Only
  <2>5. CASE \/ Draining(x, y, b, c) \/ Drained(x, y, b, c) \/ ScopesDone(x, y, b, c)
             \/ ScopeDone(x, y, b, c)
    BY <1>1, <2>5 DEF Draining, Drained, ScopesDone, ScopeDone, Only
  <2>6. CASE Detaching(x, y, b, c)
    BY <1>1, <2>6 DEF Detaching, Only
  <2>7. CASE Publishing(x, y, b, c)
    BY <1>1, <1>3, <2>7 DEF Publishing, Only, BodyOK, StateOK
  <2> QED BY <1>1, <1>2, <2>1, <2>2, <2>3, <2>4, <2>5, <2>6, <2>7 DEF FiberMove, OtherMove, BodyMove
<1> QED BY <1>1, <1>4 DEF IndexRec, Live, Registered, x

\* Whoever was about to find a cycle and no longer is, did.
LEMMA ValidatedSteps ==
  ASSUME GeneralInv, [Next]_vars, NEW f \in Fibers, f \in Live, f \in Live',
         proc[Installer(f)].pc \in {"validate", "remove"},
         proc'[Installer(f)].pc \notin {"validate", "remove"}
  PROVE  ~Cyclic
<1> DEFINE q == Installer(f)
           b == proc[q]
           c == proc'[q]
<1>1. FrameMove(q, b, c) /\ q \in Procs /\ fib \in [Fibers -> FiberRec]
  BY NextFrames, FiberProcs, Records DEF FrameMoves
<1>2. Going(q, b, c)
  <2>1. ~Asking(q, b, c)
    BY DEF Asking
  <2>2. ~Answering(b, c)
    BY DEF Answering
  <2> QED BY <1>1, <2>1, <2>2 DEF FrameMove, Returning
<1>3. Installing(f, b, c)
  BY <1>2 DEF Going
<1>4. ~InstallRemove(f)
  <2> SUFFICES ASSUME InstallRemove(f) PROVE FALSE
    OBVIOUS
  <2>1. fib' = [fib EXCEPT ![f].state = "Gone", ![f].indexed = FALSE]
    BY DEF InstallRemove, Live
  <2>2. fib'[f].state = "Gone"
    BY <1>1, <2>1 DEF FiberRec
  <2> QED BY <2>2 DEF Live, Registered
<1>5. ~Install(f) /\ ~InstallIndex(f)
  BY DEF Install, InstallIndex, At, Live, Registered
<1>6. InstallValidate(f) /\ c.pc = IF Cyclic THEN "remove" ELSE "check"
  BY <1>3, <1>4, <1>5 DEF Installing
<1> QED BY <1>6

LEMMA CycleNext ==
  ASSUME NoShadowing, GeneralInv, Index, CycleInv, [Next]_vars
  PROVE  CycleInv'
<1> SUFFICES ASSUME NEW S \in SUBSET Live', Knot(S)',
                    \A f \in S : proc'[Installer(f)].pc \notin {"validate", "remove"}
             PROVE  FALSE
  BY DEF CycleInv
<1>1. Pointed'
  <2>1. GeneralInv' /\ Index'
    BY GeneralNext, IndexNext
  <2>2. (Index => Pointed)'
    BY EdgesNeed, PTL
  <2> QED BY <2>1, <2>2
<1>2. S \subseteq Fibers
  BY DEF Live
\* The Fibers that are in the indexes make a cycle of their own, as before.
<1> DEFINE T == {g \in S : fib'[g].indexed}
<1>3. ASSUME NEW f \in S PROVE \E g \in T : Needs(f, g)'
  <2>1. PICK g \in S : g \in Edges(f)'
    BY DEF Knot
  <2>2. Needs(f, g)'
    BY <1>1, <1>2, <2>1 DEF Pointed
  <2>3. fib'[g].indexed
    BY <2>2 DEF Needs
  <2> QED BY <2>2, <2>3
<1>4. T # {} /\ T \subseteq S
  BY <1>3 DEF Knot
<1>5. \A g \in T : g \in Live /\ fib[g].indexed
  BY <1>2, LiveBack DEF At
<1>6. ASSUME NEW f \in T PROVE Edges(f) \cap T # {}
  <2>1. PICK g \in T : Needs(f, g)'
    BY <1>3, <1>4
  <2>2. f \in Fibers /\ g \in Fibers /\ fib[g].indexed
    BY <1>2, <1>4, <1>5
  <2>3. g \in Edges(f)
    BY <2>1, <2>2, NeedsBack, NeedsEdge
  <2> QED BY <2>3
<1>7. Knot(T) /\ T \in SUBSET Live
  BY <1>4, <1>5, <1>6 DEF Knot
<1>8. PICK f \in T : proc[Installer(f)].pc \in {"validate", "remove"}
  BY <1>7 DEF CycleInv
<1>9. ~Cyclic
  BY <1>2, <1>4, <1>5, <1>8, ValidatedSteps
<1> QED BY <1>7, <1>9 DEF Cyclic, Knot, Live

LEMMA CycleInit == Init /\ ~Cyclic => CycleInv
BY DEF CycleInv, Cyclic, Knot, Live

(***************************************************************************)
(* Installs that race each other leave no dependency cycle behind          *)
(* (validate_dependency_graph after index_fiber, remove_unstarted_fiber):  *)
(* when every process has returned, the graph of the Fibers that remain is *)
(* acyclic, for every topology in which no provider shadows another and    *)
(* whose first Fibers make no cycle.                                       *)
(***************************************************************************)
THEOREM RacingInstallsLeaveNoCycle ==
  ASSUME NoShadowing
  PROVE  Spec /\ ~Cyclic => []CyclesRejected
<1>1. GeneralInv /\ Index /\ CycleInv /\ [Next]_vars => CycleInv'
  BY CycleNext
<1>2. CycleInv => CyclesRejected
  <2> SUFFICES ASSUME CycleInv, \A x \in Procs : At(x, "idle"), Cyclic PROVE FALSE
    BY DEF CyclesRejected
  <2>1. PICK S \in SUBSET Live : Knot(S)
    BY DEF Cyclic, Knot, Live
  <2>2. PICK f \in S : proc[Installer(f)].pc \in {"validate", "remove"}
    BY <2>1 DEF CycleInv
  <2> QED BY <2>2, FiberProcs DEF At, Live
<1> QED BY <1>1, <1>2, CycleInit, GeneralInvariant, IndexInvariant, PTL DEF Spec

-----------------------------------------------------------------------------
(***************************************************************************)
(* Where the declarations alone make no cycle, no install is taken back,   *)
(* and so no disposal loses its record.                                    *)
(***************************************************************************)
AcyclicDeclarations ==
  \A S \in SUBSET Fibers : S # {} => \E f \in S : \A g \in S : Deps[f] \cap Provides[g] = {}

LEMMA DeclaredAcyclic == AcyclicDeclarations /\ Index => ~Cyclic
<1> SUFFICES ASSUME AcyclicDeclarations, Index, NEW S \in SUBSET Fibers, Knot(S) PROVE FALSE
  BY DEF Cyclic, Knot
<1>1. PICK f \in S : \A g \in S : Deps[f] \cap Provides[g] = {}
  BY DEF AcyclicDeclarations, Knot
<1>2. PICK g \in S : g \in Edges(f)
  BY DEF Knot
<1>3. PICK d \in Deps[f] : d \in fib[g].reg \/ d \in Provides[g]
  BY <1>2, EdgeIn
<1>4. fib[g].reg \subseteq Provides[g]
  BY DEF Index, IndexOK, IndexRec
<1> QED BY <1>1, <1>3, <1>4

NoRemoval == \A f \in Fibers : ~At(Installer(f), "remove")

LEMMA NoRemovalNext ==
  ASSUME GeneralInv, NoRemoval, ~Cyclic, [Next]_vars
  PROVE  NoRemoval'
<1> SUFFICES ASSUME NEW f \in Fibers, proc'[Installer(f)].pc = "remove" PROVE FALSE
  BY DEF NoRemoval, At
<1> DEFINE q == Installer(f)
           b == proc[q]
           c == proc'[q]
<1>1. FrameMove(q, b, c) /\ q \in Procs /\ b.pc # "remove" /\ c.pc = "remove"
  BY NextFrames, FiberProcs DEF FrameMoves, NoRemoval, At
<1>2. CASE Going(q, b, c)
  <2>1. Installing(f, b, c)
    BY <1>2 DEF Going
  <2> QED BY <1>1, <2>1 DEF Installing, Early
<1>3. CASE Asking(q, b, c)
  BY <1>1, <1>3, AskedAnswer
<1>4. CASE Answering(b, c)
  BY <1>1, <1>4, AnsweredWait
<1> QED BY <1>1, <1>2, <1>3, <1>4 DEF FrameMove, Returning

(***************************************************************************)
(* So on a topology whose declarations make no cycle, whoever waits for a  *)
(* completion is served, with no behaviour ruled out.                      *)
(***************************************************************************)
THEOREM AcyclicWaitersAreServed ==
  ASSUME AcyclicDeclarations
  PROVE  Spec => []NoOrphanWaiter
<1>1. Init => NoRemoval
  BY BootRecords, FiberProcs DEF NoRemoval, At, Idle
<1>2. GeneralInv /\ Index /\ NoRemoval /\ [Next]_vars => NoRemoval'
  BY DeclaredAcyclic, NoRemovalNext
<1>3. NoRemoval => RemovesUndisposed
  BY DEF NoRemoval, RemovesUndisposed, InstallRemove
<1> QED BY <1>1, <1>2, <1>3, GeneralInvariant, IndexInvariant, WaitersAreServed, PTL DEF Spec

-----------------------------------------------------------------------------
(***************************************************************************)
(* What becomes of the members of a Scope.  First the installations and    *)
(* the disposals that failed: neither can leave a member waiting.          *)
(***************************************************************************)
\* No disposal puts its Fiber back to Waiting.
NoneWaits ==
  \A f \in Fibers : Publish(f) => proc[Body(f)].bad \/ proc[Body(f)].goal # "Waiting"

\* An ordinary error ended the disposal with the record x and the body b.
Refusal(x, b) ==
  \/ x.disposal.phase = "Terminated" /\ x.disposal.done = "plain"
  \/ b.pc \in {"detach", "publish"} /\ b.bad /\ b.res = "plain"

\* The record x of a Fiber, its body at b and its installer at the point q.
RaceRec(x, b, q) ==
  /\ q \in Early => /\ x.state \in {"Created", "Disposing", "Disposed", "Gone"}
                    /\ ~x.lease /\ ~x.visible
  /\ x.lease => x.state \notin {"Absent", "Created", "Waiting"}
  /\ x.disposal.phase = "Complete" => x.state \in {"Disposed", "Gone"}
  /\ Refusal(x, b) => x.state # "Waiting" /\ q \notin Early

\* A reconciliation that is about to activate Fiber f.
Knows(f, b) == b.tgt = f /\ (b.pc = "lock" \/ (b.pc = "judge" /\ b.seen = "Waiting"))

RaceOK(f) ==
  /\ RaceRec(fib[f], proc[Body(f)], proc[Installer(f)].pc)
  /\ \A p \in Reconcilers : Knows(f, proc[p]) =>
       proc[Installer(f)].pc \notin Early /\ fib[f].state # "Absent"

Race == \A f \in Fibers : RaceOK(f)

\* How the installer of f comes to its points before the activation, and leaves them.
LEMMA EarlySteps ==
  ASSUME GeneralInv, [Next]_vars, NEW f \in Fibers
  PROVE  /\ proc'[Installer(f)].pc \in Early => proc[Installer(f)].pc \in Early \/ Install(f)
         /\ Install(f) => /\ fib[f].state = "Absent" /\ proc'[Body(f)] = proc[Body(f)]
                          /\ fib'[f] = [NewFiber EXCEPT !.state = "Created"]
         /\ InstallPark(f) => /\ proc[Installer(f)].pc \in Early
                              /\ proc'[Installer(f)].pc \notin Early
<1> DEFINE q == Installer(f)
           b == proc[q]
           c == proc'[q]
<1>1. /\ FrameMove(q, b, c) /\ q \in Procs /\ proc \in [Procs -> Frames] /\ fib \in [Fibers -> FiberRec]
      /\ Body(f) # q
  BY NextFrames, FiberProcs, Records DEF FrameMoves
<1>2. Install(f) => /\ fib[f].state = "Absent" /\ proc'[Body(f)] = proc[Body(f)]
                    /\ fib'[f] = [NewFiber EXCEPT !.state = "Created"]
  BY <1>1, FiberProcs DEF Install, Goto
<1>3. InstallPark(f) => b.pc \in Early /\ c.pc \notin Early
  BY <1>1 DEF InstallPark, At, End, Idle, Early
<1>4. Asking(q, b, c) => c.pc \in {"wait", "back"}
  BY <1>1, AskedAnswer
<1>5. Answering(b, c) => c.pc = "back"
  BY <1>1, AnsweredWait
<1>6. Going(q, b, c) => Installing(f, b, c)
  BY DEF Going
<1>7. /\ InstallIndex(f) => b.pc \in Early
      /\ InstallValidate(f) => b.pc \in Early
      /\ InstallRemove(f) => b.pc \in Early
  BY DEF InstallIndex, InstallValidate, InstallRemove, At, Early
<1>8. c.pc \in Early => b.pc \in Early \/ Install(f)
  BY <1>1, <1>4, <1>5, <1>6, <1>7 DEF FrameMove, Returning, Installing, Early
<1> QED BY <1>2, <1>3, <1>8

LEMMA RaceKept ==
  ASSUME NEW f \in Fibers, NEW x, NEW b \in Frames, NEW y, NEW c, NEW q, NEW r,
         RaceRec(x, b, q), BodyOK(x, b), StateOK(x, b), VisibleOK(f, x),
         FiberMove(f, x, y, b, c),
         r \in Early => q \in Early \/ Install(f),
         Install(f) => x.state = "Absent" /\ c = b /\ y = [NewFiber EXCEPT !.state = "Created"],
         InstallPark(f) => q \in Early /\ r \notin Early,
         (\E p \in Procs : Activate(p) /\ proc[p].tgt = f) => q \notin Early,
         Publish(f) => b.bad \/ b.goal # "Waiting"
  PROVE  RaceRec(y, c, r)
<1>1. CASE Install(f)
  <2>1. y.state = "Created" /\ ~y.lease /\ ~y.visible /\ y.disposal.phase = "Idle"
    BY <1>1 DEF NewFiber, NewDisposal
  <2>2. c = b /\ b.pc = "idle"
    BY <1>1 DEF StateOK, BodyOK
  <2> QED BY <2>1, <2>2 DEF RaceRec, Refusal
<1>2. CASE ~Install(f)
  <2>1. r \in Early => q \in Early
    BY <1>2
  \* A record that keeps its disposal, and perhaps its state.
  <2>2. ASSUME y.disposal.phase = x.disposal.phase, y.disposal.done = x.disposal.done,
               c = b \/ c.pc \notin {"detach", "publish"} \/ ~c.bad \/ c.res = "crash",
               y.lease = x.lease, y.visible => x.visible,
               y.state = x.state \/ y.state = "Gone"
                 \/ (y.state = "Failed" /\ x.state \in {"Starting", "Active"})
        PROVE  RaceRec(y, c, r)
    <3>1. Refusal(y, c) => Refusal(x, b)
      BY <2>2 DEF Refusal
    <3> QED BY <2>1, <2>2, <3>1 DEF RaceRec
  \* A body at work that changes the phase of its record.
  <2>3. ASSUME y.disposal.phase \notin {"Complete", "Terminated"},
               c.pc \notin {"detach", "publish"} \/ (b.pc = "detach" /\ c.bad = b.bad /\ c.res \in {b.res, "crash"}),
               y.lease = x.lease, y.visible = x.visible, y.state = x.state
        PROVE  RaceRec(y, c, r)
    <3>1. Refusal(y, c) => Refusal(x, b)
      BY <2>3 DEF Refusal
    <3> QED BY <2>1, <2>3, <3>1 DEF RaceRec
  <2>4. CASE Rest(x, y, b, c) \/ FailedMove(x, y, b, c)
    <3>1. c = b \/ c.pc \notin {"detach", "publish"}
      BY <2>4 DEF Rest, FailedMove, Along, Reconciling, Calling
    <3> QED BY <2>2, <2>4, <3>1 DEF Rest, FailedMove, Only
  <2>5. CASE Indexed(x, y, b, c) \/ Removed(x, y, b, c) \/ Sweeping(x, y, b, c)
    BY <2>2, <2>5 DEF Indexed, Removed, Sweeping, Only
  <2>6. CASE InstallPark(f) /\ Parked(x, y, b, c)
    <3>1. /\ q \in Early /\ r \notin Early /\ x.state \in {"Created", "Disposing"} /\ y.state = "Waiting"
          /\ c = b /\ y.lease = x.lease
          /\ y.disposal.phase = x.disposal.phase /\ y.disposal.done = x.disposal.done
      BY <2>6 DEF Parked, Only
    <3> QED BY <3>1 DEF RaceRec, Refusal
  <2>7. CASE Begun(x, y, b, c)
    <3>1. c.pc = "queue" /\ y.state = "Disposing" /\ ~y.visible /\ y.disposal.phase = "Tasks"
          /\ y.lease = x.lease
      BY <2>7, Zenon DEF Begun, Only, Idle
    <3> QED BY <2>1, <3>1 DEF RaceRec, Refusal
  <2>8. CASE (\E p \in Procs : Activate(p) /\ proc[p].tgt = f) /\ Started(x, y, b, c)
    <3>1. /\ x.state \in {"Created", "Waiting"} /\ y.state = "Starting" /\ c = b /\ q \notin Early
          /\ y.lease = x.lease
      BY <2>8 DEF Started, Only
    <3>2. y.disposal = x.disposal
      BY <2>8, <3>1 DEF Started, RaceRec
    <3> QED BY <2>1, <3>1, <3>2 DEF RaceRec, Refusal
  <2>9. CASE Committing(f, x, y, b, c)
    <3>1. /\ x.state = "Starting" /\ y.state = "Active" /\ c = b /\ y.lease = x.lease
          /\ y.disposal.phase = x.disposal.phase /\ y.disposal.done = x.disposal.done
      BY <2>9 DEF Committing, Only
    <3> QED BY <2>1, <3>1 DEF RaceRec, Refusal
  <2>10. CASE Providing(f, x, y, b, c) \/ Adopting(f, x, y, b, c)
    BY <2>2, <2>10 DEF Providing, Adopting, Only
  <2>11. CASE Leasing(f, x, y, b, c)
    <3>1. /\ y.state = x.state /\ c = b /\ y.visible = x.visible /\ (y.lease => x.visible)
          /\ y.lease \in BOOLEAN
          /\ y.disposal.phase = x.disposal.phase /\ y.disposal.done = x.disposal.done
      BY <2>11 DEF Leasing, Only
    <3> QED BY <2>1, <3>1 DEF RaceRec, Refusal, VisibleOK
  <2>12. CASE ScopeDone(x, y, b, c)
    <3>1. c.pc = "kids"
      BY <2>12 DEF ScopeDone, Idle
    <3> QED BY <2>2, <2>12, <3>1 DEF ScopeDone, Only
  <2>13. CASE AskingScope(x, y, b, c) \/ Releasing(x, y, b, c) \/ Finishing(x, y, b, c)
    BY <2>2, <2>13 DEF AskingScope, Releasing, Finishing, Only
  <2>14. CASE Draining(x, y, b, c) \/ Drained(x, y, b, c) \/ ScopesDone(x, y, b, c)
    <3>1. c.pc \in {"drain", "kids", "release"}
      BY <2>14 DEF Draining, Drained, ScopesDone, Frames
    <3>2. b.pc \notin {"detach", "publish"}
      BY <2>14 DEF Draining, Drained, ScopesDone
    <3> QED BY <2>3, <2>14, <3>1, <3>2 DEF Draining, Drained, ScopesDone, Only
  <2>15. CASE Deciding(x, y, b, c) \/ Detaching(x, y, b, c)
    BY <2>3, <2>15 DEF Deciding, Detaching, Only
  <2>16. CASE Quitting(x, y, b, c)
    <3>1. /\ y.state = x.state /\ y.lease = x.lease /\ y.visible = x.visible
          /\ y.disposal.phase = x.disposal.phase /\ y.disposal.done = x.disposal.done
          /\ c.res = "crash" \/ (c.res = "plain" /\ x.lease)
      BY <2>16 DEF Quitting, Only
    <3>2. CASE c.res = "crash"
      BY <2>2, <3>1, <3>2
    <3>3. CASE x.lease
      BY <2>1, <3>1, <3>3 DEF RaceRec
    <3> QED BY <3>1, <3>2, <3>3
  <2>17. CASE Publish(f) /\ Publishing(x, y, b, c)
    <3>1. /\ b.pc = "publish" /\ c.pc = "idle" /\ y.lease = x.lease /\ y.visible = x.visible
          /\ y.state = IF b.bad THEN x.state ELSE b.goal
          /\ y.disposal.phase = IF b.bad THEN "Terminated" ELSE "Complete"
          /\ y.disposal.done = b.res
      BY <2>17 DEF Publishing, Only, Idle
    <3>2. CASE b.bad
      <4>1. Refusal(y, c) => Refusal(x, b)
        BY <3>1, <3>2 DEF Refusal
      <4> QED BY <2>1, <3>1, <3>2, <4>1 DEF RaceRec
    <3>3. CASE ~b.bad
      <4>1. b.goal = "Disposed"
        BY <2>17, <3>1, <3>3 DEF BodyOK, Decided
      <4>2. ~Refusal(y, c)
        BY <3>1, <3>3 DEF Refusal
      <4> QED BY <2>1, <3>1, <3>3, <4>1, <4>2 DEF RaceRec
    <3> QED BY <3>2, <3>3
  <2>18. CASE Vanishing(x, y, b, c)
    <3>1. c.pc = "idle"
      BY <2>18 DEF Vanishing, Idle
    <3> QED BY <2>2, <2>18, <3>1 DEF Vanishing, Only
  <2> QED BY <1>2, <2>4, <2>5, <2>6, <2>7, <2>8, <2>9, <2>10, <2>11, <2>12, <2>13, <2>14, <2>15, <2>16,
             <2>17, <2>18 DEF FiberMove, OtherMove, BodyMove
<1> QED BY <1>1, <1>2

\* Who is about to activate a Fiber has found one that is installed.
LEMMA KnowsInstalled ==
  ASSUME GeneralInv, Race, [Next]_vars, NEW f \in Fibers, NEW p \in Reconcilers,
         Knows(f, proc'[p])
  PROVE  proc[Installer(f)].pc \notin Early /\ fib[f].state # "Absent"
<1> DEFINE b == proc[p]
           c == proc'[p]
<1>1. p \in Procs /\ FrameMove(p, b, c)
  BY NextFrames, ReconcilerProcs DEF FrameMoves
<1>2. /\ Knows(f, b) => proc[Installer(f)].pc \notin Early /\ fib[f].state # "Absent"
      /\ fib[f].state = "Waiting" => proc[Installer(f)].pc \notin Early
  BY DEF Race, RaceOK, RaceRec
<1>3. Asking(p, b, c) => c.pc \in {"wait", "back"}
  BY <1>1, AskedAnswer
<1>4. Answering(b, c) => c.pc \in {"wait", "back"}
  BY <1>1, AnsweredWait
<1>5. Going(p, b, c) => Scanning(b, c)
  BY DEF Going
<1>6. CASE Scanning(b, c)
  BY <1>2, <1>6 DEF Scanning, Knows
<1> QED BY <1>1, <1>2, <1>3, <1>4, <1>5, <1>6 DEF FrameMove, Returning, Knows

LEMMA RaceNext ==
  ASSUME GeneralInv, Race, Next, NoneWaits
  PROVE  Race'
<1> SUFFICES ASSUME NEW f \in Fibers PROVE RaceOK(f)'
  BY DEF Race
<1> DEFINE x == fib[f]
           b == proc[Body(f)]
           q == proc[Installer(f)].pc
           r == proc'[Installer(f)].pc
<1>1. RaceRec(x, b, q) /\ BodyOK(x, b) /\ StateOK(x, b) /\ VisibleOK(f, x) /\ b \in Frames
  BY Records DEF Race, RaceOK, FiberOK
<1>2. FiberMove(f, x, fib'[f], b, proc'[Body(f)])
  BY NextMoves DEF FiberMoves
<1>3. /\ r \in Early => q \in Early \/ Install(f)
      /\ Install(f) => /\ x.state = "Absent" /\ proc'[Body(f)] = b
                       /\ fib'[f] = [NewFiber EXCEPT !.state = "Created"]
      /\ InstallPark(f) => q \in Early /\ r \notin Early
  BY EarlySteps
<1>4. ASSUME NEW p \in Procs, Activate(p), proc[p].tgt = f PROVE q \notin Early
  <2>1. proc[p].pc = "lock" /\ FrameOK(p, proc[p]) /\ p[1] \in {"install", "act", "body", "host", "scope"}
    BY <1>4, Instances, ProcKinds DEF Activate, At, GeneralInv
  <2>2. p[1] \in {"install", "act", "body"}
    BY <2>1, InActivate
  <2>3. CASE p \in Reconcilers
    BY <1>4, <2>1, <2>3 DEF Race, RaceOK, Knows
  <2>4. CASE p[1] = "install"
    <3>1. p[2] = f
      BY <1>4, <2>1, <2>4 DEF FrameOK, Calling
    <3>2. p = Installer(f)
      BY <2>4, <3>1 DEF Procs, Installer
    <3> QED BY <2>1, <3>2 DEF Early
  <2> QED BY <2>2, <2>3, <2>4, ProcKinds
<1>5. Publish(f) => b.bad \/ b.goal # "Waiting"
  BY DEF NoneWaits
<1>6. RaceRec(fib'[f], proc'[Body(f)], r)
  <2> HIDE DEF x, b, q, r
  <2> QED BY <1>1, <1>2, <1>3, <1>4, <1>5, RaceKept
<1>7. ASSUME NEW p \in Reconcilers, Knows(f, proc'[p])
      PROVE  r \notin Early /\ fib'[f].state # "Absent"
  <2>1. q \notin Early /\ x.state # "Absent"
    BY <1>7, KnowsInstalled
  <2> QED BY <1>3, <2>1, NeverAbsent
<1> QED BY <1>6, <1>7 DEF RaceOK

LEMMA RaceInit == Init => Race
<1> SUFFICES ASSUME Init, NEW f \in Fibers PROVE RaceOK(f)
  BY DEF Race
<1>1. /\ Idle.pc = "idle" /\ NewFiber.disposal = NewDisposal /\ NewDisposal.phase = "Idle"
      /\ ~NewFiber.lease
  BY DEF Idle, NewFiber, NewDisposal
<1>2. proc[Body(f)] = Idle /\ proc[Installer(f)] = Idle
  BY BootRecords, FiberProcs
<1>3. fib[f].disposal = NewDisposal /\ ~fib[f].lease
  BY <1>1, BootRecords
<1>4. \A p \in Reconcilers : proc[p] = Idle
  BY BootRecords, ReconcilerProcs
<1> QED BY <1>1, <1>2, <1>3, <1>4 DEF RaceOK, RaceRec, Refusal, Knows, Early

-----------------------------------------------------------------------------
(***************************************************************************)
(* The members of a Scope: what lists them, and when they are over.        *)
(***************************************************************************)
\* A Fiber that is Disposed but for the publication, and left its Scope.
Leaving(f) ==
  LET b == proc[Body(f)] IN
  /\ b.pc = "publish" /\ b.goal = "Disposed" /\ ~b.bad
  /\ ~Lists(scp[ScopeOf[f]].fibers, f)

Over(f) == fib[f].state \in {"Absent", "Disposed", "Gone"} \/ Leaving(f)
ScopeOver(s) == scp[s].state \in {"Absent", "Disposed", "Gone"}

\* A Fiber that is Disposed remains so.
LEMMA DisposedLasts ==
  ASSUME GeneralInv, [Next]_vars, NEW f \in Fibers, fib[f].state \in {"Disposed", "Gone"}
  PROVE  fib'[f].state \in {"Disposed", "Gone"}
<1> DEFINE x == fib[f]
           y == fib'[f]
           b == proc[Body(f)]
           c == proc'[Body(f)]
<1>1. /\ FiberMove(f, x, y, b, c) /\ BodyOK(x, b) /\ StateOK(x, b)
      /\ x.state \in {"Disposed", "Gone"}
  BY NextMoves, Records DEF FiberMoves, FiberOK
<1> HIDE DEF x, y, b, c
<1> SUFFICES y.state \in {"Disposed", "Gone"}
  BY DEF y
<1>2. CASE \/ Rest(x, y, b, c) \/ Indexed(x, y, b, c) \/ Removed(x, y, b, c) \/ Parked(x, y, b, c)
           \/ Committing(f, x, y, b, c) \/ FailedMove(x, y, b, c) \/ Providing(f, x, y, b, c)
           \/ Adopting(f, x, y, b, c) \/ Leasing(f, x, y, b, c) \/ Sweeping(x, y, b, c)
  BY <1>1, <1>2 DEF Rest, Indexed, Removed, Parked, Committing, FailedMove, Providing, Adopting,
                    Leasing, Sweeping, Only
<1>3. ~Created(x, y, b, c) /\ ~Begun(x, y, b, c) /\ ~Started(x, y, b, c)
  BY <1>1, Zenon DEF Created, Begun, Started, StateOK
<1>4. CASE \/ AskingScope(x, y, b, c) \/ Releasing(x, y, b, c) \/ Deciding(x, y, b, c)
           \/ Finishing(x, y, b, c) \/ Quitting(x, y, b, c) \/ Detaching(x, y, b, c)
           \/ Vanishing(x, y, b, c)
  BY <1>1, <1>4 DEF AskingScope, Releasing, Deciding, Finishing, Quitting, Detaching, Vanishing, Only
<1>5. CASE \/ Draining(x, y, b, c) \/ Drained(x, y, b, c) \/ ScopesDone(x, y, b, c)
           \/ ScopeDone(x, y, b, c)
  BY <1>1, <1>5 DEF Draining, Drained, ScopesDone, ScopeDone, Only
<1>6. ~Publishing(x, y, b, c)
  BY <1>1 DEF Publishing, StateOK, BodyOK
<1> QED BY <1>1, <1>2, <1>3, <1>4, <1>5, <1>6 DEF FiberMove, OtherMove, BodyMove

\* A Fiber that is not installed is installed, or nothing happens to it.
LEMMA AbsentLasts ==
  ASSUME GeneralInv, [Next]_vars, NEW f \in Fibers, fib[f].state = "Absent", ~Install(f)
  PROVE  fib'[f].state = "Absent"
<1> DEFINE x == fib[f]
           y == fib'[f]
           b == proc[Body(f)]
           c == proc'[Body(f)]
<1>1. /\ FiberMove(f, x, y, b, c) /\ BodyOK(x, b) /\ StateOK(x, b) /\ x.state = "Absent"
  BY NextMoves, Records DEF FiberMoves, FiberOK
<1> HIDE DEF x, y, b, c
<1> SUFFICES y.state = "Absent"
  BY DEF y
<1>2. b.pc = "idle"
  BY <1>1 DEF StateOK, BodyOK
<1>3. CASE \/ Rest(x, y, b, c) \/ Indexed(x, y, b, c) \/ Removed(x, y, b, c) \/ Parked(x, y, b, c)
           \/ Committing(f, x, y, b, c) \/ FailedMove(x, y, b, c) \/ Providing(f, x, y, b, c)
           \/ Adopting(f, x, y, b, c) \/ Leasing(f, x, y, b, c) \/ Sweeping(x, y, b, c)
  BY <1>1, <1>3 DEF Rest, Indexed, Removed, Parked, Committing, FailedMove, Providing, Adopting,
                    Leasing, Sweeping, Only
<1>4. ~Begun(x, y, b, c) /\ ~Started(x, y, b, c)
  BY <1>1, Zenon DEF Begun, Started
<1>5. ~BodyMove(f, x, y, b, c)
  BY <1>2 DEF BodyMove, Draining, Drained, AskingScope, ScopeDone, ScopesDone, Releasing, Deciding,
              Finishing, Quitting, Detaching, Publishing, Vanishing
<1> QED BY <1>1, <1>3, <1>4, <1>5 DEF FiberMove, OtherMove

\* Who is added to the lists of a Scope and who is taken from them.
LEMMA FiberListed ==
  ASSUME GeneralInv, [Next]_vars, NEW s \in Scopes, NEW g \in Fibers
  PROVE  /\ Lists(scp'[s].fibers, g) => Lists(scp[s].fibers, g) \/ (Install(g) /\ ScopeOf[g] = s)
         /\ Lists(scp[s].fibers, g) =>
              \/ Lists(scp'[s].fibers, g) \/ scp[s].state = "Absent"
              \/ InstallRemove(g) \/ (Detach(g) /\ Detaches(g)) \/ (CollectGarbage /\ g \in Dead)
<1> DEFINE x == scp[s]
           y == scp'[s]
<1>1. ScopeMove(s, x, y) /\ x.fibers \in Seq(Fibers)
  BY NextScopes, Instances DEF ScopeMoves, GeneralInv, ScopeRec
<1> HIDE DEF x, y
<1> SUFFICES /\ Lists(y.fibers, g) => Lists(x.fibers, g) \/ (Install(g) /\ ScopeOf[g] = s)
             /\ Lists(x.fibers, g) =>
                  \/ Lists(y.fibers, g) \/ x.state = "Absent"
                  \/ InstallRemove(g) \/ (Detach(g) /\ Detaches(g)) \/ (CollectGarbage /\ g \in Dead)
  BY DEF x, y
<1>2. CASE OnlyScope({}, x, y) \/ Asked(s, x, y) \/ ScopeEnding(s, x, y)
  BY <1>2 DEF OnlyScope, Asked, ScopeEnding
<1>3. CASE Born(s, x, y)
  <2>1. y.fibers = <<>> /\ x.state = "Absent"
    BY <1>3 DEF Born, NewScope
  <2> QED BY <2>1 DEF Lists
<1>4. CASE Joining(s, x, y)
  <2>1. CASE y.fibers = x.fibers
    BY <2>1
  <2>2. ASSUME NEW f \in Fibers, Install(f), ScopeOf[f] = s, y.fibers = Append(x.fibers, f)
        PROVE  /\ Lists(y.fibers, g) => Lists(x.fibers, g) \/ (Install(g) /\ ScopeOf[g] = s)
               /\ Lists(x.fibers, g) => Lists(y.fibers, g)
    <3>1. Lists(y.fibers, g) <=> Lists(x.fibers, g) \/ g = f
      BY <1>1, <2>2, AppendLists
    <3> QED BY <2>2, <3>1
  <2> QED BY <1>4, <2>1, <2>2 DEF Joining, OnlyScope
<1>5. CASE Unlinking(s, x, y)
  BY <1>5 DEF Unlinking, OnlyScope
<1>6. CASE CollectGarbage /\ Clearing(x, y)
  BY <1>6 DEF Clearing
<1> QED BY <1>1, <1>2, <1>3, <1>4, <1>5, <1>6 DEF ScopeMove

LEMMA ScopeListed ==
  ASSUME GeneralInv, [Next]_vars, NEW s \in Scopes, NEW t \in Scopes
  PROVE  /\ Lists(scp'[s].children, t) => Lists(scp[s].children, t) \/ scp[s].state = "Active"
         /\ Lists(scp[s].children, t) =>
              \/ Lists(scp'[s].children, t) \/ scp[s].state = "Absent"
              \/ (ScopePublish(t) /\ ~proc[ScopeBody(t)].bad)
<1> DEFINE x == scp[s]
           y == scp'[s]
<1>1. ScopeMove(s, x, y) /\ x.children \in Seq(Scopes)
  BY NextScopes, Instances DEF ScopeMoves, GeneralInv, ScopeRec
<1> HIDE DEF x, y
<1> SUFFICES /\ Lists(y.children, t) => Lists(x.children, t) \/ x.state = "Active"
             /\ Lists(x.children, t) =>
                  \/ Lists(y.children, t) \/ x.state = "Absent"
                  \/ (ScopePublish(t) /\ ~proc[ScopeBody(t)].bad)
  BY DEF x, y
<1>2. CASE OnlyScope({}, x, y) \/ Asked(s, x, y) \/ ScopeEnding(s, x, y) \/ Clearing(x, y)
  BY <1>2 DEF OnlyScope, Asked, ScopeEnding, Clearing
<1>3. CASE Born(s, x, y)
  <2>1. y.children = <<>> /\ x.state = "Absent"
    BY <1>3 DEF Born, NewScope
  <2> QED BY <2>1 DEF Lists
<1>4. CASE Joining(s, x, y)
  <2>1. x.state = "Active"
    BY <1>4 DEF Joining
  <2>2. CASE y.children = x.children
    BY <2>2
  <2>3. ASSUME NEW u \in Scopes, y.children = Append(x.children, u)
        PROVE  Lists(x.children, t) => Lists(y.children, t)
    BY <1>1, <2>3, AppendLists
  <2> QED BY <1>4, <2>1, <2>2, <2>3 DEF Joining, OnlyScope
<1>5. CASE Unlinking(s, x, y)
  BY <1>5 DEF Unlinking, OnlyScope
<1> QED BY <1>1, <1>2, <1>3, <1>4, <1>5 DEF ScopeMove

\* An installed Fiber is over when its disposal is, and for good.
LEMMA OverLasts ==
  ASSUME GeneralInv, [Next]_vars, NEW f \in Fibers, Over(f), ~Install(f)
  PROVE  Over(f)'
<1> DEFINE x == fib[f]
           y == fib'[f]
           b == proc[Body(f)]
           c == proc'[Body(f)]
<1>1. CASE x.state \in {"Absent", "Disposed", "Gone"}
  BY <1>1, DisposedLasts, AbsentLasts DEF Over
<1>2. CASE Leaving(f)
  <2>1. b.pc = "publish" /\ b.goal = "Disposed" /\ ~b.bad /\ ~Lists(scp[ScopeOf[f]].fibers, f)
    BY <1>2 DEF Leaving
  <2>2. FiberMove(f, x, y, b, c) /\ BodyOK(x, b)
    BY NextMoves, Records DEF FiberMoves, FiberOK
  <2>3. ScopeOf[f] \in Scopes
    BY LifecycleAssumption
  <2>4. ~Lists(scp'[ScopeOf[f]].fibers, f)
    BY <2>1, <2>3, FiberListed
  <2>5. CASE c = b
    BY <2>1, <2>4, <2>5 DEF Over, Leaving
  <2>6. CASE Publishing(x, y, b, c)
    BY <2>1, <2>6 DEF Publishing, Over
  <2>7. CASE Vanishing(x, y, b, c)
    <3>1. y.state = "Gone"
      BY <2>7 DEF Vanishing, Only
    <3> QED BY <3>1 DEF Over
  <2>8. c = b \/ Publishing(x, y, b, c) \/ Vanishing(x, y, b, c)
    <3> HIDE DEF x, y, b, c
    <3>1. OtherMove(f, x, y, b, c) => c = b
      <4>1. Rest(x, y, b, c) \/ FailedMove(x, y, b, c) => c = b
        BY <2>1 DEF Rest, FailedMove, Along, Reconciling, Calling
      <4>2. ~Begun(x, y, b, c)
        BY <2>1, Zenon DEF Begun
      <4>3. Started(x, y, b, c) => c = b
        BY Zenon DEF Started
      <4> QED BY <4>1, <4>2, <4>3 DEF OtherMove, Created, Indexed, Removed, Parked,
                 Committing, Providing, Adopting, Leasing, Sweeping
    <3> QED BY <2>1, <2>2, <3>1 DEF FiberMove, BodyMove, Draining, Drained, AskingScope, ScopeDone,
               ScopesDone, Releasing, Deciding, Finishing, Quitting, Detaching
  <2> QED BY <2>5, <2>6, <2>7, <2>8
<1> QED BY <1>1, <1>2 DEF Over

\* Whoever takes a Fiber out of its Scope has disposed of it, or removed it.
LEMMA TakenOver ==
  ASSUME GeneralInv, [Next]_vars, NEW f \in Fibers,
         InstallRemove(f) \/ (Detach(f) /\ Detaches(f)) \/ (CollectGarbage /\ f \in Dead)
  PROVE  Over(f)'
<1>0. fib \in [Fibers -> FiberRec] /\ proc \in [Procs -> Frames] /\ scp \in [Scopes -> ScopeRec]
      /\ Body(f) \in Procs /\ ScopeOf[f] \in Scopes
  BY Records, LifecycleAssumption
<1>1. CASE InstallRemove(f) /\ Registered(f)
  <2>1. fib'[f].state = "Gone"
    BY <1>0, <1>1 DEF InstallRemove, FiberRec
  <2> QED BY <2>1 DEF Over
<1>2. CASE InstallRemove(f) /\ ~Registered(f)
  BY <1>2 DEF InstallRemove, Registered, Over
<1>3. CASE Detach(f) /\ Detaches(f)
  <2>1. /\ proc'[Body(f)].pc = "publish" /\ proc'[Body(f)].goal = proc[Body(f)].goal
        /\ proc'[Body(f)].bad = proc[Body(f)].bad
    BY <1>0, <1>3 DEF Detach, Frames
  <2>2. proc[Body(f)].goal = "Disposed" /\ ~proc[Body(f)].bad
    BY <1>3 DEF Detaches
  <2>3. scp'[ScopeOf[f]].fibers = Without(scp[ScopeOf[f]].fibers, f)
    BY <1>0, <1>3 DEF Detach, ScopeRec
  <2>4. scp[ScopeOf[f]].fibers \in Seq(Fibers)
    BY <1>0 DEF ScopeRec
  <2>5. ~Lists(Without(scp[ScopeOf[f]].fibers, f), f)
    BY <2>4, WithoutProperties, Zenon
  <2> QED BY <2>1, <2>2, <2>3, <2>5 DEF Over, Leaving
<1>4. CASE CollectGarbage /\ f \in Dead
  <2> DEFINE x == [fib[f] EXCEPT !.state = "Gone", !.indexed = FALSE]
  <2>1. fib'[f] = x
    <3>1. fib'[f] = IF f \in Dead THEN x ELSE fib[f]
      BY <1>4, Zenon DEF CollectGarbage
    <3> QED BY <1>4, <3>1
  <2>2. fib'[f].state = "Gone"
    BY <1>0, <2>1 DEF FiberRec
  <2> QED BY <2>2 DEF Over
<1> QED BY <1>1, <1>2, <1>3, <1>4

\* A Scope that was disposed, or not yet created, is so until it is created.
LEMMA ScopeOverLasts ==
  ASSUME GeneralInv, [Next]_vars, NEW s \in Scopes
  PROVE  /\ scp[s].state \in {"Disposed", "Gone"} => scp'[s].state \in {"Disposed", "Gone"}
         /\ ScopeOver(s) => ScopeOver(s)' \/ InsertScope(s)
         /\ ScopePublish(s) /\ ~proc[ScopeBody(s)].bad => scp'[s].state = "Disposed"
<1> DEFINE x == scp[s]
           y == scp'[s]
<1>1. /\ ScopeMove(s, x, y) /\ x \in ScopeRec /\ ScopeOK(x, proc[ScopeBody(s)])
      /\ scp \in [Scopes -> ScopeRec]
  BY NextScopes, Instances DEF ScopeMoves, GeneralInv, ScopeStates
<1>2. ScopePublish(s) /\ ~proc[ScopeBody(s)].bad => scp'[s].state = "Disposed"
  <2>1. ASSUME ScopePublish(s), ~proc[ScopeBody(s)].bad PROVE scp'[s].state = "Disposed"
    <3>1. scp'[s] = [scp[s] EXCEPT !.state = "Disposed", !.done = ScopeResult(proc[ScopeBody(s)])]
      BY <2>1 DEF ScopePublish
    <3> QED BY <1>1, <3>1 DEF ScopeRec
  <2> QED BY <2>1
<1>3. ScopeEnding(s, x, y) => x.state = "Disposing"
  BY <1>1 DEF ScopeEnding, ScopeOK
<1>4. CASE Born(s, x, y)
  BY <1>2, <1>4 DEF Born, CreateScope, ContextCreateScope
<1>5. CASE ~Born(s, x, y)
  <2>1. /\ x.state \in {"Disposed", "Gone"} => y.state \in {"Disposed", "Gone"}
        /\ x.state = "Absent" => y.state = "Absent"
    BY <1>1, <1>3, <1>5 DEF ScopeMove, OnlyScope, Joining, Asked, Unlinking, Clearing
  <2> QED BY <1>2, <2>1 DEF ScopeOver
<1> QED BY <1>4, <1>5

\* What is installed or created is listed in its Scope, which is Active.
LEMMA NewListed ==
  ASSUME GeneralInv, [Next]_vars
  PROVE  /\ \A f \in Fibers : Install(f) =>
              /\ scp[ScopeOf[f]].state = "Active" /\ Lists(scp'[ScopeOf[f]].fibers, f)
         /\ \A t \in Scopes : InsertScope(t) /\ Parent[t] \in Scopes =>
              /\ scp[Parent[t]].state = "Active" /\ Lists(scp'[Parent[t]].children, t)
<1>0. scp \in [Scopes -> ScopeRec]
  BY Instances DEF GeneralInv
<1>1. ASSUME NEW f \in Fibers, Install(f)
      PROVE  scp[ScopeOf[f]].state = "Active" /\ Lists(scp'[ScopeOf[f]].fibers, f)
  <2>1. ScopeOf[f] \in Scopes /\ scp[ScopeOf[f]].fibers \in Seq(Fibers)
    BY <1>0, LifecycleAssumption DEF ScopeRec
  <2>2. scp'[ScopeOf[f]].fibers = Append(scp[ScopeOf[f]].fibers, f)
    BY <1>0, <1>1, <2>1 DEF Install, ScopeRec
  <2>3. Lists(Append(scp[ScopeOf[f]].fibers, f), f)
    BY <2>1, AppendLists
  <2> QED BY <1>1, <2>2, <2>3 DEF Install
<1>2. ASSUME NEW t \in Scopes, InsertScope(t), Parent[t] \in Scopes
      PROVE  scp[Parent[t]].state = "Active" /\ Lists(scp'[Parent[t]].children, t)
  <2>1. /\ scp[Parent[t]].children \in Seq(Scopes) /\ scp[Parent[t]].state = "Active"
        /\ Parent[t] # t
    BY <1>0, <1>2 DEF InsertScope, ScopeRec
  <2>2. scp'[Parent[t]].children = Append(scp[Parent[t]].children, t)
    BY <1>0, <1>2, <2>1 DEF InsertScope, ScopeRec
  <2>3. Lists(Append(scp[Parent[t]].children, t), t)
    BY <2>1, AppendLists
  <2> QED BY <2>1, <2>2, <2>3
<1> QED BY <1>1, <1>2

-----------------------------------------------------------------------------
(***************************************************************************)
(* A Scope lists its members, and its disposal body those still to be      *)
(* disposed of.                                                            *)
(***************************************************************************)
MemberOK(s) ==
  LET x == scp[s] IN
  /\ \A f \in Fibers :
       /\ ScopeOf[f] = s => Over(f) \/ Lists(x.fibers, f)
       /\ Lists(x.fibers, f) => x.state # "Absent" /\ fib[f].state # "Absent"
       /\ ScopeOf[f] = s /\ x.state \in {"Disposed", "Gone"} => Over(f)
  /\ \A t \in Scopes :
       /\ Parent[t] = s => ScopeOver(t) \/ Lists(x.children, t)
       /\ Lists(x.children, t) => x.state # "Absent"
       /\ Parent[t] = s /\ x.state \in {"Disposed", "Gone"} => ScopeOver(t)

\* What the disposal of Fiber f came to.
Answer(f, res) ==
  /\ res = "ok" => fib[f].state \in {"Disposed", "Gone"}
  /\ res = "plain" =>
       \/ fib[f].state \in {"Disposed", "Gone"}
       \/ fib[f].disposal.phase = "Terminated" /\ fib[f].disposal.done = "plain"

TodoOK(s, b) ==
  /\ b.pc \notin {"idle", "snapshot"} =>
       /\ \A f \in Fibers :
            /\ ScopeOf[f] = s /\ ~b.bad => Over(f) \/ Lists(b.fibers, f)
            /\ Lists(b.fibers, f) => fib[f].state # "Absent"
       /\ \A t \in Scopes : Parent[t] = s /\ ~b.bad => ScopeOver(t) \/ Lists(b.kids, t)
  /\ b.pc \in {"wait", "back"} =>
       /\ b.tgt \in Fibers => b.fibers # <<>> /\ b.tgt = Last(b.fibers)
       /\ b.tgt \in Scopes => b.kids # <<>> /\ b.tgt = Last(b.kids)
  /\ b.pc = "back" /\ b.tgt \in Fibers => Answer(b.tgt, b.res)
  /\ b.pc = "back" /\ b.tgt \in Scopes /\ b.res = "ok" => scp[b.tgt].state \in {"Disposed", "Gone"}

Members == \A s \in Scopes : MemberOK(s)
Todo == \A s \in Scopes : TodoOK(s, proc[ScopeBody(s)])
MembersInv == GeneralInv /\ Race /\ Members /\ Todo

LEMMA MemberNext ==
  ASSUME MembersInv, [Next]_vars, NEW s \in Scopes
  PROVE  MemberOK(s)'
<1> DEFINE x == scp[s]
           y == scp'[s]
           b == proc[ScopeBody(s)]
<1>1. GeneralInv /\ MemberOK(s) /\ TodoOK(s, b)
  BY DEF MembersInv, Members, Todo
\* The disposal of the Scope is published when nothing is left to do.
<1>2. y.state \in {"Disposed", "Gone"} =>
        \/ x.state \in {"Disposed", "Gone"}
        \/ x.state = "Disposing" /\ b.pc = "next" /\ ~b.bad /\ b.kids = <<>> /\ b.fibers = <<>>
  <2>1. ScopeMove(s, x, y) /\ ScopeOK(x, b)
    BY <1>1, NextScopes DEF ScopeMoves, GeneralInv, ScopeStates
  <2>2. CASE ScopeEnding(s, x, y)
    <3>1. /\ b.pc = "next" /\ b.kids = <<>> /\ b.fibers = <<>> /\ x.state = "Disposing"
          /\ y.state = IF b.bad THEN "Terminated" ELSE "Disposed"
      BY <2>1, <2>2 DEF ScopeEnding, ScopeOK
    <3> QED BY <3>1
  <2>3. CASE Born(s, x, y)
    BY <2>3 DEF Born, NewScope
  <2>4. CASE ~ScopeEnding(s, x, y) /\ ~Born(s, x, y)
    BY <2>1, <2>4 DEF ScopeMove, OnlyScope, Joining, Asked, Unlinking, Clearing
  <2> QED BY <2>2, <2>3, <2>4
<1>3. x.state # "Absent" => y.state # "Absent"
  BY <1>1, ScopeLife
<1>4. ASSUME NEW f \in Fibers, ScopeOf[f] = s PROVE Over(f)' \/ Lists(y.fibers, f)
  <2>1. CASE Install(f)
    BY <1>1, <1>4, <2>1, NewListed
  <2>2. CASE ~Install(f) /\ Over(f)
    BY <1>1, <2>2, OverLasts
  <2>3. CASE Lists(x.fibers, f)
    BY <1>1, <2>3, FiberListed, TakenOver DEF MemberOK
  <2> QED BY <1>1, <1>4, <2>1, <2>2, <2>3 DEF MemberOK
<1>5. ASSUME NEW f \in Fibers, Lists(y.fibers, f)
      PROVE  y.state # "Absent" /\ fib'[f].state # "Absent"
  <2>1. CASE Lists(x.fibers, f)
    BY <1>1, <1>3, <2>1, NeverAbsent DEF MemberOK
  <2>2. CASE Install(f) /\ ScopeOf[f] = s
    <3>1. x.state = "Active"
      BY <1>1, <2>2, NewListed
    <3>2. fib'[f].state = "Created"
      BY <1>1, <2>2, EarlySteps DEF NewFiber
    <3> QED BY <1>3, <3>1, <3>2
  <2> QED BY <1>1, <1>5, <2>1, <2>2, FiberListed
<1>6. ASSUME NEW f \in Fibers, ScopeOf[f] = s, y.state \in {"Disposed", "Gone"} PROVE Over(f)'
  <2>1. Over(f) /\ x.state # "Active"
    BY <1>1, <1>2, <1>6 DEF MemberOK, TodoOK, Lists
  <2>2. ~Install(f)
    BY <1>1, <1>6, <2>1, NewListed
  <2> QED BY <1>1, <2>1, <2>2, OverLasts
<1>7. ASSUME NEW t \in Scopes, Parent[t] = s PROVE ScopeOver(t)' \/ Lists(y.children, t)
  <2>1. CASE InsertScope(t)
    BY <1>1, <1>7, <2>1, NewListed
  <2>2. CASE ~InsertScope(t) /\ ScopeOver(t)
    BY <1>1, <2>2, ScopeOverLasts
  <2>3. CASE Lists(x.children, t)
    BY <1>1, <2>3, ScopeListed, ScopeOverLasts DEF MemberOK, ScopeOver
  <2> QED BY <1>1, <1>7, <2>1, <2>2, <2>3 DEF MemberOK
<1>8. ASSUME NEW t \in Scopes, Lists(y.children, t) PROVE y.state # "Absent"
  BY <1>1, <1>3, <1>8, ScopeListed DEF MemberOK
<1>9. ASSUME NEW t \in Scopes, Parent[t] = s, y.state \in {"Disposed", "Gone"} PROVE ScopeOver(t)'
  <2>1. ScopeOver(t) /\ x.state # "Active"
    BY <1>1, <1>2, <1>9 DEF MemberOK, TodoOK, Lists
  <2>2. ~InsertScope(t)
    BY <1>1, <1>9, <2>1, NewListed
  <2> QED BY <1>1, <2>1, <2>2, ScopeOverLasts
<1> QED BY <1>4, <1>5, <1>6, <1>7, <1>8, <1>9 DEF MemberOK

LEMMA FrontLists ==
  ASSUME NEW T, NEW seq \in Seq(T), seq # <<>>
  PROVE  /\ \A x : Lists(seq, x) => Lists(Front(seq), x) \/ x = Last(seq)
         /\ \A x : Lists(Front(seq), x) => Lists(seq, x)
         /\ Lists(seq, Last(seq))
<1> DEFINE n == Len(seq)
           l == Front(seq)
<1>1. n \in Nat /\ n >= 1 /\ DOMAIN seq = 1..n
  OBVIOUS
<1>2. DOMAIN l = 1..(n - 1) /\ \A i \in 1..(n - 1) : l[i] = seq[i]
  BY <1>1 DEF Front
<1>3. Last(seq) = seq[n] /\ n \in DOMAIN seq
  BY <1>1 DEF Last
<1> HIDE DEF l
<1>4. ASSUME NEW x, Lists(seq, x) PROVE Lists(l, x) \/ x = Last(seq)
  <2>1. PICK i \in 1..n : seq[i] = x
    BY <1>1, <1>4 DEF Lists
  <2>2. CASE i = n
    BY <1>3, <2>1, <2>2
  <2>3. CASE i \in 1..(n - 1)
    BY <1>2, <2>1, <2>3 DEF Lists
  <2>4. i = n \/ i \in 1..(n - 1)
    <3> HIDE DEF n
    <3> QED BY <1>1
  <2> QED BY <2>2, <2>3, <2>4
<1>5. ASSUME NEW x, Lists(l, x) PROVE Lists(seq, x)
  <2>1. PICK i \in 1..(n - 1) : l[i] = x
    BY <1>2, <1>5 DEF Lists
  <2>2. i \in 1..n /\ seq[i] = x
    BY <1>1, <1>2, <2>1
  <2> QED BY <1>1, <2>2 DEF Lists
<1>6. Lists(seq, Last(seq))
  BY <1>3 DEF Lists
<1> QED BY <1>4, <1>5, <1>6 DEF l

\* What a disposal came to remains.
LEMMA AnswerLasts ==
  ASSUME GeneralInv, [Next]_vars, NEW f \in Fibers, NEW res, Answer(f, res)
  PROVE  Answer(f, res)'
<1> DEFINE x == fib[f]
           y == fib'[f]
           b == proc[Body(f)]
           c == proc'[Body(f)]
<1>1. x.state \in {"Disposed", "Gone"} => y.state \in {"Disposed", "Gone"}
  BY DisposedLasts
<1>2. ASSUME x.disposal.phase = "Terminated", x.disposal.done = "plain"
      PROVE  y.disposal.phase = "Terminated" /\ y.disposal.done = "plain"
  <2>1. FiberMove(f, x, y, b, c) /\ BodyOK(x, b) /\ StateOK(x, b)
    BY NextMoves, Records DEF FiberMoves, FiberOK
  <2>2. b.pc = "idle"
    BY <1>2, <2>1 DEF BodyOK
  <2>3. x.disposal.phase = "Terminated" /\ x.disposal.done = "plain"
    BY <1>2
  <2> HIDE DEF x, y, b, c
  <2>4. CASE \/ Rest(x, y, b, c) \/ Indexed(x, y, b, c) \/ Removed(x, y, b, c) \/ Parked(x, y, b, c)
             \/ Committing(f, x, y, b, c) \/ FailedMove(x, y, b, c) \/ Providing(f, x, y, b, c)
             \/ Adopting(f, x, y, b, c) \/ Leasing(f, x, y, b, c) \/ Sweeping(x, y, b, c)
    BY <2>3, <2>4 DEF Rest, Indexed, Removed, Parked, Committing, FailedMove, Providing, Adopting,
                      Leasing, Sweeping, Only
  <2>5. ~Created(x, y, b, c)
    BY <2>1, <2>3 DEF Created, StateOK
  <2>6. ~Begun(x, y, b, c)
    BY <2>3, Zenon DEF Begun
  <2>7. CASE Started(x, y, b, c)
    <3>1. y.disposal = x.disposal
      BY <2>3, <2>7 DEF Started
    <3> QED BY <2>3, <3>1
  <2>8. ~BodyMove(f, x, y, b, c)
    BY <2>2 DEF BodyMove, Draining, Drained, AskingScope, ScopeDone, ScopesDone, Releasing, Deciding,
                Finishing, Quitting, Detaching, Publishing, Vanishing
  <2> QED BY <2>1, <2>4, <2>5, <2>6, <2>7, <2>8 DEF FiberMove, OtherMove
<1> QED BY <1>1, <1>2 DEF Answer

\* What a request is answered with at once.
LEMMA AnswerAsked ==
  ASSUME GeneralInv, Race, NEW f \in Fibers, fib[f].state # "Absent"
  PROVE  Answer(f, DisposeAnswer(f))
<1> DEFINE x == fib[f]
<1>1. /\ StateOK(x, proc[Body(f)]) /\ x.state \in FiberStates /\ x.state # "Absent"
      /\ x.disposal.phase = "Complete" => x.state \in {"Disposed", "Gone"}
  BY Records DEF Race, RaceOK, RaceRec
<1>2. CASE ~Registered(f)
  BY <1>1, <1>2 DEF Registered, Answer
<1>3. CASE Registered(f) /\ x.disposal.phase = "Idle"
  <2>1. x.state \in {"Created", "Waiting", "Starting", "Active", "Failed"}
    BY <1>1, <1>3 DEF StateOK, Registered, FiberStates
  <2>2. Begins(f)
    BY <1>3, <2>1 DEF Begins, CanTransition
  <2>3. DisposeAnswer(f) = "none"
    BY <1>1, <1>3, <2>2 DEF DisposeAnswer, StateOK
  <2> QED BY <2>3 DEF Answer
<1>4. CASE Registered(f) /\ x.disposal.phase # "Idle"
  <2>1. DisposeAnswer(f) = x.disposal.done
    BY <1>4 DEF DisposeAnswer
  <2> QED BY <1>1, <2>1 DEF StateOK, Answer
<1> QED BY <1>2, <1>3, <1>4

\* What those who wait are answered with.
LEMMA AnswerPublished ==
  ASSUME GeneralInv, NEW f \in Fibers, Publish(f), NoneWaits
  PROVE  \A res : res = proc[Body(f)].res => Answer(f, res)'
<1> DEFINE x == fib[f]
           b == proc[Body(f)]
<1>1. /\ fib \in [Fibers -> FiberRec] /\ x \in FiberRec /\ x.disposal \in DisposalRec
      /\ StateOK(x, b) /\ BodyOK(x, b) /\ b.pc = "publish"
  BY Records DEF FiberOK, Publish, At
<1>2. /\ fib'[f].state = IF b.bad THEN x.state ELSE b.goal
      /\ fib'[f].disposal.phase = IF b.bad THEN "Terminated" ELSE "Complete"
      /\ fib'[f].disposal.done = b.res
  BY <1>1 DEF Publish, FiberRec, DisposalRec
<1>3. CASE b.bad
  <2>1. b.res # "ok"
    BY <1>1, <1>3 DEF StateOK
  <2>2. /\ b.res = "ok" => fib'[f].state \in {"Disposed", "Gone"}
        /\ b.res = "plain" => fib'[f].disposal.phase = "Terminated" /\ fib'[f].disposal.done = "plain"
    BY <1>2, <1>3, <2>1
  <2> QED BY <2>2 DEF Answer
<1>4. CASE ~b.bad
  <2>1. b.goal = "Disposed"
    BY <1>1, <1>4 DEF BodyOK, Decided, NoneWaits
  <2>2. fib'[f].state = "Disposed"
    BY <1>2, <1>4, <2>1
  <2> QED BY <2>2 DEF Answer
<1> QED BY <1>3, <1>4

LEMMA TodoNext ==
  ASSUME MembersInv, Next, NoneWaits, NEW s \in Scopes
  PROVE  TodoOK(s, proc[ScopeBody(s)])'
<1> DEFINE q == ScopeBody(s)
           b == proc[q]
           c == proc'[q]
<1>1. /\ GeneralInv /\ Race /\ MemberOK(s) /\ TodoOK(s, b) /\ ScopeOK(scp[s], b)
      /\ q \in Procs /\ q[1] = "scope" /\ b \in Frames /\ FrameOK(q, b) /\ proc \in [Procs -> Frames]
      /\ b.fibers \in Seq(Fibers) /\ b.kids \in Seq(Scopes)
  BY Instances, ScopeProcs, FrameFields DEF MembersInv, Members, Todo, GeneralInv, ScopeStates
<1>2. FrameMove(q, b, c)
  BY <1>1, NextFrames DEF FrameMoves
\* Nobody joins a Scope that is being disposed.
<1>3. ASSUME b.pc # "idle"
      PROVE  /\ \A f \in Fibers : ScopeOf[f] = s /\ Over(f) => Over(f)'
             /\ \A t \in Scopes : Parent[t] = s /\ ScopeOver(t) => ScopeOver(t)'
  <2>1. scp[s].state # "Active"
    BY <1>1, <1>3 DEF ScopeOK
  <2>2. ASSUME NEW f \in Fibers, ScopeOf[f] = s, Over(f) PROVE Over(f)'
    BY <1>1, <2>1, <2>2, OverLasts, NewListed
  <2>3. ASSUME NEW t \in Scopes, Parent[t] = s, ScopeOver(t) PROVE ScopeOver(t)'
    BY <1>1, <2>1, <2>3, ScopeOverLasts, NewListed
  <2> QED BY <2>2, <2>3
\* The body begins or ends.
<1>4. ASSUME c.pc \in {"idle", "snapshot"} PROVE TodoOK(s, proc[q])'
  BY <1>4 DEF TodoOK
\* It goes on to its next member.
<1>5. ASSUME c.pc \in {"next", "call"}, b.pc # "idle",
             \A f \in Fibers : ScopeOf[f] = s /\ ~c.bad => Over(f) \/ Lists(c.fibers, f),
             \A f \in Fibers : Lists(c.fibers, f) => fib[f].state # "Absent",
             \A t \in Scopes : Parent[t] = s /\ ~c.bad => ScopeOver(t) \/ Lists(c.kids, t)
      PROVE  TodoOK(s, proc[q])'
  <2>1. \A f \in Fibers : Lists(c.fibers, f) => fib'[f].state # "Absent"
    BY <1>1, <1>5, NeverAbsent
  <2> QED BY <1>3, <1>5, <2>1 DEF TodoOK
\* It waits for a member, or has its answer.
<1>6. ASSUME c.pc \in {"wait", "back"}, b.pc \notin {"idle", "snapshot"},
             c.fibers = b.fibers, c.kids = b.kids, c.bad = b.bad,
             c.tgt \in Fibers => b.fibers # <<>> /\ c.tgt = Last(b.fibers),
             c.tgt \in Scopes => b.kids # <<>> /\ c.tgt = Last(b.kids),
             \A f \in Fibers : c.pc = "back" /\ c.tgt = f => \A res : res = c.res => Answer(f, res)',
             \A t \in Scopes : c.pc = "back" /\ c.tgt = t /\ c.res = "ok" => scp'[t].state \in {"Disposed", "Gone"}
      PROVE  TodoOK(s, proc[q])'
  <2>1. /\ \A f \in Fibers : /\ ScopeOf[f] = s /\ ~c.bad => Over(f)' \/ Lists(c.fibers, f)
                             /\ Lists(c.fibers, f) => fib'[f].state # "Absent"
        /\ \A t \in Scopes : Parent[t] = s /\ ~c.bad => ScopeOver(t)' \/ Lists(c.kids, t)
    BY <1>1, <1>3, <1>6, NeverAbsent DEF TodoOK
  <2>2. ASSUME NEW f \in Fibers, NEW res, c.pc = "back", c.tgt = f, c.res = res
        PROVE  /\ res = "ok" => fib'[f].state \in {"Disposed", "Gone"}
               /\ res = "plain" =>
                    \/ fib'[f].state \in {"Disposed", "Gone"}
                    \/ fib'[f].disposal.phase = "Terminated" /\ fib'[f].disposal.done = "plain"
    BY <1>6, <2>2 DEF Answer
  <2> QED BY <1>6, <2>1, <2>2 DEF TodoOK, Answer
<1>7. CASE c = b
  <2>1. CASE b.pc \in {"idle", "snapshot"}
    BY <1>4, <1>7, <2>1
  <2>2. CASE b.pc \in {"next", "call"}
    BY <1>1, <1>5, <1>7, <2>2 DEF TodoOK
  <2>3. CASE b.pc \in {"wait", "back"}
    <3>1. \A f \in Fibers : c.pc = "back" /\ c.tgt = f => \A res : res = c.res => Answer(f, res)'
      BY <1>1, <1>7, AnswerLasts DEF TodoOK
    <3>2. \A t \in Scopes : c.pc = "back" /\ c.tgt = t /\ c.res = "ok" => scp'[t].state \in {"Disposed", "Gone"}
      BY <1>1, <1>7, ScopeOverLasts DEF TodoOK
    <3> QED BY <1>1, <1>6, <1>7, <2>3, <3>1, <3>2 DEF TodoOK
  <2>4. b.pc \in {"idle", "snapshot", "next", "call", "wait", "back"}
    BY <1>1 DEF FrameOK, Code
  <2> QED BY <2>1, <2>2, <2>3, <2>4
<1>8. CASE Asking(q, b, c)
  <2>1. b.pc \notin {"idle", "snapshot"} /\ c.pc \in {"wait", "back"}
        /\ c.fibers = b.fibers /\ c.kids = b.kids /\ c.bad = b.bad
    BY <1>1, <1>8, AskedAnswer DEF Asking
  <2>2. CASE \E f \in Fibers : /\ c.tgt = f /\ b.fibers # <<>> /\ f = Last(b.fibers)
                               /\ c.pc = "back" => c.res = DisposeAnswer(f)
    <3>1. PICK f \in Fibers : /\ c.tgt = f /\ b.fibers # <<>> /\ f = Last(b.fibers)
                              /\ c.pc = "back" => c.res = DisposeAnswer(f)
      BY <2>2
    <3>2. fib[f].state # "Absent"
      BY <1>1, <2>1, <3>1, FrontLists DEF TodoOK
    <3>3. \A res : res = DisposeAnswer(f) => Answer(f, res)'
      BY <1>1, <3>2, AnswerAsked, AnswerLasts
    <3>4. f \notin Scopes
      BY LifecycleAssumption
    <3> QED BY <1>6, <2>1, <3>1, <3>3, <3>4
  <2>3. CASE \E t \in Scopes : /\ c.tgt = t /\ b.kids # <<>> /\ t = Last(b.kids)
                               /\ c.pc = "back" => c.res = ScopeAnswer(t)
    <3>1. PICK t \in Scopes : /\ c.tgt = t /\ b.kids # <<>> /\ t = Last(b.kids)
                              /\ c.pc = "back" => c.res = ScopeAnswer(t)
      BY <2>3
    <3>2. ScopeAnswer(t) = "ok" => scp[t].state \in {"Disposed", "Gone"}
      <4>1. ScopeOK(scp[t], proc[ScopeBody(t)]) /\ scp[t] \in ScopeRec
        BY <1>1, Instances DEF GeneralInv, ScopeStates
      <4> QED BY <4>1 DEF ScopeAnswer, ScopeOK, ScopeRec
    <3>3. t \notin Fibers
      BY LifecycleAssumption
    <3> QED BY <1>1, <1>6, <2>1, <3>1, <3>2, <3>3, ScopeOverLasts
  <2> QED BY <1>1, <1>8, <2>2, <2>3, AskedAnswer
<1>9. CASE Answering(b, c)
  <2>1. b.pc = "wait" /\ c.pc = "back" /\ c.tgt = b.tgt
        /\ c.fibers = b.fibers /\ c.kids = b.kids /\ c.bad = b.bad
    BY <1>1, <1>9, AnsweredWait
  <2>2. CASE \E f \in Fibers : Publish(f) /\ c.tgt = f /\ c.res = proc[Body(f)].res
    <3>1. PICK f \in Fibers : Publish(f) /\ c.tgt = f /\ c.res = proc[Body(f)].res
      BY <2>2
    <3>2. \A res : res = c.res => Answer(f, res)'
      BY <1>1, <3>1, AnswerPublished
    <3>3. f \notin Scopes
      BY LifecycleAssumption
    <3> QED BY <1>1, <1>6, <2>1, <3>1, <3>2, <3>3 DEF TodoOK
  <2>3. CASE \E t \in Scopes : ScopePublish(t) /\ c.tgt = t /\ c.res = ScopeResult(proc[ScopeBody(t)])
    <3>1. PICK t \in Scopes : ScopePublish(t) /\ c.tgt = t /\ c.res = ScopeResult(proc[ScopeBody(t)])
      BY <2>3
    <3>2. c.res = "ok" => scp'[t].state = "Disposed"
      BY <1>1, <3>1, ScopeOverLasts DEF ScopeResult
    <3>3. t \notin Fibers
      BY LifecycleAssumption
    <3> QED BY <1>1, <1>6, <2>1, <3>1, <3>2, <3>3 DEF TodoOK
  <2> QED BY <1>1, <1>9, <2>2, <2>3, AnsweredWait
<1>10. ~Returning(q, b, c)
  BY <1>1 DEF Returning
<1>11. CASE Going(q, b, c)
  <2>1. Disposing(s, b, c)
    BY <1>11 DEF Going
  <2>2. CASE ScopePublish(s) /\ c = Idle
    BY <1>4, <2>2 DEF Idle
  <2>3. CASE c = [Idle EXCEPT !.pc = "snapshot"]
    BY <1>4, <2>3 DEF Idle
  <2>4. CASE ScopeSnapshot(s)
    <3>1. c = [b EXCEPT !.pc = "next", !.kids = scp[s].children, !.fibers = scp[s].fibers,
                        !.persist = scp[s].persist]
      BY <1>1, <2>4 DEF ScopeSnapshot
    <3>2. c.pc = "next" /\ c.kids = scp[s].children /\ c.fibers = scp[s].fibers
      BY <1>1, <3>1 DEF Frames
    <3>3. b.pc # "idle"
      BY <2>4 DEF ScopeSnapshot, At
    <3> QED BY <1>1, <1>5, <3>2, <3>3 DEF MemberOK
  <2>5. CASE ScopeFiber(s)
    <3>1. b.pc = "next" /\ b.fibers # <<>>
      BY <2>5 DEF ScopeFiber, At
    <3>2. CASE fib[Last(b.fibers)].state \in {"Disposed", "Gone"} /\ proc' = [proc EXCEPT ![q].fibers = Front(@)]
      <4>1. c = [b EXCEPT !.fibers = Front(b.fibers)]
        BY <1>1, <3>2
      <4>2. c.pc = "next" /\ c.fibers = Front(b.fibers) /\ c.kids = b.kids /\ c.bad = b.bad
        BY <1>1, <3>1, <4>1 DEF Frames
      <4>3. \A f \in Fibers : Lists(b.fibers, f) => Over(f) \/ Lists(c.fibers, f)
        BY <1>1, <3>1, <3>2, <4>2, FrontLists DEF Over
      <4>4. \A f \in Fibers : Lists(c.fibers, f) => Lists(b.fibers, f)
        BY <1>1, <3>1, <4>2, FrontLists
      <4> QED BY <1>1, <1>5, <3>1, <4>2, <4>3, <4>4 DEF TodoOK
    <3>3. CASE Goto(q, "call")
      <4>1. c = [b EXCEPT !.pc = "call"]
        BY <1>1, <3>3 DEF Goto
      <4>2. c.pc = "call" /\ c.fibers = b.fibers /\ c.kids = b.kids /\ c.bad = b.bad
        BY <1>1, <4>1 DEF Frames
      <4> QED BY <1>1, <1>5, <3>1, <4>2 DEF TodoOK
    <3> QED BY <2>5, <3>2, <3>3 DEF ScopeFiber
  <2>6. CASE ScopeMemberDone(s)
    <3> DEFINE kids == IF b.tgt \in Scopes THEN Front(b.kids) ELSE b.kids
               fibers == IF b.tgt \in Fibers THEN Front(b.fibers) ELSE b.fibers
               issues == b.issues \/ b.res # "ok"
               bad == b.bad \/ (b.res # "ok" /\ (~Committed(b.tgt) \/ b.res \in Terminal))
               r == [b EXCEPT !.pc = "next", !.tgt = NONE, !.res = "none", !.kids = kids,
                              !.fibers = fibers, !.issues = issues, !.bad = bad]
    <3>1. b.pc = "back" /\ c = r
      BY <1>1, <2>6 DEF ScopeMemberDone, At
    <3>2. c.pc = "next" /\ c.fibers = fibers /\ c.kids = kids /\ c.bad = bad
      <4> HIDE DEF kids, fibers, issues, bad
      <4> QED BY <1>1, <3>1 DEF Frames
    <3>3. /\ b.tgt \in Fibers \cup Scopes /\ (b.tgt \in Fibers => b.tgt \notin Scopes)
          /\ b.res \in Results \ {"none"} /\ b.bad \in BOOLEAN
      <4>1. b.res # "none"
        BY <1>1, <3>1 DEF GeneralInv, Replies, At
      <4> QED BY <1>1, <3>1, <4>1, FrameFields, LifecycleAssumption DEF FrameOK
    \* A Fiber that is taken off the list is over, or its disposal ended badly.
    <3>4. b.tgt \in Fibers /\ ~bad => Over(b.tgt)
      <4>1. ASSUME b.tgt \in Fibers, ~bad PROVE fib[b.tgt].state \in {"Disposed", "Gone"}
        <5>1. Answer(b.tgt, b.res)
          BY <1>1, <3>1, <4>1 DEF TodoOK
        <5>2. CASE b.res = "ok"
          BY <5>1, <5>2 DEF Answer
        <5>3. CASE b.res # "ok"
          <6>1. b.res = "plain" /\ Committed(b.tgt)
            BY <3>3, <4>1, <5>3 DEF Results, Terminal
          <6>2. fib[b.tgt].state \in {"Disposed", "Waiting"}
            BY <3>3, <4>1, <6>1 DEF Committed
          <6>3. ~(fib[b.tgt].disposal.phase = "Terminated" /\ fib[b.tgt].disposal.done = "plain")
                  \/ fib[b.tgt].state # "Waiting"
            BY <1>1, <4>1 DEF Race, RaceOK, RaceRec, Refusal
          <6> QED BY <5>1, <6>1, <6>2, <6>3 DEF Answer
        <5> QED BY <5>2, <5>3
      <4> QED BY <4>1 DEF Over
    <3>5. b.tgt \in Scopes /\ ~bad => ScopeOver(b.tgt)
      <4>1. ASSUME b.tgt \in Scopes, ~bad PROVE scp[b.tgt].state \in {"Disposed", "Gone"}
        BY <1>1, <3>1, <4>1 DEF TodoOK, Committed
      <4> QED BY <4>1 DEF ScopeOver
    <3>6. /\ \A f \in Fibers : Lists(b.fibers, f) => Lists(fibers, f) \/ (b.tgt \in Fibers /\ f = b.tgt)
          /\ \A f \in Fibers : Lists(fibers, f) => Lists(b.fibers, f)
      BY <1>1, <3>1, FrontLists DEF TodoOK
    <3>7. \A t \in Scopes : Lists(b.kids, t) => Lists(kids, t) \/ (b.tgt \in Scopes /\ t = b.tgt)
      BY <1>1, <3>1, FrontLists DEF TodoOK
    <3>8. ~bad => ~b.bad
      OBVIOUS
    <3> HIDE DEF kids, fibers, issues, bad, r
    <3> QED BY <1>1, <1>5, <3>1, <3>2, <3>4, <3>5, <3>6, <3>7, <3>8 DEF TodoOK
  <2> QED BY <2>1, <2>2, <2>3, <2>4, <2>5, <2>6 DEF Disposing
<1> QED BY <1>2, <1>7, <1>8, <1>9, <1>10, <1>11 DEF FrameMove

LEMMA MembersInit == Init => MembersInv
<1> SUFFICES ASSUME Init PROVE MembersInv
  OBVIOUS
<1>1. /\ Idle.pc = "idle" /\ NewFiber.state = "Absent" /\ NewScope("Absent").state = "Absent"
      /\ NewScope("Absent").fibers = <<>> /\ NewScope("Absent").children = <<>>
  BY DEF Idle, NewFiber, NewScope
<1>2. /\ BootFibers \in Seq(Fibers) /\ BootScopes \in Seq(Scopes) /\ Root \in Scopes
      /\ \A x \in Elements(BootScopes) : Parent[x] \in Elements(BootScopes) \cup {Root}
      /\ \A f \in Elements(BootFibers) : ScopeOf[f] \in Elements(BootScopes) \cup {Root}
      /\ \A x \in Scopes : Parent[x] = NONE <=> x = Root
      /\ NONE \notin Scopes
  <2>1. BootScopes \in Seq(Scopes \ {Root})
    BY LifecycleAssumption
  <2>2. BootScopes \in Seq(Scopes)
    BY <2>1
  <2> QED BY <2>2, LifecycleAssumption
<1>3. /\ \A x : x \in Elements(BootFibers) <=> Lists(BootFibers, x)
      /\ \A x : x \in Elements(BootScopes) <=> Lists(BootScopes, x)
  BY DEF Elements, Lists
<1>4. ASSUME NEW s \in Elements(BootScopes) \cup {Root}
      PROVE  /\ scp[s].state = "Active"
             /\ \A f : Lists(scp[s].fibers, f) <=>
                         f \in Elements(BootFibers) /\ f \in Fibers /\ ScopeOf[f] = s
             /\ \A x : Lists(scp[s].children, x) <=>
                         x \in Elements(BootScopes) /\ x \in Scopes /\ Parent[x] = s
  <2>1. /\ scp[s].state = "Active"
        /\ scp[s].children = Retain(BootScopes, {x \in Scopes : Parent[x] = s})
        /\ scp[s].fibers = Retain(BootFibers, {f \in Fibers : ScopeOf[f] = s})
    BY BootRecords
  <2>2. \A f : Lists(scp[s].fibers, f) <=>
                 Lists(BootFibers, f) /\ f \in {g \in Fibers : ScopeOf[g] = s}
    BY <1>2, <2>1, RetainProperties
  <2>3. \A x : Lists(scp[s].children, x) <=>
                 Lists(BootScopes, x) /\ x \in {y \in Scopes : Parent[y] = s}
    BY <1>2, <2>1, RetainProperties
  <2> QED BY <1>3, <2>1, <2>2, <2>3
<1>5. ASSUME NEW s \in Scopes, s \notin Elements(BootScopes) \cup {Root}
      PROVE  scp[s].state = "Absent" /\ scp[s].fibers = <<>> /\ scp[s].children = <<>>
  BY <1>1, <1>5, BootRecords
<1>6. ASSUME NEW s \in Scopes PROVE MemberOK(s)
  <2>1. \A f \in Fibers : f \in Elements(BootFibers) <=> fib[f].state # "Absent"
    BY <1>1, BootRecords
  <2>2. CASE s \in Elements(BootScopes) \cup {Root}
    <3>1. \A x \in Scopes : Parent[x] = s /\ x \in Elements(BootScopes) => Lists(scp[s].children, x)
      BY <1>4, <2>2
    <3>2. \A x \in Scopes : x \notin Elements(BootScopes) /\ x # Root => ScopeOver(x)
      BY <1>5 DEF ScopeOver
    <3>3. \A x \in Scopes : Parent[x] = s => x # Root
      BY <1>2
    <3> QED BY <1>4, <2>1, <2>2, <3>1, <3>2, <3>3 DEF MemberOK, Over
  <2>3. CASE s \notin Elements(BootScopes) \cup {Root}
    <3>1. /\ scp[s].state = "Absent"
          /\ \A x : ~Lists(scp[s].fibers, x) /\ ~Lists(scp[s].children, x)
      BY <1>5, <2>3 DEF Lists
    <3>2. \A f \in Fibers : ScopeOf[f] = s => fib[f].state = "Absent"
      BY <1>2, <2>1, <2>3
    <3>3. \A x \in Scopes : Parent[x] = s => ScopeOver(x)
      BY <1>2, <1>5, <2>3 DEF ScopeOver
    <3> QED BY <3>1, <3>2, <3>3 DEF MemberOK, Over
  <2> QED BY <2>2, <2>3
<1>7. ASSUME NEW s \in Scopes PROVE TodoOK(s, proc[ScopeBody(s)])
  BY <1>1, BootRecords, ScopeProcs DEF TodoOK
<1> QED BY <1>6, <1>7, GeneralInit, RaceInit DEF MembersInv, Members, Todo

LEMMA MembersStep == MembersInv /\ [Next /\ NoneWaits]_vars => MembersInv'
<1>1. ASSUME MembersInv, UNCHANGED vars PROVE MembersInv'
  <2>1. GeneralInv'
    BY <1>1, GeneralNext DEF MembersInv
  <2>2. Race'
    BY <1>1 DEF MembersInv, Race, RaceOK, Knows, vars
  <2>3. Members'
    BY <1>1, MemberNext DEF MembersInv, Members
  <2>4. Todo'
    BY <1>1 DEF MembersInv, Todo, TodoOK, Answer, Over, ScopeOver, Leaving, vars
  <2> QED BY <2>1, <2>2, <2>3, <2>4 DEF MembersInv
<1>2. ASSUME MembersInv, Next, NoneWaits PROVE MembersInv'
  <2>1. GeneralInv' /\ Race'
    BY <1>2, GeneralNext, RaceNext DEF MembersInv
  <2>2. Members'
    BY <1>2, MemberNext DEF Members
  <2>3. Todo'
    BY <1>2, TodoNext DEF Todo
  <2> QED BY <2>1, <2>2, <2>3 DEF MembersInv
<1> QED BY <1>1, <1>2

LEMMA MembersEnd == MembersInv => ScopeMembersEnd
<1> SUFFICES ASSUME MembersInv PROVE ScopeMembersEnd
  OBVIOUS
<1>1. ASSUME NEW f \in Fibers, scp[ScopeOf[f]].state \in {"Disposed", "Gone"}
      PROVE  \/ fib[f].state \in {"Absent", "Disposed", "Gone"}
             \/ /\ At(Body(f), "publish") /\ proc[Body(f)].goal = "Disposed"
                /\ f \notin Elements(scp[ScopeOf[f]].fibers)
  <2>1. ScopeOf[f] \in Scopes
    BY LifecycleAssumption
  <2>2. Over(f)
    BY <1>1, <2>1 DEF MembersInv, Members, MemberOK
  <2> QED BY <2>2 DEF Over, Leaving, At, Lists, Elements
<1>2. ASSUME NEW s \in Scopes \ {Root}, scp[Parent[s]].state \in {"Disposed", "Gone"}
      PROVE  scp[s].state \in {"Absent", "Disposed", "Gone"}
  <2>1. Parent[s] \in Scopes
    BY LifecycleAssumption
  <2> QED BY <1>2, <2>1 DEF MembersInv, Members, MemberOK, ScopeOver
<1> QED BY <1>1, <1>2 DEF ScopeMembersEnd

(***************************************************************************)
(* The members of a Scope end before it does (dispose_scope_body), on      *)
(* every topology, as long as no disposal puts its Fiber back to Waiting:  *)
(* a restart that was under way when the Scope began to end answers it     *)
(* without an error, and its Fiber starts anew in a Scope that is gone.    *)
(***************************************************************************)
THEOREM ScopesOutliveTheirMembers == Spec /\ [][NoneWaits]_vars => []ScopeMembersEnd
<1>1. [Next]_vars /\ [NoneWaits]_vars => [Next /\ NoneWaits]_vars
  OBVIOUS
<1> QED BY <1>1, MembersInit, MembersStep, MembersEnd, PTL DEF Spec

-----------------------------------------------------------------------------
(***************************************************************************)
(* Which disposals can put their Fiber back to Waiting.                    *)
(***************************************************************************)
\* A disposal that nobody may leave waiting ends for good.
FinalOK(f, x, b) ==
  f \notin MayReturn =>
    /\ x.disposal.phase # "Idle" => ~x.disposal.wait
    /\ Decided(b) => b.goal # "Waiting"

Final == \A f \in Fibers : FinalOK(f, fib[f], proc[Body(f)])

LEMMA FinalKept ==
  ASSUME NEW f, NEW x, NEW y, NEW b \in Frames, NEW c,
         BodyOK(x, b), FinalOK(f, x, b), FiberMove(f, x, y, b, c)
  PROVE  FinalOK(f, y, c)
<1> SUFFICES ASSUME f \notin MayReturn PROVE FinalOK(f, y, c)
  BY DEF FinalOK
<1>1. /\ x.disposal.phase # "Idle" => ~x.disposal.wait
      /\ Decided(b) => b.goal # "Waiting"
  BY DEF FinalOK
<1>2. CASE \/ Rest(x, y, b, c) \/ Indexed(x, y, b, c) \/ Removed(x, y, b, c) \/ Parked(x, y, b, c)
           \/ Committing(f, x, y, b, c) \/ FailedMove(x, y, b, c) \/ Providing(f, x, y, b, c)
           \/ Adopting(f, x, y, b, c) \/ Leasing(f, x, y, b, c) \/ Sweeping(x, y, b, c)
  <2>1. y.disposal.phase = x.disposal.phase /\ (y.disposal.wait => x.disposal.wait) /\ Along(b, c)
    BY <1>2 DEF Rest, Indexed, Removed, Parked, Committing, FailedMove, Providing, Adopting,
                Leasing, Sweeping, Only, Along
  <2>2. Decided(c) => Decided(b) /\ c.goal = b.goal
    BY <2>1 DEF Along
  <2> QED BY <1>1, <2>1, <2>2 DEF FinalOK
<1>3. CASE Created(x, y, b, c)
  <2>1. c = b /\ y.disposal.phase = "Idle"
    BY <1>3 DEF Created, NewFiber, NewDisposal
  <2> QED BY <1>1, <2>1 DEF FinalOK
<1>4. CASE Begun(x, y, b, c) /\ (y.disposal.wait => f \in MayReturn)
  <2>1. c.pc = "queue"
    BY <1>4 DEF Begun, Idle
  <2> QED BY <1>4, <2>1 DEF FinalOK, Decided, Reconciling, Calling
<1>5. CASE Started(x, y, b, c)
  <2>1. c = b /\ (y.disposal = x.disposal \/ y.disposal.phase = "Idle")
    BY <1>5 DEF Started, NewDisposal
  <2> QED BY <1>1, <2>1 DEF FinalOK
<1>6. CASE BodyMove(f, x, y, b, c)
  <2>1. ~x.disposal.wait \/ b.pc = "idle"
    BY <1>1 DEF BodyOK
  <2>2. b.pc # "idle" /\ (y.disposal.wait => x.disposal.wait)
    BY <1>6 DEF BodyMove, Draining, Drained, AskingScope, ScopeDone, ScopesDone, Releasing, Deciding,
                Finishing, Quitting, Detaching, Publishing, Vanishing, Only
  <2>3. Decided(c) => c.goal # "Waiting"
    <3>1. CASE Draining(x, y, b, c) \/ Drained(x, y, b, c) \/ ScopesDone(x, y, b, c)
               \/ ScopeDone(x, y, b, c) \/ Releasing(x, y, b, c)
               \/ Publishing(x, y, b, c) \/ Vanishing(x, y, b, c)
      <4>1. c.pc \in {"drain", "kids", "release", "decide", "idle"}
        BY <3>1 DEF Draining, Drained, ScopesDone, ScopeDone, Releasing, Publishing, Vanishing,
                    Idle, Frames
      <4> QED BY <4>1 DEF Decided, Reconciling, Calling
    <3>2. CASE AskingScope(x, y, b, c)
      <4>1. c.pc \in {"wait", "back"} /\ c.tgt \notin Fibers
        BY <3>2, LifecycleAssumption DEF AskingScope
      <4> QED BY <4>1 DEF Decided, Reconciling, Calling
    <3>3. CASE Deciding(x, y, b, c)
      BY <2>1, <2>2, <3>3 DEF Deciding
    <3>4. CASE Finishing(x, y, b, c)
      BY <1>1, <3>4 DEF Finishing, Decided, Reconciling, Calling
    <3>5. CASE Quitting(x, y, b, c)
      BY <3>5 DEF Quitting, Decided, Reconciling, Calling
    <3>6. CASE Detaching(x, y, b, c)
      BY <1>1, <3>6 DEF Detaching, Decided, Reconciling, Calling
    <3> QED BY <1>6, <3>1, <3>2, <3>3, <3>4, <3>5, <3>6 DEF BodyMove
  <2> QED BY <2>1, <2>2, <2>3 DEF FinalOK
<1> QED BY <1>2, <1>3, <1>4, <1>5, <1>6 DEF FiberMove, OtherMove

LEMMA FinalInit == Init => Final
<1> SUFFICES ASSUME Init, NEW f \in Fibers PROVE FinalOK(f, fib[f], proc[Body(f)])
  BY DEF Final
<1>1. /\ Idle.pc = "idle" /\ NewFiber.disposal = NewDisposal /\ NewDisposal.phase = "Idle"
  BY DEF Idle, NewFiber, NewDisposal
<1>2. proc[Body(f)] = Idle /\ fib[f].disposal = NewDisposal
  BY <1>1, BootRecords, FiberProcs
<1> QED BY <1>1, <1>2 DEF FinalOK, Decided, Reconciling, Calling

LEMMA FinalNext == GeneralInv /\ Final /\ [Next]_vars => Final'
<1> SUFFICES ASSUME GeneralInv, Final, [Next]_vars, NEW f \in Fibers
             PROVE  FinalOK(f, fib'[f], proc'[Body(f)])
  BY DEF Final
<1>1. FinalOK(f, fib[f], proc[Body(f)])
  BY DEF Final
<1>2. FiberMove(f, fib[f], fib'[f], proc[Body(f)], proc'[Body(f)])
  BY NextMoves DEF FiberMoves
<1>3. BodyOK(fib[f], proc[Body(f)]) /\ proc[Body(f)] \in Frames
  BY Records DEF FiberOK
<1> QED BY <1>1, <1>2, <1>3, FinalKept

(***************************************************************************)
(* A disposal puts its Fiber back to Waiting only when the Fiber has the   *)
(* policy Restart or a client may dispose it: a request that does not      *)
(* allow it (dispose_fiber_observation, wait_for_dependencies) is never    *)
(* taken back while the disposal goes on, whatever requests meet: those of *)
(* a shutdown, a Scope, a rollback, a reconciliation and a failed host.    *)
(***************************************************************************)
THEOREM FinalInvariant == Spec => []Final
<1> QED BY FinalInit, FinalNext, GeneralInvariant, PTL DEF Spec

(***************************************************************************)
(* So on a topology where no Fiber has the policy Restart and no client    *)
(* disposes one, the members of a Scope end before it does.                *)
(***************************************************************************)
THEOREM FinalScopesOutliveTheirMembers ==
  ASSUME MayReturn = {}
  PROVE  Spec => []ScopeMembersEnd
<1>1. ASSUME GeneralInv, Final PROVE NoneWaits
  <2> SUFFICES ASSUME NEW f \in Fibers, Publish(f), ~proc[Body(f)].bad
               PROVE  proc[Body(f)].goal # "Waiting"
    BY DEF NoneWaits
  <2> QED BY <1>1 DEF Final, FinalOK, Publish, At, Decided
<1> QED BY <1>1, FinalInvariant, GeneralInvariant, ScopesOutliveTheirMembers, PTL
=============================================================================
