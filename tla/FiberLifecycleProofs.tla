------------------------ MODULE FiberLifecycleProofs ------------------------
(***************************************************************************)
(* Theorems about Fibers and Scopes (FiberLifecycle), for every topology:  *)
(* that a visible generation is a committed one that nobody disposes, that *)
(* cleanup waits for executions, and that nothing starts once admission is *)
(* closed.                                                                 *)
(***************************************************************************)
EXTENDS FiberLifecycle, RetainProofs, SequenceTheorems, TLAPS

-----------------------------------------------------------------------------
(***************************************************************************)
(* Where each kind of process can be.  Calling: on its way through         *)
(* activate or dispose_fiber_observation of the Fiber tgt.                 *)
(***************************************************************************)
Calling == {"lock", "activating", "fail", "rollback", "wait", "back"}
Reconciling == Calling \cup {"collect", "pick", "judge", "call", "reconciled"}
\* The body does not hold the lifecycle lock.
Outside == {"idle", "queue", "detach", "publish"}

Code(kind) ==
  CASE kind = "install" -> {"idle", "index", "validate", "remove", "check", "park"} \cup Calling
    [] kind = "act" -> {"idle", "start", "seal", "commit"} \cup Reconciling
    [] kind = "body" -> Outside \cup {"drain", "kids", "release", "decide"} \cup Reconciling
    [] kind = "host" -> {"idle", "call", "wait", "back"}
    [] kind = "scope" -> {"idle", "snapshot", "next", "call", "wait", "back"}

\* r is a frame that process p can have.
FrameOK(p, r) ==
  /\ r.pc \in Code(p[1])
  /\ r.pc \in {"lock", "activating", "fail", "rollback", "judge"} => r.tgt \in Fibers
  /\ p \in Reconcilers /\ r.pc = "call" => r.tgt \in Fibers
  /\ r.pc \in {"wait", "back"} => r.tgt \in Fibers \cup Scopes
  /\ p[1] = "install" /\ r.pc \in Calling => r.tgt = p[2]
  /\ p[1] = "scope" /\ r.pc = "call" => r.fibers # <<>>

(***************************************************************************)
(* The inductive invariant.  For a Fiber f it relates its record x, the    *)
(* frame a of its activation and the frame b of its disposal body.         *)
(***************************************************************************)
\* The lock names the process that is inside.
LockOK(f, x, a, b) ==
  /\ x.lock \in {NONE, Activation(f), Body(f)}
  /\ x.lock = Activation(f) <=> a.pc # "idle"
  /\ x.lock = Body(f) <=> b.pc \notin Outside

\* The body has chosen the state that it will publish.
Decided(b) ==
  \/ b.pc \in Reconciling \ {"wait", "back"}
  \/ b.pc \in {"wait", "back"} /\ b.tgt \in Fibers
  \/ b.pc \in {"detach", "publish"} /\ ~b.bad

BodyOK(x, b) ==
  /\ x.disposal.phase \in {"Idle", "Complete", "Terminated"} => b.pc = "idle"
  /\ Decided(b) => b.goal \in {"Waiting", "Disposed"}

\* What was sealed is what was declared, and no disposal came in between.
StagedOK(f, x, a) ==
  x.state = "Starting" =>
    /\ a.pc \in {"seal", "commit"} => x.disposal.phase = "Idle"
    /\ a.pc = "commit" => x.reg = Provides[f]

VisibleOK(f, x) ==
  x.visible =>
    /\ x.state \in {"Active", "Failed", "Gone"}
    /\ x.disposal.phase = "Idle"
    /\ x.reg = Provides[f]

\* A body that finds executions in flight gets no further than the drain.
LeaseOK(f, x, b) ==
  x.lease =>
    /\ x.reg = Provides[f]
    /\ x.disposal.phase \notin {"ChildScopes", "Release", "Reconciling", "Complete"}
    /\ b.pc \in Outside \cup {"drain"}
    /\ b.pc \in {"detach", "publish"} => b.bad

AbsentOK(x) == x.state = "Absent" => x.lock = NONE /\ x.disposal.phase = "Idle"

FiberOK(f, x, a, b) ==
  /\ LockOK(f, x, a, b) /\ BodyOK(x, b) /\ StagedOK(f, x, a)
  /\ VisibleOK(f, x) /\ LeaseOK(f, x, b) /\ AbsentOK(x)

\* A running activation has one caller, which waits for it.
CallerOK(f) ==
  LET p == proc[Activation(f)].caller IN
  ~At(Activation(f), "idle") => p \in Procs /\ At(p, "activating") /\ proc[p].tgt = f

FramesInv == \A p \in Procs : FrameOK(p, proc[p])
FibersInv == \A f \in Fibers : FiberOK(f, fib[f], proc[Activation(f)], proc[Body(f)])
CallersInv == \A f \in Fibers : CallerOK(f)

LifecycleInv == TypeOK /\ FramesInv /\ FibersInv /\ CallersInv

-----------------------------------------------------------------------------
(***************************************************************************)
(* Processes and records.                                                  *)
(***************************************************************************)
DisposalRec == [phase : Phases, wait : BOOLEAN, persist : BOOLEAN,
                errs : Seq(Results), done : Results]
FiberRec == [state : FiberStates, disposal : DisposalRec, visible : BOOLEAN,
             lease : BOOLEAN, reg : SUBSET Services, kids : Seq(Scopes),
             indexed : BOOLEAN, lock : Procs \cup {NONE}]
ScopeRec == [state : {"Absent", "Active", "Disposing", "Disposed", "Terminated", "Gone"},
             children : Seq(Scopes), fibers : Seq(Fibers), persist : BOOLEAN,
             done : Results]

LEMMA Typing ==
  TypeOK <=> /\ fib \in [Fibers -> FiberRec] /\ scp \in [Scopes -> ScopeRec]
             /\ proc \in [Procs -> Frames] /\ open \in BOOLEAN
BY DEF TypeOK, FiberRec, DisposalRec, ScopeRec

LEMMA TypingNext ==
  ASSUME fib' \in [Fibers -> FiberRec], scp' \in [Scopes -> ScopeRec],
         proc' \in [Procs -> Frames], open' \in BOOLEAN
  PROVE  TypeOK'
BY DEF TypeOK, FiberRec, DisposalRec, ScopeRec

LEMMA FiberProcs ==
  ASSUME NEW f \in Fibers
  PROVE  /\ Installer(f) \in Procs /\ Activation(f) \in Procs
         /\ Body(f) \in Procs /\ HostWorker(f) \in Procs
         /\ Activation(f) \in Reconcilers /\ Body(f) \in Reconcilers
         /\ Installer(f)[1] = "install" /\ Activation(f)[1] = "act"
         /\ Body(f)[1] = "body" /\ HostWorker(f)[1] = "host"
         /\ Installer(f)[2] = f /\ Activation(f)[2] = f /\ Body(f)[2] = f
BY DEF Procs, Reconcilers, Installer, Activation, Body, HostWorker

LEMMA ScopeProcs ==
  ASSUME NEW s \in Scopes
  PROVE  ScopeBody(s) \in Procs /\ ScopeBody(s)[1] = "scope"
BY DEF Procs, ScopeBody

LEMMA ReconcilerProcs ==
  ASSUME NEW p \in Reconcilers
  PROVE  /\ p \in Procs /\ p[2] \in Fibers
         /\ p = Activation(p[2]) \/ p = Body(p[2])
         /\ p[1] \in {"act", "body"}
BY DEF Procs, Reconcilers, Activation, Body

LEMMA ProcKinds ==
  ASSUME NEW p \in Procs
  PROVE  /\ p[1] \in {"install", "act", "body", "host", "scope"}
         /\ p[1] = "act" => p[2] \in Fibers /\ p = Activation(p[2])
         /\ p[1] = "body" => p[2] \in Fibers /\ p = Body(p[2])
         /\ p \in Reconcilers <=> p[1] \in {"act", "body"}
         /\ p # NONE
BY NoneAssumption DEF Procs, Reconcilers, Activation, Body

\* Who is inside activate is an install, an activation or a body.
LEMMA InActivate ==
  ASSUME NEW p, p[1] \in {"install", "act", "body", "host", "scope"}, NEW r, FrameOK(p, r),
         r.pc \in {"lock", "activating", "fail", "rollback"}
  PROVE  p[1] \in {"install", "act", "body"} /\ Calling \subseteq Code(p[1])
BY DEF FrameOK, Code, Calling, Reconciling, Outside

LEMMA FrameFields ==
  ASSUME NEW r \in Frames
  PROVE  /\ r.tgt \in Fibers \cup Scopes \cup {NONE} /\ r.seen \in FiberStates
         /\ r.res \in Results /\ r.rollback \in BOOLEAN /\ r.caller \in Procs \cup {NONE}
         /\ r.syms \in SUBSET Services /\ r.todo \in SUBSET Fibers /\ r.kids \in Seq(Scopes)
         /\ r.fibers \in Seq(Fibers) /\ r.persist \in BOOLEAN /\ r.issues \in BOOLEAN
         /\ r.bad \in BOOLEAN /\ r.goal \in {NONE, "Waiting", "Disposed"}
BY DEF Frames

LEMMA IdleFrame == Idle \in Frames
BY DEF Idle, Frames, FiberStates, Results

LEMMA AnsweredFrame ==
  ASSUME NEW r \in Frames, NEW res \in Results
  PROVE  /\ Answered(r, res) \in Frames
         /\ Answered(r, res).pc = "back" /\ Answered(r, res).tgt = r.tgt
         /\ Answered(r, res).caller = r.caller /\ Answered(r, res).goal = r.goal
         /\ Answered(r, res).bad = r.bad
BY DEF Answered, Frames

-----------------------------------------------------------------------------
(***************************************************************************)
(* Steps that leave a Fiber's invariant alone.                             *)
(***************************************************************************)
\* A process goes on with its reconciliation, or does nothing.
Keeps(r, t) ==
  \/ t = r
  \/ /\ r.pc \in Reconciling /\ t.pc \in Reconciling
     /\ t.caller = r.caller /\ t.goal = r.goal /\ t.bad = r.bad
     /\ Decided(t) => Decided(r)

\* What the invariant says of a Fiber's record.
SameCore(x, y) ==
  /\ y.state = x.state /\ y.disposal.phase = x.disposal.phase /\ y.visible = x.visible
  /\ y.lease = x.lease /\ y.reg = x.reg /\ y.lock = x.lock

LEMMA KeptFiber ==
  ASSUME NEW f, NEW x, NEW y, NEW a, NEW b, NEW c, NEW d,
         FiberOK(f, x, a, b), SameCore(x, y), Keeps(a, c), Keeps(b, d)
  PROVE  FiberOK(f, y, c, d)
<1>1. LockOK(f, y, c, d)
  BY DEF FiberOK, LockOK, SameCore, Keeps, Reconciling, Calling, Outside
<1>2. BodyOK(y, d)
  BY DEF FiberOK, BodyOK, SameCore, Keeps, Reconciling, Calling
<1>3. StagedOK(f, y, c)
  BY DEF FiberOK, StagedOK, SameCore, Keeps, Reconciling, Calling
<1>4. VisibleOK(f, y) /\ AbsentOK(y)
  BY DEF FiberOK, VisibleOK, AbsentOK, SameCore
<1>5. LeaseOK(f, y, d)
  BY DEF FiberOK, LeaseOK, SameCore, Keeps, Reconciling, Calling, Outside
<1> QED BY <1>1, <1>2, <1>3, <1>4, <1>5 DEF FiberOK

\* No activation begins, and the callers of those that go on wait.
Calm ==
  \A f \in Fibers :
    LET a == proc[Activation(f)] IN
    proc'[Activation(f)].pc # "idle" =>
      /\ a.pc # "idle" /\ proc'[Activation(f)].caller = a.caller
      /\ proc'[a.caller] = proc[a.caller]

LEMMA CalmCallers ==
  ASSUME CallersInv, Calm PROVE CallersInv'
<1> SUFFICES ASSUME NEW f \in Fibers PROVE CallerOK(f)'
  BY DEF CallersInv
<1>1. CallerOK(f)
  BY DEF CallersInv
<1> QED BY <1>1 DEF Calm, CallerOK, At

\* A step of process p within activate, a reconciliation, an install, a host failure or
\* the disposal of a Scope, that changes nothing the invariant says of a Fiber.
LEMMA ProcStep ==
  ASSUME LifecycleInv, NEW p \in Procs, NEW r \in Frames,
         \A q \in Procs : proc'[q] = IF q = p THEN r ELSE proc[q],
         TypeOK', FrameOK(p, r), ~At(p, "activating"),
         p \in Reconcilers => Keeps(proc[p], r),
         \A f \in Fibers : SameCore(fib[f], fib'[f])
  PROVE  LifecycleInv'
<1>1. FramesInv'
  BY DEF LifecycleInv, FramesInv
<1>2. FibersInv'
  <2> SUFFICES ASSUME NEW f \in Fibers
               PROVE FiberOK(f, fib'[f], proc'[Activation(f)], proc'[Body(f)])
    BY DEF FibersInv
  <2>1. FiberOK(f, fib[f], proc[Activation(f)], proc[Body(f)])
    BY DEF LifecycleInv, FibersInv
  <2>2. Keeps(proc[Activation(f)], proc'[Activation(f)]) /\ Keeps(proc[Body(f)], proc'[Body(f)])
    BY FiberProcs DEF Keeps
  <2> QED BY <2>1, <2>2, KeptFiber
<1>3. Calm
  <2> SUFFICES ASSUME NEW f \in Fibers, proc'[Activation(f)].pc # "idle"
               PROVE  /\ proc[Activation(f)].pc # "idle"
                      /\ proc'[Activation(f)].caller = proc[Activation(f)].caller
                      /\ proc'[proc[Activation(f)].caller] = proc[proc[Activation(f)].caller]
    BY DEF Calm
  <2>1. Keeps(proc[Activation(f)], proc'[Activation(f)])
    BY FiberProcs DEF Keeps
  <2>2. /\ proc[Activation(f)].pc # "idle"
        /\ proc'[Activation(f)].caller = proc[Activation(f)].caller
    BY <2>1 DEF Keeps, Reconciling, Calling
  <2>3. CallerOK(f)
    BY DEF LifecycleInv, CallersInv
  <2> QED BY <2>2, <2>3 DEF CallerOK, At
<1> QED BY <1>1, <1>2, <1>3, CalmCallers DEF LifecycleInv

\* A step that touches no process and nothing the invariant says of a Fiber.
LEMMA StillStep ==
  ASSUME LifecycleInv, proc' = proc, TypeOK', \A f \in Fibers : SameCore(fib[f], fib'[f])
  PROVE  LifecycleInv'
<1>1. FramesInv'
  BY DEF LifecycleInv, FramesInv
<1>2. FibersInv'
  BY KeptFiber DEF LifecycleInv, FibersInv, Keeps
<1>3. Calm
  BY DEF Calm
<1> QED BY <1>1, <1>2, <1>3, CalmCallers DEF LifecycleInv

\* Fiber f becomes x, its activation c and its body d; other processes keep.
LEMMA FiberStep ==
  ASSUME LifecycleInv, NEW f \in Fibers, NEW x, NEW c, NEW d, TypeOK', CallersInv',
         \A g \in Fibers : fib'[g] = IF g = f THEN x ELSE fib[g],
         proc'[Activation(f)] = c, proc'[Body(f)] = d, FiberOK(f, x, c, d),
         \A q \in Procs : q \in Reconcilers => q[2] = f \/ Keeps(proc[q], proc'[q]),
         \A q \in Procs : FrameOK(q, proc'[q])
  PROVE  LifecycleInv'
<1>1. FramesInv'
  BY DEF FramesInv
<1>2. FibersInv'
  <2> SUFFICES ASSUME NEW g \in Fibers, g # f
               PROVE FiberOK(g, fib'[g], proc'[Activation(g)], proc'[Body(g)])
    BY DEF FibersInv
  <2>1. FiberOK(g, fib[g], proc[Activation(g)], proc[Body(g)])
    BY DEF LifecycleInv, FibersInv
  <2>2. Keeps(proc[Activation(g)], proc'[Activation(g)]) /\ Keeps(proc[Body(g)], proc'[Body(g)])
    BY FiberProcs
  <2>3. SameCore(fib[g], fib'[g])
    BY DEF SameCore
  <2> QED BY <2>1, <2>2, <2>3, KeptFiber
<1> QED BY <1>1, <1>2, CalmCallers DEF LifecycleInv


\* Process p goes on at r, and Fiber f becomes x.
LEMMA RecordStep ==
  ASSUME LifecycleInv, NEW f \in Fibers, NEW x \in FiberRec, NEW p \in Procs, NEW r \in Frames,
         fib' = [fib EXCEPT ![f] = x], proc' = [proc EXCEPT ![p] = r],
         scp' \in [Scopes -> ScopeRec], open' = open, FrameOK(p, r), ~At(p, "activating"),
         p[1] = "act" /\ r.pc # "idle" => ~At(p, "idle") /\ r.caller = proc[p].caller,
         p \in Reconcilers => p[2] = f \/ Keeps(proc[p], r),
         FiberOK(f, x, IF p = Activation(f) THEN r ELSE proc[Activation(f)],
                       IF p = Body(f) THEN r ELSE proc[Body(f)])
  PROVE  LifecycleInv'
<1>1. /\ TypeOK' /\ \A g \in Fibers : fib'[g] = IF g = f THEN x ELSE fib[g]
      /\ \A q \in Procs : proc'[q] = IF q = p THEN r ELSE proc[q]
  BY Typing, TypingNext DEF LifecycleInv
<1>2. Calm
  <2> SUFFICES ASSUME NEW g \in Fibers, proc'[Activation(g)].pc # "idle"
               PROVE  /\ proc[Activation(g)].pc # "idle"
                      /\ proc'[Activation(g)].caller = proc[Activation(g)].caller
                      /\ proc'[proc[Activation(g)].caller] = proc[proc[Activation(g)].caller]
    BY DEF Calm
  <2>1. /\ proc[Activation(g)].pc # "idle"
        /\ proc'[Activation(g)].caller = proc[Activation(g)].caller
    BY <1>1, FiberProcs DEF At
  <2>2. CallerOK(g)
    BY DEF LifecycleInv, CallersInv
  <2> QED BY <1>1, <2>1, <2>2 DEF CallerOK, At
<1>3. \A q \in Procs : q \in Reconcilers => q[2] = f \/ Keeps(proc[q], proc'[q])
  BY <1>1 DEF Keeps
<1>4. \A q \in Procs : FrameOK(q, proc'[q])
  BY <1>1 DEF LifecycleInv, FramesInv
<1>5. /\ proc'[Activation(f)] = IF p = Activation(f) THEN r ELSE proc[Activation(f)]
      /\ proc'[Body(f)] = IF p = Body(f) THEN r ELSE proc[Body(f)]
  BY <1>1, FiberProcs
<1>6. CallersInv'
  BY <1>2, CalmCallers DEF LifecycleInv
<1> QED BY <1>1, <1>3, <1>4, <1>5, <1>6, FiberStep
-----------------------------------------------------------------------------
(***************************************************************************)
(* Steps of one process that move nothing but itself.                      *)
(***************************************************************************)
LEMMA ProcOnly ==
  ASSUME LifecycleInv, NEW p \in Procs, NEW r \in Frames,
         proc' = [proc EXCEPT ![p] = r], fib' = fib, scp' = scp, open' = open,
         FrameOK(p, r), ~At(p, "activating"), p \in Reconcilers => Keeps(proc[p], r)
  PROVE  LifecycleInv'
<1>1. TypeOK' /\ \A q \in Procs : proc'[q] = IF q = p THEN r ELSE proc[q]
  BY DEF LifecycleInv, TypeOK
<1>2. \A f \in Fibers : SameCore(fib[f], fib'[f])
  BY DEF SameCore
<1> QED BY <1>1, <1>2, ProcStep

LEMMA Instances ==
  ASSUME LifecycleInv
  PROVE  /\ fib \in [Fibers -> FiberRec] /\ scp \in [Scopes -> ScopeRec]
         /\ proc \in [Procs -> Frames] /\ open \in BOOLEAN
         /\ \A p \in Procs : proc[p] \in Frames /\ FrameOK(p, proc[p])
         /\ \A f \in Fibers :
              /\ fib[f] \in FiberRec /\ CallerOK(f)
              /\ FiberOK(f, fib[f], proc[Activation(f)], proc[Body(f)])
BY Typing DEF LifecycleInv, FramesInv, FibersInv, CallersInv

LEMMA RefusedStep ==
  ASSUME LifecycleInv, NEW p \in Procs, Refused(p) PROVE LifecycleInv'
<1> DEFINE r == Answered(proc[p], "plain")
<1>1. proc[p] \in Frames /\ FrameOK(p, proc[p]) /\ proc[p].pc = "lock"
  BY Instances DEF Refused, At
<1>2. r \in Frames /\ r.pc = "back" /\ r.tgt = proc[p].tgt /\ r.caller = proc[p].caller
      /\ r.goal = proc[p].goal /\ r.bad = proc[p].bad
  BY <1>1, AnsweredFrame DEF Results
<1>3. proc' = [proc EXCEPT ![p] = r] /\ fib' = fib /\ scp' = scp /\ open' = open
  BY DEF Refused
<1> HIDE DEF r
<1>4. FrameOK(p, r)
  BY <1>1, <1>2, InActivate, ProcKinds DEF FrameOK, Calling
<1>5. Keeps(proc[p], r)
  BY <1>1, <1>2 DEF Keeps, Decided, Reconciling, Calling
<1> QED BY <1>1, <1>2, <1>3, <1>4, <1>5, ProcOnly DEF At

\* Reconciliation.
LEMMA ReconcilingStep ==
  ASSUME LifecycleInv, NEW p \in Reconcilers, NEW r \in Frames,
         proc' = [proc EXCEPT ![p] = r], fib' = fib, scp' = scp, open' = open,
         Decided(proc[p]), proc[p].pc \in Reconciling \ {"activating"},
         r.pc \in Reconciling, r.caller = proc[p].caller, r.goal = proc[p].goal,
         r.bad = proc[p].bad,
         r.pc \in {"lock", "activating", "fail", "rollback", "judge", "call", "wait", "back"} =>
           r.tgt \in Fibers
  PROVE  LifecycleInv'
<1>1. p \in Procs /\ p[1] \in {"act", "body"}
  BY ReconcilerProcs
<1>2. FrameOK(p, r)
  BY <1>1 DEF FrameOK, Code
<1>3. Keeps(proc[p], r)
  BY DEF Keeps
<1> QED BY <1>1, <1>2, <1>3, ProcOnly DEF At

LEMMA CollectStep ==
  ASSUME LifecycleInv, NEW p \in Reconcilers, Collect(p) PROVE LifecycleInv'
<1> DEFINE r == [proc[p] EXCEPT !.pc = "pick", !.syms = {},
             !.todo = {g \in Fibers : fib[g].indexed /\ Deps[g] \cap proc[p].syms # {}}]
<1>1. p \in Procs /\ proc \in [Procs -> Frames] /\ proc[p] \in Frames /\ proc[p].pc = "collect"
  BY Instances, ReconcilerProcs DEF Collect, At
<1>2. r \in Frames /\ r.pc = "pick" /\ r.caller = proc[p].caller /\ r.goal = proc[p].goal
      /\ r.bad = proc[p].bad
  BY <1>1 DEF Frames
<1>3. proc' = [proc EXCEPT ![p] = r] /\ fib' = fib /\ scp' = scp /\ open' = open
  BY <1>1 DEF Collect
<1> HIDE DEF r
<1> QED BY <1>1, <1>2, <1>3, ReconcilingStep DEF Decided, Reconciling, Calling

LEMMA PickStep ==
  ASSUME LifecycleInv, NEW p \in Reconcilers, NEW g \in Fibers, Pick(p, g) PROVE LifecycleInv'
<1> DEFINE pc == IF Registered(g) THEN "judge" ELSE "pick"
           tgt == IF Registered(g) THEN g ELSE NONE
           seen == IF Registered(g) THEN fib[g].state ELSE "Absent"
           r == [proc[p] EXCEPT !.todo = @ \ {g}, !.pc = pc, !.tgt = tgt, !.seen = seen]
<1>1. /\ p \in Procs /\ proc \in [Procs -> Frames] /\ proc[p] \in Frames /\ proc[p].pc = "pick"
      /\ fib[g].state \in FiberStates
  BY Instances, ReconcilerProcs DEF Pick, At, FiberRec
<1>2. /\ pc \in {"judge", "pick"} /\ tgt \in Fibers \cup {NONE} /\ (pc = "judge" => tgt \in Fibers)
      /\ seen \in FiberStates
  BY <1>1 DEF FiberStates
<1>3. proc' = [proc EXCEPT ![p] = r] /\ fib' = fib /\ scp' = scp /\ open' = open
  BY <1>1 DEF Pick
<1> HIDE DEF pc, tgt, seen
<1>4. /\ r \in Frames /\ r.pc = pc /\ r.tgt = tgt
      /\ r.caller = proc[p].caller /\ r.goal = proc[p].goal /\ r.bad = proc[p].bad
  BY <1>1, <1>2 DEF Frames
<1> HIDE DEF r
<1> QED BY <1>1, <1>2, <1>3, <1>4, ReconcilingStep DEF Decided, Reconciling, Calling

LEMMA JudgeStep ==
  ASSUME LifecycleInv, NEW p \in Reconcilers, Judge(p) PROVE LifecycleInv'
<1> DEFINE v == Verdict(proc[p].seen, Met(proc[p].tgt))
           r == [proc[p] EXCEPT !.pc = v, !.seen = "Absent", !.tgt = IF v = "pick" THEN NONE ELSE @]
<1>1. /\ p \in Procs /\ proc \in [Procs -> Frames] /\ proc[p] \in Frames /\ proc[p].pc = "judge"
      /\ proc[p].tgt \in Fibers
  BY Instances, ReconcilerProcs DEF Judge, At, FrameOK
<1>2. v \in {"call", "lock", "pick"}
  BY DEF Verdict
<1>3. proc' = [proc EXCEPT ![p] = r] /\ fib' = fib /\ scp' = scp /\ open' = open
  BY <1>1 DEF Judge
<1> HIDE DEF v
<1>4. /\ r \in Frames /\ r.pc = v /\ (v # "pick" => r.tgt \in Fibers)
      /\ r.caller = proc[p].caller /\ r.goal = proc[p].goal /\ r.bad = proc[p].bad
  BY <1>1, <1>2 DEF Frames, FiberStates
<1> HIDE DEF r
<1> QED BY <1>1, <1>2, <1>3, <1>4, ReconcilingStep DEF Decided, Reconciling, Calling

LEMMA CandidateDoneStep ==
  ASSUME LifecycleInv, NEW p \in Reconcilers, CandidateDone(p) PROVE LifecycleInv'
<1> DEFINE res == CallResult(p)
           r == [proc[p] EXCEPT !.rollback = FALSE, !.res = res, !.tgt = NONE,
                   !.todo = IF res = "ok" THEN @ ELSE {},
                   !.pc = IF res = "ok" THEN "pick" ELSE "reconciled"]
<1>1. /\ p \in Procs /\ proc \in [Procs -> Frames] /\ proc[p] \in Frames /\ proc[p].pc = "back"
      /\ proc[p].tgt \in Fibers
  BY Instances, ReconcilerProcs DEF CandidateDone, At
<1>2. res \in Results
  BY <1>1, FrameFields DEF CallResult, Results
<1>3. proc' = [proc EXCEPT ![p] = r] /\ fib' = fib /\ scp' = scp /\ open' = open
  BY <1>1 DEF CandidateDone
<1> HIDE DEF res
<1>4. /\ r \in Frames /\ r.pc \in {"pick", "reconciled"}
      /\ r.caller = proc[p].caller /\ r.goal = proc[p].goal /\ r.bad = proc[p].bad
  BY <1>1, <1>2 DEF Frames
<1> HIDE DEF r
<1> QED BY <1>1, <1>3, <1>4, ReconcilingStep DEF Decided, Reconciling, Calling

LEMMA ReconcileDoneStep ==
  ASSUME LifecycleInv, NEW p \in Reconcilers, ReconcileDone(p) PROVE LifecycleInv'
<1> DEFINE r == [proc[p] EXCEPT !.pc = "reconciled", !.res = "ok"]
<1>1. p \in Procs /\ proc \in [Procs -> Frames] /\ proc[p] \in Frames /\ proc[p].pc = "pick"
  BY Instances, ReconcilerProcs DEF ReconcileDone, At
<1>2. /\ r \in Frames /\ r.pc = "reconciled" /\ r.caller = proc[p].caller
      /\ r.goal = proc[p].goal /\ r.bad = proc[p].bad
  BY <1>1 DEF Frames, Results
<1>3. proc' = [proc EXCEPT ![p] = r] /\ fib' = fib /\ scp' = scp /\ open' = open
  BY <1>1 DEF ReconcileDone
<1> HIDE DEF r
<1> QED BY <1>1, <1>2, <1>3, ReconcilingStep DEF Decided, Reconciling, Calling

\* Installs, host failures and the disposal of Scopes.
LEMMA OutsideStep ==
  ASSUME LifecycleInv, NEW p \in Procs, NEW r \in Frames,
         p[1] \in {"install", "host", "scope"}, ~At(p, "activating"),
         proc' = [proc EXCEPT ![p] = r], fib' = fib, scp' = scp, open' = open,
         r.pc \in Code(p[1]),
         r.pc \in {"lock", "activating", "fail", "rollback", "judge", "wait", "back"} =>
           r.tgt \in Fibers,
         p[1] = "install" /\ r.pc \in Calling => r.tgt = p[2],
         p[1] = "scope" /\ r.pc = "call" => r.fibers # <<>>
  PROVE  LifecycleInv'
<1>1. p \notin Reconcilers
  BY ProcKinds
<1>2. FrameOK(p, r)
  BY <1>1 DEF FrameOK
<1> QED BY <1>1, <1>2, ProcOnly

LEMMA InstallValidateStep ==
  ASSUME LifecycleInv, NEW f \in Fibers, InstallValidate(f) PROVE LifecycleInv'
<1> DEFINE p == Installer(f)
           pc == IF Cyclic THEN "remove" ELSE "check"
           r == [proc[p] EXCEPT !.pc = pc]
<1>1. /\ p \in Procs /\ p[1] = "install" /\ p[2] = f /\ proc \in [Procs -> Frames]
      /\ proc[p] \in Frames /\ proc[p].pc = "validate"
  BY Instances, FiberProcs DEF InstallValidate, At
<1>2. proc' = [proc EXCEPT ![p] = r] /\ fib' = fib /\ scp' = scp /\ open' = open
  BY <1>1 DEF InstallValidate, Goto
<1>3. pc \in {"remove", "check"}
  OBVIOUS
<1> HIDE DEF pc
<1>4. r \in Frames /\ r.pc = pc
  BY <1>1, <1>3 DEF Frames
<1> HIDE DEF r, p
<1> QED BY <1>1, <1>2, <1>3, <1>4, OutsideStep DEF Code, Calling, At

LEMMA InstallCheckStep ==
  ASSUME LifecycleInv, NEW f \in Fibers, InstallCheck(f) PROVE LifecycleInv'
<1> DEFINE p == Installer(f)
           pc == IF Met(f) THEN "lock" ELSE "park"
           r == [proc[p] EXCEPT !.pc = pc, !.tgt = f]
<1>1. /\ p \in Procs /\ p[1] = "install" /\ p[2] = f /\ proc \in [Procs -> Frames]
      /\ proc[p] \in Frames /\ proc[p].pc = "check"
  BY Instances, FiberProcs DEF InstallCheck, At
<1>2. proc' = [proc EXCEPT ![p] = r] /\ fib' = fib /\ scp' = scp /\ open' = open
  BY <1>1 DEF InstallCheck
<1>3. pc \in {"lock", "park"}
  OBVIOUS
<1> HIDE DEF pc
<1>4. r \in Frames /\ r.pc = pc /\ r.tgt = f
  BY <1>1, <1>3 DEF Frames
<1> HIDE DEF r, p
<1> QED BY <1>1, <1>2, <1>3, <1>4, OutsideStep DEF Code, Calling, At

LEMMA ReturnStep ==
  ASSUME LifecycleInv, NEW f \in Fibers, InstallReturn(f) \/ HostReturn(f) PROVE LifecycleInv'
<1>1. ASSUME NEW p \in {Installer(f), HostWorker(f)}, At(p, "back"), End(p),
             UNCHANGED <<fib, scp, open>>
      PROVE LifecycleInv'
  <2>1. p \in Procs /\ p[1] \in {"install", "host"} /\ proc[p].pc = "back"
    BY <1>1, FiberProcs DEF At
  <2>2. proc' = [proc EXCEPT ![p] = Idle] /\ fib' = fib /\ scp' = scp /\ open' = open
    BY <1>1 DEF End
  <2>3. Idle \in Frames /\ Idle.pc = "idle"
    BY IdleFrame DEF Idle
  <2> QED BY <2>1, <2>2, <2>3, OutsideStep DEF Code, Calling, At
<1> QED BY <1>1 DEF InstallReturn, HostReturn

LEMMA InstallIndexStep ==
  ASSUME LifecycleInv, NEW f \in Fibers, InstallIndex(f) PROVE LifecycleInv'
<1> DEFINE p == Installer(f)
           r == [proc[p] EXCEPT !.pc = "validate"]
           x == [fib[f] EXCEPT !.indexed = TRUE]
<1>1. /\ p \in Procs /\ p[1] = "install" /\ p[2] = f /\ proc \in [Procs -> Frames]
      /\ proc[p] \in Frames /\ proc[p].pc = "index" /\ fib \in [Fibers -> FiberRec]
      /\ fib[f] \in FiberRec /\ scp \in [Scopes -> ScopeRec] /\ open \in BOOLEAN
  BY Instances, FiberProcs DEF InstallIndex, At
<1>2. proc' = [proc EXCEPT ![p] = r] /\ fib' = [fib EXCEPT ![f] = x] /\ scp' = scp /\ open' = open
  BY <1>1 DEF InstallIndex, Goto
<1>3. r \in Frames /\ r.pc = "validate"
  BY <1>1 DEF Frames
<1>4. x \in FiberRec /\ SameCore(fib[f], x)
  BY <1>1 DEF FiberRec, SameCore
<1> HIDE DEF r, p, x
<1>5. TypeOK'
  <2>1. fib' \in [Fibers -> FiberRec] /\ proc' \in [Procs -> Frames]
    BY <1>1, <1>2, <1>3, <1>4
  <2> QED BY <1>1, <1>2, <2>1, TypingNext
<1>6. \A g \in Fibers : SameCore(fib[g], fib'[g])
  BY <1>1, <1>2, <1>4 DEF SameCore
<1>7. p \notin Reconcilers
  BY <1>1, ProcKinds
<1>8. FrameOK(p, r)
  BY <1>1, <1>3, <1>7 DEF FrameOK, Code, Calling
<1>9. \A q \in Procs : proc'[q] = IF q = p THEN r ELSE proc[q]
  BY <1>1, <1>2
<1> QED BY <1>1, <1>3, <1>5, <1>6, <1>7, <1>8, <1>9, ProcStep DEF At

LEMMA ScopeSnapshotStep ==
  ASSUME LifecycleInv, NEW s \in Scopes, ScopeSnapshot(s) PROVE LifecycleInv'
<1> DEFINE p == ScopeBody(s)
           r == [proc[p] EXCEPT !.pc = "next", !.kids = scp[s].children, !.fibers = scp[s].fibers,
                                !.persist = scp[s].persist]
<1>1. /\ p \in Procs /\ p[1] = "scope" /\ proc \in [Procs -> Frames]
      /\ proc[p] \in Frames /\ proc[p].pc = "snapshot" /\ scp[s] \in ScopeRec
  BY Instances, ScopeProcs DEF ScopeSnapshot, At
<1>2. proc' = [proc EXCEPT ![p] = r] /\ fib' = fib /\ scp' = scp /\ open' = open
  BY <1>1 DEF ScopeSnapshot
<1>3. r \in Frames /\ r.pc = "next"
  BY <1>1 DEF Frames, ScopeRec
<1> HIDE DEF r, p
<1> QED BY <1>1, <1>2, <1>3, OutsideStep DEF Code, Calling, At

LEMMA FrontSeq ==
  ASSUME NEW T, NEW seq \in Seq(T)
  PROVE  Front(seq) \in Seq(T) /\ (seq # <<>> => Last(seq) \in T)
<1>1. Len(seq) \in Nat /\ Len(seq) - 1 <= Len(seq)
  OBVIOUS
<1>2. Front(seq) \in Seq(T)
  BY <1>1 DEF Front
<1>3. seq # <<>> => Last(seq) \in T
  BY <1>1 DEF Last
<1> QED BY <1>2, <1>3

LEMMA ScopeFiberStep ==
  ASSUME LifecycleInv, NEW s \in Scopes, ScopeFiber(s) PROVE LifecycleInv'
<1> DEFINE p == ScopeBody(s)
           skip == [proc[p] EXCEPT !.fibers = Front(@)]
           call == [proc[p] EXCEPT !.pc = "call"]
<1>1. /\ p \in Procs /\ p[1] = "scope" /\ proc \in [Procs -> Frames]
      /\ proc[p] \in Frames /\ proc[p].pc = "next" /\ proc[p].fibers \in Seq(Fibers)
  BY Instances, ScopeProcs, FrameFields DEF ScopeFiber, At
<1>2. /\ proc' = [proc EXCEPT ![p] = skip] \/ proc' = [proc EXCEPT ![p] = call]
      /\ fib' = fib /\ scp' = scp /\ open' = open /\ proc[p].fibers # <<>>
  BY <1>1 DEF ScopeFiber, Goto
<1>3. Front(proc[p].fibers) \in Seq(Fibers)
  BY <1>1, FrontSeq
<1>4. skip \in Frames /\ skip.pc = "next"
  BY <1>1, <1>3 DEF Frames
<1>5. call \in Frames /\ call.pc = "call" /\ call.fibers = proc[p].fibers
  BY <1>1 DEF Frames
<1> HIDE DEF skip, call, p
<1> QED BY <1>1, <1>2, <1>4, <1>5, OutsideStep DEF Code, Calling, At

LEMMA ScopeMemberDoneStep ==
  ASSUME LifecycleInv, NEW s \in Scopes, ScopeMemberDone(s) PROVE LifecycleInv'
<1> DEFINE p == ScopeBody(s)
           b == proc[p]
           kids == IF b.tgt \in Scopes THEN Front(b.kids) ELSE b.kids
           fibers == IF b.tgt \in Fibers THEN Front(b.fibers) ELSE b.fibers
           issues == b.issues \/ b.res # "ok"
           bad == b.bad \/ (b.res # "ok" /\ (~Committed(b.tgt) \/ b.res \in Terminal))
           r == [b EXCEPT !.pc = "next", !.tgt = NONE, !.res = "none", !.kids = kids,
                          !.fibers = fibers, !.issues = issues, !.bad = bad]
<1>1. /\ p \in Procs /\ p[1] = "scope" /\ proc \in [Procs -> Frames]
      /\ b \in Frames /\ b.pc = "back" /\ b.fibers \in Seq(Fibers) /\ b.kids \in Seq(Scopes)
  BY Instances, ScopeProcs, FrameFields DEF ScopeMemberDone, At
<1>2. proc' = [proc EXCEPT ![p] = r] /\ fib' = fib /\ scp' = scp /\ open' = open
  BY <1>1 DEF ScopeMemberDone
<1>3. kids \in Seq(Scopes) /\ fibers \in Seq(Fibers)
  BY <1>1, FrontSeq
<1>4. issues \in BOOLEAN /\ bad \in BOOLEAN
  BY Zenon
<1> HIDE DEF kids, fibers, issues, bad
<1>5. r \in Frames /\ r.pc = "next"
  BY <1>1, <1>3, <1>4 DEF Frames, Results
<1> HIDE DEF r, b, p
<1> QED BY <1>1, <1>2, <1>5, OutsideStep DEF Code, Calling, At, b

-----------------------------------------------------------------------------
(***************************************************************************)
(* Steps that no process takes part in.                                    *)
(***************************************************************************)
LEMMA InsertScopeTypes ==
  ASSUME LifecycleInv, NEW s \in Scopes, Parent[s] \in Scopes, InsertScope(s)
  PROVE  scp' \in [Scopes -> ScopeRec]
<1> DEFINE x == NewScope("Active")
           t == Parent[s]
           m == [scp EXCEPT ![s] = x]
           y == [m[t] EXCEPT !.children = Append(m[t].children, s)]
<1>1. scp \in [Scopes -> ScopeRec] /\ t \in Scopes
  BY Instances
<1>2. x \in ScopeRec
  BY DEF NewScope, ScopeRec, Results
<1>3. scp' = [m EXCEPT ![t] = y]
  BY <1>1 DEF InsertScope
<1> HIDE DEF x, t
<1>4. m \in [Scopes -> ScopeRec] /\ m[t] \in ScopeRec
  BY <1>1, <1>2
<1> HIDE DEF m
<1>5. y \in ScopeRec
  <2>1. Append(m[t].children, s) \in Seq(Scopes)
    BY <1>4 DEF ScopeRec
  <2> QED BY <1>4, <2>1 DEF ScopeRec
<1> HIDE DEF y
<1> QED BY <1>3, <1>4, <1>5

LEMMA CreateScopeStep ==
  ASSUME LifecycleInv, NEW s \in Scopes, CreateScope(s) \/ ContextCreateScope(s)
  PROVE  LifecycleInv'
<1>1. Parent[s] \in Scopes
  BY LifecycleAssumption DEF CreateScope, ContextCreateScope
<1>2. scp' \in [Scopes -> ScopeRec] /\ proc' = proc /\ open' = open
  BY <1>1, InsertScopeTypes DEF CreateScope, ContextCreateScope
<1>3. /\ fib \in [Fibers -> FiberRec] /\ proc \in [Procs -> Frames] /\ open \in BOOLEAN
      /\ \A f \in Fibers : fib[f] \in FiberRec
  BY Instances
<1>4. fib' \in [Fibers -> FiberRec] /\ \A f \in Fibers : SameCore(fib[f], fib'[f])
  <2>1. CASE fib' = fib
    BY <1>3, <2>1 DEF SameCore
  <2>2. CASE ContextCreateScope(s)
    <3> DEFINE f == Owner[s]
               x == [fib[f] EXCEPT !.kids = Append(@, s)]
    <3>1. f \in Fibers
      BY <2>2, LifecycleAssumption DEF ContextCreateScope
    <3>2. fib' = [fib EXCEPT ![f] = x]
      BY <1>3, <2>2 DEF ContextCreateScope
    <3> HIDE DEF f
    <3>3. x \in FiberRec /\ SameCore(fib[f], x)
      <4>1. fib[f] \in FiberRec /\ fib[f].kids \in Seq(Scopes)
        BY <1>3, <3>1 DEF FiberRec
      <4>2. Append(fib[f].kids, s) \in Seq(Scopes)
        BY <4>1
      <4> QED BY <4>1, <4>2 DEF FiberRec, SameCore
    <3> HIDE DEF x
    <3>4. \A g \in Fibers : fib'[g] = IF g = f THEN x ELSE fib[g]
      BY <1>3, <3>2
    <3> QED BY <1>3, <3>1, <3>2, <3>3, <3>4 DEF SameCore
  <2> QED BY <2>1, <2>2 DEF CreateScope
<1>5. TypeOK'
  BY <1>2, <1>3, <1>4, TypingNext
<1> QED BY <1>2, <1>4, <1>5, StillStep

LEMMA BeginShutdownStep ==
  ASSUME LifecycleInv, BeginShutdown PROVE LifecycleInv'
<1>1. TypeOK'
  BY Instances, TypingNext DEF BeginShutdown
<1>2. proc' = proc /\ \A f \in Fibers : SameCore(fib[f], fib'[f])
  BY DEF BeginShutdown, SameCore
<1> QED BY <1>1, <1>2, StillStep

\* A step that changes the record of one Fiber and no process.
LEMMA NoProcStep ==
  ASSUME LifecycleInv, NEW f \in Fibers, NEW x \in FiberRec,
         fib' = [fib EXCEPT ![f] = x], proc' = proc, scp' \in [Scopes -> ScopeRec], open' = open,
         FiberOK(f, x, proc[Activation(f)], proc[Body(f)])
  PROVE  LifecycleInv'
<1>1. TypeOK' /\ \A g \in Fibers : fib'[g] = IF g = f THEN x ELSE fib[g]
  BY Instances, TypingNext
<1>2. CallersInv'
  <2>1. Calm
    BY DEF Calm
  <2> QED BY <2>1, CalmCallers DEF LifecycleInv
<1>3. \A q \in Procs : FrameOK(q, proc'[q]) /\ Keeps(proc[q], proc'[q])
  BY Instances DEF Keeps
<1> QED BY <1>1, <1>2, <1>3, FiberStep

LEMMA LeaseStep ==
  ASSUME LifecycleInv, NEW f \in Fibers, Lease(f) \/ DropLease(f) PROVE LifecycleInv'
<1> DEFINE x == [fib[f] EXCEPT !.lease = ~fib[f].lease]
           a == proc[Activation(f)]
           b == proc[Body(f)]
<1>1. /\ fib \in [Fibers -> FiberRec] /\ fib[f] \in FiberRec /\ scp \in [Scopes -> ScopeRec]
      /\ FiberOK(f, fib[f], a, b)
  BY Instances
<1>2. fib[f].lease \in BOOLEAN /\ x \in FiberRec
  BY <1>1 DEF FiberRec
<1>3. fib' = [fib EXCEPT ![f] = x] /\ proc' = proc /\ scp' = scp /\ open' = open
  BY <1>1, <1>2 DEF Lease, DropLease
<1>4. /\ x.state = fib[f].state /\ x.disposal = fib[f].disposal /\ x.visible = fib[f].visible
      /\ x.reg = fib[f].reg /\ x.lock = fib[f].lock /\ x.lease = ~fib[f].lease
  BY <1>1, <1>2 DEF FiberRec
<1>5. ~fib[f].lease => fib[f].visible
  BY <1>2 DEF Lease, DropLease
<1> HIDE DEF x, a, b
<1>6. LockOK(f, x, a, b) /\ BodyOK(x, b) /\ StagedOK(f, x, a) /\ VisibleOK(f, x) /\ AbsentOK(x)
  BY <1>1, <1>4 DEF FiberOK, LockOK, BodyOK, StagedOK, VisibleOK, AbsentOK
<1>7. LeaseOK(f, x, b)
  BY <1>1, <1>2, <1>4, <1>5 DEF FiberOK, LeaseOK, VisibleOK, BodyOK, Outside
<1>8. FiberOK(f, x, a, b)
  BY <1>6, <1>7 DEF FiberOK
<1> QED BY <1>1, <1>2, <1>3, <1>8, NoProcStep DEF a, b

LEMMA ProvideStep ==
  ASSUME LifecycleInv, NEW f \in Fibers, NEW d \in Services, Provide(f, d) PROVE LifecycleInv'
<1> DEFINE x == [fib[f] EXCEPT !.reg = @ \cup {d}]
           a == proc[Activation(f)]
           b == proc[Body(f)]
<1>1. /\ fib \in [Fibers -> FiberRec] /\ fib[f] \in FiberRec /\ scp \in [Scopes -> ScopeRec]
      /\ FiberOK(f, fib[f], a, b)
  BY Instances
<1>2. fib' = [fib EXCEPT ![f] = x] /\ proc' = proc /\ scp' = scp /\ open' = open
  BY <1>1 DEF Provide
<1>3. fib[f].state = "Starting" /\ a.pc \in {"start", "seal"} /\ d \in Provides[f]
  BY DEF Provide, Unsealed
<1>4. /\ x \in FiberRec
      /\ x.state = fib[f].state /\ x.disposal = fib[f].disposal /\ x.visible = fib[f].visible
      /\ x.reg = fib[f].reg \cup {d} /\ x.lock = fib[f].lock /\ x.lease = fib[f].lease
  BY <1>1 DEF FiberRec
<1> HIDE DEF x, a, b
<1>5. LockOK(f, x, a, b) /\ BodyOK(x, b) /\ AbsentOK(x)
  BY <1>1, <1>4 DEF FiberOK, LockOK, BodyOK, AbsentOK
<1>6. StagedOK(f, x, a) /\ VisibleOK(f, x)
  BY <1>1, <1>3, <1>4 DEF FiberOK, StagedOK, VisibleOK
<1>7. LeaseOK(f, x, b)
  BY <1>1, <1>3, <1>4 DEF FiberOK, LeaseOK
<1>8. FiberOK(f, x, a, b)
  BY <1>5, <1>6, <1>7 DEF FiberOK
<1> QED BY <1>1, <1>2, <1>4, <1>8, NoProcStep DEF a, b

\* collect_garbage takes only Disposed records, which are not visible.
LEMMA CollectGarbageStep ==
  ASSUME LifecycleInv, CollectGarbage PROVE LifecycleInv'
<1>1. /\ fib \in [Fibers -> FiberRec] /\ scp \in [Scopes -> ScopeRec] /\ proc' = proc
      /\ open' = open /\ open \in BOOLEAN /\ proc \in [Procs -> Frames]
  BY Instances DEF CollectGarbage
<1>2. ASSUME NEW s \in Scopes PROVE scp'[s] \in ScopeRec
  <2> DEFINE l == Retain(scp[s].fibers, Fibers \ Dead)
             r == [scp[s] EXCEPT !.fibers = l]
  <2>1. scp[s] \in ScopeRec /\ scp[s].fibers \in Seq(Fibers)
    BY <1>1 DEF ScopeRec
  <2>2. l \in Seq(Fibers)
    BY <2>1, RetainProperties
  <2> HIDE DEF l
  <2>3. r \in ScopeRec
    BY <2>1, <2>2 DEF ScopeRec
  <2>4. [NewScope("Gone") EXCEPT !.done = r.done] \in ScopeRec
    <3>1. r.done \in Results
      BY <2>3 DEF ScopeRec
    <3>2. NewScope("Gone") \in ScopeRec
      BY DEF ScopeRec, NewScope, Results
    <3> HIDE DEF r
    <3> QED BY <3>1, <3>2 DEF ScopeRec
  <2>5. SweptScope(s) \in ScopeRec
    BY <2>3, <2>4 DEF SweptScope, l
  <2> QED BY <2>5 DEF CollectGarbage
<1>3. ASSUME NEW f \in Fibers
      PROVE  /\ fib'[f] \in FiberRec
             /\ FiberOK(f, fib'[f], proc[Activation(f)], proc[Body(f)])
  <2> DEFINE a == proc[Activation(f)]
             b == proc[Body(f)]
             x == [fib[f] EXCEPT !.state = "Gone", !.indexed = FALSE]
  <2>1. fib[f] \in FiberRec /\ FiberOK(f, fib[f], a, b)
    BY Instances
  <2>2. fib'[f] = fib[f] \/ (fib'[f] = x /\ fib[f].state = "Disposed")
    <3>1. fib'[f] = IF f \in Dead THEN x ELSE fib[f]
      BY DEF CollectGarbage
    <3> QED BY <3>1 DEF Dead
  <2>3. /\ x \in FiberRec /\ x.state = "Gone" /\ x.disposal = fib[f].disposal
        /\ x.visible = fib[f].visible /\ x.reg = fib[f].reg /\ x.lock = fib[f].lock
        /\ x.lease = fib[f].lease
    BY <2>1 DEF FiberRec, FiberStates
  <2> HIDE DEF x, a, b
  <2>4. FiberOK(f, x, a, b)
    BY <2>1, <2>3 DEF FiberOK, LockOK, BodyOK, StagedOK, VisibleOK, LeaseOK, AbsentOK
  <2> QED BY <2>1, <2>2, <2>3, <2>4 DEF a, b
<1>4. TypeOK'
  <2>1. fib' \in [Fibers -> FiberRec] /\ scp' \in [Scopes -> ScopeRec]
    BY <1>2, <1>3 DEF CollectGarbage
  <2> QED BY <1>1, <2>1, TypingNext
<1>5. Calm
  BY <1>1 DEF Calm
<1>6. FramesInv' /\ FibersInv'
  BY <1>1, <1>3 DEF LifecycleInv, FramesInv, FibersInv
<1> QED BY <1>4, <1>5, <1>6, CalmCallers DEF LifecycleInv

-----------------------------------------------------------------------------
(***************************************************************************)
(* Installs and host failures.                                             *)
(***************************************************************************)
LEMMA NewRecords == NewDisposal \in DisposalRec /\ NewFiber \in FiberRec
<1>1. NewDisposal \in DisposalRec
  BY DEF NewDisposal, DisposalRec, Phases, Results
<1> QED BY <1>1 DEF NewFiber, FiberRec, FiberStates

LEMMA InstallBegins ==
  ASSUME LifecycleInv, NEW f \in Fibers, Install(f) PROVE LifecycleInv'
<1> DEFINE p == Installer(f)
           r == [proc[p] EXCEPT !.pc = "index"]
           x == [NewFiber EXCEPT !.state = "Created"]
           a == proc[Activation(f)]
           b == proc[Body(f)]
           s == ScopeOf[f]
           l == Append(scp[s].fibers, f)
           y == [scp[s] EXCEPT !.fibers = l]
<1>1. /\ p \in Procs /\ p[1] = "install" /\ p[2] = f /\ proc \in [Procs -> Frames]
      /\ fib \in [Fibers -> FiberRec] /\ scp \in [Scopes -> ScopeRec] /\ open \in BOOLEAN
      /\ proc[p] \in Frames /\ FrameOK(p, proc[p]) /\ FiberOK(f, fib[f], a, b) /\ s \in Scopes
  BY Instances, FiberProcs, LifecycleAssumption
<1>2. /\ fib' = [fib EXCEPT ![f] = x] /\ proc' = [proc EXCEPT ![p] = r]
      /\ scp' = [scp EXCEPT ![s] = y] /\ open' = open /\ fib[f].state = "Absent"
  BY <1>1 DEF Install, Goto
<1>3. r \in Frames /\ r.pc = "index"
  BY <1>1 DEF Frames
<1>4. /\ x \in FiberRec /\ x.state = "Created" /\ x.lock = NONE /\ x.disposal.phase = "Idle"
      /\ ~x.visible /\ ~x.lease
  BY NewRecords DEF NewFiber, NewDisposal, FiberRec, FiberStates
<1>5. y \in ScopeRec
  <2>1. scp[s] \in ScopeRec /\ scp[s].fibers \in Seq(Fibers)
    BY <1>1 DEF ScopeRec
  <2>2. l \in Seq(Fibers)
    BY <2>1
  <2> HIDE DEF l
  <2> QED BY <2>1, <2>2 DEF ScopeRec
<1>6. fib[f].lock = NONE /\ a.pc = "idle" /\ b.pc = "idle"
  BY <1>1, <1>2, NoneAssumption, FiberProcs DEF FiberOK, AbsentOK, BodyOK, LockOK
<1> HIDE DEF x, r, y, s, a, b, p
<1>7. FiberOK(f, x, a, b)
  BY <1>1, <1>4, <1>6, NoneAssumption, FiberProcs
     DEF FiberOK, LockOK, BodyOK, StagedOK, VisibleOK, LeaseOK, AbsentOK, Decided, Outside,
         Reconciling, Calling
<1>8. TypeOK' /\ \A g \in Fibers : fib'[g] = IF g = f THEN x ELSE fib[g]
  BY <1>1, <1>2, <1>3, <1>4, <1>5, TypingNext
<1>9. \A q \in Procs : proc'[q] = IF q = p THEN r ELSE proc[q]
  BY <1>1, <1>2
<1>10. p \notin Reconcilers
  BY <1>1, ProcKinds
<1>11. FrameOK(p, r)
  BY <1>1, <1>3, <1>10 DEF FrameOK, Code, Calling
<1>12. proc'[Activation(f)] = a /\ proc'[Body(f)] = b
  BY <1>9, <1>10, FiberProcs DEF a, b
<1>13. Calm
  <2> SUFFICES ASSUME NEW g \in Fibers, proc'[Activation(g)].pc # "idle"
               PROVE  /\ proc[Activation(g)].pc # "idle"
                      /\ proc'[Activation(g)].caller = proc[Activation(g)].caller
                      /\ proc'[proc[Activation(g)].caller] = proc[proc[Activation(g)].caller]
    BY DEF Calm
  <2>1. proc'[Activation(g)] = proc[Activation(g)] /\ CallerOK(g)
    BY <1>9, <1>10, FiberProcs, Instances
  <2>2. g # f
    BY <1>6, <2>1 DEF a
  <2>3. proc[Activation(g)].caller # p
    BY <1>1, <2>1, <2>2 DEF CallerOK, At, FrameOK, Calling
  <2> QED BY <1>9, <2>1, <2>3 DEF CallerOK, At
<1>14. \A q \in Procs : FrameOK(q, proc'[q]) /\ (q \in Reconcilers => Keeps(proc[q], proc'[q]))
  BY <1>9, <1>10, <1>11, Instances DEF Keeps
<1>15. CallersInv'
  BY <1>13, CalmCallers DEF LifecycleInv
<1> QED BY <1>7, <1>8, <1>12, <1>14, <1>15, FiberStep

\* remove_unstarted_fiber takes the record whatever it is.
LEMMA InstallRemoveStep ==
  ASSUME LifecycleInv, NEW f \in Fibers, InstallRemove(f) PROVE LifecycleInv'
<1> DEFINE p == Installer(f)
           x == [fib[f] EXCEPT !.state = "Gone", !.indexed = FALSE]
           a == proc[Activation(f)]
           b == proc[Body(f)]
           s == ScopeOf[f]
           y == [scp[s] EXCEPT !.fibers = Without(@, f)]
<1>1. /\ p \in Procs /\ p[1] = "install" /\ p[2] = f /\ proc \in [Procs -> Frames]
      /\ fib \in [Fibers -> FiberRec] /\ fib[f] \in FiberRec /\ scp \in [Scopes -> ScopeRec]
      /\ open' = open /\ s \in Scopes /\ proc[p].pc = "remove"
      /\ FiberOK(f, fib[f], a, b) /\ p \notin Reconcilers
  BY Instances, FiberProcs, ProcKinds, LifecycleAssumption DEF InstallRemove, At
<1>2. proc' = [proc EXCEPT ![p] = Idle] /\ Idle \in Frames /\ FrameOK(p, Idle)
  BY <1>1, IdleFrame DEF InstallRemove, End, FrameOK, Code, Idle, Calling
<1>3. CASE ~Registered(f)
  <2>1. fib' = fib /\ scp' = scp
    BY <1>3 DEF InstallRemove
  <2> HIDE DEF p
  <2> QED BY <1>1, <1>2, <2>1, ProcOnly DEF At
<1>4. CASE Registered(f)
  <2>1. fib' = [fib EXCEPT ![f] = x] /\ scp' = [scp EXCEPT ![s] = y]
    BY <1>1, <1>4 DEF InstallRemove
  <2>2. /\ x \in FiberRec /\ x.state = "Gone" /\ x.disposal = fib[f].disposal
        /\ x.visible = fib[f].visible /\ x.reg = fib[f].reg /\ x.lock = fib[f].lock
        /\ x.lease = fib[f].lease
    BY <1>1 DEF FiberRec, FiberStates
  <2>3. y \in ScopeRec
    <3>1. scp[s] \in ScopeRec /\ scp[s].fibers \in Seq(Fibers)
      BY <1>1 DEF ScopeRec
    <3>2. Without(scp[s].fibers, f) \in Seq(Fibers)
      BY <3>1, WithoutProperties
    <3> QED BY <3>1, <3>2 DEF ScopeRec
  <2> HIDE DEF x, y, a, b, s, p
  <2>4. FiberOK(f, x, a, b)
    BY <1>1, <2>2 DEF FiberOK, LockOK, BodyOK, StagedOK, VisibleOK, LeaseOK, AbsentOK
  <2>5. scp' \in [Scopes -> ScopeRec]
    BY <1>1, <2>1, <2>3
  <2>6. p # Activation(f) /\ p # Body(f)
    BY <1>1, FiberProcs
  <2> QED BY <1>1, <1>2, <2>1, <2>2, <2>4, <2>5, <2>6, RecordStep DEF At, a, b
<1> QED BY <1>3, <1>4

\* transition(fiber, WaitingDependencies) finds a Fiber that nothing has started.
LEMMA InstallParkStep ==
  ASSUME LifecycleInv, NEW f \in Fibers, InstallPark(f) PROVE LifecycleInv'
<1> DEFINE p == Installer(f)
           x == IF CanTransition(fib[f].state, "Waiting")
                  THEN [fib[f] EXCEPT !.state = "Waiting"] ELSE fib[f]
           a == proc[Activation(f)]
           b == proc[Body(f)]
<1>1. /\ p \in Procs /\ p[1] = "install" /\ p[2] = f /\ proc \in [Procs -> Frames]
      /\ fib \in [Fibers -> FiberRec] /\ fib[f] \in FiberRec /\ scp \in [Scopes -> ScopeRec]
      /\ scp' = scp /\ open' = open /\ proc[p].pc = "park"
      /\ FiberOK(f, fib[f], a, b) /\ p \notin Reconcilers
  BY Instances, FiberProcs, ProcKinds DEF InstallPark, At
<1>2. proc' = [proc EXCEPT ![p] = Idle] /\ Idle \in Frames /\ FrameOK(p, Idle)
  BY <1>1, IdleFrame DEF InstallPark, End, FrameOK, Code, Idle, Calling
<1>3. fib' = [fib EXCEPT ![f] = x]
  BY <1>1 DEF InstallPark
<1>4. /\ x \in FiberRec /\ x.disposal = fib[f].disposal
      /\ x.visible = fib[f].visible /\ x.reg = fib[f].reg /\ x.lock = fib[f].lock
      /\ x.lease = fib[f].lease
      /\ \/ x.state = fib[f].state
         \/ x.state = "Waiting" /\ fib[f].state \in {"Created", "Disposing"}
  BY <1>1 DEF FiberRec, FiberStates, CanTransition
<1> HIDE DEF x, a, b, p
<1>5. FiberOK(f, x, a, b)
  BY <1>1, <1>4 DEF FiberOK, LockOK, BodyOK, StagedOK, VisibleOK, LeaseOK, AbsentOK
<1>6. p # Activation(f) /\ p # Body(f)
  BY <1>1, FiberProcs
<1> QED BY <1>1, <1>2, <1>3, <1>4, <1>5, <1>6, RecordStep DEF At, a, b

\* converge_host_failure finds nothing in progress.
LEMMA HostFailureStep ==
  ASSUME LifecycleInv, NEW f \in Fibers, HostFailure(f) PROVE LifecycleInv'
<1> DEFINE p == HostWorker(f)
           x == [fib[f] EXCEPT !.state = "Failed"]
           r == [proc[p] EXCEPT !.pc = "call"]
           a == proc[Activation(f)]
           b == proc[Body(f)]
<1>1. /\ p \in Procs /\ p[1] = "host" /\ proc \in [Procs -> Frames] /\ proc[p] \in Frames
      /\ fib \in [Fibers -> FiberRec] /\ fib[f] \in FiberRec /\ scp \in [Scopes -> ScopeRec]
      /\ scp' = scp /\ open' = open /\ proc[p].pc = "idle" /\ fib[f].state = "Active"
      /\ FiberOK(f, fib[f], a, b) /\ p \notin Reconcilers
  BY Instances, FiberProcs, ProcKinds DEF HostFailure, At
<1>2. fib' = [fib EXCEPT ![f] = x] /\ proc' = [proc EXCEPT ![p] = r]
  BY <1>1 DEF HostFailure, Goto
<1>3. r \in Frames /\ r.pc = "call"
  BY <1>1 DEF Frames
<1>4. /\ x \in FiberRec /\ x.disposal = fib[f].disposal /\ x.state = "Failed"
      /\ x.visible = fib[f].visible /\ x.reg = fib[f].reg /\ x.lock = fib[f].lock
      /\ x.lease = fib[f].lease
  BY <1>1 DEF FiberRec, FiberStates
<1> HIDE DEF x, a, b, p, r
<1>5. FiberOK(f, x, a, b)
  BY <1>1, <1>4 DEF FiberOK, LockOK, BodyOK, StagedOK, VisibleOK, LeaseOK, AbsentOK
<1>6. p # Activation(f) /\ p # Body(f)
  BY <1>1, FiberProcs
<1>7. FrameOK(p, r)
  BY <1>1, <1>3 DEF FrameOK, Code
<1> QED BY <1>1, <1>2, <1>3, <1>4, <1>5, <1>6, <1>7, RecordStep DEF At, a, b

-----------------------------------------------------------------------------
(***************************************************************************)
(* Activations.                                                            *)
(***************************************************************************)
LEMMA ActivateStep ==
  ASSUME LifecycleInv, NEW p \in Procs, Activate(p) PROVE LifecycleInv'
<1> DEFINE f == proc[p].tgt
           x == [Restarted(fib[f]) EXCEPT !.state = "Starting", !.lock = Activation(f)]
           r == [proc[p] EXCEPT !.pc = "activating"]
           c == [Idle EXCEPT !.pc = "start", !.caller = p]
           a == proc[Activation(f)]
           b == proc[Body(f)]
<1>1. /\ proc \in [Procs -> Frames] /\ fib \in [Fibers -> FiberRec] /\ scp \in [Scopes -> ScopeRec]
      /\ open \in BOOLEAN /\ scp' = scp /\ open' = open
      /\ proc[p] \in Frames /\ FrameOK(p, proc[p]) /\ proc[p].pc = "lock" /\ fib[f].lock = NONE
      /\ fib[f].state \in {"Created", "Waiting"}
  BY Instances DEF Activate, At, MayStart
<1>2. f \in Fibers /\ fib[f] \in FiberRec /\ FiberOK(f, fib[f], a, b)
  BY <1>1, Instances DEF FrameOK
<1>3. a.pc = "idle" /\ b.pc \in Outside
  BY <1>1, <1>2, NoneAssumption, FiberProcs DEF FiberOK, LockOK
<1>4. Activation(f) \in Procs /\ p # Activation(f) /\ p # Body(f)
  BY <1>1, <1>2, <1>3, FiberProcs DEF Outside
<1>5. fib' = [fib EXCEPT ![f] = x] /\ proc' = [proc EXCEPT ![p] = r, ![Activation(f)] = c]
  BY <1>1, <1>2, <1>4 DEF Activate
<1> DEFINE y == Restarted(fib[f])
<1>6. /\ y \in FiberRec /\ y.reg = fib[f].reg /\ y.visible = fib[f].visible
      /\ y.lease = fib[f].lease
      /\ \/ y.disposal = fib[f].disposal
         \/ fib[f].disposal.phase = "Complete" /\ y.disposal.phase = "Idle"
  <2>1. NewDisposal \in DisposalRec /\ NewDisposal.phase = "Idle"
    BY NewRecords DEF NewDisposal
  <2> QED BY <1>2, <2>1 DEF Restarted, FiberRec
<1> HIDE DEF y
<1>7. /\ x \in FiberRec /\ x.state = "Starting" /\ x.lock = Activation(f) /\ x.reg = y.reg
      /\ x.visible = y.visible /\ x.lease = y.lease /\ x.disposal = y.disposal
  <2>1. x = [y EXCEPT !.state = "Starting", !.lock = Activation(f)]
    BY DEF y
  <2> HIDE DEF x
  <2> QED BY <1>4, <1>6, <2>1 DEF FiberRec, FiberStates
<1>8. /\ r \in Frames /\ r.pc = "activating" /\ r.tgt = f /\ r.tgt = proc[p].tgt
      /\ r.caller = proc[p].caller /\ r.goal = proc[p].goal /\ r.bad = proc[p].bad
  <2>1. proc[p] \in Frames
    BY <1>1
  <2> QED BY <2>1 DEF Frames
<1>9. c \in Frames /\ c.pc = "start" /\ c.caller = p
  <2>1. c.pc = "start" /\ c.caller = p
    BY DEF Idle
  <2>2. c \in Frames
    BY IdleFrame DEF Frames
  <2> QED BY <2>1, <2>2
<1> HIDE DEF x, r, c, a, b, f
<1>10. FiberOK(f, x, c, b)
  <2>1. LockOK(f, x, c, b)
    BY <1>3, <1>7, <1>9, <1>2, FiberProcs DEF LockOK
  <2>2. BodyOK(x, b) /\ StagedOK(f, x, c) /\ VisibleOK(f, x) /\ AbsentOK(x)
    BY <1>1, <1>2, <1>6, <1>7, <1>9 DEF FiberOK, BodyOK, StagedOK, VisibleOK, AbsentOK
  <2>3. LeaseOK(f, x, b)
    BY <1>2, <1>6, <1>7 DEF FiberOK, LeaseOK
  <2> QED BY <2>1, <2>2, <2>3 DEF FiberOK
<1>11. /\ TypeOK' /\ \A g \in Fibers : fib'[g] = IF g = f THEN x ELSE fib[g]
       /\ \A q \in Procs : proc'[q] = IF q = Activation(f) THEN c ELSE IF q = p THEN r ELSE proc[q]
  BY <1>1, <1>2, <1>4, <1>5, <1>7, <1>8, <1>9, TypingNext
<1>12. \A q \in Procs : FrameOK(q, proc'[q])
  <2>1. FrameOK(p, r)
    BY <1>1, <1>2, <1>8, InActivate, ProcKinds DEF FrameOK, Calling
  <2>2. FrameOK(Activation(f), c)
    BY <1>2, <1>9, FiberProcs DEF FrameOK, Code
  <2> QED BY <1>11, <2>1, <2>2, Instances
<1>13. \A q \in Procs : q \in Reconcilers => q[2] = f \/ Keeps(proc[q], proc'[q])
  <2>1. Keeps(proc[p], r)
    BY <1>1, <1>2, <1>8 DEF Keeps, Decided, Reconciling, Calling
  <2> QED BY <1>2, <1>11, <2>1, FiberProcs DEF Keeps
<1>14. proc'[Activation(f)] = c /\ proc'[Body(f)] = b
  BY <1>2, <1>4, <1>11, FiberProcs DEF b
<1>15. CallersInv'
  <2> SUFFICES ASSUME NEW g \in Fibers PROVE CallerOK(g)'
    BY DEF CallersInv
  <2>1. CASE g = f
    BY <1>4, <1>8, <1>9, <1>11, <2>1 DEF CallerOK, At
  <2>2. CASE g # f
    <3>1. CallerOK(g) /\ Activation(g) \in Procs /\ Activation(g) # Activation(f)
      BY <1>2, <2>2, Instances, FiberProcs
    <3>2. /\ proc'[Activation(g)].caller = proc[Activation(g)].caller
          /\ proc'[Activation(g)].pc # "idle" => proc[Activation(g)].pc # "idle"
      BY <1>1, <1>8, <1>11, <3>1
    <3>3. proc[Activation(g)].pc # "idle" =>
            /\ proc[Activation(g)].caller # p
            /\ proc[Activation(g)].caller # Activation(f)
      BY <1>1, <1>3, <3>1 DEF CallerOK, At, a
    <3> QED BY <1>11, <3>1, <3>2, <3>3 DEF CallerOK, At
  <2> QED BY <2>1, <2>2
<1> QED BY <1>2, <1>10, <1>11, <1>12, <1>13, <1>14, <1>15, FiberStep

\* The activation drops the lock and its caller goes on.
LEMMA ReturnsStep ==
  ASSUME LifecycleInv, NEW f \in Fibers, NEW pc \in {"fail", "back"}, NEW res \in Results,
         proc[Activation(f)].pc \in {"start", "seal", "commit", "reconciled"},
         ActivationReturns(f, pc, res), scp' = scp, open' = open
  PROVE  LifecycleInv'
<1> DEFINE p == proc[Activation(f)].caller
           x == [fib[f] EXCEPT !.lock = NONE]
           r == [proc[p] EXCEPT !.pc = pc, !.res = res]
           a == proc[Activation(f)]
           b == proc[Body(f)]
<1>1. /\ proc \in [Procs -> Frames] /\ fib \in [Fibers -> FiberRec] /\ scp \in [Scopes -> ScopeRec]
      /\ open \in BOOLEAN /\ fib[f] \in FiberRec /\ FiberOK(f, fib[f], a, b)
      /\ Activation(f) \in Procs
  BY Instances, FiberProcs
<1>2. /\ p \in Procs /\ proc[p].pc = "activating" /\ proc[p].tgt = f
      /\ proc[p] \in Frames /\ FrameOK(p, proc[p])
  BY Instances DEF CallerOK, At
<1>3. p # Activation(f)
  BY <1>2
<1>4. fib[f].lock = Activation(f) /\ b.pc \in Outside
  BY <1>1, FiberProcs DEF FiberOK, LockOK
<1>5. p # Body(f)
  BY <1>2, <1>4 DEF Outside
<1>6. fib' = [fib EXCEPT ![f] = x] /\ proc' = [proc EXCEPT ![Activation(f)] = Idle, ![p] = r]
  BY <1>1, <1>2, <1>3 DEF ActivationReturns
<1>7. /\ x \in FiberRec /\ x.state = fib[f].state /\ x.lock = NONE /\ x.reg = fib[f].reg
      /\ x.visible = fib[f].visible /\ x.lease = fib[f].lease /\ x.disposal = fib[f].disposal
  BY <1>1 DEF FiberRec
<1>8. r \in Frames /\ r.pc = pc /\ r.tgt = f /\ r.caller = proc[p].caller
      /\ r.goal = proc[p].goal /\ r.bad = proc[p].bad
  BY <1>2 DEF Frames
<1>9. Idle \in Frames /\ Idle.pc = "idle"
  BY IdleFrame DEF Idle
<1> HIDE DEF x, r, a, b, p
<1>10. FiberOK(f, x, Idle, b)
  <2>1. LockOK(f, x, Idle, b)
    BY <1>4, <1>7, <1>9, NoneAssumption, FiberProcs DEF LockOK
  <2>2. BodyOK(x, b) /\ StagedOK(f, x, Idle) /\ VisibleOK(f, x) /\ AbsentOK(x)
    BY <1>1, <1>7, <1>9 DEF FiberOK, BodyOK, StagedOK, VisibleOK, AbsentOK
  <2>3. LeaseOK(f, x, b)
    BY <1>1, <1>7 DEF FiberOK, LeaseOK
  <2> QED BY <2>1, <2>2, <2>3 DEF FiberOK
<1>11. /\ TypeOK' /\ \A g \in Fibers : fib'[g] = IF g = f THEN x ELSE fib[g]
       /\ \A q \in Procs : proc'[q] = IF q = p THEN r ELSE IF q = Activation(f) THEN Idle ELSE proc[q]
  BY <1>1, <1>2, <1>3, <1>6, <1>7, <1>8, <1>9, TypingNext
<1>12. \A q \in Procs : FrameOK(q, proc'[q])
  <2>1. FrameOK(p, r)
    BY <1>2, <1>8, InActivate, ProcKinds DEF FrameOK, Calling
  <2>2. FrameOK(Activation(f), Idle)
    BY <1>9, FiberProcs DEF FrameOK, Code, Calling
  <2> QED BY <1>11, <2>1, <2>2, Instances
<1>13. \A q \in Procs : q \in Reconcilers => q[2] = f \/ Keeps(proc[q], proc'[q])
  <2>1. Keeps(proc[p], r)
    BY <1>2, <1>8 DEF Keeps, Decided, Reconciling, Calling
  <2> QED BY <1>11, <2>1, FiberProcs DEF Keeps
<1>14. proc'[Activation(f)] = Idle /\ proc'[Body(f)] = b
  BY <1>1, <1>3, <1>5, <1>11, FiberProcs DEF b
<1>15. CallersInv'
  <2> SUFFICES ASSUME NEW g \in Fibers PROVE CallerOK(g)'
    BY DEF CallersInv
  <2>1. CASE g = f
    BY <1>9, <1>14, <2>1 DEF CallerOK, At
  <2>2. CASE g # f
    <3>1. CallerOK(g) /\ Activation(g) \in Procs /\ Activation(g) # Activation(f)
      BY <2>2, Instances, FiberProcs
    <3>2. /\ proc'[Activation(g)].caller = proc[Activation(g)].caller
          /\ proc'[Activation(g)].pc # "idle" => proc[Activation(g)].pc # "idle"
      BY <1>2, <1>8, <1>11, <3>1
    <3>3. proc[Activation(g)].pc # "idle" =>
            /\ proc[Activation(g)].caller # p
            /\ proc[Activation(g)].caller # Activation(f)
      BY <1>2, <2>2, <3>1 DEF CallerOK, At
    <3> QED BY <1>11, <3>1, <3>2, <3>3 DEF CallerOK, At
  <2> QED BY <2>1, <2>2
<1> QED BY <1>10, <1>11, <1>12, <1>13, <1>14, <1>15, FiberStep

LEMMA StartFailsStep ==
  ASSUME LifecycleInv, NEW f \in Fibers, StartFails(f) PROVE LifecycleInv'
BY ReturnsStep DEF StartFails, At, Results

LEMMA ActivationDoneStep ==
  ASSUME LifecycleInv, NEW f \in Fibers, ActivationDone(f) PROVE LifecycleInv'
BY ReturnsStep DEF ActivationDone, At, Results

\* The activation of f goes on at r, and the record of f becomes x.
LEMMA ActivationStepOK ==
  ASSUME LifecycleInv, NEW f \in Fibers, NEW x \in FiberRec, NEW r \in Frames,
         proc[Activation(f)].pc \in {"start", "seal", "commit"},
         fib' = [fib EXCEPT ![f] = x], proc' = [proc EXCEPT ![Activation(f)] = r],
         scp' = scp, open' = open,
         r.pc \in {"seal", "commit", "collect", "reconciled"},
         r.caller = proc[Activation(f)].caller,
         x.lock = fib[f].lock, x.disposal = fib[f].disposal, x.lease = fib[f].lease,
         x.reg = fib[f].reg, x.state # "Absent",
         StagedOK(f, x, r), VisibleOK(f, x)
  PROVE  LifecycleInv'
<1> DEFINE p == Activation(f)
           b == proc[Body(f)]
<1>1. /\ p \in Procs /\ p[1] = "act" /\ p[2] = f /\ p # Body(f)
      /\ FiberOK(f, fib[f], proc[p], b) /\ scp \in [Scopes -> ScopeRec]
  BY Instances, FiberProcs
<1>2. FrameOK(p, r)
  BY <1>1 DEF FrameOK, Code, Calling, Reconciling
<1>3. FiberOK(f, x, r, b)
  <2>1. LockOK(f, x, r, b)
    BY <1>1 DEF FiberOK, LockOK
  <2>2. BodyOK(x, b) /\ AbsentOK(x) /\ LeaseOK(f, x, b)
    BY <1>1 DEF FiberOK, BodyOK, AbsentOK, LeaseOK
  <2> QED BY <2>1, <2>2 DEF FiberOK
<1> QED BY <1>1, <1>2, <1>3, RecordStep DEF At

LEMMA StartOkStep ==
  ASSUME LifecycleInv, NEW f \in Fibers, StartOk(f) PROVE LifecycleInv'
<1> DEFINE p == Activation(f)
           r == [proc[p] EXCEPT !.pc = "seal"]
<1>1. /\ fib[f] \in FiberRec /\ proc[p] \in Frames /\ proc[p].pc = "start"
      /\ fib \in [Fibers -> FiberRec]
      /\ FiberOK(f, fib[f], proc[p], proc[Body(f)]) /\ ~Cancelled(f)
  BY Instances, FiberProcs DEF StartOk, At
<1>2. r \in Frames /\ r.pc = "seal" /\ r.caller = proc[p].caller
  BY <1>1 DEF Frames
<1>3. fib' = [fib EXCEPT ![f] = fib[f]] /\ proc' = [proc EXCEPT ![p] = r]
      /\ scp' = scp /\ open' = open
  BY <1>1 DEF StartOk, Goto
<1> HIDE DEF r
<1>4. StagedOK(f, fib[f], r) /\ VisibleOK(f, fib[f]) /\ fib[f].state # "Absent"
  BY <1>1, <1>2 DEF FiberOK, StagedOK, Cancelled
<1> QED BY <1>1, <1>2, <1>3, <1>4, ActivationStepOK

\* What is sealed is what was declared.
LEMMA SealStep ==
  ASSUME LifecycleInv, NEW f \in Fibers, Seal(f) PROVE LifecycleInv'
<1> DEFINE p == Activation(f)
           r == [proc[p] EXCEPT !.pc = "commit"]
<1>1. /\ fib[f] \in FiberRec /\ proc[p] \in Frames /\ proc[p].pc = "seal"
      /\ fib \in [Fibers -> FiberRec] /\ scp' = scp /\ open' = open
      /\ FiberOK(f, fib[f], proc[p], proc[Body(f)])
  BY Instances, FiberProcs DEF Seal, At
<1>2. CASE open /\ fib[f].state = "Starting" /\ fib[f].reg = Provides[f]
  <2>1. r \in Frames /\ r.pc = "commit" /\ r.caller = proc[p].caller
    BY <1>1 DEF Frames
  <2>2. fib' = [fib EXCEPT ![f] = fib[f]] /\ proc' = [proc EXCEPT ![p] = r]
    BY <1>1, <1>2 DEF Seal, Goto
  <2> HIDE DEF r
  <2>3. StagedOK(f, fib[f], r) /\ VisibleOK(f, fib[f]) /\ fib[f].state # "Absent"
    BY <1>1, <1>2, <2>1 DEF FiberOK, StagedOK
  <2> QED BY <1>1, <2>1, <2>2, <2>3, ActivationStepOK
<1>3. CASE ~(open /\ fib[f].state = "Starting" /\ fib[f].reg = Provides[f])
  <2>1. ActivationReturns(f, "fail", "none")
    BY <1>3 DEF Seal
  <2> QED BY <1>1, <2>1, ReturnsStep DEF Results
<1> QED BY <1>2, <1>3

\* A generation becomes visible in the step that makes it Active.
LEMMA CommitStep ==
  ASSUME LifecycleInv, NEW f \in Fibers, Commit(f) PROVE LifecycleInv'
<1> DEFINE p == Activation(f)
           pc == IF fib[f].reg = {} THEN "reconciled" ELSE "collect"
           r == [proc[p] EXCEPT !.syms = fib[f].reg, !.pc = pc]
           x == [fib[f] EXCEPT !.state = "Active", !.visible = TRUE]
<1>1. /\ fib[f] \in FiberRec /\ proc[p] \in Frames /\ proc[p].pc = "commit" /\ p \in Procs
      /\ fib \in [Fibers -> FiberRec] /\ proc \in [Procs -> Frames]
      /\ scp' = scp /\ open' = open
      /\ FiberOK(f, fib[f], proc[p], proc[Body(f)])
  BY Instances, FiberProcs DEF Commit, At
<1>2. CASE open /\ fib[f].state = "Starting"
  <2>1. pc \in {"reconciled", "collect"} /\ fib[f].reg \in SUBSET Services
    BY <1>1 DEF FiberRec
  <2>2. fib' = [fib EXCEPT ![f] = x] /\ proc' = [proc EXCEPT ![p] = r]
    BY <1>1, <1>2 DEF Commit
  <2> HIDE DEF pc
  <2>3. r \in Frames /\ r.pc = pc /\ r.caller = proc[p].caller
    BY <1>1, <2>1 DEF Frames
  <2>4. /\ x \in FiberRec /\ x.state = "Active" /\ x.visible /\ x.lock = fib[f].lock
        /\ x.disposal = fib[f].disposal /\ x.lease = fib[f].lease /\ x.reg = fib[f].reg
    BY <1>1 DEF FiberRec, FiberStates
  <2> HIDE DEF r, x
  <2>5. StagedOK(f, x, r) /\ VisibleOK(f, x)
    BY <1>1, <1>2, <2>4 DEF FiberOK, StagedOK, VisibleOK
  <2> QED BY <1>1, <2>1, <2>2, <2>3, <2>4, <2>5, ActivationStepOK
<1>3. CASE ~(open /\ fib[f].state = "Starting")
  <2>1. ActivationReturns(f, "fail", "none")
    BY <1>3 DEF Commit
  <2> QED BY <1>1, <2>1, ReturnsStep DEF Results
<1> QED BY <1>2, <1>3

LEMMA FailActivationStep ==
  ASSUME LifecycleInv, NEW p \in Procs, FailActivation(p) PROVE LifecycleInv'
<1> DEFINE f == proc[p].tgt
           st == IF fib[f].state = "Starting" THEN "Failed" ELSE fib[f].state
           x == [fib[f] EXCEPT !.state = st]
           r == [proc[p] EXCEPT !.pc = "rollback", !.rollback = TRUE]
           a == proc[Activation(f)]
           b == proc[Body(f)]
<1>1. /\ proc \in [Procs -> Frames] /\ proc[p] \in Frames /\ proc[p].pc = "fail"
      /\ FrameOK(p, proc[p]) /\ fib \in [Fibers -> FiberRec] /\ scp \in [Scopes -> ScopeRec]
      /\ scp' = scp /\ open' = open
  BY Instances DEF FailActivation, At
<1>2. f \in Fibers /\ fib[f] \in FiberRec /\ FiberOK(f, fib[f], a, b)
  BY <1>1, Instances DEF FrameOK
<1>3. fib' = [fib EXCEPT ![f] = x] /\ proc' = [proc EXCEPT ![p] = r]
  BY <1>1, <1>2 DEF FailActivation
<1>4. /\ r \in Frames /\ r.pc = "rollback" /\ r.tgt = f /\ r.tgt = proc[p].tgt
      /\ r.caller = proc[p].caller /\ r.goal = proc[p].goal /\ r.bad = proc[p].bad
  <2>1. proc[p] \in Frames
    BY <1>1
  <2> QED BY <2>1 DEF Frames
<1>5. /\ st \in FiberStates /\ (st = fib[f].state \/ (fib[f].state = "Starting" /\ st = "Failed"))
  BY <1>2 DEF FiberRec, FiberStates
<1> HIDE DEF st
<1>6. /\ x \in FiberRec /\ x.state = st /\ x.visible = fib[f].visible /\ x.lock = fib[f].lock
      /\ x.disposal = fib[f].disposal /\ x.lease = fib[f].lease /\ x.reg = fib[f].reg
  BY <1>2, <1>5 DEF FiberRec
<1> HIDE DEF x, r, a, b, f
<1>7. FiberOK(f, x, a, b)
  BY <1>2, <1>5, <1>6 DEF FiberOK, LockOK, BodyOK, StagedOK, VisibleOK, LeaseOK, AbsentOK
<1>8. Keeps(proc[p], r)
  BY <1>1, <1>2, <1>4 DEF Keeps, Decided, Reconciling, Calling
<1>9. FiberOK(f, x, IF p = Activation(f) THEN r ELSE proc[Activation(f)],
                    IF p = Body(f) THEN r ELSE proc[Body(f)])
  <2>1. /\ Keeps(a, IF p = Activation(f) THEN r ELSE proc[Activation(f)])
        /\ Keeps(b, IF p = Body(f) THEN r ELSE proc[Body(f)])
    BY <1>8 DEF Keeps, a, b
  <2>2. SameCore(x, x)
    BY DEF SameCore
  <2> QED BY <1>7, <2>1, <2>2, KeptFiber
<1>10. FrameOK(p, r)
  BY <1>1, <1>4, InActivate, ProcKinds DEF FrameOK, Calling
<1> QED BY <1>1, <1>2, <1>3, <1>4, <1>6, <1>8, <1>9, <1>10, RecordStep DEF At

-----------------------------------------------------------------------------
(***************************************************************************)
(* dispose_fiber_observation and dispose_scope_observation.                *)
(***************************************************************************)
\* The frame of a caller whose call on t answers res, none while it has to wait.
Called(b, t, res) ==
  IF res = "none" THEN [b EXCEPT !.pc = "wait", !.tgt = t]
  ELSE Answered([b EXCEPT !.tgt = t], res)

LEMMA CalledFrame ==
  ASSUME NEW b \in Frames, NEW t \in Fibers \cup Scopes, NEW res \in Results
  PROVE  LET r == Called(b, t, res) IN
         /\ r \in Frames /\ r.pc \in {"wait", "back"} /\ r.tgt = t
         /\ r.caller = b.caller /\ r.goal = b.goal /\ r.bad = b.bad
<1> DEFINE c == [b EXCEPT !.tgt = t]
           d == [b EXCEPT !.pc = "wait", !.tgt = t]
<1>1. c \in Frames /\ c.tgt = t /\ c.caller = b.caller /\ c.goal = b.goal /\ c.bad = b.bad
  BY DEF Frames
<1>2. /\ d \in Frames /\ d.pc = "wait" /\ d.tgt = t
      /\ d.caller = b.caller /\ d.goal = b.goal /\ d.bad = b.bad
  BY DEF Frames
<1>3. Called(b, t, res) = IF res = "none" THEN d ELSE Answered(c, res)
  BY DEF Called
<1> HIDE DEF c, d
<1> QED BY <1>1, <1>2, <1>3, AnsweredFrame

\* A request that begins a disposal closes the gate with it; any other leaves no trace
\* that the invariant knows.
LEMMA JoinedRecord ==
  ASSUME LifecycleInv, NEW f \in Fibers, NEW w \in BOOLEAN, NEW d \in BOOLEAN
  PROVE  LET x == Joined(f, w, d) IN
         /\ x \in FiberRec
         /\ ~Begins(f) => SameCore(fib[f], x)
         /\ Begins(f) => /\ x.state = "Disposing" /\ ~x.visible /\ x.disposal.phase = "Tasks"
                         /\ x.lease = fib[f].lease /\ x.reg = fib[f].reg /\ x.lock = fib[f].lock
<1> DEFINE wait == fib[f].disposal.wait /\ w
           persist == fib[f].disposal.persist \/ d
           e == [fib[f].disposal EXCEPT !.wait = wait, !.persist = persist]
           g == [e EXCEPT !.phase = "Tasks"]
           r == [fib[f] EXCEPT !.disposal = e]
           y == [fib[f] EXCEPT !.disposal = g, !.state = "Disposing", !.visible = FALSE]
<1>1. fib[f] \in FiberRec /\ fib[f].disposal \in DisposalRec
  BY Instances DEF FiberRec
<1>2. wait \in BOOLEAN /\ persist \in BOOLEAN
  BY Zenon
<1>3. Joined(f, w, d) = IF Begins(f) THEN y ELSE r
  <2>1. r = [fib[f] EXCEPT !.disposal.wait = @ /\ w, !.disposal.persist = @ \/ d]
    BY <1>1 DEF FiberRec, DisposalRec
  <2>2. y = [r EXCEPT !.state = "Disposing", !.visible = FALSE, !.disposal.phase = "Tasks"]
    BY <1>1 DEF FiberRec, DisposalRec
  <2> HIDE DEF r, y
  <2> QED BY <2>1, <2>2 DEF Joined
<1> HIDE DEF wait, persist
<1>4. e \in DisposalRec /\ e.phase = fib[f].disposal.phase /\ g \in DisposalRec /\ g.phase = "Tasks"
  BY <1>1, <1>2 DEF DisposalRec, Phases
<1> HIDE DEF e, g
<1>5. r \in FiberRec /\ SameCore(fib[f], r)
  BY <1>1, <1>4 DEF FiberRec, SameCore
<1>6. /\ y \in FiberRec /\ y.state = "Disposing" /\ ~y.visible /\ y.disposal.phase = "Tasks"
      /\ y.lease = fib[f].lease /\ y.reg = fib[f].reg /\ y.lock = fib[f].lock
  BY <1>1, <1>4 DEF FiberRec, FiberStates
<1> HIDE DEF r, y
<1> QED BY <1>3, <1>5, <1>6

\* p is a client, or at a call of its own.
LEMMA DisposeFiberStep ==
  ASSUME LifecycleInv, NEW p \in Procs \cup {NONE}, NEW f \in Fibers,
         NEW w \in BOOLEAN, NEW d \in BOOLEAN, DisposeFiber(p, f, w, d), scp' = scp, open' = open,
         p \in Procs => /\ proc[p].pc \in {"rollback", "call"}
                        /\ p[1] = "install" => p[2] = f
  PROVE  LifecycleInv'
<1> DEFINE x == IF Registered(f) THEN Joined(f, w, d) ELSE fib[f]
           r == Called(proc[p], f, DisposeAnswer(f))
           n == [Idle EXCEPT !.pc = "queue"]
           a == proc[Activation(f)]
           b == proc[Body(f)]
           begins == Registered(f) /\ Begins(f)
<1>1. /\ proc \in [Procs -> Frames] /\ fib \in [Fibers -> FiberRec] /\ scp \in [Scopes -> ScopeRec]
      /\ open \in BOOLEAN /\ fib[f] \in FiberRec /\ FiberOK(f, fib[f], a, b)
      /\ fib[f].disposal \in DisposalRec /\ DisposeAnswer(f) \in Results
  <2>1. fib[f] \in FiberRec /\ fib[f].disposal \in DisposalRec
    BY Instances DEF FiberRec
  <2>2. DisposeAnswer(f) \in Results
    BY <2>1 DEF DisposeAnswer, DisposalRec, Results
  <2> QED BY <2>1, <2>2, Instances
<1>2. /\ fib' = [fib EXCEPT ![f] = x]
      /\ proc' = [q \in Procs |-> IF q = p THEN r ELSE IF q = Body(f) /\ begins THEN n ELSE proc[q]]
  <2>1. fib' = [fib EXCEPT ![f] = x]
    BY <1>1 DEF DisposeFiber
  <2>2. proc' = [q \in Procs |-> IF q = p THEN r
                                 ELSE IF q = Body(f) /\ begins THEN n ELSE proc[q]]
    BY DEF DisposeFiber, Called
  <2> QED BY <2>1, <2>2
<1>3. /\ x \in FiberRec /\ (~begins => SameCore(fib[f], x))
      /\ begins => /\ x.state = "Disposing" /\ ~x.visible /\ x.disposal.phase = "Tasks"
                   /\ x.lease = fib[f].lease /\ x.reg = fib[f].reg /\ x.lock = fib[f].lock
  <2>1. SameCore(fib[f], fib[f])
    BY DEF SameCore
  <2> QED BY <1>1, <2>1, JoinedRecord
<1>4. p \in Procs =>
        /\ r \in Frames /\ r.pc \in {"wait", "back"} /\ r.tgt = f
        /\ r.caller = proc[p].caller /\ r.goal = proc[p].goal /\ r.bad = proc[p].bad
  BY <1>1, CalledFrame
<1>5. n \in Frames /\ n.pc = "queue"
  BY IdleFrame DEF Frames, Idle
<1>6. begins => b.pc = "idle" /\ fib[f].disposal.phase = "Idle"
  BY <1>1 DEF FiberOK, BodyOK, Begins
<1> HIDE DEF x, r, n, a, b, begins
<1>7. p \in Procs => FrameOK(p, r) /\ Keeps(proc[p], r)
  <2> SUFFICES ASSUME p \in Procs PROVE FrameOK(p, r) /\ Keeps(proc[p], r)
    OBVIOUS
  <2>1. FrameOK(p, proc[p]) /\ p[1] \in {"install", "act", "body", "host", "scope"}
    BY Instances, ProcKinds
  <2>2. r.pc \in Code(p[1])
    BY <1>4, <2>1 DEF FrameOK, Code, Calling, Reconciling, Outside
  <2>3. FrameOK(p, r)
    BY <1>4, <2>1, <2>2 DEF FrameOK
  <2>4. Keeps(proc[p], r)
    BY <1>4 DEF Keeps, Decided, Reconciling, Calling
  <2> QED BY <2>3, <2>4
<1>8. \A g \in Fibers : fib'[g] = IF g = f THEN x ELSE fib[g]
  BY <1>1, <1>2
<1>9. \A q \in Procs : proc'[q] = IF q = p THEN r ELSE IF q = Body(f) /\ begins THEN n ELSE proc[q]
  BY <1>2
<1>10. TypeOK'
  <2>1. fib' \in [Fibers -> FiberRec] /\ proc' \in [Procs -> Frames]
    BY <1>1, <1>2, <1>3, <1>4, <1>5
  <2> QED BY <1>1, <2>1, TypingNext
<1>11. CASE ~begins
  <2>1. \A g \in Fibers : SameCore(fib[g], fib'[g])
    BY <1>3, <1>8, <1>11 DEF SameCore
  <2>2. CASE p \in Procs
    BY <1>4, <1>7, <1>9, <1>10, <1>11, <2>1, <2>2, ProcStep DEF At
  <2>3. CASE p \notin Procs
    <3>1. proc' = proc
      BY <1>1, <1>2, <1>11, <2>3
    <3> QED BY <1>10, <2>1, <3>1, StillStep
  <2> QED BY <2>2, <2>3
<1>12. CASE begins
  <2> DEFINE c == IF p = Activation(f) THEN r ELSE a
  <2>1. p # Body(f)
    BY <1>6, <1>12, FiberProcs DEF b
  <2>2. proc'[Activation(f)] = c /\ proc'[Body(f)] = n
    BY <1>9, <1>12, <2>1, FiberProcs DEF a
  <2>3. Keeps(a, c)
    BY <1>7, FiberProcs DEF Keeps, a
  <2>4. FiberOK(f, x, c, n)
    <3>1. FiberOK(f, fib[f], c, b)
      <4>1. Keeps(b, b) /\ SameCore(fib[f], fib[f])
        BY DEF Keeps, SameCore
      <4> QED BY <1>1, <2>3, <4>1, KeptFiber
    <3> HIDE DEF c
    <3>2. LockOK(f, x, c, n)
      BY <1>3, <1>5, <1>6, <1>12, <3>1 DEF FiberOK, LockOK, Outside
    <3>3. BodyOK(x, n) /\ StagedOK(f, x, c) /\ VisibleOK(f, x) /\ AbsentOK(x)
      BY <1>3, <1>5, <1>12 DEF BodyOK, StagedOK, VisibleOK, AbsentOK, Decided, Reconciling, Calling
    <3>4. LeaseOK(f, x, n)
      BY <1>3, <1>5, <1>12, <3>1 DEF FiberOK, LeaseOK, Outside
    <3> QED BY <3>2, <3>3, <3>4 DEF FiberOK
  <2>5. \A q \in Procs : q \in Reconcilers => q[2] = f \/ Keeps(proc[q], proc'[q])
    BY <1>7, <1>9, FiberProcs DEF Keeps
  <2>6. FrameOK(Body(f), n)
    BY <1>5, FiberProcs DEF FrameOK, Code, Outside, Calling
  <2>7. \A q \in Procs : FrameOK(q, proc'[q])
    BY <1>7, <1>9, <2>6, Instances
  <2>8. CallersInv'
    <3> SUFFICES ASSUME NEW g \in Fibers, proc'[Activation(g)].pc # "idle"
                 PROVE  /\ proc[Activation(g)].pc # "idle"
                        /\ proc'[Activation(g)].caller = proc[Activation(g)].caller
                        /\ proc'[proc[Activation(g)].caller] = proc[proc[Activation(g)].caller]
      BY CalmCallers DEF Calm, LifecycleInv
    <3>1. proc[Activation(g)].pc # "idle" /\ proc'[Activation(g)].caller = proc[Activation(g)].caller
      BY <1>4, <1>9, FiberProcs
    <3>2. CallerOK(g)
      BY Instances
    <3> QED BY <1>6, <1>9, <1>12, <3>1, <3>2 DEF CallerOK, At, b
  <2> HIDE DEF c
  <2> QED BY <1>8, <1>10, <2>2, <2>4, <2>5, <2>7, <2>8, FiberStep
<1> QED BY <1>11, <1>12

LEMMA DisposeScopeStep ==
  ASSUME LifecycleInv, NEW p \in Procs \cup {NONE}, NEW s \in Scopes, NEW d \in BOOLEAN,
         DisposeScope(p, s, d), fib' = fib, open' = open,
         p \in Procs => \/ p[1] = "body" /\ proc[p].pc = "kids"
                        \/ p[1] = "scope" /\ proc[p].pc = "next"
  PROVE  LifecycleInv'
<1> DEFINE r == Called(proc[p], s, ScopeAnswer(s))
           n == [Idle EXCEPT !.pc = "snapshot"]
           begins == scp[s].state = "Active"
<1>1. /\ proc \in [Procs -> Frames] /\ fib \in [Fibers -> FiberRec] /\ scp \in [Scopes -> ScopeRec]
      /\ open \in BOOLEAN /\ scp[s] \in ScopeRec /\ ScopeAnswer(s) \in Results
      /\ ScopeBody(s) \in Procs /\ ScopeBody(s)[1] = "scope"
  <2>1. scp[s] \in ScopeRec
    BY Instances
  <2>2. ScopeAnswer(s) \in Results
    BY <2>1 DEF ScopeAnswer, ScopeRec, Results
  <2> QED BY <2>1, <2>2, Instances, ScopeProcs
<1>2. proc' = [q \in Procs |-> IF q = p THEN r ELSE IF q = ScopeBody(s) /\ begins THEN n ELSE proc[q]]
  BY DEF DisposeScope, Called
<1>3. scp' \in [Scopes -> ScopeRec]
  <2> DEFINE persist == scp[s].persist \/ d
             st == IF scp[s].state = "Active" THEN "Disposing" ELSE scp[s].state
             y == [scp[s] EXCEPT !.persist = persist, !.state = st]
  <2>1. scp' = scp \/ scp' = [scp EXCEPT ![s] = y]
    BY <1>1 DEF DisposeScope, ScopeRec
  <2>2. persist \in BOOLEAN
    BY Zenon
  <2>3. st \in {"Absent", "Active", "Disposing", "Disposed", "Terminated", "Gone"}
    BY <1>1 DEF ScopeRec
  <2> HIDE DEF persist, st
  <2>4. y \in ScopeRec
    BY <1>1, <2>2, <2>3 DEF ScopeRec
  <2> HIDE DEF y
  <2> QED BY <1>1, <2>1, <2>4
<1>4. p \in Procs =>
        /\ r \in Frames /\ r.pc \in {"wait", "back"} /\ r.tgt = s
        /\ r.caller = proc[p].caller /\ r.goal = proc[p].goal /\ r.bad = proc[p].bad
  BY <1>1, CalledFrame
<1>5. n \in Frames /\ n.pc = "snapshot"
  BY IdleFrame DEF Frames, Idle
<1> HIDE DEF r, n, begins
<1>6. \A q \in Procs : proc'[q] = IF q = p THEN r
                                  ELSE IF q = ScopeBody(s) /\ begins THEN n ELSE proc[q]
  BY <1>2
<1>7. TypeOK'
  <2>1. proc' \in [Procs -> Frames]
    BY <1>1, <1>2, <1>4, <1>5
  <2> QED BY <1>1, <1>3, <2>1, TypingNext
<1>8. FramesInv'
  <2>1. FrameOK(ScopeBody(s), n)
    BY <1>1, <1>5, ProcKinds DEF FrameOK, Code, Calling
  <2>2. p \in Procs => FrameOK(p, r)
    BY <1>4, ProcKinds DEF FrameOK, Code, Calling, Reconciling
  <2> QED BY <1>6, <2>1, <2>2, Instances DEF FramesInv
<1>9. \A f \in Fibers : proc'[Activation(f)] = proc[Activation(f)]
  BY <1>1, <1>6, FiberProcs
<1>10. FibersInv'
  <2> SUFFICES ASSUME NEW f \in Fibers
               PROVE FiberOK(f, fib[f], proc[Activation(f)], proc'[Body(f)])
    BY <1>9 DEF FibersInv
  <2> DEFINE a == proc[Activation(f)]
             b == proc[Body(f)]
  <2>1. FiberOK(f, fib[f], a, b)
    BY Instances
  <2>2. CASE p = Body(f)
    <3>1. proc'[Body(f)] = r /\ b.pc = "kids"
      BY <1>6, <2>2, FiberProcs
    <3>2. r.pc \in {"wait", "back"} /\ r.tgt \notin Fibers
      BY <1>4, <2>2, FiberProcs, LifecycleAssumption
    <3> HIDE DEF a, b
    <3>3. LockOK(f, fib[f], a, r)
      BY <2>1, <3>1, <3>2 DEF FiberOK, LockOK, Outside
    <3>4. BodyOK(fib[f], r)
      BY <2>1, <3>1, <3>2 DEF FiberOK, BodyOK, Decided, Reconciling
    <3>5. LeaseOK(f, fib[f], r)
      BY <2>1, <3>1, <3>2 DEF FiberOK, LeaseOK, Outside
    <3>6. FiberOK(f, fib[f], a, r)
      BY <2>1, <3>3, <3>4, <3>5 DEF FiberOK
    <3> QED BY <3>1, <3>6 DEF a
  <2>3. CASE p # Body(f)
    <3>1. proc'[Body(f)] = b
      BY <1>1, <1>6, <2>3, FiberProcs
    <3> QED BY <2>1, <3>1
  <2> QED BY <2>2, <2>3
<1>11. CallersInv'
  <2> SUFFICES ASSUME NEW f \in Fibers, proc[Activation(f)].pc # "idle"
               PROVE proc'[proc[Activation(f)].caller] = proc[proc[Activation(f)].caller]
    BY <1>9, CalmCallers DEF Calm, LifecycleInv
  <2> DEFINE q == proc[Activation(f)].caller
  <2>1. q \in Procs /\ proc[q].pc = "activating" /\ FrameOK(q, proc[q])
    BY Instances DEF CallerOK, At
  <2>2. q # p /\ q # ScopeBody(s)
    BY <1>1, <2>1, ProcKinds DEF FrameOK, Code
  <2> HIDE DEF q
  <2>3. proc'[q] = proc[q]
    BY <1>6, <2>1, <2>2
  <2> QED BY <2>3 DEF q
<1> QED BY <1>7, <1>8, <1>10, <1>11 DEF LifecycleInv

-----------------------------------------------------------------------------
(***************************************************************************)
(* Those who call them.                                                    *)
(***************************************************************************)
LEMMA FiberCallers ==
  ASSUME LifecycleInv
  PROVE  /\ \A p \in Procs : Rollback(p) => LifecycleInv'
         /\ \A p \in Reconcilers : CallDispose(p) => LifecycleInv'
         /\ \A f \in Fibers : HostDispose(f) => LifecycleInv'
         /\ \A f \in Fibers, w \in BOOLEAN : ClientDisposeFiber(f, w) => LifecycleInv'
<1>1. ASSUME NEW p \in Procs, Rollback(p) PROVE LifecycleInv'
  <2>1. /\ proc[p].pc = "rollback" /\ proc[p].tgt \in Fibers
        /\ p[1] = "install" => p[2] = proc[p].tgt
    BY <1>1, Instances DEF Rollback, At, FrameOK, Calling
  <2>2. DisposeFiber(p, proc[p].tgt, FALSE, FALSE) /\ scp' = scp /\ open' = open
    BY <1>1 DEF Rollback
  <2> QED BY <2>1, <2>2, DisposeFiberStep
<1>2. ASSUME NEW p \in Reconcilers, CallDispose(p) PROVE LifecycleInv'
  <2>1. /\ p \in Procs /\ proc[p].pc = "call" /\ proc[p].tgt \in Fibers
        /\ p[1] # "install"
    BY <1>2, Instances, ReconcilerProcs DEF CallDispose, At, FrameOK
  <2>2. /\ DisposeFiber(p, proc[p].tgt, proc[p].tgt \in Restart, FALSE)
        /\ scp' = scp /\ open' = open
    BY <1>2 DEF CallDispose
  <2>3. (proc[p].tgt \in Restart) \in BOOLEAN
    OBVIOUS
  <2> QED BY <2>1, <2>2, <2>3, DisposeFiberStep
<1>3. ASSUME NEW f \in Fibers, HostDispose(f) PROVE LifecycleInv'
  BY <1>3, FiberProcs, DisposeFiberStep DEF HostDispose, At
<1>4. ASSUME NEW f \in Fibers, NEW w \in BOOLEAN, ClientDisposeFiber(f, w) PROVE LifecycleInv'
  BY <1>4, NoneAssumption, DisposeFiberStep DEF ClientDisposeFiber
<1> QED BY <1>1, <1>2, <1>3, <1>4

LEMMA ScopeCallers ==
  ASSUME LifecycleInv
  PROVE  /\ \A f \in Fibers : BodyChildScope(f) => LifecycleInv'
         /\ \A s \in Scopes : ScopeChild(s) => LifecycleInv'
         /\ \A s \in Scopes : ScopeCall(s) => LifecycleInv'
         /\ \A s \in Scopes : ClientDisposeScope(s) => LifecycleInv'
         /\ ShutdownRoot => LifecycleInv'
<1>1. ASSUME NEW f \in Fibers, BodyChildScope(f) PROVE LifecycleInv'
  <2>1. Last(fib[f].kids) \in Scopes
    <3>1. fib[f].kids \in Seq(Scopes) /\ fib[f].kids # <<>>
      BY <1>1, Instances DEF BodyChildScope, FiberRec
    <3> QED BY <3>1, FrontSeq
  <2> QED BY <1>1, <2>1, FiberProcs, DisposeScopeStep DEF BodyChildScope, At
<1>2. ASSUME NEW s \in Scopes, ScopeChild(s) PROVE LifecycleInv'
  <2>1. /\ ScopeBody(s) \in Procs /\ ScopeBody(s)[1] = "scope" /\ proc[ScopeBody(s)] \in Frames
        /\ proc[ScopeBody(s)].pc = "next" /\ proc[ScopeBody(s)].kids # <<>>
    BY <1>2, Instances, ScopeProcs DEF ScopeChild, At
  <2>2. Last(proc[ScopeBody(s)].kids) \in Scopes /\ proc[ScopeBody(s)].persist \in BOOLEAN
    BY <2>1, FrameFields, FrontSeq
  <2>3. /\ DisposeScope(ScopeBody(s), Last(proc[ScopeBody(s)].kids), proc[ScopeBody(s)].persist)
        /\ fib' = fib /\ open' = open
    BY <1>2 DEF ScopeChild
  <2> QED BY <2>1, <2>2, <2>3, DisposeScopeStep
<1>3. ASSUME NEW s \in Scopes, ScopeCall(s) PROVE LifecycleInv'
  <2>1. /\ ScopeBody(s) \in Procs /\ ScopeBody(s)[1] = "scope" /\ proc[ScopeBody(s)] \in Frames
        /\ proc[ScopeBody(s)].pc = "call" /\ proc[ScopeBody(s)].fibers # <<>>
    BY <1>3, Instances, ScopeProcs DEF ScopeCall, At, FrameOK
  <2>2. Last(proc[ScopeBody(s)].fibers) \in Fibers /\ proc[ScopeBody(s)].persist \in BOOLEAN
    BY <2>1, FrameFields, FrontSeq
  <2>3. /\ DisposeFiber(ScopeBody(s), Last(proc[ScopeBody(s)].fibers), FALSE,
                        proc[ScopeBody(s)].persist)
        /\ scp' = scp /\ open' = open
    BY <1>3 DEF ScopeCall
  <2> QED BY <2>1, <2>2, <2>3, DisposeFiberStep
<1>4. ASSUME NEW s \in Scopes, ClientDisposeScope(s) PROVE LifecycleInv'
  BY <1>4, NoneAssumption, DisposeScopeStep DEF ClientDisposeScope
<1>5. ASSUME ShutdownRoot PROVE LifecycleInv'
  BY <1>5, NoneAssumption, LifecycleAssumption, DisposeScopeStep DEF ShutdownRoot
<1> QED BY <1>1, <1>2, <1>3, <1>4, <1>5

-----------------------------------------------------------------------------
(***************************************************************************)
(* The body of a Fiber's disposal.                                         *)
(***************************************************************************)
\* While it works, the generation is invisible and no activation has sealed it.
LEMMA BusyBody ==
  ASSUME LifecycleInv, NEW f \in Fibers, proc[Body(f)].pc # "idle"
  PROVE  /\ fib[f].disposal.phase \notin {"Idle", "Complete", "Terminated"}
         /\ ~fib[f].visible /\ fib[f].state # "Absent"
         /\ ~(fib[f].state = "Starting" /\ proc[Activation(f)].pc \in {"seal", "commit"})
         /\ proc[Body(f)].pc \notin Outside => fib[f].lock = Body(f)
         /\ proc[Body(f)].pc \notin Outside \cup {"drain"} => ~fib[f].lease
<1>1. FiberOK(f, fib[f], proc[Activation(f)], proc[Body(f)])
  BY Instances
<1> QED BY <1>1 DEF FiberOK, BodyOK, VisibleOK, AbsentOK, StagedOK, LockOK, LeaseOK

\* The body of f goes on at r, and the record of f becomes x.
LEMMA BodyStepOK ==
  ASSUME LifecycleInv, NEW f \in Fibers, NEW x \in FiberRec, NEW r \in Frames,
         proc[Body(f)].pc \notin {"idle", "activating"},
         fib' = [fib EXCEPT ![f] = x], proc' = [proc EXCEPT ![Body(f)] = r],
         scp' \in [Scopes -> ScopeRec], open' = open,
         r.pc \in {"idle", "drain", "kids", "release", "decide", "collect", "reconciled",
                   "detach", "publish"},
         x.state = fib[f].state, x.visible = fib[f].visible,
         IF r.pc \in Outside
           THEN x.lock = IF fib[f].lock = Body(f) THEN NONE ELSE fib[f].lock
           ELSE x.lock = Body(f) /\ fib[f].lock \in {NONE, Body(f)},
         BodyOK(x, r), LeaseOK(f, x, r)
  PROVE  LifecycleInv'
<1> DEFINE p == Body(f)
           a == proc[Activation(f)]
           b == proc[Body(f)]
<1>1. /\ p \in Procs /\ p[1] = "body" /\ p[2] = f /\ p # Activation(f) /\ p # NONE
      /\ Activation(f) # NONE /\ FiberOK(f, fib[f], a, b)
  BY Instances, FiberProcs, NoneAssumption
<1>2. FrameOK(p, r)
  BY <1>1 DEF FrameOK, Code, Calling, Reconciling, Outside
<1>3. LockOK(f, x, a, r)
  BY <1>1 DEF FiberOK, LockOK
<1>4. StagedOK(f, x, a) /\ VisibleOK(f, x) /\ AbsentOK(x)
  BY BusyBody DEF StagedOK, VisibleOK, AbsentOK
<1>5. FiberOK(f, x, a, r)
  BY <1>3, <1>4 DEF FiberOK
<1> HIDE DEF a, b
<1> QED BY <1>1, <1>2, <1>5, RecordStep DEF At, a

LEMMA BodyReturnsStep ==
  ASSUME LifecycleInv, NEW f \in Fibers, NEW res \in Results,
         proc[Body(f)].pc \in {"queue", "drain", "kids", "release", "decide", "reconciled"},
         BodyReturns(f, res, NONE, TRUE), scp' = scp, open' = open
  PROVE  LifecycleInv'
<1> DEFINE lock == IF fib[f].lock = Body(f) THEN NONE ELSE fib[f].lock
           x == [fib[f] EXCEPT !.lock = lock]
           r == [Idle EXCEPT !.pc = "detach", !.res = res, !.goal = NONE, !.bad = TRUE]
<1>1. /\ fib[f] \in FiberRec /\ fib \in [Fibers -> FiberRec] /\ scp \in [Scopes -> ScopeRec]
      /\ FiberOK(f, fib[f], proc[Activation(f)], proc[Body(f)])
  BY Instances
<1>2. fib' = [fib EXCEPT ![f] = x] /\ proc' = [proc EXCEPT ![Body(f)] = r]
  BY <1>1 DEF BodyReturns
<1>3. lock \in Procs \cup {NONE}
  BY <1>1 DEF FiberRec
<1> HIDE DEF lock
<1>4. /\ x \in FiberRec /\ x.lock = lock /\ x.state = fib[f].state /\ x.visible = fib[f].visible
      /\ x.lease = fib[f].lease /\ x.reg = fib[f].reg /\ x.disposal = fib[f].disposal
  BY <1>1, <1>3 DEF FiberRec
<1>5. r \in Frames /\ r.pc = "detach" /\ r.bad
  BY IdleFrame DEF Frames, Idle
<1> HIDE DEF x, r
<1>6. BodyOK(x, r) /\ LeaseOK(f, x, r)
  BY <1>1, <1>4, <1>5, BusyBody
     DEF FiberOK, BodyOK, LeaseOK, Decided, Reconciling, Calling, Outside
<1> QED BY <1>1, <1>2, <1>4, <1>5, <1>6, BodyStepOK DEF lock, Outside

LEMMA BodyEndsStep ==
  ASSUME LifecycleInv, NEW f \in Fibers, BodyVanished(f) \/ BodyDrainTimeout(f) \/ BodyCrash(f)
  PROVE  LifecycleInv'
<1>1. "crash" \in Results /\ "plain" \in Results
  BY DEF Results
<1> QED BY <1>1, BodyReturnsStep DEF BodyVanished, BodyDrainTimeout, BodyCrash, At

LEMMA PhaseRecord ==
  ASSUME LifecycleInv, NEW f \in Fibers, NEW ph \in Phases
  PROVE  LET x == [fib[f] EXCEPT !.disposal.phase = ph] IN
         /\ x \in FiberRec /\ x.disposal.phase = ph
         /\ x.state = fib[f].state /\ x.visible = fib[f].visible /\ x.lock = fib[f].lock
         /\ x.lease = fib[f].lease /\ x.reg = fib[f].reg
<1> DEFINE e == [fib[f].disposal EXCEPT !.phase = ph]
<1>1. fib[f] \in FiberRec /\ fib[f].disposal \in DisposalRec
  BY Instances DEF FiberRec
<1>2. e \in DisposalRec /\ e.phase = ph
  BY <1>1 DEF DisposalRec
<1>3. [fib[f] EXCEPT !.disposal.phase = ph] = [fib[f] EXCEPT !.disposal = e]
  BY <1>1 DEF FiberRec, DisposalRec
<1> HIDE DEF e
<1> QED BY <1>1, <1>2, <1>3 DEF FiberRec

\* It takes the lock, so no activation runs from here on.
LEMMA BodyBeginStep ==
  ASSUME LifecycleInv, NEW f \in Fibers, BodyBegin(f) PROVE LifecycleInv'
<1> DEFINE y == [fib[f] EXCEPT !.disposal.phase = "Draining"]
           x == [y EXCEPT !.lock = Body(f)]
           r == [proc[Body(f)] EXCEPT !.pc = "drain"]
           b == proc[Body(f)]
<1>1. /\ fib[f] \in FiberRec /\ fib \in [Fibers -> FiberRec] /\ scp \in [Scopes -> ScopeRec]
      /\ scp' = scp /\ open' = open /\ b \in Frames /\ b.pc = "queue" /\ fib[f].lock = NONE
      /\ FiberOK(f, fib[f], proc[Activation(f)], b) /\ Body(f) \in Procs
  BY Instances, FiberProcs DEF BodyBegin, At
<1>2. fib' = [fib EXCEPT ![f] = x] /\ proc' = [proc EXCEPT ![Body(f)] = r]
  BY <1>1 DEF BodyBegin, Goto
<1>3. /\ y \in FiberRec /\ y.disposal.phase = "Draining" /\ y.state = fib[f].state
      /\ y.visible = fib[f].visible /\ y.lease = fib[f].lease /\ y.reg = fib[f].reg
  BY PhaseRecord DEF Phases
<1> HIDE DEF y
<1>4. /\ x \in FiberRec /\ x.lock = Body(f) /\ x.state = y.state /\ x.visible = y.visible
      /\ x.lease = y.lease /\ x.reg = y.reg /\ x.disposal = y.disposal
  BY <1>1, <1>3 DEF FiberRec
<1>5. r \in Frames /\ r.pc = "drain"
  BY <1>1 DEF Frames
<1> HIDE DEF x, r
<1>6. BodyOK(x, r) /\ LeaseOK(f, x, r)
  BY <1>1, <1>3, <1>4, <1>5
     DEF FiberOK, BodyOK, LeaseOK, Decided, Reconciling, Calling, Outside
<1> QED BY <1>1, <1>2, <1>3, <1>4, <1>5, <1>6, BodyStepOK DEF Outside

\* The phases that move on at a control point inside the lock.
LEMMA PhaseStep ==
  ASSUME LifecycleInv, NEW f \in Fibers, NEW ph \in Phases \ {"Idle", "Complete", "Terminated"},
         NEW r \in Frames, proc[Body(f)].pc \in {"drain", "kids", "decide"},
         SetPhase(f, ph), proc' = [proc EXCEPT ![Body(f)] = r], scp' = scp, open' = open,
         r.pc \in {"kids", "release", "collect", "reconciled"}, ~fib[f].lease,
         r.pc \in {"collect", "reconciled"} => r.goal \in {"Waiting", "Disposed"}
  PROVE  LifecycleInv'
<1> DEFINE x == [fib[f] EXCEPT !.disposal.phase = ph]
<1>1. fib \in [Fibers -> FiberRec] /\ scp \in [Scopes -> ScopeRec] /\ fib[f].lock = Body(f)
  BY Instances, BusyBody DEF Outside
<1>2. fib' = [fib EXCEPT ![f] = x]
  BY <1>1 DEF SetPhase
<1>3. /\ x \in FiberRec /\ x.disposal.phase = ph
      /\ x.state = fib[f].state /\ x.visible = fib[f].visible /\ x.lock = fib[f].lock
      /\ x.lease = fib[f].lease
  BY PhaseRecord
<1> HIDE DEF x
<1>4. BodyOK(x, r) /\ LeaseOK(f, x, r)
  BY <1>3 DEF BodyOK, LeaseOK, Decided, Reconciling, Calling
<1> QED BY <1>1, <1>2, <1>3, <1>4, BodyStepOK DEF Outside

LEMMA BodyDrainedStep ==
  ASSUME LifecycleInv, NEW f \in Fibers, BodyDrained(f) \/ BodyChildScopesDone(f)
  PROVE  LifecycleInv'
<1> DEFINE b == proc[Body(f)]
           r(pc) == [b EXCEPT !.pc = pc]
<1>1. b \in Frames /\ \A pc \in {"kids", "release"} : r(pc) \in Frames /\ r(pc).pc = pc
  <2>1. b \in Frames
    BY Instances, FiberProcs
  <2> HIDE DEF b
  <2> QED BY <2>1 DEF Frames
<1>2. CASE BodyDrained(f)
  <2>1. /\ b.pc = "drain" /\ ~fib[f].lease /\ SetPhase(f, "ChildScopes")
        /\ proc' = [proc EXCEPT ![Body(f)] = r("kids")] /\ scp' = scp /\ open' = open
    BY <1>2 DEF BodyDrained, At, Goto
  <2> HIDE DEF r
  <2> QED BY <1>1, <2>1, PhaseStep DEF Phases
<1>3. CASE BodyChildScopesDone(f)
  <2>1. /\ b.pc = "kids" /\ SetPhase(f, "Release")
        /\ proc' = [proc EXCEPT ![Body(f)] = r("release")] /\ scp' = scp /\ open' = open
    BY <1>3 DEF BodyChildScopesDone, At, Goto
  <2>2. ~fib[f].lease
    BY <2>1, BusyBody DEF Outside
  <2> HIDE DEF r
  <2> QED BY <1>1, <2>1, <2>2, PhaseStep DEF Phases
<1> QED BY <1>2, <1>3

LEMMA BodyDecideStep ==
  ASSUME LifecycleInv, NEW f \in Fibers, BodyDecide(f) PROVE LifecycleInv'
<1> DEFINE b == proc[Body(f)]
           goal == IF Registered(f) /\ fib[f].disposal.wait THEN "Waiting" ELSE "Disposed"
           pc == IF b.syms # {} /\ open THEN "collect" ELSE "reconciled"
           r == [b EXCEPT !.goal = goal, !.res = "ok", !.pc = pc]
<1>1. /\ b \in Frames /\ b.pc = "decide" /\ Body(f) \in Procs /\ proc \in [Procs -> Frames]
      /\ SetPhase(f, "Reconciling") /\ scp' = scp /\ open' = open
  BY Instances, FiberProcs DEF BodyDecide, At
<1>2. proc' = [proc EXCEPT ![Body(f)] = r]
  BY <1>1 DEF BodyDecide
<1>3. goal \in {"Waiting", "Disposed"} /\ pc \in {"collect", "reconciled"}
  OBVIOUS
<1>4. ~fib[f].lease
  BY <1>1, BusyBody DEF Outside
<1> HIDE DEF goal, pc
<1>5. r \in Frames /\ r.pc = pc /\ r.goal = goal
  BY <1>1, <1>3 DEF Frames, Results
<1> HIDE DEF r
<1> QED BY <1>1, <1>2, <1>3, <1>4, <1>5, PhaseStep DEF Phases

LEMMA ErrsRecord ==
  ASSUME LifecycleInv, NEW f \in Fibers, NEW errs \in Seq(Results)
  PROVE  LET x == [fib[f] EXCEPT !.disposal.errs = errs] IN
         x \in FiberRec /\ SameCore(fib[f], x)
<1> DEFINE e == [fib[f].disposal EXCEPT !.errs = errs]
<1>1. fib[f] \in FiberRec /\ fib[f].disposal \in DisposalRec
  BY Instances DEF FiberRec
<1>2. e \in DisposalRec /\ e.phase = fib[f].disposal.phase
  BY <1>1 DEF DisposalRec
<1>3. [fib[f] EXCEPT !.disposal.errs = errs] = [fib[f] EXCEPT !.disposal = e]
  BY <1>1 DEF FiberRec, DisposalRec
<1> HIDE DEF e
<1> QED BY <1>1, <1>2, <1>3 DEF FiberRec, SameCore

LEMMA MoreErrs ==
  ASSUME LifecycleInv, NEW f \in Fibers, NEW res \in Results
  PROVE  /\ fib[f].disposal.errs \in Seq(Results)
         /\ Append(fib[f].disposal.errs, res) \in Seq(Results)
<1>1. fib[f].disposal.errs \in Seq(Results)
  BY Instances DEF FiberRec, DisposalRec
<1> QED BY <1>1

LEMMA BodyChildScopeDoneStep ==
  ASSUME LifecycleInv, NEW f \in Fibers, BodyChildScopeDone(f) PROVE LifecycleInv'
<1> DEFINE b == proc[Body(f)]
           kids == Without(fib[f].kids, b.tgt)
           errs == IF b.res = "ok" THEN fib[f].disposal.errs
                   ELSE Append(fib[f].disposal.errs, b.res)
           y == [fib[f] EXCEPT !.disposal.errs = errs]
           x == [y EXCEPT !.kids = kids]
           r == [Idle EXCEPT !.pc = "kids"]
<1>1. /\ fib[f] \in FiberRec /\ fib \in [Fibers -> FiberRec] /\ scp \in [Scopes -> ScopeRec]
      /\ scp' = scp /\ open' = open /\ b.pc = "back" /\ b.res \in Results
      /\ fib[f].kids \in Seq(Scopes) /\ proc' = [proc EXCEPT ![Body(f)] = r]
  BY Instances, FiberProcs, FrameFields DEF BodyChildScopeDone, At, FiberRec
<1>2. fib' = [fib EXCEPT ![f] = x]
  BY <1>1 DEF BodyChildScopeDone, FiberRec
<1>3. kids \in Seq(Scopes) /\ errs \in Seq(Results)
  BY <1>1, WithoutProperties, MoreErrs
<1>4. y \in FiberRec /\ SameCore(fib[f], y)
  BY <1>3, ErrsRecord
<1> HIDE DEF kids, errs, y
<1>5. x \in FiberRec /\ SameCore(fib[f], x)
  BY <1>3, <1>4 DEF FiberRec, SameCore
<1>6. r \in Frames /\ r.pc = "kids"
  BY IdleFrame DEF Frames, Idle
<1>7. fib[f].lock = Body(f) /\ ~fib[f].lease
      /\ fib[f].disposal.phase \notin {"Idle", "Complete", "Terminated"}
  BY <1>1, BusyBody DEF Outside
<1> HIDE DEF x, r
<1>8. BodyOK(x, r) /\ LeaseOK(f, x, r)
  BY <1>5, <1>6, <1>7 DEF BodyOK, LeaseOK, SameCore, Decided, Reconciling, Calling
<1> QED BY <1>1, <1>2, <1>5, <1>6, <1>7, <1>8, BodyStepOK DEF Outside, SameCore

LEMMA BodyReleaseStep ==
  ASSUME LifecycleInv, NEW f \in Fibers, NEW failed \in BOOLEAN, BodyRelease(f, failed)
  PROVE  LifecycleInv'
<1> DEFINE b == proc[Body(f)]
           errs == IF failed THEN Append(fib[f].disposal.errs, "plain") ELSE fib[f].disposal.errs
           y == [fib[f] EXCEPT !.disposal.errs = errs]
           x == [y EXCEPT !.reg = {}]
           r == [b EXCEPT !.pc = "decide", !.syms = fib[f].reg]
<1>1. /\ fib[f] \in FiberRec /\ fib \in [Fibers -> FiberRec] /\ scp \in [Scopes -> ScopeRec]
      /\ scp' = scp /\ open' = open /\ b.pc = "release" /\ b \in Frames /\ Body(f) \in Procs
      /\ proc \in [Procs -> Frames] /\ fib[f].reg \in SUBSET Services
  BY Instances, FiberProcs DEF BodyRelease, At, FiberRec
<1>2. fib' = [fib EXCEPT ![f] = x] /\ proc' = [proc EXCEPT ![Body(f)] = r]
  BY <1>1 DEF BodyRelease, FiberRec
<1>3. errs \in Seq(Results)
  <2>1. "plain" \in Results
    BY DEF Results
  <2> QED BY <2>1, MoreErrs
<1>4. y \in FiberRec /\ SameCore(fib[f], y)
  BY <1>3, ErrsRecord
<1> HIDE DEF errs, y
<1>5. /\ x \in FiberRec /\ x.state = y.state /\ x.visible = y.visible /\ x.lock = y.lock
      /\ x.lease = y.lease /\ x.disposal = y.disposal
  BY <1>4 DEF FiberRec
<1>6. r \in Frames /\ r.pc = "decide"
  BY <1>1 DEF Frames
<1>7. fib[f].lock = Body(f) /\ ~fib[f].lease
      /\ fib[f].disposal.phase \notin {"Idle", "Complete", "Terminated"}
  BY <1>1, BusyBody DEF Outside
<1> HIDE DEF x, r
<1>8. BodyOK(x, r) /\ LeaseOK(f, x, r)
  BY <1>4, <1>5, <1>6, <1>7 DEF BodyOK, LeaseOK, SameCore, Decided, Reconciling, Calling
<1> QED BY <1>1, <1>2, <1>4, <1>5, <1>6, <1>7, <1>8, BodyStepOK DEF Outside, SameCore

LEMMA AggregateResult ==
  ASSUME NEW errs \in Seq(Results) PROVE Aggregate(errs) \in Results
<1>1. Len(errs) = 1 => errs[1] \in Results
  OBVIOUS
<1> QED BY <1>1 DEF Aggregate, Results

LEMMA BodyFinishStep ==
  ASSUME LifecycleInv, NEW f \in Fibers, BodyFinish(f) PROVE LifecycleInv'
<1> DEFINE b == proc[Body(f)]
           errs == IF b.res = "ok" THEN fib[f].disposal.errs
                   ELSE Append(fib[f].disposal.errs, b.res)
           y == [fib[f] EXCEPT !.disposal.errs = errs]
           x == [y EXCEPT !.lock = NONE]
           agg == Aggregate(errs)
           r == [Idle EXCEPT !.pc = "detach", !.res = agg, !.goal = b.goal]
<1>1. /\ fib[f] \in FiberRec /\ fib \in [Fibers -> FiberRec] /\ scp \in [Scopes -> ScopeRec]
      /\ scp' = scp /\ open' = open /\ b.pc = "reconciled" /\ b \in Frames /\ b.res \in Results
      /\ FiberOK(f, fib[f], proc[Activation(f)], b)
  BY Instances, FiberProcs, FrameFields DEF BodyFinish, At
<1>2. fib' = [fib EXCEPT ![f] = x] /\ proc' = [proc EXCEPT ![Body(f)] = r]
  BY <1>1 DEF BodyFinish, FiberRec
<1>3. errs \in Seq(Results) /\ agg \in Results
  BY <1>1, MoreErrs, AggregateResult
<1>4. y \in FiberRec /\ SameCore(fib[f], y)
  BY <1>3, ErrsRecord
<1>5. b.goal \in {"Waiting", "Disposed"}
  BY <1>1 DEF FiberOK, BodyOK, Decided, Reconciling
<1> HIDE DEF errs, y, agg
<1>6. /\ x \in FiberRec /\ x.state = y.state /\ x.visible = y.visible /\ x.lock = NONE
      /\ x.lease = y.lease /\ x.disposal = y.disposal
  BY <1>4 DEF FiberRec
<1>7. r \in Frames /\ r.pc = "detach" /\ r.goal = b.goal
  BY <1>3, <1>5, IdleFrame DEF Frames, Idle
<1>8. fib[f].lock = Body(f) /\ ~fib[f].lease
      /\ fib[f].disposal.phase \notin {"Idle", "Complete", "Terminated"}
  BY <1>1, BusyBody DEF Outside
<1> HIDE DEF x, r, b
<1>9. BodyOK(x, r) /\ LeaseOK(f, x, r)
  BY <1>4, <1>5, <1>6, <1>7, <1>8 DEF BodyOK, LeaseOK, SameCore
<1> QED BY <1>1, <1>2, <1>4, <1>6, <1>7, <1>8, <1>9, BodyStepOK DEF Outside, SameCore, b

\* The supervisor, without the lock.
LEMMA DetachStep ==
  ASSUME LifecycleInv, NEW f \in Fibers, Detach(f) PROVE LifecycleInv'
<1> DEFINE b == proc[Body(f)]
           indexed == fib[f].indexed /\ ~Detaches(f)
           y == [fib[f] EXCEPT !.disposal.phase = "Finalizing"]
           x == [y EXCEPT !.indexed = indexed]
           res == FinalResult(f)
           r == [b EXCEPT !.pc = "publish", !.res = res]
           s == ScopeOf[f]
           z == [scp[s] EXCEPT !.fibers = Without(@, f)]
<1>1. /\ fib[f] \in FiberRec /\ fib \in [Fibers -> FiberRec] /\ scp \in [Scopes -> ScopeRec]
      /\ open' = open /\ b.pc = "detach" /\ b \in Frames /\ b.res \in Results
      /\ FiberOK(f, fib[f], proc[Activation(f)], b) /\ Body(f) \in Procs /\ s \in Scopes
      /\ proc \in [Procs -> Frames] /\ Body(f) # NONE
  BY Instances, FiberProcs, FrameFields, LifecycleAssumption, NoneAssumption DEF Detach, At
<1>2. fib' = [fib EXCEPT ![f] = x] /\ proc' = [proc EXCEPT ![Body(f)] = r]
  BY <1>1 DEF Detach, FiberRec
<1>3. indexed \in BOOLEAN /\ res \in Results
  <2>1. indexed \in BOOLEAN
    BY Zenon
  <2> QED BY <1>1, <2>1 DEF FinalResult, Results
<1>4. scp' \in [Scopes -> ScopeRec]
  <2>1. scp' = scp \/ scp' = [scp EXCEPT ![s] = z]
    BY <1>1 DEF Detach
  <2>2. z \in ScopeRec
    <3>1. scp[s] \in ScopeRec /\ scp[s].fibers \in Seq(Fibers)
      BY <1>1 DEF ScopeRec
    <3>2. Without(scp[s].fibers, f) \in Seq(Fibers)
      BY <3>1, WithoutProperties
    <3> QED BY <3>1, <3>2 DEF ScopeRec
  <2> HIDE DEF z, s
  <2> QED BY <1>1, <2>1, <2>2
<1>5. /\ y \in FiberRec /\ y.disposal.phase = "Finalizing"
      /\ y.state = fib[f].state /\ y.visible = fib[f].visible /\ y.lock = fib[f].lock
      /\ y.lease = fib[f].lease /\ y.reg = fib[f].reg
  BY PhaseRecord DEF Phases
<1> HIDE DEF y, indexed, res, s, z
<1>6. /\ x \in FiberRec /\ x.state = y.state /\ x.visible = y.visible /\ x.lock = y.lock
      /\ x.lease = y.lease /\ x.disposal = y.disposal /\ x.reg = y.reg
  BY <1>3, <1>5 DEF FiberRec
<1>7. r \in Frames /\ r.pc = "publish" /\ r.goal = b.goal /\ r.bad = b.bad
  BY <1>1, <1>3 DEF Frames
<1>8. fib[f].lock # Body(f)
  BY <1>1 DEF FiberOK, LockOK, Outside
<1> HIDE DEF x, r, b
<1>9. BodyOK(x, r) /\ LeaseOK(f, x, r)
  BY <1>1, <1>5, <1>6, <1>7 DEF FiberOK, BodyOK, LeaseOK, Decided, Reconciling, Calling, Outside
<1> QED BY <1>1, <1>2, <1>4, <1>5, <1>6, <1>7, <1>8, <1>9, BodyStepOK DEF Outside, b

LEMMA FinalizeVanishedStep ==
  ASSUME LifecycleInv, NEW f \in Fibers, FinalizeVanished(f) PROVE LifecycleInv'
<1>1. /\ fib[f] \in FiberRec /\ fib \in [Fibers -> FiberRec] /\ scp \in [Scopes -> ScopeRec]
      /\ FiberOK(f, fib[f], proc[Activation(f)], proc[Body(f)])
      /\ proc[Body(f)].pc \in {"detach", "publish"}
  BY Instances DEF FinalizeVanished
<1>2. /\ fib' = [fib EXCEPT ![f] = fib[f]] /\ proc' = [proc EXCEPT ![Body(f)] = Idle]
      /\ scp' = scp /\ open' = open
  BY <1>1 DEF FinalizeVanished, End
<1>3. Idle \in Frames /\ Idle.pc = "idle"
  BY IdleFrame DEF Idle
<1>4. fib[f].lock # Body(f)
  BY <1>1 DEF FiberOK, LockOK, Outside
<1>5. BodyOK(fib[f], Idle) /\ LeaseOK(f, fib[f], Idle)
  BY <1>1, <1>3 DEF FiberOK, BodyOK, LeaseOK, Decided, Reconciling, Calling, Outside
<1> QED BY <1>1, <1>2, <1>3, <1>4, <1>5, BodyStepOK DEF Outside

-----------------------------------------------------------------------------
(***************************************************************************)
(* Publications.                                                           *)
(***************************************************************************)
\* Whoever gets the result goes on where the call returns.
LEMMA DeliverFrames ==
  ASSUME LifecycleInv, NEW id \in Fibers \cup Scopes, NEW res \in Results, NEW p \in Procs,
         FrameOK(p, Idle), Deliver(id, res, p, Idle)
  PROVE  /\ proc' \in [Procs -> Frames] /\ proc'[p] = Idle
         /\ \A q \in Procs : FrameOK(q, proc'[q]) /\ (q # p => Keeps(proc[q], proc'[q]))
         /\ \A q \in Procs \ {p} : proc[q].pc # "wait" => proc'[q] = proc[q]
<1>1. proc' = [q \in Procs |->
                 IF q = p THEN Idle
                 ELSE IF proc[q].pc = "wait" /\ proc[q].tgt = id
                   THEN Answered(proc[q], res) ELSE proc[q]]
  BY DEF Deliver
<1>2. \A q \in Procs : proc[q] \in Frames /\ FrameOK(q, proc[q])
  BY Instances
<1>3. ASSUME NEW q \in Procs, q # p, proc[q].pc = "wait"
      PROVE  LET r == Answered(proc[q], res) IN
             r \in Frames /\ FrameOK(q, r) /\ Keeps(proc[q], r)
  <2> DEFINE r == Answered(proc[q], res)
  <2>1. /\ r \in Frames /\ r.pc = "back" /\ r.tgt = proc[q].tgt /\ r.caller = proc[q].caller
        /\ r.goal = proc[q].goal /\ r.bad = proc[q].bad
    BY <1>2, AnsweredFrame
  <2> HIDE DEF r
  <2>2. "back" \in Code(q[1])
    BY <1>2, <1>3, ProcKinds DEF FrameOK, Code, Calling, Reconciling
  <2>3. FrameOK(q, r)
    BY <1>2, <1>3, <2>1, <2>2 DEF FrameOK, Calling
  <2>4. Keeps(proc[q], r)
    BY <1>3, <2>1 DEF Keeps, Decided, Reconciling, Calling
  <2> QED BY <2>1, <2>3, <2>4 DEF r
<1>4. ASSUME NEW q \in Procs
      PROVE  /\ proc'[q] \in Frames /\ FrameOK(q, proc'[q])
             /\ q # p => Keeps(proc[q], proc'[q])
             /\ q # p /\ proc[q].pc # "wait" => proc'[q] = proc[q]
  <2>1. CASE q = p
    BY <1>1, <2>1, IdleFrame
  <2>2. CASE q # p /\ proc[q].pc = "wait" /\ proc[q].tgt = id
    <3>1. proc'[q] = Answered(proc[q], res)
      BY <1>1, <2>2
    <3> QED BY <1>3, <2>2, <3>1
  <2>3. CASE q # p /\ ~(proc[q].pc = "wait" /\ proc[q].tgt = id)
    <3>1. proc'[q] = proc[q]
      BY <1>1, <2>3
    <3> QED BY <1>2, <2>3, <3>1 DEF Keeps
  <2> QED BY <2>1, <2>2, <2>3
<1>5. proc' \in [Procs -> Frames]
  BY <1>1, <1>4
<1> QED BY <1>1, <1>4, <1>5

\* No activation notices.
LEMMA DeliverCallers ==
  ASSUME LifecycleInv, NEW p \in Procs, p[1] # "act", ~At(p, "activating"),
         \A q \in Procs : q # p => Keeps(proc[q], proc'[q]),
         \A q \in Procs \ {p} : proc[q].pc # "wait" => proc'[q] = proc[q]
  PROVE  CallersInv'
<1> SUFFICES ASSUME NEW f \in Fibers, proc'[Activation(f)].pc # "idle"
             PROVE  /\ proc[Activation(f)].pc # "idle"
                    /\ proc'[Activation(f)].caller = proc[Activation(f)].caller
                    /\ proc'[proc[Activation(f)].caller] = proc[proc[Activation(f)].caller]
  BY CalmCallers DEF Calm, LifecycleInv
<1>1. /\ proc[Activation(f)].pc # "idle"
      /\ proc'[Activation(f)].caller = proc[Activation(f)].caller
  BY FiberProcs DEF Keeps, Reconciling, Calling
<1>2. CallerOK(f)
  BY Instances
<1> QED BY <1>1, <1>2 DEF CallerOK, At

\* State, phase and result change together.
LEMMA PublishStep ==
  ASSUME LifecycleInv, NEW f \in Fibers, Publish(f) PROVE LifecycleInv'
<1> DEFINE p == Body(f)
           b == proc[p]
           a == proc[Activation(f)]
           c == proc'[Activation(f)]
           st == IF b.bad THEN fib[f].state ELSE b.goal
           ph == IF b.bad THEN "Terminated" ELSE "Complete"
           e == [fib[f].disposal EXCEPT !.done = b.res, !.phase = ph]
           x == [fib[f] EXCEPT !.state = st, !.disposal = e]
<1>1. /\ fib[f] \in FiberRec /\ fib[f].disposal \in DisposalRec /\ fib[f].state \in FiberStates
      /\ fib \in [Fibers -> FiberRec] /\ scp \in [Scopes -> ScopeRec] /\ open \in BOOLEAN
      /\ scp' = scp /\ open' = open /\ b.pc = "publish" /\ b \in Frames /\ b.res \in Results
      /\ FiberOK(f, fib[f], a, b) /\ p \in Procs /\ p[1] = "body" /\ p # Activation(f)
      /\ Activation(f) \in Procs
  BY Instances, FiberProcs, FrameFields DEF Publish, At, FiberRec
<1>2. fib' = [fib EXCEPT ![f] = x] /\ Deliver(f, b.res, p, Idle)
  <2>1. x = [fib[f] EXCEPT !.state = st, !.disposal.done = b.res, !.disposal.phase = ph]
    BY <1>1 DEF FiberRec, DisposalRec
  <2>2. fib' = [fib EXCEPT ![f].state = IF b.bad THEN @ ELSE b.goal,
                           ![f].disposal.done = b.res, ![f].disposal.phase = ph]
    BY DEF Publish
  <2> HIDE DEF b, x, ph
  <2>3. fib' = [fib EXCEPT ![f] = [fib[f] EXCEPT !.state = st, !.disposal.done = b.res,
                                                 !.disposal.phase = ph]]
    BY <1>1, <2>2
  <2>4. Deliver(f, b.res, p, Idle)
    BY DEF Publish, b
  <2> QED BY <2>1, <2>3, <2>4
<1>3. /\ fib[f].disposal.phase \notin {"Idle", "Complete", "Terminated"}
      /\ ~fib[f].visible /\ fib[f].state # "Absent"
      /\ ~(fib[f].state = "Starting" /\ a.pc \in {"seal", "commit"})
  BY <1>1, BusyBody
<1>4. b.bad \/ b.goal \in {"Waiting", "Disposed"}
  BY <1>1 DEF FiberOK, BodyOK, Decided
<1>5. /\ st \in FiberStates /\ ph \in {"Terminated", "Complete"} /\ ph \in Phases
      /\ (b.bad => st = fib[f].state /\ ph = "Terminated")
      /\ (~b.bad => st \in {"Waiting", "Disposed"})
  BY <1>1, <1>4 DEF FiberStates, Phases
<1> HIDE DEF st, ph
<1>6. e \in DisposalRec /\ e.phase = ph
  BY <1>1, <1>5 DEF DisposalRec
<1> HIDE DEF e
<1>7. /\ x \in FiberRec /\ x.state = st /\ x.disposal = e /\ x.visible = fib[f].visible
      /\ x.lease = fib[f].lease /\ x.reg = fib[f].reg /\ x.lock = fib[f].lock
  BY <1>1, <1>5, <1>6 DEF FiberRec
<1>8. Idle.pc = "idle" /\ FrameOK(p, Idle)
  BY <1>1 DEF Idle, FrameOK, Code, Outside, Calling
<1>9. /\ proc' \in [Procs -> Frames] /\ proc'[p] = Idle
      /\ \A q \in Procs : FrameOK(q, proc'[q]) /\ (q # p => Keeps(proc[q], proc'[q]))
      /\ \A q \in Procs \ {p} : proc[q].pc # "wait" => proc'[q] = proc[q]
  BY <1>1, <1>2, <1>8, DeliverFrames
<1>10. FiberOK(f, x, c, Idle)
  <2>1. Keeps(a, c)
    BY <1>1, <1>9
  <2> HIDE DEF a, b, c, x, p
  <2>2. LockOK(f, x, c, Idle)
    BY <1>1, <1>7, <1>8, <2>1 DEF FiberOK, LockOK, Keeps, Outside, Reconciling, Calling
  <2>3. BodyOK(x, Idle) /\ VisibleOK(f, x) /\ AbsentOK(x)
    BY <1>3, <1>5, <1>7, <1>8 DEF BodyOK, VisibleOK, AbsentOK, Decided, Reconciling, Calling
  <2>4. StagedOK(f, x, c)
    BY <1>3, <1>5, <1>7, <2>1 DEF StagedOK, Keeps, Reconciling, Calling
  <2>5. LeaseOK(f, x, Idle)
    BY <1>1, <1>5, <1>6, <1>7, <1>8 DEF FiberOK, LeaseOK, Outside
  <2> QED BY <2>2, <2>3, <2>4, <2>5 DEF FiberOK
<1>11. TypeOK' /\ \A g \in Fibers : fib'[g] = IF g = f THEN x ELSE fib[g]
  BY <1>1, <1>2, <1>7, <1>9, TypingNext
<1>12. CallersInv'
  BY <1>1, <1>9, DeliverCallers DEF At
<1>13. \A q \in Procs : q \in Reconcilers => q[2] = f \/ Keeps(proc[q], proc'[q])
  BY <1>9, FiberProcs
<1> HIDE DEF x
<1> QED BY <1>9, <1>10, <1>11, <1>12, <1>13, FiberStep

LEMMA ScopePublishStep ==
  ASSUME LifecycleInv, NEW s \in Scopes, ScopePublish(s) PROVE LifecycleInv'
<1> DEFINE p == ScopeBody(s)
           b == proc[p]
           res == ScopeResult(b)
<1>1. /\ fib \in [Fibers -> FiberRec] /\ scp \in [Scopes -> ScopeRec] /\ open \in BOOLEAN
      /\ fib' = fib /\ open' = open /\ p \in Procs /\ p[1] = "scope" /\ p \notin Reconcilers
      /\ b.pc = "next" /\ res \in Results
  BY Instances, ScopeProcs, ProcKinds DEF ScopePublish, At, ScopeResult, Results
<1>2. scp' \in [Scopes -> ScopeRec]
  <2> DEFINE st == IF b.bad THEN "Terminated" ELSE "Disposed"
             ended == [scp[s] EXCEPT !.state = st, !.done = res]
             left(x) == [scp[x] EXCEPT !.children = Without(@, s)]
             new(x) == IF x = s THEN ended ELSE IF x = Parent[s] /\ ~b.bad THEN left(x) ELSE scp[x]
  <2>1. scp' = [x \in Scopes |-> new(x)]
    BY DEF ScopePublish
  <2>2. st \in {"Terminated", "Disposed"}
    OBVIOUS
  <2> HIDE DEF st, res
  <2>3. ended \in ScopeRec
    BY <1>1, <2>2 DEF ScopeRec
  <2>4. ASSUME NEW x \in Scopes PROVE left(x) \in ScopeRec
    <3>1. scp[x] \in ScopeRec /\ scp[x].children \in Seq(Scopes)
      BY <1>1 DEF ScopeRec
    <3>2. Without(scp[x].children, s) \in Seq(Scopes)
      BY <3>1, WithoutProperties
    <3> QED BY <3>1, <3>2 DEF ScopeRec
  <2> HIDE DEF ended, left
  <2>5. \A x \in Scopes : new(x) \in ScopeRec
    BY <1>1, <2>3, <2>4
  <2> HIDE DEF new
  <2> QED BY <2>1, <2>5
<1>3. Deliver(s, res, p, Idle)
  BY DEF ScopePublish
<1>4. FrameOK(p, Idle)
  BY <1>1 DEF Idle, FrameOK, Code, Calling
<1> HIDE DEF p, b, res
<1>5. /\ proc' \in [Procs -> Frames]
      /\ \A q \in Procs : FrameOK(q, proc'[q]) /\ (q # p => Keeps(proc[q], proc'[q]))
      /\ \A q \in Procs \ {p} : proc[q].pc # "wait" => proc'[q] = proc[q]
  BY <1>1, <1>3, <1>4, DeliverFrames
<1>6. TypeOK'
  BY <1>1, <1>2, <1>5, TypingNext
<1>7. FibersInv'
  <2> SUFFICES ASSUME NEW f \in Fibers
               PROVE FiberOK(f, fib[f], proc'[Activation(f)], proc'[Body(f)])
    BY <1>1 DEF FibersInv
  <2>1. FiberOK(f, fib[f], proc[Activation(f)], proc[Body(f)]) /\ SameCore(fib[f], fib[f])
    BY Instances DEF SameCore
  <2>2. Keeps(proc[Activation(f)], proc'[Activation(f)]) /\ Keeps(proc[Body(f)], proc'[Body(f)])
    BY <1>1, <1>5, FiberProcs
  <2> QED BY <2>1, <2>2, KeptFiber
<1>8. CallersInv'
  BY <1>1, <1>5, DeliverCallers DEF At, b
<1>9. FramesInv'
  BY <1>5 DEF FramesInv
<1> QED BY <1>6, <1>7, <1>8, <1>9 DEF LifecycleInv

-----------------------------------------------------------------------------
(***************************************************************************)
(* The behaviour of the runtime.                                           *)
(***************************************************************************)
LEMMA InitOK == Init => LifecycleInv
<1> SUFFICES ASSUME Init PROVE LifecycleInv
  OBVIOUS
<1>1. ASSUME NEW f \in Fibers
      PROVE  fib[f] \in FiberRec /\ fib[f].lock = NONE /\ fib[f].disposal.phase = "Idle"
             /\ ~fib[f].lease /\ VisibleOK(f, fib[f]) /\ fib[f].state # "Starting"
  <2> DEFINE st == IF f \in Running THEN "Active" ELSE "Waiting"
             on == f \in Running
             reg == IF f \in Running THEN Provides[f] ELSE {}
             kids == Retain(BootScopes, {s \in Scopes : Owner[s] = f})
             x == [NewFiber EXCEPT !.state = st, !.visible = on, !.reg = reg, !.kids = kids,
                                   !.indexed = TRUE]
  <2>1. /\ NewFiber \in FiberRec /\ NewFiber.lock = NONE /\ NewFiber.disposal.phase = "Idle"
        /\ ~NewFiber.lease /\ ~NewFiber.visible /\ NewFiber.state = "Absent"
    BY NewRecords DEF NewFiber, NewDisposal
  <2>2. fib[f] = NewFiber \/ fib[f] = x
    BY DEF Init, BootedFiber
  <2>3. /\ st \in {"Active", "Waiting"} /\ reg \in SUBSET Services
        /\ on \in BOOLEAN /\ (on => st = "Active" /\ reg = Provides[f])
    BY LifecycleAssumption
  <2>4. kids \in Seq(Scopes)
    <3>1. BootScopes \in Seq(Scopes)
      BY LifecycleAssumption
    <3> QED BY <3>1, RetainProperties
  <2> HIDE DEF st, on, reg, kids
  <2>5. /\ x \in FiberRec /\ x.lock = NONE /\ x.disposal.phase = "Idle" /\ ~x.lease
        /\ x.state = st /\ x.visible = on /\ x.reg = reg
    BY <2>1, <2>3, <2>4 DEF FiberRec, FiberStates
  <2> HIDE DEF x
  <2> QED BY <2>1, <2>2, <2>3, <2>5 DEF VisibleOK
<1>2. ASSUME NEW s \in Scopes PROVE scp[s] \in ScopeRec
  <2> DEFINE new(st) == NewScope(st)
             kids == Retain(BootScopes, {x \in Scopes : Parent[x] = s})
             fibers == Retain(BootFibers, {f \in Fibers : ScopeOf[f] = s})
             r == [new("Active") EXCEPT !.children = kids, !.fibers = fibers]
  <2>1. new("Active") \in ScopeRec /\ new("Absent") \in ScopeRec
    BY DEF NewScope, ScopeRec, Results
  <2>2. kids \in Seq(Scopes) /\ fibers \in Seq(Fibers)
    <3>1. BootScopes \in Seq(Scopes) /\ BootFibers \in Seq(Fibers)
      BY LifecycleAssumption
    <3> QED BY <3>1, RetainProperties
  <2>3. scp[s] = r \/ scp[s] = new("Absent")
    BY DEF Init, BootedScope
  <2> HIDE DEF new, kids, fibers
  <2>4. r \in ScopeRec
    BY <2>1, <2>2 DEF ScopeRec
  <2> QED BY <2>1, <2>3, <2>4
<1>3. fib \in [Fibers -> FiberRec] /\ scp \in [Scopes -> ScopeRec]
  BY <1>1, <1>2 DEF Init
<1>4. \A p \in Procs : proc[p] = Idle
  BY DEF Init
<1>5. TypeOK
  <2>1. proc \in [Procs -> Frames] /\ open \in BOOLEAN
    BY IdleFrame DEF Init
  <2> QED BY <1>3, <2>1, Typing
<1>6. Idle.pc = "idle"
  BY DEF Idle
<1>7. FramesInv
  BY <1>4, <1>6, ProcKinds DEF FramesInv, FrameOK, Code, Outside, Calling
<1>8. FibersInv
  <2> SUFFICES ASSUME NEW f \in Fibers PROVE FiberOK(f, fib[f], Idle, Idle)
    BY <1>4, FiberProcs DEF FibersInv
  <2>1. LockOK(f, fib[f], Idle, Idle)
    BY <1>1, <1>6, FiberProcs, NoneAssumption DEF LockOK, Outside
  <2> QED BY <1>1, <1>6, <2>1
          DEF FiberOK, BodyOK, StagedOK, LeaseOK, AbsentOK, Decided, Reconciling, Calling
<1>9. CallersInv
  BY <1>4, <1>6, FiberProcs DEF CallersInv, CallerOK, At
<1> QED BY <1>5, <1>7, <1>8, <1>9 DEF LifecycleInv

LEMMA FiberProcSteps ==
  ASSUME LifecycleInv, NEW f \in Fibers,
         \/ InstallStep(f) \/ ActivationStep(f) \/ BodyStep(f) \/ HostStep(f) \/ PluginStep(f)
  PROVE  LifecycleInv'
<1>1. CASE InstallStep(f)
  BY <1>1, InstallIndexStep, InstallValidateStep, InstallRemoveStep, InstallCheckStep,
     InstallParkStep, ReturnStep DEF InstallStep
<1>2. CASE ActivationStep(f)
  BY <1>2, SealStep, CommitStep, ActivationDoneStep DEF ActivationStep
<1>3. CASE BodyStep(f)
  BY <1>3, BodyEndsStep, BodyBeginStep, BodyDrainedStep, ScopeCallers, BodyChildScopeDoneStep,
     BodyReleaseStep, BodyDecideStep, BodyFinishStep, DetachStep, PublishStep,
     FinalizeVanishedStep DEF BodyStep
<1>4. CASE HostStep(f)
  BY <1>4, FiberCallers, ReturnStep DEF HostStep
<1>5. CASE PluginStep(f)
  BY <1>5, ProvideStep, StartOkStep, StartFailsStep DEF PluginStep
<1> QED BY <1>1, <1>2, <1>3, <1>4, <1>5

LEMMA EnvironmentSteps ==
  ASSUME LifecycleInv, Environment PROVE LifecycleInv'
<1>1. /\ Leased \subseteq Fibers /\ Crashing \subseteq Fibers /\ Hosted \subseteq Fibers
      /\ Dropped \subseteq Fibers /\ Closing \subseteq Scopes
  BY LifecycleAssumption
<1>2. ASSUME NEW f \in Fibers, Install(f) PROVE LifecycleInv'
  BY <1>2, InstallBegins
<1>3. ASSUME NEW s \in Scopes, CreateScope(s) \/ ContextCreateScope(s) PROVE LifecycleInv'
  BY <1>3, CreateScopeStep
<1>4. ASSUME NEW f \in Dropped, NEW w \in BOOLEAN, ClientDisposeFiber(f, w) PROVE LifecycleInv'
  BY <1>1, <1>4, FiberCallers
<1>5. ASSUME NEW s \in Closing, ClientDisposeScope(s) PROVE LifecycleInv'
  BY <1>1, <1>5, ScopeCallers
<1>6. ASSUME NEW f \in Leased, Lease(f) \/ DropLease(f) PROVE LifecycleInv'
  BY <1>1, <1>6, LeaseStep
<1>7. ASSUME NEW f \in Crashing, BodyCrash(f) PROVE LifecycleInv'
  BY <1>1, <1>7, BodyEndsStep
<1>8. ASSUME NEW f \in Hosted, HostFailure(f) PROVE LifecycleInv'
  BY <1>1, <1>8, HostFailureStep
<1>9. ASSUME BeginShutdown \/ ShutdownRoot PROVE LifecycleInv'
  BY <1>9, BeginShutdownStep, ScopeCallers
<1>10. ASSUME CollectGarbage PROVE LifecycleInv'
  BY <1>10, CollectGarbageStep
<1> QED BY <1>2, <1>3, <1>4, <1>5, <1>6, <1>7, <1>8, <1>9, <1>10 DEF Environment

LEMMA NextOK == LifecycleInv /\ [Next]_vars => LifecycleInv'
<1> SUFFICES ASSUME LifecycleInv, [Next]_vars PROVE LifecycleInv'
  OBVIOUS
<1>1. CASE Environment
  BY <1>1, EnvironmentSteps
<1>2. ASSUME NEW p \in Procs, CallStep(p) PROVE LifecycleInv'
  BY <1>2, RefusedStep, ActivateStep, FailActivationStep, FiberCallers DEF CallStep
<1>3. ASSUME NEW p \in Reconcilers, ReconcileStep(p) PROVE LifecycleInv'
  BY <1>3, CollectStep, PickStep, JudgeStep, FiberCallers, CandidateDoneStep, ReconcileDoneStep
     DEF ReconcileStep
<1>4. ASSUME NEW f \in Fibers,
             \/ InstallStep(f) \/ ActivationStep(f) \/ BodyStep(f) \/ HostStep(f) \/ PluginStep(f)
      PROVE  LifecycleInv'
  BY <1>4, FiberProcSteps
<1>5. ASSUME NEW s \in Scopes, ScopeStep(s) PROVE LifecycleInv'
  BY <1>5, ScopeSnapshotStep, ScopeCallers, ScopeFiberStep, ScopeMemberDoneStep, ScopePublishStep
     DEF ScopeStep
<1>6. CASE UNCHANGED vars
  <2>1. TypeOK'
    BY <1>6, Instances, TypingNext DEF vars
  <2> QED BY <1>6, <2>1, StillStep DEF vars, SameCore
<1> QED BY <1>1, <1>2, <1>3, <1>4, <1>5, <1>6 DEF Next

-----------------------------------------------------------------------------
(***************************************************************************)
(* The invariant holds: processes and records move together as the         *)
(* lifecycle lock, the disposal phases and the gate require.               *)
(***************************************************************************)
THEOREM LifecycleInvariant == Spec => []LifecycleInv
BY InitOK, NextOK, PTL DEF Spec

(***************************************************************************)
(* Every record keeps its shape, whatever the topology: no Fiber, Scope or *)
(* process reaches a state that the code does not have.                    *)
(***************************************************************************)
THEOREM LifecycleTypes == Spec => []TypeOK
<1>1. LifecycleInv => TypeOK
  BY DEF LifecycleInv
<1> QED BY <1>1, LifecycleInvariant, PTL

(***************************************************************************)
(* FIB-002: what a client can resolve was committed with every declared    *)
(* service, and nobody has begun to dispose it (commit_activation and the  *)
(* gate that the first disposal request closes).                           *)
(***************************************************************************)
THEOREM VisibleIsCommitted == Spec => []VisibleCommitted
<1>1. LifecycleInv => VisibleCommitted
  BY Instances DEF FiberOK, VisibleOK, VisibleCommitted
<1> QED BY <1>1, LifecycleInvariant, PTL

(***************************************************************************)
(* DSP-003: the body of a disposal withdraws no service, tears down no     *)
(* child Scope and commits nothing while an execution is in flight.        *)
(***************************************************************************)
THEOREM DrainsBeforeCleanup == Spec => []DrainBeforeCleanup
<1>1. LifecycleInv => DrainBeforeCleanup
  BY Instances DEF FiberOK, LeaseOK, DrainBeforeCleanup
<1> QED BY <1>1, LifecycleInvariant, PTL

-----------------------------------------------------------------------------
(***************************************************************************)
(* Once admission is closed nothing is admitted: what could start or       *)
(* become Active looks at the gate in the step that does it.               *)
(***************************************************************************)
FibersQuiet ==
  \A f \in Fibers : fib'[f].state \in {"Starting", "Active"} => fib'[f].state = fib[f].state
ScopesQuiet == \A s \in Scopes : scp'[s].state = "Active" => scp[s].state = "Active"

\* No Fiber but f changes, and it does not start.
LEMMA OneQuiet ==
  ASSUME LifecycleInv, NEW f \in Fibers, NEW x, fib' = [fib EXCEPT ![f] = x],
         x.state \in {"Starting", "Active"} => x.state = fib[f].state
  PROVE  FibersQuiet
BY Instances DEF FibersQuiet

LEMMA FieldsQuiet ==
  ASSUME LifecycleInv, NEW f \in Fibers, NEW d, NEW res, NEW pc,
         \/ InstallIndex(f) \/ Lease(f) \/ DropLease(f) \/ Provide(f, d)
         \/ ActivationReturns(f, pc, res)
  PROVE  FibersQuiet
<1>1. fib \in [Fibers -> FiberRec] /\ fib[f] \in FiberRec
  BY Instances
<1>2. CASE InstallIndex(f)
  BY <1>1, <1>2 DEF InstallIndex, FiberRec, FibersQuiet
<1>3. CASE Lease(f) \/ DropLease(f)
  BY <1>1, <1>3 DEF Lease, DropLease, FiberRec, FibersQuiet
<1>4. CASE Provide(f, d)
  BY <1>1, <1>4 DEF Provide, FiberRec, FibersQuiet
<1>5. CASE ActivationReturns(f, pc, res)
  BY <1>1, <1>5 DEF ActivationReturns, FiberRec, FibersQuiet
<1> QED BY <1>2, <1>3, <1>4, <1>5

LEMMA BodyQuiet ==
  ASSUME LifecycleInv, NEW f \in Fibers, BodyStep(f) \/ BodyCrash(f)
  PROVE  FibersQuiet
<1>1. fib \in [Fibers -> FiberRec] /\ fib[f] \in FiberRec /\ fib[f].disposal \in DisposalRec
  BY Instances DEF FiberRec
<1>2. CASE BodyVanished(f) \/ BodyDrainTimeout(f) \/ BodyCrash(f)
  <2>1. fib' = [fib EXCEPT ![f].lock = IF @ = Body(f) THEN NONE ELSE @]
    BY <1>2 DEF BodyVanished, BodyDrainTimeout, BodyCrash, BodyReturns
  <2> QED BY <1>1, <2>1 DEF FiberRec, FibersQuiet
<1>3. CASE BodyBegin(f) \/ BodyDrained(f) \/ BodyChildScopesDone(f) \/ BodyDecide(f)
  <2>1. CASE BodyBegin(f)
    BY <1>1, <2>1 DEF BodyBegin, FiberRec, FibersQuiet
  <2>2. ASSUME NEW ph, SetPhase(f, ph) PROVE FibersQuiet
    BY <1>1, <2>2 DEF SetPhase, FiberRec, FibersQuiet
  <2> QED BY <1>3, <2>1, <2>2 DEF BodyDrained, BodyChildScopesDone, BodyDecide
<1>4. CASE BodyChildScope(f) \/ FinalizeVanished(f)
  BY <1>4 DEF BodyChildScope, FinalizeVanished, FibersQuiet
<1>5. CASE BodyChildScopeDone(f)
  BY <1>1, <1>5 DEF BodyChildScopeDone, FiberRec, FibersQuiet
<1>6. ASSUME NEW failed \in BOOLEAN, BodyRelease(f, failed) PROVE FibersQuiet
  BY <1>1, <1>6 DEF BodyRelease, FiberRec, FibersQuiet
<1>7. CASE BodyFinish(f)
  BY <1>1, <1>7 DEF BodyFinish, FiberRec, FibersQuiet
<1>8. CASE Detach(f)
  BY <1>1, <1>8 DEF Detach, FiberRec, FibersQuiet
<1>9. CASE Publish(f)
  <2>1. proc[Body(f)].bad \/ proc[Body(f)].goal \in {"Waiting", "Disposed"}
    BY <1>9, Instances DEF Publish, At, FiberOK, BodyOK, Decided
  <2>2. \A g \in Fibers :
          fib'[g].state = IF g = f /\ ~proc[Body(f)].bad THEN proc[Body(f)].goal ELSE fib[g].state
    BY <1>1, <1>9 DEF Publish, FiberRec
  <2> QED BY <2>1, <2>2 DEF FibersQuiet
<1> QED BY <1>2, <1>3, <1>4, <1>5, <1>6, <1>7, <1>8, <1>9 DEF BodyStep

LEMMA DisposeQuiet ==
  ASSUME LifecycleInv, NEW p, NEW f \in Fibers, NEW w \in BOOLEAN, NEW d \in BOOLEAN,
         DisposeFiber(p, f, w, d)
  PROVE  FibersQuiet
<1>1. Joined(f, w, d).state \in {"Starting", "Active"} => Joined(f, w, d).state = fib[f].state
  BY JoinedRecord DEF SameCore
<1>2. fib' = fib \/ fib' = [fib EXCEPT ![f] = Joined(f, w, d)]
  BY DEF DisposeFiber
<1> QED BY <1>1, <1>2, OneQuiet DEF FibersQuiet

LEMMA OneScope ==
  ASSUME LifecycleInv, NEW p, NEW s \in Scopes, NEW d, DisposeScope(p, s, d)
  PROVE  ScopesQuiet
BY Instances DEF DisposeScope, ScopeRec, ScopesQuiet

LEMMA PublishedScope ==
  ASSUME LifecycleInv, NEW s \in Scopes, ScopePublish(s) PROVE ScopesQuiet
BY Instances DEF ScopePublish, ScopeRec, ScopesQuiet

LEMMA MemberQuiet ==
  ASSUME LifecycleInv, NEW f \in Fibers, Detach(f) \/ InstallRemove(f) PROVE ScopesQuiet
<1> DEFINE t == ScopeOf[f]
           l == Without(scp[t].fibers, f)
           y == [scp[t] EXCEPT !.fibers = l]
<1>1. t \in Scopes /\ scp \in [Scopes -> ScopeRec] /\ scp[t] \in ScopeRec
  BY Instances, LifecycleAssumption
<1>2. scp' = scp \/ scp' = [scp EXCEPT ![t] = y]
  BY <1>1 DEF Detach, InstallRemove
<1> HIDE DEF l, t
<1>3. y.state = scp[t].state
  BY <1>1 DEF ScopeRec
<1> HIDE DEF y
<1> QED BY <1>1, <1>2, <1>3 DEF ScopesQuiet

LEMMA Swept ==
  ASSUME LifecycleInv, CollectGarbage PROVE ScopesQuiet
<1> SUFFICES ASSUME NEW x \in Scopes, SweptScope(x).state = "Active"
             PROVE scp[x].state = "Active"
  BY DEF CollectGarbage, ScopesQuiet
<1>1. scp[x] \in ScopeRec
  BY Instances
<1> QED BY <1>1 DEF SweptScope, NewScope, ScopeRec

LEMMA CallQuiet ==
  ASSUME LifecycleInv, ~open, NEW p \in Procs, CallStep(p)
  PROVE  FibersQuiet /\ ScopesQuiet
<1>1. ScopesQuiet
  BY DEF CallStep, Refused, Activate, FailActivation, Rollback, ScopesQuiet
<1>2. CASE Refused(p)
  <2>1. fib' = fib
    BY <1>2 DEF Refused
  <2> QED BY <1>1, <2>1 DEF FibersQuiet
<1>3. CASE Activate(p)
  BY <1>3 DEF Activate, MayStart
<1>4. CASE FailActivation(p)
  <2> DEFINE f == proc[p].tgt
             x == [fib[f] EXCEPT !.state = IF @ = "Starting" THEN "Failed" ELSE @]
  <2>1. f \in Fibers /\ fib \in [Fibers -> FiberRec] /\ fib[f] \in FiberRec
    BY <1>4, Instances DEF FailActivation, At, FrameOK
  <2>2. fib' = [fib EXCEPT ![f] = x]
    BY <1>4, <2>1 DEF FailActivation
  <2>3. x.state = IF fib[f].state = "Starting" THEN "Failed" ELSE fib[f].state
    BY <2>1 DEF FiberRec
  <2> HIDE DEF x, f
  <2>4. \A g \in Fibers : fib'[g] = IF g = f THEN x ELSE fib[g]
    BY <2>1, <2>2
  <2> QED BY <1>1, <2>3, <2>4 DEF FibersQuiet
<1>5. CASE Rollback(p)
  <2>1. proc[p].tgt \in Fibers
    BY <1>5, Instances DEF Rollback, At, FrameOK
  <2>2. DisposeFiber(p, proc[p].tgt, FALSE, FALSE)
    BY <1>5 DEF Rollback
  <2> QED BY <1>1, <2>1, <2>2, DisposeQuiet
<1> QED BY <1>1, <1>2, <1>3, <1>4, <1>5 DEF CallStep

LEMMA ReconcileQuiet ==
  ASSUME LifecycleInv, NEW p \in Reconcilers, ReconcileStep(p)
  PROVE  FibersQuiet /\ ScopesQuiet
<1>1. CASE Collect(p) \/ (\E g \in Fibers : Pick(p, g)) \/ Judge(p) \/ CandidateDone(p)
           \/ ReconcileDone(p)
  BY <1>1 DEF Collect, Pick, Judge, CandidateDone, ReconcileDone, FibersQuiet, ScopesQuiet
<1>2. CASE CallDispose(p)
  <2>1. proc[p].tgt \in Fibers /\ (proc[p].tgt \in Restart) \in BOOLEAN
    BY <1>2, ReconcilerProcs, Instances DEF CallDispose, At, FrameOK
  <2>2. DisposeFiber(p, proc[p].tgt, proc[p].tgt \in Restart, FALSE) /\ scp' = scp
    BY <1>2 DEF CallDispose
  <2> QED BY <2>1, <2>2, DisposeQuiet DEF ScopesQuiet
<1> QED BY <1>1, <1>2 DEF ReconcileStep

LEMMA FiberProcQuiet ==
  ASSUME LifecycleInv, ~open, NEW f \in Fibers,
         \/ InstallStep(f) \/ ActivationStep(f) \/ BodyStep(f) \/ HostStep(f) \/ PluginStep(f)
  PROVE  FibersQuiet /\ ScopesQuiet
<1>1. CASE InstallStep(f)
  <2>1. CASE InstallIndex(f)
    BY <2>1, FieldsQuiet, FiberProcs DEF InstallIndex, ScopesQuiet
  <2>2. CASE InstallValidate(f) \/ InstallCheck(f) \/ InstallReturn(f)
    BY <2>2 DEF InstallValidate, InstallCheck, InstallReturn, FibersQuiet, ScopesQuiet
  <2>3. CASE InstallRemove(f)
    <3>1. ScopesQuiet
      BY <2>3, MemberQuiet
    <3>2. \A g \in Fibers : fib'[g].state \in {fib[g].state, "Gone"}
      <4>1. fib \in [Fibers -> FiberRec] /\ fib[f] \in FiberRec
        BY Instances
      <4>2. \/ fib' = fib
            \/ fib' = [fib EXCEPT ![f].state = "Gone", ![f].indexed = FALSE]
        BY <2>3 DEF InstallRemove
      <4> QED BY <4>1, <4>2 DEF FiberRec
    <3> QED BY <3>1, <3>2 DEF FibersQuiet
  <2>4. CASE InstallPark(f)
    <3>1. \A g \in Fibers : fib'[g].state \in {fib[g].state, "Waiting"}
      BY <2>4, Instances DEF InstallPark, FiberRec
    <3> QED BY <2>4, <3>1 DEF InstallPark, FibersQuiet, ScopesQuiet
  <2> QED BY <1>1, <2>1, <2>2, <2>3, <2>4 DEF InstallStep
<1>2. CASE ActivationStep(f)
  <2>1. scp' = scp
    BY <1>2 DEF ActivationStep, Seal, Commit, ActivationDone
  <2>2. \/ fib' = fib
        \/ \E pc, res : ActivationReturns(f, pc, res)
    BY <1>2 DEF ActivationStep, Seal, Commit, ActivationDone
  <2> QED BY <2>1, <2>2, FieldsQuiet, FiberProcs DEF FibersQuiet, ScopesQuiet
<1>3. CASE BodyStep(f)
  <2>1. FibersQuiet
    BY <1>3, BodyQuiet
  <2>2. CASE BodyChildScope(f)
    <3>1. Last(fib[f].kids) \in Scopes
      <4>1. fib[f].kids \in Seq(Scopes) /\ fib[f].kids # <<>>
        BY <2>2, Instances DEF BodyChildScope, FiberRec
      <4> QED BY <4>1, FrontSeq
    <3> QED BY <2>1, <2>2, <3>1, OneScope DEF BodyChildScope
  <2>3. CASE Detach(f)
    BY <2>1, <2>3, MemberQuiet
  <2>4. CASE ~BodyChildScope(f) /\ ~Detach(f)
    <3>1. scp' = scp
      BY <1>3, <2>4
         DEF BodyStep, BodyVanished, BodyBegin, BodyDrained, BodyDrainTimeout,
             BodyChildScopeDone, BodyChildScopesDone, BodyRelease, BodyDecide, BodyFinish,
             Publish, FinalizeVanished
    <3> QED BY <2>1, <3>1 DEF ScopesQuiet
  <2> QED BY <2>2, <2>3, <2>4
<1>4. CASE HostStep(f)
  <2>1. CASE HostReturn(f)
    BY <2>1 DEF HostReturn, FibersQuiet, ScopesQuiet
  <2>2. CASE HostDispose(f)
    BY <2>2, DisposeQuiet DEF HostDispose, ScopesQuiet
  <2> QED BY <1>4, <2>1, <2>2 DEF HostStep
<1>5. CASE PluginStep(f)
  <2>1. ASSUME NEW d \in Services, Provide(f, d) PROVE FibersQuiet /\ ScopesQuiet
    BY <2>1 DEF Provide
  <2>2. CASE StartOk(f)
    BY <2>2 DEF StartOk, FibersQuiet, ScopesQuiet
  <2>3. CASE StartFails(f)
    BY <2>3, FieldsQuiet, FiberProcs DEF StartFails, ScopesQuiet
  <2> QED BY <1>5, <2>1, <2>2, <2>3 DEF PluginStep
<1> QED BY <1>1, <1>2, <1>3, <1>4, <1>5

LEMMA ScopeStepQuiet ==
  ASSUME LifecycleInv, NEW s \in Scopes, ScopeStep(s)
  PROVE  FibersQuiet /\ ScopesQuiet
<1> DEFINE b == proc[ScopeBody(s)]
<1>1. b \in Frames /\ b.persist \in BOOLEAN
  BY Instances, ScopeProcs, FrameFields
<1>2. CASE ScopeSnapshot(s) \/ ScopeFiber(s) \/ ScopeMemberDone(s)
  BY <1>2 DEF ScopeSnapshot, ScopeFiber, ScopeMemberDone, FibersQuiet, ScopesQuiet
<1>3. CASE ScopeChild(s)
  <2>1. Last(b.kids) \in Scopes
    BY <1>1, <1>3, FrameFields, FrontSeq DEF ScopeChild
  <2> QED BY <1>3, <2>1, OneScope DEF ScopeChild, FibersQuiet
<1>4. CASE ScopeCall(s)
  <2>1. b.fibers \in Seq(Fibers) /\ b.fibers # <<>>
    BY <1>1, <1>4, Instances, ScopeProcs, FrameFields DEF ScopeCall, At, FrameOK
  <2>2. Last(b.fibers) \in Fibers
    BY <2>1, FrontSeq
  <2> QED BY <1>1, <1>4, <2>2, DisposeQuiet DEF ScopeCall, ScopesQuiet
<1>5. CASE ScopePublish(s)
  BY <1>5, PublishedScope DEF ScopePublish, FibersQuiet
<1> QED BY <1>2, <1>3, <1>4, <1>5 DEF ScopeStep

LEMMA EnvironmentQuiet ==
  ASSUME LifecycleInv, ~open, Environment
  PROVE  FibersQuiet /\ ScopesQuiet
<1>1. /\ Leased \subseteq Fibers /\ Crashing \subseteq Fibers /\ Hosted \subseteq Fibers
      /\ Dropped \subseteq Fibers /\ Closing \subseteq Scopes /\ Root \in Scopes
  BY LifecycleAssumption
<1>2. ASSUME NEW f \in Fibers, Install(f) PROVE FibersQuiet /\ ScopesQuiet
  BY <1>2 DEF Install
<1>3. ASSUME NEW s \in Scopes, CreateScope(s) \/ ContextCreateScope(s)
      PROVE FibersQuiet /\ ScopesQuiet
  BY <1>3 DEF CreateScope, ContextCreateScope, InsertScope
<1>4. ASSUME NEW f \in Dropped, NEW w \in BOOLEAN, ClientDisposeFiber(f, w)
      PROVE FibersQuiet /\ ScopesQuiet
  BY <1>1, <1>4, DisposeQuiet DEF ClientDisposeFiber, ScopesQuiet
<1>5. ASSUME NEW s \in Closing, ClientDisposeScope(s) PROVE FibersQuiet /\ ScopesQuiet
  BY <1>1, <1>5, OneScope DEF ClientDisposeScope, FibersQuiet
<1>6. ASSUME NEW f \in Leased, Lease(f) \/ DropLease(f) PROVE FibersQuiet /\ ScopesQuiet
  BY <1>1, <1>6, FieldsQuiet, FiberProcs DEF Lease, DropLease, ScopesQuiet
<1>7. ASSUME NEW f \in Crashing, BodyCrash(f) PROVE FibersQuiet /\ ScopesQuiet
  BY <1>1, <1>7, BodyQuiet DEF BodyCrash, ScopesQuiet
<1>8. ASSUME NEW f \in Hosted, HostFailure(f) PROVE FibersQuiet /\ ScopesQuiet
  <2>1. \A g \in Fibers : fib'[g].state \in {fib[g].state, "Failed"}
    BY <1>8, Instances DEF HostFailure, FiberRec
  <2> QED BY <1>8, <2>1 DEF HostFailure, FibersQuiet, ScopesQuiet
<1>9. ASSUME BeginShutdown \/ ShutdownRoot PROVE FibersQuiet /\ ScopesQuiet
  BY <1>1, <1>9, OneScope DEF BeginShutdown, ShutdownRoot, FibersQuiet
<1>10. ASSUME CollectGarbage PROVE FibersQuiet /\ ScopesQuiet
  <2>1. \A g \in Fibers : fib'[g].state \in {fib[g].state, "Gone"}
    BY <1>10, Instances DEF CollectGarbage, FiberRec
  <2> QED BY <1>10, <2>1, Swept DEF FibersQuiet
<1> QED BY <1>2, <1>3, <1>4, <1>5, <1>6, <1>7, <1>8, <1>9, <1>10 DEF Environment

(***************************************************************************)
(* Shutdown linearization: begin_shutdown has the last word on admission,  *)
(* also for activations that were already queued or starting.              *)
(***************************************************************************)
THEOREM ClosedStaysClosed == Spec => ClosedAdmitsNothing
<1>1. LifecycleInv /\ [Next]_vars => (~open => FibersQuiet /\ ScopesQuiet)
  <2> SUFFICES ASSUME LifecycleInv, [Next]_vars, ~open PROVE FibersQuiet /\ ScopesQuiet
    OBVIOUS
  <2>1. CASE Environment
    BY <2>1, EnvironmentQuiet
  <2>2. ASSUME NEW p \in Procs, CallStep(p) PROVE FibersQuiet /\ ScopesQuiet
    BY <2>2, CallQuiet
  <2>3. ASSUME NEW p \in Reconcilers, ReconcileStep(p) PROVE FibersQuiet /\ ScopesQuiet
    BY <2>3, ReconcileQuiet
  <2>4. ASSUME NEW f \in Fibers,
               \/ InstallStep(f) \/ ActivationStep(f) \/ BodyStep(f) \/ HostStep(f)
               \/ PluginStep(f)
        PROVE  FibersQuiet /\ ScopesQuiet
    BY <2>4, FiberProcQuiet
  <2>5. ASSUME NEW s \in Scopes, ScopeStep(s) PROVE FibersQuiet /\ ScopesQuiet
    BY <2>5, ScopeStepQuiet
  <2>6. CASE UNCHANGED vars
    BY <2>6 DEF vars, FibersQuiet, ScopesQuiet
  <2> QED BY <2>1, <2>2, <2>3, <2>4, <2>5, <2>6 DEF Next
<1>2. LifecycleInv /\ [Next]_vars =>
        [~open =>
           /\ \A f \in Fibers :
                fib'[f].state \in {"Starting", "Active"} => fib'[f].state = fib[f].state
           /\ \A s \in Scopes : scp'[s].state = "Active" => scp[s].state = "Active"]_vars
  BY <1>1 DEF FibersQuiet, ScopesQuiet
<1> QED BY <1>2, LifecycleInvariant, PTL DEF Spec, ClosedAdmitsNothing

=============================================================================
