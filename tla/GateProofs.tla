----------------------------- MODULE GateProofs -----------------------------
(***************************************************************************)
(* Proofs, for every finite set of threads, every set of generations and   *)
(* every in-flight limit, that the generation gate keeps its safety        *)
(* invariants and implements GenerationAdmission.  The inductive invariant *)
(* is GateInv; each operation of the gate has one lemma that shows it      *)
(* preserves GateInv, and StepKinds reads off what each step does to the   *)
(* abstract state.                                                         *)
(***************************************************************************)
EXTENDS Gate, FiniteSetTheorems, TLAPS

\* Splitting a word of GenerationExecution into state and in-flight count
\* loses nothing.
LEMMA PackedWord ==
  ASSUME NEW w \in Nat
  PROVE  /\ State(w) \in 0..3
         /\ Inflight(w) \in Nat
         /\ w = ExecutionWord(State(w), Inflight(w))
BY DEF State, Inflight, ExecutionWord

\* execution_word packs a state and a count that can be read back.
LEMMA UnpackedWord ==
  ASSUME NEW s \in 0..3, NEW n \in Nat
  PROVE  /\ ExecutionWord(s, n) \in Nat
         /\ State(ExecutionWord(s, n)) = s
         /\ Inflight(ExecutionWord(s, n)) = n
BY DEF State, Inflight, ExecutionWord

\* Adding EXECUTION_INFLIGHT_ONE counts one lease and keeps the state bits.
LEMMA AddedWord ==
  ASSUME NEW w \in Nat
  PROVE  /\ w + InflightOne \in Nat
         /\ State(w + InflightOne) = State(w)
         /\ Inflight(w + InflightOne) = Inflight(w) + 1
BY DEF State, Inflight, InflightOne

-----------------------------------------------------------------------------
(***************************************************************************)
(* The inductive invariant.  LeaseAccounting and VisibleAccepts are not    *)
(* inductive by themselves: they rest on which words are well formed, on   *)
(* who owns a record lock, and on the fact that a generation whose         *)
(* draining has begun can no longer be published (Sealed).                 *)
(***************************************************************************)
Committed == {"Active", "Disposing"}
DrainPCs == {"drain_load", "drain", "drain_notify"}

\* The program point agrees with the operation and its generations.
LocalsOK ==
  \A t \in Threads :
    /\ th[t].pc # "idle" => th[t].gen \in Gens
    /\ th[t].pc \in {"acquire", "holding", "release_load", "release"} =>
         th[t].op \in Kinds
    /\ th[t].pc = "count" => th[t].op = "service"
    /\ th[t].pc \in {"publish", "publish_switch"} => th[t].op = "publish"
    /\ th[t].pc \in {"close", "close_switch"} => th[t].op = "close"
    /\ th[t].pc \in {"cutover", "cutover_switch", "cutover_retire"} =>
         th[t].op = "cutover" /\ th[t].old \in Gens /\ th[t].old # th[t].gen
    /\ th[t].pc \in DrainPCs => th[t].op \in {"close", "cutover", "drain"}
    /\ th[t].pc \in {"register", "check", "armed", "wait"} => th[t].op = "drain"

\* A word is never in the reserved state, Drained exactly when it is empty
\* and no longer Accepting.
WordsOK ==
  \A g \in Gens :
    /\ State(word[g]) \in {Accepting, Draining, Drained}
    /\ State(word[g]) = Drained => Inflight(word[g]) = 0
    /\ State(word[g]) = Draining => Inflight(word[g]) # 0

\* Publication and close own the lock of their generation's record.
Locked(t) ==
  \/ th[t].pc \in {"publish", "publish_switch", "close", "close_switch",
                   "cutover", "cutover_switch"}
  \/ th[t].op = "close" /\ th[t].pc \in DrainPCs

LocksOK == \A t \in Threads : Locked(t) => lock[th[t].gen] = t

\* What a lifecycle operation knows of the Fibers it works on.
LifecycleOK ==
  /\ active \in Gens => fiber[active] = "Active"
  /\ \A t \in Threads :
       /\ th[t].pc \in {"publish", "publish_switch"} =>
            fiber[th[t].gen] = "Starting"
       /\ th[t].pc \in {"cutover", "cutover_switch"} =>
            fiber[th[t].gen] = "Staged" /\ fiber[th[t].old] \in Committed
       /\ th[t].pc = "cutover_retire" =>
            fiber[th[t].old] \in Committed /\ active # th[t].old
       /\ th[t].pc \in {"publish_switch", "cutover_switch"} =>
            ~retired[th[t].gen]

\* Generation g is hidden and cannot be published any more.
Closer(t, g) == th[t].gen = g /\ th[t].op = "close" /\ th[t].pc \in DrainPCs

Sealed(g) ==
  /\ active # g
  /\ fiber[g] \in Committed \/ \E t \in Threads : Closer(t, g)

SealedOK ==
  /\ \A g \in Gens : State(word[g]) # Accepting => Sealed(g)
  /\ \A t \in Threads : th[t].pc \in DrainPCs => Sealed(th[t].gen)

\* The program points at which a word was already seen to be not Accepting,
\* or to count the thread's own lease.
SeenOK ==
  \A t \in Threads :
    /\ th[t].pc \in {"drain_notify", "register", "check", "armed", "wait"} =>
         State(word[th[t].gen]) # Accepting
    /\ th[t].pc = "drain" /\ State(th[t].seen) # Accepting =>
         State(word[th[t].gen]) # Accepting
    /\ th[t].pc = "release" => /\ Inflight(th[t].seen) # 0
                               /\ State(th[t].seen) \in {Accepting, Draining}

DrainedOK == \A g \in drained : State(word[g]) = Drained

GateInv ==
  /\ TypeOK /\ LocalsOK /\ WordsOK /\ LeaseAccounting /\ LocksOK
  /\ LifecycleOK /\ SealedOK /\ SeenOK /\ DrainedOK

-----------------------------------------------------------------------------
(***************************************************************************)
(* How the locals change.  Others(t): no thread but t moves, except that a *)
(* notification may reach it.                                              *)
(***************************************************************************)
SameThread(u) ==
  /\ th'[u].pc = th[u].pc /\ th'[u].op = th[u].op /\ th'[u].gen = th[u].gen
  /\ th'[u].old = th[u].old /\ th'[u].seen = th[u].seen

Others(t) ==
  /\ th' \in [Threads -> Locals]
  /\ \A u \in Threads : u # t => SameThread(u)

\* Moving a thread to another program point keeps its locals well typed.
LEMMA MovedLocals ==
  ASSUME NEW r \in Locals, NEW p \in PCs, NEW n \in Nat
  PROVE  [r EXCEPT !.pc = p, !.seen = n] \in Locals
BY DEF Locals

\* A thread outside every gate operation is well typed.
LEMMA RestingIsLocal == Resting \in Locals
BY DEF Resting, Locals, PCs, Ops, Kinds

\* A step that assigns the locals of t leaves the other threads alone.
LEMMA ReplacedLocals ==
  ASSUME TypeOK, NEW t \in Threads, NEW r \in Locals,
         th' = [th EXCEPT ![t] = r]
  PROVE  Others(t) /\ th'[t] = r
BY DEF TypeOK, Others, SameThread

\* What Goto does to the locals of t.
LEMMA GotoFacts ==
  ASSUME TypeOK, NEW t \in Threads, NEW p \in PCs, Goto(t, p)
  PROVE  /\ Others(t)
         /\ th'[t].pc = p /\ th'[t].op = th[t].op /\ th'[t].gen = th[t].gen
         /\ th'[t].old = th[t].old /\ th'[t].seen = 0
  <1>1. th[t] \in Locals /\ 0 \in Nat
    BY DEF TypeOK
  <1>2. [th[t] EXCEPT !.pc = p, !.seen = 0] \in Locals
    BY <1>1, MovedLocals
  <1>3. Others(t) /\ th'[t] = [th[t] EXCEPT !.pc = p, !.seen = 0]
    BY <1>2, ReplacedLocals DEF Goto
  <1> QED BY <1>1, <1>3 DEF Locals

\* What loading the word does to the locals of t.
LEMMA LoadFacts ==
  ASSUME TypeOK, NEW t \in Threads, NEW p \in PCs, th[t].gen \in Gens,
         Load(t, p)
  PROVE  /\ Others(t)
         /\ th'[t].pc = p /\ th'[t].op = th[t].op /\ th'[t].gen = th[t].gen
         /\ th'[t].old = th[t].old /\ th'[t].seen = word[th[t].gen]
  <1>1. th[t] \in Locals /\ word[th[t].gen] \in Nat
    BY DEF TypeOK
  <1>2. [th[t] EXCEPT !.pc = p, !.seen = word[th[t].gen]] \in Locals
    BY <1>1, MovedLocals
  <1>3. /\ Others(t)
        /\ th'[t] = [th[t] EXCEPT !.pc = p, !.seen = word[th[t].gen]]
    BY <1>2, ReplacedLocals DEF Load
  <1> QED BY <1>1, <1>3 DEF Locals

\* What returning from a gate operation does to the locals of t.
LEMMA ReturnFacts ==
  ASSUME TypeOK, NEW t \in Threads, Return(t)
  PROVE  /\ Others(t)
         /\ th'[t].pc = "idle" /\ th'[t].op = "none"
  <1>1. Others(t) /\ th'[t] = Resting
    BY RestingIsLocal, ReplacedLocals DEF Return
  <1> QED BY <1>1 DEF Resting

\* What entering a gate operation does to the locals of t.
LEMMA EnterFacts ==
  ASSUME TypeOK, NEW t \in Threads, NEW p \in PCs, NEW o \in Ops,
         NEW g \in Gens, Enter(t, p, o, g)
  PROVE  /\ Others(t) /\ th[t].pc = "idle"
         /\ th'[t].pc = p /\ th'[t].op = o /\ th'[t].gen = g
  <1> DEFINE r == [Resting EXCEPT !.pc = p, !.op = o, !.gen = g]
  <1>1. r \in Locals /\ r.pc = p /\ r.op = o /\ r.gen = g
    BY DEF Resting, Locals, PCs, Ops, Kinds
  <1> HIDE DEF r
  <1>2. Others(t) /\ th'[t] = r
    <2>1. th' = [th EXCEPT ![t] = r]
      BY DEF Enter, r
    <2> QED BY <1>1, <2>1, ReplacedLocals
  <1> QED BY <1>1, <1>2 DEF Enter, At

\* notify_waiters moves no thread but its caller.
LEMMA NotifyFacts ==
  ASSUME TypeOK, NEW t \in Threads, NEW r \in Locals, NotifyWaiters(t, r)
  PROVE  Others(t) /\ th'[t] = r
BY DEF TypeOK, Others, SameThread, NotifyWaiters, Locals

\* Where begin_draining returns to: drain_until goes on with its loop, close
\* and cutover_from end.
LEMMA AfterDrainingFacts ==
  ASSUME TypeOK, NEW t \in Threads
  PROVE  /\ AfterDraining(t) \in Locals
         /\ th[t].op = "drain" =>
              /\ AfterDraining(t).pc = "register"
              /\ AfterDraining(t).op = "drain"
              /\ AfterDraining(t).gen = th[t].gen
         /\ th[t].op # "drain" =>
              /\ AfterDraining(t).pc = "idle"
              /\ AfterDraining(t).op = "none"
  <1>1. th[t] \in Locals /\ 0 \in Nat /\ "register" \in PCs
    BY DEF TypeOK, PCs
  <1>2. [th[t] EXCEPT !.pc = "register", !.seen = 0] \in Locals
    BY <1>1, MovedLocals
  <1> QED BY <1>1, <1>2, RestingIsLocal DEF AfterDraining, Locals, Resting

-----------------------------------------------------------------------------
(***************************************************************************)
(* How the sets of holders change, and what that does to their sizes.      *)
(***************************************************************************)
Holds(t, g) == th[t].gen = g /\ th[t].pc \in HoldingPCs
HoldsService(t, g) ==
  th[t].gen = g /\ th[t].pc = "holding" /\ th[t].op = "service"

\* Finitely many threads hold leases, so their number is a natural.
LEMMA HoldersFinite ==
  ASSUME NEW g \in Gens
  PROVE  /\ IsFiniteSet(Holders(g))
         /\ IsFiniteSet(ServiceHolders(g))
         /\ Cardinality(Holders(g)) \in Nat
         /\ Cardinality(ServiceHolders(g)) \in Nat
  <1>1. Holders(g) \subseteq Threads /\ ServiceHolders(g) \subseteq Threads
    BY DEF Holders, ServiceHolders
  <1> QED BY <1>1, GateAssumption, FS_Subset, FS_CardinalityType

\* A step of t that leaves what t holds alone leaves every set alone.
LEMMA HoldersStay ==
  ASSUME NEW t \in Threads, Others(t),
         \A g \in Gens : Holds(t, g)' <=> Holds(t, g)
  PROVE  \A g \in Gens : Holders(g)' = Holders(g)
BY DEF Others, SameThread, Holders, Holds

\* The same for the leases that count as service handles.
LEMMA ServiceHoldersStay ==
  ASSUME NEW t \in Threads, Others(t),
         \A g \in Gens : HoldsService(t, g)' <=> HoldsService(t, g)
  PROVE  \A g \in Gens : ServiceHolders(g)' = ServiceHolders(g)
BY DEF Others, SameThread, Holders, ServiceHolders, HoldsService, HoldingPCs

\* A thread that starts to hold a lease of g adds one to the holders of g.
LEMMA HoldersJoin ==
  ASSUME NEW t \in Threads, Others(t), NEW g \in Gens,
         Holds(t, g)', \A h \in Gens : ~Holds(t, h)
  PROVE  /\ Holders(g)' = Holders(g) \cup {t}
         /\ \A h \in Gens : h # g => Holders(h)' = Holders(h)
         /\ Cardinality(Holders(g)') = Cardinality(Holders(g)) + 1
  <1>1. /\ Holders(g)' = Holders(g) \cup {t}
        /\ \A h \in Gens : h # g => Holders(h)' = Holders(h)
        /\ t \notin Holders(g)
    BY DEF Others, SameThread, Holders, Holds
  <1> QED BY <1>1, HoldersFinite, FS_AddElement

\* A thread that gives its lease of g back takes one from the holders of g.
LEMMA HoldersLeave ==
  ASSUME NEW t \in Threads, Others(t), NEW g \in Gens,
         Holds(t, g), \A h \in Gens : ~Holds(t, h)'
  PROVE  /\ Holders(g)' = Holders(g) \ {t} /\ t \in Holders(g)
         /\ \A h \in Gens : h # g => Holders(h)' = Holders(h)
         /\ Cardinality(Holders(g)') = Cardinality(Holders(g)) - 1
  <1>1. /\ Holders(g)' = Holders(g) \ {t} /\ t \in Holders(g)
        /\ \A h \in Gens : h # g => Holders(h)' = Holders(h)
    BY DEF Others, SameThread, Holders, Holds
  <1> QED BY <1>1, HoldersFinite, FS_RemoveElement

\* Counting a service handle adds one service holder.
LEMMA ServiceHoldersJoin ==
  ASSUME NEW t \in Threads, Others(t), NEW g \in Gens,
         HoldsService(t, g)', \A h \in Gens : ~HoldsService(t, h)
  PROVE  /\ \A h \in Gens : h # g => ServiceHolders(h)' = ServiceHolders(h)
         /\ Cardinality(ServiceHolders(g)') = Cardinality(ServiceHolders(g)) + 1
  <1>1. /\ ServiceHolders(g)' = ServiceHolders(g) \cup {t}
        /\ \A h \in Gens : h # g => ServiceHolders(h)' = ServiceHolders(h)
        /\ t \notin ServiceHolders(g)
    BY DEF Others, SameThread, Holders, ServiceHolders, HoldsService, HoldingPCs
  <1> QED BY <1>1, HoldersFinite, FS_AddElement

\* Uncounting a service handle takes one service holder away.
LEMMA ServiceHoldersLeave ==
  ASSUME NEW t \in Threads, Others(t), NEW g \in Gens,
         HoldsService(t, g), \A h \in Gens : ~HoldsService(t, h)'
  PROVE  /\ \A h \in Gens : h # g => ServiceHolders(h)' = ServiceHolders(h)
         /\ Cardinality(ServiceHolders(g)') = Cardinality(ServiceHolders(g)) - 1
         /\ Cardinality(ServiceHolders(g)) # 0
  <1>1. /\ ServiceHolders(g)' = ServiceHolders(g) \ {t}
        /\ t \in ServiceHolders(g)
        /\ \A h \in Gens : h # g => ServiceHolders(h)' = ServiceHolders(h)
    BY DEF Others, SameThread, Holders, ServiceHolders, HoldsService, HoldingPCs
  <1> QED BY <1>1, HoldersFinite, FS_RemoveElement, FS_EmptySet

\* While a thread holds a lease of g the in-flight count of g is not zero:
\* the checked_sub of drop_inflight cannot fail.
LEMMA HolderCounts ==
  ASSUME LeaseAccounting, NEW t \in Threads, NEW g \in Gens, Holds(t, g)
  PROVE  Inflight(word[g]) # 0
  <1>1. t \in Holders(g)
    BY DEF Holds, Holders
  <1>2. Cardinality(Holders(g)) # 0
    BY <1>1, HoldersFinite, FS_EmptySet
  <1> QED BY <1>2 DEF LeaseAccounting


-----------------------------------------------------------------------------
(***************************************************************************)
(* A step that changes nothing but the locals of t, neither what t holds   *)
(* nor the locks and seals it stands for, preserves the invariant if the   *)
(* new program point of t is justified.                                    *)
(***************************************************************************)
LEMMA QuietStep ==
  ASSUME GateInv, NEW t \in Threads, Others(t),
         UNCHANGED <<active, retired, word, service_handles, lock, fiber, drained>>,
         \A g \in Gens : /\ Holds(t, g)' <=> Holds(t, g)
                         /\ HoldsService(t, g)' <=> HoldsService(t, g)
                         /\ Closer(t, g) => Closer(t, g)',
         th'[t].pc # "idle" => th'[t].gen \in Gens,
         th'[t].pc \in {"acquire", "holding", "release_load", "release"} =>
           th'[t].op \in Kinds,
         th'[t].pc \in DrainPCs => /\ th'[t].op \in {"close", "cutover", "drain"}
                                   /\ Sealed(th'[t].gen)
                                   /\ th'[t].op = "close" => lock[th'[t].gen] = t,
         th'[t].pc \in {"register", "check", "armed", "wait"} =>
           th'[t].op = "drain",
         th'[t].pc \in {"drain_notify", "register", "check", "armed", "wait"} =>
           State(word[th'[t].gen]) # Accepting,
         th'[t].pc = "drain" => th'[t].seen = word[th'[t].gen],
         th'[t].pc = "release" => /\ Inflight(th'[t].seen) # 0
                                  /\ State(th'[t].seen) \in {Accepting, Draining},
         th'[t].pc \notin {"count", "publish", "publish_switch", "close",
                           "close_switch", "cutover", "cutover_switch",
                           "cutover_retire"}
  PROVE  GateInv'
  <1>1. TypeOK'
    BY DEF GateInv, TypeOK, Others
  <1>2. LocalsOK'
    BY DEF GateInv, LocalsOK, Others, SameThread, DrainPCs
  <1>3. WordsOK' /\ DrainedOK'
    BY DEF GateInv, WordsOK, DrainedOK
  <1>4. LeaseAccounting'
    BY HoldersStay, ServiceHoldersStay DEF GateInv, LeaseAccounting
  <1>5. LocksOK'
    BY DEF GateInv, LocksOK, Locked, Others, SameThread, DrainPCs
  <1>6. LifecycleOK'
    BY DEF GateInv, LifecycleOK, Others, SameThread
  <1>7. \A g \in Gens : Sealed(g) => Sealed(g)'
    BY DEF Sealed, Closer, Others, SameThread
  <1>8. SealedOK'
    BY <1>7 DEF GateInv, SealedOK, LocalsOK, Others, SameThread, DrainPCs
  <1>9. SeenOK'
    BY DEF GateInv, SeenOK, Others, SameThread
  <1> QED BY <1>1, <1>2, <1>3, <1>4, <1>5, <1>6, <1>8, <1>9 DEF GateInv


\* Loads, failed compare-exchanges, refusals, notifications and the steps of
\* the drain_until loop are quiet.
LEMMA QuietActions ==
  ASSUME GateInv, NEW t \in Threads,
         \/ \E g \in Gens : \/ \E k \in Kinds : AcquireLoad(t, g, k)
                            \/ DrainUntil(t, g)
         \/ AcquireRefuse(t) \/ ReleaseLoad(t) \/ CasRetry(t)
         \/ ReleaseNotify(t) \/ DrainLoad(t) \/ Register(t) \/ CheckBusy(t)
         \/ Await(t) \/ Wake(t) \/ Timeout(t)
  PROVE  GateInv'
  <1> USE DEF At, HoldingPCs, DrainPCs, Kinds, Holds, HoldsService, Closer
  <1>0. TypeOK /\ LocalsOK /\ th[t] \in Locals
    BY DEF GateInv, TypeOK
  <1>1. ASSUME NEW g \in Gens, NEW k \in Kinds, AcquireLoad(t, g, k)
        PROVE  GateInv'
    <2> DEFINE r == [Resting EXCEPT !.pc = "acquire", !.op = k, !.gen = g,
                                    !.seen = word[g]]
    <2>1. /\ r \in Locals /\ r.pc = "acquire" /\ r.op = k /\ r.gen = g
      BY <1>0 DEF TypeOK, Resting, Locals, PCs, Ops
    <2>2. th' = [th EXCEPT ![t] = r] /\ th[t].pc = "idle"
      BY <1>1 DEF AcquireLoad
    <2> HIDE DEF r
    <2>3. Others(t) /\ th'[t] = r
      BY <1>0, <2>1, <2>2, ReplacedLocals
    <2> QED BY <1>1, <2>1, <2>2, <2>3, QuietStep DEF AcquireLoad
  <1>2. ASSUME NEW g \in Gens, DrainUntil(t, g) PROVE GateInv'
    <2>1. /\ Others(t) /\ th[t].pc = "idle" /\ th'[t].pc = "drain_load"
          /\ th'[t].op = "drain" /\ th'[t].gen = g
      BY <1>0, <1>2, EnterFacts DEF DrainUntil, PCs, Ops
    <2>2. Sealed(g)
      BY <1>2 DEF DrainUntil, GateInv, LifecycleOK, Sealed, Committed
    <2> QED BY <1>2, <2>1, <2>2, QuietStep DEF DrainUntil
  <1>3. CASE AcquireRefuse(t) \/ Timeout(t)
    <2>1. /\ Others(t) /\ th[t].pc \in {"acquire", "wait"}
          /\ th'[t].pc = "idle" /\ th'[t].op = "none"
      BY <1>0, <1>3, ReturnFacts DEF AcquireRefuse, Timeout
    <2> QED BY <1>3, <2>1, QuietStep DEF AcquireRefuse, Timeout
  <1>4. CASE ReleaseLoad(t)
    <2>1. th[t].pc = "release_load" /\ th[t].gen \in Gens /\ th[t].op \in Kinds
      BY <1>0, <1>4 DEF ReleaseLoad, LocalsOK
    <2>2. /\ Others(t) /\ th'[t].pc = "release" /\ th'[t].op = th[t].op
          /\ th'[t].gen = th[t].gen /\ th'[t].seen = word[th[t].gen]
      BY <1>0, <1>4, <2>1, LoadFacts DEF ReleaseLoad, PCs
    <2>3. /\ Inflight(word[th[t].gen]) # 0
          /\ State(word[th[t].gen]) \in {Accepting, Draining}
      BY <2>1, HolderCounts DEF GateInv, WordsOK
    <2> QED BY <1>4, <2>1, <2>2, <2>3, QuietStep DEF ReleaseLoad
  <1>5. CASE CasRetry(t)
    <2>1. /\ th[t].pc \in {"acquire", "release", "drain"} /\ th[t].gen \in Gens
          /\ th[t].pc \in PCs
      BY <1>0, <1>5 DEF CasRetry, LocalsOK, PCs
    <2>2. /\ Others(t) /\ th'[t].pc = th[t].pc /\ th'[t].op = th[t].op
          /\ th'[t].gen = th[t].gen /\ th'[t].seen = word[th[t].gen]
      BY <1>0, <1>5, <2>1, LoadFacts DEF CasRetry
    <2>3. th[t].pc = "release" =>
            /\ Inflight(word[th[t].gen]) # 0
            /\ State(word[th[t].gen]) \in {Accepting, Draining}
      BY <2>1, HolderCounts DEF GateInv, WordsOK
    <2>4. th[t].pc = "drain" =>
            /\ th[t].op \in {"close", "cutover", "drain"}
            /\ Sealed(th[t].gen)
            /\ th[t].op = "close" => lock[th[t].gen] = t
      BY <1>0 DEF GateInv, LocalsOK, SealedOK, LocksOK, Locked
    <2>5. th[t].pc \in {"acquire", "release"} => th[t].op \in Kinds
      BY <1>0 DEF LocalsOK
    <2> QED BY <1>5, <2>1, <2>2, <2>3, <2>4, <2>5, QuietStep DEF CasRetry
  <1>6. CASE ReleaseNotify(t)
    <2>1. Others(t) /\ th'[t] = Resting /\ th[t].pc = "release_notify"
      BY <1>0, <1>6, RestingIsLocal, NotifyFacts DEF ReleaseNotify
    <2> QED BY <1>6, <2>1, QuietStep DEF ReleaseNotify, Resting
  <1>7. CASE DrainLoad(t)
    <2>1. /\ th[t].pc = "drain_load" /\ th[t].gen \in Gens
          /\ th[t].op \in {"close", "cutover", "drain"}
          /\ Sealed(th[t].gen)
          /\ th[t].op = "close" => lock[th[t].gen] = t
      BY <1>0, <1>7 DEF DrainLoad, GateInv, LocalsOK, SealedOK, LocksOK, Locked
    <2>2. /\ Others(t) /\ th'[t].pc = "drain" /\ th'[t].op = th[t].op
          /\ th'[t].gen = th[t].gen /\ th'[t].seen = word[th[t].gen]
      BY <1>0, <1>7, <2>1, LoadFacts DEF DrainLoad, PCs
    <2> QED BY <1>7, <2>1, <2>2, QuietStep DEF DrainLoad
  <1>8. CASE Register(t) \/ CheckBusy(t) \/ Await(t)
    <2>1. /\ th[t].pc \in {"register", "check", "armed"}
          /\ th[t].gen \in Gens /\ th[t].op = "drain"
          /\ State(word[th[t].gen]) # Accepting
      BY <1>0, <1>8 DEF Register, CheckBusy, Await, GateInv, LocalsOK, SeenOK
    <2>2. /\ Others(t) /\ th'[t].pc \in {"check", "armed", "wait"}
          /\ th'[t].op = th[t].op /\ th'[t].gen = th[t].gen
      BY <1>0, <1>8, GotoFacts DEF Register, CheckBusy, Await, PCs
    <2> QED BY <1>8, <2>1, <2>2, QuietStep DEF Register, CheckBusy, Await
  <1>9. CASE Wake(t)
    <2> DEFINE r == [th[t] EXCEPT !.pc = "register", !.notified = FALSE]
    <2>1. /\ th[t].pc = "wait" /\ th[t].gen \in Gens /\ th[t].op = "drain"
          /\ State(word[th[t].gen]) # Accepting
      BY <1>0, <1>9 DEF Wake, GateInv, LocalsOK, SeenOK
    <2>2. r \in Locals /\ r.pc = "register" /\ r.op = "drain" /\ r.gen = th[t].gen
      BY <1>0, <2>1 DEF Locals, PCs
    <2>3. th' = [th EXCEPT ![t] = r]
      BY <1>9 DEF Wake
    <2> HIDE DEF r
    <2>4. Others(t) /\ th'[t] = r
      BY <1>0, <2>2, <2>3, ReplacedLocals
    <2> QED BY <1>9, <2>1, <2>2, <2>4, QuietStep DEF Wake
  <1> QED BY <1>1, <1>2, <1>3, <1>4, <1>5, <1>6, <1>7, <1>8, <1>9


\* The compare-exchange of try_acquire_kind preserves the invariant.
LEMMA AcquireCasStep ==
  ASSUME GateInv, NEW t \in Threads, AcquireCas(t)
  PROVE  GateInv'
  <1> USE DEF HoldingPCs, DrainPCs, Kinds, Accepting, Draining, Drained
  <1>0. /\ TypeOK /\ LocalsOK /\ WordsOK /\ LeaseAccounting /\ LocksOK
        /\ LifecycleOK /\ SealedOK /\ SeenOK /\ DrainedOK
    BY DEF GateInv
  <1>g. PICK g \in Gens : g = th[t].gen
    BY <1>0 DEF AcquireCas, At, LocalsOK
  <1>1. /\ th[t].pc = "acquire" /\ g \in Gens /\ th[t].op \in Kinds
        /\ word[g] = th[t].seen /\ word[g] \in Nat
        /\ State(word[g]) = Accepting
        /\ word' = [word EXCEPT ![g] = word[g] + InflightOne]
        /\ UNCHANGED <<active, retired, service_handles, lock, fiber, drained>>
    BY <1>0, <1>g DEF AcquireCas, At, MayAcquire, LocalsOK, TypeOK
  <1>2. /\ Others(t) /\ th'[t].pc \in {"count", "holding"}
        /\ th'[t].pc = IF th[t].op = "service" THEN "count" ELSE "holding"
        /\ th'[t].op = th[t].op /\ th'[t].gen = g
    BY <1>0, <1>g, GotoFacts DEF AcquireCas, PCs
  <1>3. /\ word' \in [Gens -> Nat]
        /\ State(word'[g]) = Accepting
        /\ Inflight(word'[g]) = Inflight(word[g]) + 1
        /\ \A h \in Gens : h # g => word'[h] = word[h]
    BY <1>0, <1>1, AddedWord DEF TypeOK
  <1>4. \A h \in Gens : State(word'[h]) = State(word[h])
    BY <1>1, <1>3
  <1>5. TypeOK'
    BY <1>0, <1>1, <1>2, <1>3 DEF TypeOK, Others
  <1>6. LocalsOK'
    BY <1>0, <1>1, <1>2 DEF LocalsOK, Others, SameThread
  <1>7. WordsOK' /\ DrainedOK'
    BY <1>0, <1>1, <1>3, <1>4 DEF WordsOK, DrainedOK, TypeOK
  <1>8. LeaseAccounting'
    <2>1. /\ Cardinality(Holders(g)') = Cardinality(Holders(g)) + 1
          /\ \A h \in Gens : h # g => Holders(h)' = Holders(h)
      BY <1>g, <1>1, <1>2, HoldersJoin DEF Holds
    <2>2. \A h \in Gens : ServiceHolders(h)' = ServiceHolders(h)
      BY <1>1, <1>2, ServiceHoldersStay DEF HoldsService
    <2> QED BY <1>0, <1>1, <1>3, <2>1, <2>2 DEF LeaseAccounting
  <1>9. LocksOK' /\ LifecycleOK'
    BY <1>0, <1>1, <1>2 DEF LocksOK, Locked, LifecycleOK, Others, SameThread
  <1>10. \A h \in Gens : Sealed(h) => Sealed(h)'
    BY <1>1, <1>2 DEF Sealed, Closer, Others, SameThread
  <1>11. SealedOK'
    BY <1>0, <1>2, <1>4, <1>10 DEF SealedOK, LocalsOK, Others, SameThread
  <1>12. SeenOK'
    BY <1>0, <1>2, <1>4 DEF SeenOK, LocalsOK, Others, SameThread
  <1> QED BY <1>5, <1>6, <1>7, <1>8, <1>9, <1>11, <1>12 DEF GateInv

\* The compare-exchange of drop_inflight preserves the invariant.
LEMMA ReleaseCasStep ==
  ASSUME GateInv, NEW t \in Threads, ReleaseCas(t)
  PROVE  GateInv'
  <1> USE DEF HoldingPCs, DrainPCs, Kinds, Accepting, Draining, Drained
  <1>0. /\ TypeOK /\ LocalsOK /\ WordsOK /\ LeaseAccounting /\ LocksOK
        /\ LifecycleOK /\ SealedOK /\ SeenOK /\ DrainedOK
    BY DEF GateInv
  <1>g. PICK g \in Gens : g = th[t].gen
    BY <1>0 DEF ReleaseCas, At, LocalsOK
  <1>s. PICK s, n : s = ReleasedState(word[g]) /\ n = Inflight(word[g])
    OBVIOUS
  <1>1. /\ th[t].pc = "release" /\ g \in Gens /\ th[t].op \in Kinds
        /\ word[g] = th[t].seen /\ word[g] \in Nat
        /\ word' = [word EXCEPT ![g] = ExecutionWord(s, n - 1)]
        /\ UNCHANGED <<active, retired, service_handles, lock, fiber, drained>>
    BY <1>0, <1>g, <1>s DEF ReleaseCas, At, LocalsOK, TypeOK
  <1>2. /\ Others(t) /\ th'[t].pc \in {"idle", "release_notify"}
        /\ th'[t].pc = "release_notify" => th'[t].gen \in Gens
    <2>1. CASE ReleasedState(th[t].seen) = Drained
      BY <1>0, <1>g, <1>1, <2>1, GotoFacts DEF ReleaseCas, PCs
    <2>2. CASE ReleasedState(th[t].seen) # Drained
      BY <1>0, <2>2, ReturnFacts DEF ReleaseCas
    <2> QED BY <2>1, <2>2
  <1>3. /\ n \in Nat /\ n # 0 /\ State(word[g]) \in {Accepting, Draining}
    BY <1>0, <1>g, <1>s, <1>1, HolderCounts, PackedWord DEF Holds, WordsOK
  <1>4. /\ s \in 0..3 /\ n - 1 \in Nat
        /\ s = State(word[g]) \/ (State(word[g]) = Draining /\ s = Drained)
        /\ s = Drained <=> State(word[g]) = Draining /\ n = 1
    BY <1>s, <1>3 DEF ReleasedState
  <1>5. /\ word' \in [Gens -> Nat]
        /\ State(word'[g]) = s /\ Inflight(word'[g]) = n - 1
        /\ \A h \in Gens : h # g => word'[h] = word[h]
    BY <1>0, <1>1, <1>4, UnpackedWord DEF TypeOK
  <1>6. \A h \in Gens : State(word[h]) # Accepting <=> State(word'[h]) # Accepting
    BY <1>1, <1>3, <1>4, <1>5
  <1>7. TypeOK'
    BY <1>0, <1>1, <1>2, <1>5 DEF TypeOK, Others
  <1>8. LocalsOK'
    BY <1>0, <1>1, <1>2 DEF LocalsOK, Others, SameThread
  <1>9. WordsOK'
    BY <1>0, <1>s, <1>3, <1>4, <1>5 DEF WordsOK
  <1>10. DrainedOK'
    BY <1>0, <1>1, <1>3, <1>5 DEF DrainedOK, TypeOK
  <1>11. LeaseAccounting'
    <2>1. /\ Cardinality(Holders(g)') = Cardinality(Holders(g)) - 1
          /\ \A h \in Gens : h # g => Holders(h)' = Holders(h)
      BY <1>g, <1>1, <1>2, HoldersLeave DEF Holds
    <2>2. \A h \in Gens : ServiceHolders(h)' = ServiceHolders(h)
      BY <1>1, <1>2, ServiceHoldersStay DEF HoldsService
    <2> QED BY <1>0, <1>s, <1>1, <1>5, <2>1, <2>2 DEF LeaseAccounting
  <1>12. LocksOK' /\ LifecycleOK'
    BY <1>0, <1>1, <1>2 DEF LocksOK, Locked, LifecycleOK, Others, SameThread
  <1>13. \A h \in Gens : Sealed(h) => Sealed(h)'
    BY <1>1, <1>2 DEF Sealed, Closer, Others, SameThread
  <1>14. SealedOK'
    BY <1>0, <1>2, <1>6, <1>13 DEF SealedOK, LocalsOK, Others, SameThread
  <1>15. SeenOK'
    BY <1>0, <1>2, <1>6 DEF SeenOK, LocalsOK, Others, SameThread
  <1> QED BY <1>7, <1>8, <1>9, <1>10, <1>11, <1>12, <1>14, <1>15 DEF GateInv

-----------------------------------------------------------------------------
\* Counting a service handle, and giving it back on drop.
LEMMA ServiceStep ==
  ASSUME GateInv, NEW t \in Threads, CountService(t) \/ DropLease(t)
  PROVE  GateInv'
  <1> USE DEF HoldingPCs, DrainPCs, Kinds
  <1>0. /\ TypeOK /\ LocalsOK /\ WordsOK /\ LeaseAccounting /\ LocksOK
        /\ LifecycleOK /\ SealedOK /\ SeenOK /\ DrainedOK
    BY DEF GateInv
  <1>g. PICK g \in Gens : g = th[t].gen
    BY <1>0 DEF CountService, DropLease, At, LocalsOK
  <1>1. /\ th[t].pc \in {"count", "holding"} /\ th[t].op \in Kinds
        /\ th[t].pc = "count" => th[t].op = "service"
        /\ UNCHANGED <<active, retired, word, lock, fiber, drained>>
    BY <1>0, <1>g DEF CountService, DropLease, At, LocalsOK
  <1>2. /\ Others(t)
        /\ th'[t].pc = IF th[t].pc = "count" THEN "holding" ELSE "release_load"
        /\ th'[t].op = th[t].op /\ th'[t].gen = g
    BY <1>0, <1>g, GotoFacts DEF CountService, DropLease, PCs, At
  <1>3. \A h \in Gens : Holders(h)' = Holders(h)
    BY <1>g, <1>1, <1>2, HoldersStay DEF Holds
  <1>4. /\ service_handles' \in [Gens -> Nat]
        /\ \A h \in Gens : service_handles'[h] = Cardinality(ServiceHolders(h)')
    <2>1. \A h \in Gens : /\ service_handles[h] = Cardinality(ServiceHolders(h))
                          /\ service_handles[h] \in Nat
      BY <1>0 DEF LeaseAccounting, TypeOK
    <2>2. CASE th[t].pc = "count"
      <3>1. /\ \A h \in Gens : h # g => ServiceHolders(h)' = ServiceHolders(h)
            /\ Cardinality(ServiceHolders(g)') = Cardinality(ServiceHolders(g)) + 1
        BY <1>g, <1>1, <1>2, <2>2, ServiceHoldersJoin DEF HoldsService
      <3>2. service_handles' = [service_handles EXCEPT ![g] = @ + 1]
        BY <1>g, <2>2 DEF CountService, DropLease, At
      <3> QED BY <1>0, <2>1, <3>1, <3>2 DEF TypeOK
    <2>3. CASE th[t].pc = "holding" /\ th[t].op = "service"
      <3>1. /\ \A h \in Gens : h # g => ServiceHolders(h)' = ServiceHolders(h)
            /\ Cardinality(ServiceHolders(g)') = Cardinality(ServiceHolders(g)) - 1
            /\ Cardinality(ServiceHolders(g)) # 0
        BY <1>g, <1>1, <1>2, <2>3, ServiceHoldersLeave DEF HoldsService
      <3>2. service_handles' = [service_handles EXCEPT ![g] = @ - 1]
        BY <1>g, <2>3 DEF CountService, DropLease, At
      <3> QED BY <1>0, <2>1, <3>1, <3>2 DEF TypeOK
    <2>4. CASE th[t].pc = "holding" /\ th[t].op # "service"
      <3>1. \A h \in Gens : ServiceHolders(h)' = ServiceHolders(h)
        BY <1>g, <1>1, <1>2, <2>4, ServiceHoldersStay DEF HoldsService
      <3>2. service_handles' = service_handles
        BY <2>4 DEF CountService, DropLease, At
      <3> QED BY <1>0, <2>1, <3>1, <3>2 DEF TypeOK
    <2> QED BY <1>1, <2>2, <2>3, <2>4
  <1>5. TypeOK'
    BY <1>0, <1>1, <1>2, <1>4 DEF TypeOK, Others
  <1>6. LocalsOK'
    BY <1>0, <1>1, <1>2 DEF LocalsOK, Others, SameThread
  <1>7. WordsOK' /\ DrainedOK'
    BY <1>0, <1>1 DEF WordsOK, DrainedOK
  <1>8. LeaseAccounting'
    BY <1>0, <1>1, <1>3, <1>4 DEF LeaseAccounting
  <1>9. LocksOK' /\ LifecycleOK'
    BY <1>0, <1>1, <1>2 DEF LocksOK, Locked, LifecycleOK, Others, SameThread
  <1>10. \A h \in Gens : Sealed(h) => Sealed(h)'
    BY <1>1, <1>2 DEF Sealed, Closer, Others, SameThread
  <1>11. SealedOK'
    BY <1>0, <1>1, <1>2, <1>10 DEF SealedOK, LocalsOK, Others, SameThread
  <1>12. SeenOK'
    BY <1>0, <1>1, <1>2 DEF SeenOK, LocalsOK, Others, SameThread
  <1> QED BY <1>5, <1>6, <1>7, <1>8, <1>9, <1>11, <1>12 DEF GateInv

\* Two threads never own the same record.
LEMMA OneOwner ==
  ASSUME LocksOK, NEW t \in Threads, NEW u \in Threads,
         Locked(t), Locked(u), th[t].gen = th[u].gen
  PROVE  t = u
BY DEF LocksOK

\* begin_draining returns to close, cutover_from or drain_until.
LEMMA DrainReturns ==
  ASSUME GateInv, NEW t \in Threads, NEW g \in Gens, g = th[t].gen,
         th[t].pc \in {"drain", "drain_notify"},
         Others(t), th'[t] = AfterDraining(t), BeginDrainingReturns(t),
         word' \in [Gens -> Nat], WordsOK',
         \A h \in Gens : /\ Inflight(word'[h]) = Inflight(word[h])
                         /\ State(word[h]) # Accepting =>
                              State(word'[h]) = State(word[h])
                         /\ h # g => word'[h] = word[h],
         State(word'[g]) # Accepting
  PROVE  GateInv'
  <1> USE DEF DrainPCs
  <1>0. /\ TypeOK /\ LocalsOK /\ WordsOK /\ LeaseAccounting /\ LocksOK
        /\ LifecycleOK /\ SealedOK /\ SeenOK /\ DrainedOK
    BY DEF GateInv
  <1>1. /\ th[t].op \in {"close", "cutover", "drain"}
        /\ Sealed(g)
        /\ th[t].op = "close" => Locked(t)
    BY <1>0 DEF LocalsOK, SealedOK, Locked
  <1>2. /\ th[t].op = "drain" =>
             th'[t].pc = "register" /\ th'[t].op = "drain" /\ th'[t].gen = g
        /\ th[t].op # "drain" => th'[t].pc = "idle" /\ th'[t].op = "none"
        /\ th'[t].pc \in {"register", "idle"}
    BY <1>0, AfterDrainingFacts
  <1>3. /\ UNCHANGED <<active, retired, service_handles, drained>>
        /\ lock' = [h \in Gens |-> IF lock[h] = t THEN NONE ELSE lock[h]]
        /\ fiber' = IF th[t].op = "close"
                      THEN [fiber EXCEPT ![g] = "Disposing"] ELSE fiber
    BY DEF BeginDrainingReturns, Unlock
  <1>4. TypeOK'
    BY <1>0, <1>3 DEF TypeOK, Others, FiberStates
  <1>5. LocalsOK'
    BY <1>0, <1>2 DEF LocalsOK, Others, SameThread
  <1>6. LeaseAccounting'
    <2>1. \A h \in Gens : Holders(h)' = Holders(h)
      BY <1>2, HoldersStay DEF Holds, HoldingPCs
    <2>2. \A h \in Gens : ServiceHolders(h)' = ServiceHolders(h)
      BY <1>2, ServiceHoldersStay DEF HoldsService
    <2> QED BY <1>0, <1>3, <2>1, <2>2 DEF LeaseAccounting
  <1>7. LocksOK'
    BY <1>0, <1>2, <1>3 DEF LocksOK, Locked, LocalsOK, Others, SameThread
  <1>8. /\ \A h \in Gens : fiber[h] \in Committed => fiber'[h] \in Committed
        /\ \A h \in Gens : h # g => fiber'[h] = fiber[h]
        /\ th[t].op # "close" => fiber' = fiber
        /\ th[t].op = "close" => fiber'[g] \in Committed
    BY <1>0, <1>3 DEF TypeOK, Committed
  <1>9. LifecycleOK'
    <2>1. active' \in Gens => fiber'[active'] = "Active"
      BY <1>0, <1>1, <1>3, <1>8 DEF LifecycleOK, Sealed
    <2>2. ASSUME NEW u \in Threads, u # t,
                 th[u].pc \in {"publish", "publish_switch", "cutover",
                               "cutover_switch"}
          PROVE  fiber'[th[u].gen] = fiber[th[u].gen]
      BY <1>0, <1>1, <1>8, <2>2, OneOwner DEF Locked, LocalsOK
    <2> QED BY <1>0, <1>2, <1>3, <1>8, <2>1, <2>2
            DEF LifecycleOK, LocalsOK, Others, SameThread
  <1>10. \A h \in Gens : Sealed(h) => Sealed(h)'
    BY <1>3, <1>8 DEF Sealed, Closer, Others, SameThread
  <1>11. SealedOK'
    BY <1>0, <1>1, <1>2, <1>10 DEF SealedOK, LocalsOK, Others, SameThread
  <1>12. SeenOK'
    BY <1>0, <1>2 DEF SeenOK, LocalsOK, Others, SameThread
  <1>13. DrainedOK'
    BY <1>0, <1>3 DEF DrainedOK, TypeOK, Drained, Accepting
  <1> QED BY <1>4, <1>5, <1>6, <1>7, <1>9, <1>11, <1>12, <1>13 DEF GateInv

\* begin_draining on a word that already drains, and the notification after
\* an empty drain, preserve the invariant.
LEMMA DrainAlreadyStep ==
  ASSUME GateInv, NEW t \in Threads, DrainAlready(t) \/ DrainNotify(t)
  PROVE  GateInv'
  <1>0. TypeOK /\ LocalsOK /\ WordsOK /\ SeenOK
    BY DEF GateInv
  <1>g. PICK g \in Gens : g = th[t].gen
    BY <1>0 DEF DrainAlready, DrainNotify, At, LocalsOK
  <1>1. /\ word' = word /\ BeginDrainingReturns(t)
        /\ th[t].pc \in {"drain", "drain_notify"}
    BY DEF DrainAlready, DrainNotify, At
  <1>2. Others(t) /\ th'[t] = AfterDraining(t)
    BY <1>0, AfterDrainingFacts, ReplacedLocals, NotifyFacts
       DEF DrainAlready, DrainNotify
  <1>3. State(word[g]) # Accepting
    BY <1>0, <1>g DEF DrainAlready, DrainNotify, At, SeenOK
  <1> QED BY <1>0, <1>g, <1>1, <1>2, <1>3, DrainReturns DEF WordsOK, TypeOK

\* begin_draining with leases in flight preserves the invariant.
LEMMA DrainCasBusyStep ==
  ASSUME GateInv, NEW t \in Threads, DrainCasBusy(t)
  PROVE  GateInv'
  <1> USE DEF Accepting, Draining, Drained
  <1>0. TypeOK /\ LocalsOK /\ WordsOK /\ SeenOK
    BY DEF GateInv
  <1>g. PICK g \in Gens : g = th[t].gen
    BY <1>0 DEF DrainCasBusy, At, LocalsOK
  <1>n. PICK n : n = Inflight(word[g])
    OBVIOUS
  <1>1. /\ word' = [word EXCEPT ![g] = ExecutionWord(Draining, n)]
        /\ BeginDrainingReturns(t) /\ th[t].pc = "drain"
        /\ State(word[g]) = Accepting /\ n # 0
    BY <1>g, <1>n DEF DrainCasBusy, At
  <1>2. Others(t) /\ th'[t] = AfterDraining(t)
    BY <1>0, AfterDrainingFacts, ReplacedLocals DEF DrainCasBusy
  <1>3. n \in Nat
    BY <1>0, <1>n, PackedWord DEF TypeOK
  <1>4. /\ word' \in [Gens -> Nat] /\ State(word'[g]) = Draining
        /\ Inflight(word'[g]) = n
        /\ \A h \in Gens : h # g => word'[h] = word[h]
    BY <1>0, <1>1, <1>3, UnpackedWord DEF TypeOK
  <1>5. WordsOK'
    BY <1>0, <1>1, <1>4 DEF WordsOK
  <1> QED BY <1>g, <1>n, <1>1, <1>2, <1>4, <1>5, DrainReturns

\* begin_draining without leases in flight preserves the invariant.
LEMMA DrainCasEmptyStep ==
  ASSUME GateInv, NEW t \in Threads, DrainCasEmpty(t)
  PROVE  GateInv'
  <1> USE DEF HoldingPCs, DrainPCs, Accepting, Draining, Drained
  <1>0. /\ TypeOK /\ LocalsOK /\ WordsOK /\ LeaseAccounting /\ LocksOK
        /\ LifecycleOK /\ SealedOK /\ SeenOK /\ DrainedOK
    BY DEF GateInv
  <1>g. PICK g \in Gens : g = th[t].gen
    BY <1>0 DEF DrainCasEmpty, At, LocalsOK
  <1>1. /\ word' = [word EXCEPT ![g] = ExecutionWord(Drained, 0)]
        /\ th[t].pc = "drain" /\ th[t].op \in {"close", "cutover", "drain"}
        /\ State(word[g]) = Accepting /\ Inflight(word[g]) = 0
        /\ UNCHANGED <<active, retired, service_handles, lock, fiber, drained>>
    BY <1>0, <1>g DEF DrainCasEmpty, At, LocalsOK
  <1>2. /\ Others(t) /\ th'[t].pc = "drain_notify" /\ th'[t].gen = g
        /\ th'[t].op = th[t].op
    BY <1>0, <1>g, GotoFacts DEF DrainCasEmpty, PCs
  <1>3. /\ word' \in [Gens -> Nat] /\ State(word'[g]) = Drained
        /\ Inflight(word'[g]) = 0
        /\ \A h \in Gens : h # g => word'[h] = word[h]
    BY <1>0, <1>1, UnpackedWord DEF TypeOK
  <1>4. Sealed(g)
    BY <1>0, <1>g, <1>1 DEF SealedOK
  <1>5. TypeOK'
    BY <1>0, <1>1, <1>2, <1>3 DEF TypeOK, Others
  <1>6. LocalsOK'
    BY <1>0, <1>1, <1>2 DEF LocalsOK, Others, SameThread
  <1>7. WordsOK'
    BY <1>0, <1>3 DEF WordsOK
  <1>8. DrainedOK'
    BY <1>0, <1>1, <1>3 DEF DrainedOK, TypeOK
  <1>9. LeaseAccounting'
    <2>1. \A h \in Gens : Holders(h)' = Holders(h)
      BY <1>1, <1>2, HoldersStay DEF Holds
    <2>2. \A h \in Gens : ServiceHolders(h)' = ServiceHolders(h)
      BY <1>1, <1>2, ServiceHoldersStay DEF HoldsService
    <2>3. \A h \in Gens : Inflight(word'[h]) = Inflight(word[h])
      BY <1>1, <1>3
    <2> QED BY <1>0, <1>1, <2>1, <2>2, <2>3 DEF LeaseAccounting
  <1>10. LocksOK' /\ LifecycleOK'
    BY <1>0, <1>g, <1>1, <1>2 DEF LocksOK, Locked, LifecycleOK, Others, SameThread
  <1>11. \A h \in Gens : Sealed(h) => Sealed(h)'
    BY <1>g, <1>1, <1>2 DEF Sealed, Closer, Others, SameThread
  <1>12. SealedOK'
    BY <1>0, <1>2, <1>3, <1>4, <1>11 DEF SealedOK, LocalsOK, Others, SameThread
  <1>13. SeenOK'
    BY <1>0, <1>2, <1>3 DEF SeenOK, LocalsOK, Others, SameThread
  <1> QED BY <1>5, <1>6, <1>7, <1>8, <1>9, <1>10, <1>12, <1>13 DEF GateInv

\* drain_until reporting Drained preserves the invariant.
LEMMA CheckDrainedStep ==
  ASSUME GateInv, NEW t \in Threads, CheckDrained(t)
  PROVE  GateInv'
  <1> USE DEF HoldingPCs, DrainPCs
  <1>0. /\ TypeOK /\ LocalsOK /\ WordsOK /\ LeaseAccounting /\ LocksOK
        /\ LifecycleOK /\ SealedOK /\ SeenOK /\ DrainedOK
    BY DEF GateInv
  <1>g. PICK g \in Gens : g = th[t].gen
    BY <1>0 DEF CheckDrained, At, LocalsOK
  <1>1. /\ th[t].pc = "check" /\ Inflight(word[g]) = 0
        /\ drained' = drained \cup {g}
        /\ UNCHANGED <<active, retired, word, service_handles, lock, fiber>>
    BY <1>g DEF CheckDrained, At
  <1>2. Others(t) /\ th'[t].pc = "idle" /\ th'[t].op = "none"
    BY <1>0, ReturnFacts DEF CheckDrained
  <1>3. State(word[g]) = Drained
    BY <1>0, <1>g, <1>1 DEF SeenOK, WordsOK
  <1>4. TypeOK' /\ WordsOK' /\ DrainedOK'
    BY <1>0, <1>1, <1>2, <1>3 DEF TypeOK, Others, WordsOK, DrainedOK
  <1>5. LocalsOK'
    BY <1>0, <1>2 DEF LocalsOK, Others, SameThread
  <1>6. LeaseAccounting'
    <2>1. \A h \in Gens : Holders(h)' = Holders(h)
      BY <1>1, <1>2, HoldersStay DEF Holds
    <2>2. \A h \in Gens : ServiceHolders(h)' = ServiceHolders(h)
      BY <1>1, <1>2, ServiceHoldersStay DEF HoldsService
    <2> QED BY <1>0, <1>1, <2>1, <2>2 DEF LeaseAccounting
  <1>7. LocksOK' /\ LifecycleOK'
    BY <1>0, <1>1, <1>2 DEF LocksOK, Locked, LifecycleOK, Others, SameThread
  <1>8. \A h \in Gens : Sealed(h) => Sealed(h)'
    BY <1>1, <1>2 DEF Sealed, Closer, Others, SameThread
  <1>9. SealedOK' /\ SeenOK'
    BY <1>0, <1>1, <1>2, <1>8 DEF SealedOK, SeenOK, LocalsOK, Others, SameThread
  <1> QED BY <1>4, <1>5, <1>6, <1>7, <1>9 DEF GateInv

-----------------------------------------------------------------------------
(***************************************************************************)
(* Lifecycle operations: publish, close, cutover_from.  They leave the     *)
(* words alone, so only locks, lifecycle facts and seals are at stake.     *)
(***************************************************************************)
LifecyclePCs == {"publish", "publish_switch", "close", "close_switch",
                 "cutover", "cutover_switch", "cutover_retire"}

\* A lifecycle step that keeps locks, lifecycle facts and seals in order
\* preserves the invariant.
LEMMA LifecycleStep ==
  ASSUME GateInv, NEW t \in Threads, Others(t),
         UNCHANGED <<word, service_handles, drained>>,
         active' \in Gens \cup {NONE}, retired' \in [Gens -> BOOLEAN],
         lock' \in [Gens -> Threads \cup {NONE}], fiber' \in [Gens -> FiberStates],
         th[t].pc \in LifecyclePCs \cup {"idle"},
         th'[t].pc \in LifecyclePCs \cup {"idle", "drain_load"},
         th'[t].pc # "idle" => th'[t].gen \in Gens,
         th'[t].pc \in {"publish", "publish_switch"} => th'[t].op = "publish",
         th'[t].pc \in {"close", "close_switch"} => th'[t].op = "close",
         th'[t].pc \in {"cutover", "cutover_switch", "cutover_retire"} =>
           th'[t].op = "cutover" /\ th'[t].old \in Gens /\ th'[t].old # th'[t].gen,
         th'[t].pc = "drain_load" =>
           th'[t].op \in {"close", "cutover"} /\ Sealed(th[t].gen)',
         LocksOK', LifecycleOK',
         \A g \in Gens : Sealed(g) => Sealed(g)'
  PROVE  GateInv'
  <1> USE DEF LifecyclePCs, DrainPCs, HoldingPCs, Kinds
  <1>0. /\ TypeOK /\ LocalsOK /\ WordsOK /\ LeaseAccounting
        /\ SealedOK /\ SeenOK /\ DrainedOK
    BY DEF GateInv
  <1>1. TypeOK' /\ WordsOK' /\ DrainedOK'
    BY <1>0 DEF TypeOK, WordsOK, DrainedOK, Others
  <1>2. LocalsOK'
    BY <1>0 DEF LocalsOK, Others, SameThread
  <1>3. LeaseAccounting'
    <2>1. \A h \in Gens : Holders(h)' = Holders(h)
      BY HoldersStay DEF Holds
    <2>2. \A h \in Gens : ServiceHolders(h)' = ServiceHolders(h)
      BY ServiceHoldersStay DEF HoldsService
    <2> QED BY <1>0, <2>1, <2>2 DEF LeaseAccounting
  <1>4. SealedOK'
    <2>1. \A h \in Gens : State(word'[h]) # Accepting => Sealed(h)'
      BY <1>0 DEF SealedOK
    <2>2. ASSUME NEW u \in Threads, th'[u].pc \in DrainPCs, u # t
          PROVE  Sealed(th[u].gen)'
      <3>1. PICK h \in Gens : h = th[u].gen
        BY <1>0, <2>2 DEF LocalsOK, Others, SameThread
      <3>2. Sealed(h) /\ th'[u].gen = h
        BY <1>0, <2>2, <3>1 DEF SealedOK, Others, SameThread
      <3>3. Sealed(h)'
        BY <3>2
      <3> QED BY <3>2, <3>3 DEF Sealed, Closer
    <2>3. th'[t].pc \in DrainPCs => Sealed(th[t].gen)'
      OBVIOUS
    <2> QED BY <2>1, <2>2, <2>3 DEF SealedOK
  <1>5. SeenOK'
    BY <1>0 DEF SeenOK, LocalsOK, Others, SameThread
  <1> QED BY <1>1, <1>2, <1>3, <1>4, <1>5 DEF GateInv

\* Taking the record lock.
LEMMA BeginStep ==
  ASSUME GateInv, NEW t \in Threads, NEW g \in Gens,
         \/ PublishBegin(t, g) \/ CloseBegin(t, g)
         \/ \E old \in Gens : CutoverBegin(t, g, old)
  PROVE  GateInv'
  <1> USE DEF LifecyclePCs, DrainPCs
  <1>0. TypeOK /\ LocalsOK /\ LocksOK /\ LifecycleOK
    BY DEF GateInv
  <1>1. /\ lock[g] = NONE /\ lock' = [lock EXCEPT ![g] = t]
        /\ UNCHANGED <<active, retired, word, service_handles, fiber, drained>>
    BY DEF PublishBegin, CloseBegin, CutoverBegin, LockRecord
  <1>2. /\ Others(t) /\ th[t].pc = "idle" /\ th'[t].gen = g
        /\ \/ /\ th'[t].pc = "publish" /\ th'[t].op = "publish"
              /\ fiber[g] = "Starting"
           \/ th'[t].pc = "close" /\ th'[t].op = "close"
           \/ /\ th'[t].pc = "cutover" /\ th'[t].op = "cutover"
              /\ th'[t].old \in Gens /\ th'[t].old # g
              /\ fiber[g] = "Staged" /\ fiber[th'[t].old] = "Active"
    <2>1. CASE PublishBegin(t, g)
      BY <1>0, <2>1, EnterFacts DEF PublishBegin, PCs, Ops
    <2>2. CASE CloseBegin(t, g)
      BY <1>0, <2>2, EnterFacts DEF CloseBegin, PCs, Ops
    <2>3. ASSUME NEW old \in Gens, CutoverBegin(t, g, old)
          PROVE  /\ Others(t) /\ th[t].pc = "idle" /\ th'[t].gen = g
                 /\ th'[t].pc = "cutover" /\ th'[t].op = "cutover"
                 /\ th'[t].old = old /\ old # g
                 /\ fiber[g] = "Staged" /\ fiber[old] = "Active"
      <3> DEFINE r == [Resting EXCEPT !.pc = "cutover", !.op = "cutover",
                                      !.gen = g, !.old = old]
      <3>1. /\ r \in Locals /\ r.pc = "cutover" /\ r.op = "cutover"
            /\ r.gen = g /\ r.old = old
        BY DEF Resting, Locals, PCs, Ops
      <3>2. th' = [th EXCEPT ![t] = r]
        BY <2>3 DEF CutoverBegin
      <3> HIDE DEF r
      <3>3. Others(t) /\ th'[t] = r
        BY <1>0, <3>1, <3>2, ReplacedLocals
      <3> QED BY <2>3, <3>1, <3>3 DEF CutoverBegin, At
    <2> QED BY <2>1, <2>2, <2>3
  <1>3. LocksOK'
    BY <1>0, <1>1, <1>2, GateAssumption DEF LocksOK, Locked, LocalsOK, TypeOK,
       Others, SameThread
  <1>4. LifecycleOK'
    BY <1>0, <1>1, <1>2 DEF LifecycleOK, Committed, Others, SameThread
  <1>5. \A h \in Gens : Sealed(h) => Sealed(h)'
    BY <1>1, <1>2 DEF Sealed, Closer, Others, SameThread
  <1>6. /\ active' \in Gens \cup {NONE} /\ retired' \in [Gens -> BOOLEAN]
        /\ lock' \in [Gens -> Threads \cup {NONE}] /\ fiber' \in [Gens -> FiberStates]
    BY <1>0, <1>1 DEF TypeOK
  <1> QED BY <1>1, <1>2, <1>3, <1>4, <1>5, <1>6, LifecycleStep

\* Returning without having changed anything, or going on past the check.
LEMMA CheckStep ==
  ASSUME GateInv, NEW t \in Threads, PublishCheck(t) \/ CutoverCheck(t)
  PROVE  GateInv'
  <1> USE DEF LifecyclePCs, DrainPCs
  <1>0. TypeOK /\ LocalsOK /\ LocksOK /\ LifecycleOK
    BY DEF GateInv
  <1>g. PICK g \in Gens : g = th[t].gen
    BY <1>0 DEF PublishCheck, CutoverCheck, At, LocalsOK
  <1>1. /\ UNCHANGED <<active, retired, word, service_handles, fiber, drained>>
        /\ th[t].pc \in {"publish", "cutover"}
    BY DEF PublishCheck, CutoverCheck, At
  <1>2. \/ /\ Others(t) /\ th'[t].pc = "idle"
           /\ lock' = [h \in Gens |-> IF lock[h] = t THEN NONE ELSE lock[h]]
        \/ /\ Others(t) /\ lock' = lock /\ ~retired[g]
           /\ th'[t].pc = IF th[t].pc = "publish"
                            THEN "publish_switch" ELSE "cutover_switch"
           /\ th'[t].op = th[t].op /\ th'[t].gen = g /\ th'[t].old = th[t].old
    BY <1>0, <1>g, GotoFacts, ReturnFacts
       DEF PublishCheck, CutoverCheck, At, Unlock, PCs
  <1>3. LocksOK'
    BY <1>0, <1>g, <1>1, <1>2 DEF LocksOK, Locked, LocalsOK, Others, SameThread
  <1>4. LifecycleOK'
    BY <1>0, <1>g, <1>1, <1>2 DEF LifecycleOK, Others, SameThread
  <1>5. \A h \in Gens : Sealed(h) => Sealed(h)'
    BY <1>1, <1>2 DEF Sealed, Closer, Others, SameThread
  <1>6. /\ active' \in Gens \cup {NONE} /\ retired' \in [Gens -> BOOLEAN]
        /\ lock' \in [Gens -> Threads \cup {NONE}] /\ fiber' \in [Gens -> FiberStates]
    BY <1>0, <1>1, <1>2 DEF TypeOK
  <1> QED BY <1>0, <1>g, <1>1, <1>2, <1>3, <1>4, <1>5, <1>6, LifecycleStep
          DEF LocalsOK

\* A generation that a thread is about to show is not sealed.
LEMMA SwitchNotSealed ==
  ASSUME GateInv, NEW t \in Threads, NEW g \in Gens, g = th[t].gen,
         th[t].pc \in {"publish_switch", "cutover_switch"}
  PROVE  /\ ~Sealed(g) /\ fiber[g] \in {"Starting", "Staged"} /\ ~retired[g]
         /\ \A u \in Threads : u # t /\ Locked(u) => th[u].gen # g
  <1>1. LocksOK /\ LifecycleOK /\ Locked(t)
    BY DEF GateInv, Locked
  <1>2. \A u \in Threads : u # t /\ Locked(u) => th[u].gen # g
    BY <1>1, OneOwner
  <1>3. fiber[g] \in {"Starting", "Staged"} /\ ~retired[g]
    BY <1>1 DEF LifecycleOK
  <1>4. ~Sealed(g)
    BY <1>2, <1>3 DEF Sealed, Closer, Locked, Committed, DrainPCs
  <1> QED BY <1>2, <1>3, <1>4

\* The switch itself, successful or not.
LEMMA SwitchStep ==
  ASSUME GateInv, NEW t \in Threads, PublishSwitch(t) \/ CutoverSwitch(t)
  PROVE  GateInv'
  <1> USE DEF LifecyclePCs, DrainPCs
  <1>0. TypeOK /\ LocalsOK /\ LocksOK /\ LifecycleOK
    BY DEF GateInv
  <1>g. PICK g \in Gens : g = th[t].gen
    BY <1>0 DEF PublishSwitch, CutoverSwitch, At, LocalsOK
  <1>1. /\ UNCHANGED <<retired, word, service_handles, drained>>
        /\ th[t].pc \in {"publish_switch", "cutover_switch"}
    BY DEF PublishSwitch, CutoverSwitch, At
  <1>2. /\ ~Sealed(g) /\ fiber[g] \in {"Starting", "Staged"} /\ ~retired[g]
        /\ \A u \in Threads : u # t /\ Locked(u) => th[u].gen # g
    BY <1>g, <1>1, SwitchNotSealed
  <1>3. /\ Others(t)
        /\ \/ th'[t].pc = "idle"
           \/ /\ th'[t].pc = "cutover_retire" /\ th[t].pc = "cutover_switch"
              /\ th'[t].gen = g /\ th'[t].op = th[t].op /\ th'[t].old = th[t].old
              /\ active = th[t].old /\ active' = g
    BY <1>0, <1>g, GotoFacts, ReturnFacts
       DEF PublishSwitch, CutoverSwitch, At, Switch, PCs
  <1>4. \/ active' = active /\ fiber' = fiber
        \/ active' = g /\ fiber' = [fiber EXCEPT ![g] = "Active"]
    BY <1>g DEF PublishSwitch, CutoverSwitch, Switch
  <1>5. \/ lock' = lock
        \/ lock' = [h \in Gens |-> IF lock[h] = t THEN NONE ELSE lock[h]]
    BY DEF PublishSwitch, CutoverSwitch, Unlock
  <1>6. LocksOK'
    BY <1>0, <1>3, <1>5 DEF LocksOK, Locked, LocalsOK, Others, SameThread
  <1>7. /\ fiber' \in [Gens -> FiberStates]
        /\ \A h \in Gens : h # g => fiber'[h] = fiber[h]
        /\ \A h \in Gens : fiber[h] \in Committed => h # g
        /\ active' = g => active = g \/ fiber'[g] = "Active"
    BY <1>0, <1>2, <1>4 DEF TypeOK, FiberStates, Committed
  <1>8. LifecycleOK'
    <2>1. active' \in Gens => fiber'[active'] = "Active"
      BY <1>0, <1>4, <1>7 DEF LifecycleOK, TypeOK
    <2>2. ASSUME NEW u \in Threads, u # t
          PROVE  /\ th[u].pc \in {"publish", "publish_switch"} =>
                      fiber'[th[u].gen] = "Starting"
                 /\ th[u].pc \in {"cutover", "cutover_switch"} =>
                      fiber'[th[u].gen] = "Staged" /\ fiber'[th[u].old] \in Committed
                 /\ th[u].pc = "cutover_retire" =>
                      fiber'[th[u].old] \in Committed /\ active' # th[u].old
                 /\ th[u].pc \in {"publish_switch", "cutover_switch"} =>
                      ~retired'[th[u].gen]
      <3>1. /\ th[u].pc # "idle" => th[u].gen \in Gens
            /\ th[u].pc \in {"cutover", "cutover_switch", "cutover_retire"} =>
                 th[u].old \in Gens
            /\ th[u].pc \in {"publish", "publish_switch", "cutover",
                             "cutover_switch"} => th[u].gen # g
        BY <1>0, <1>2, <2>2 DEF LocalsOK, Locked
      <3>2. \A h \in Gens : fiber[h] \in Committed =>
               /\ fiber'[h] \in Committed
               /\ active # h => active' # h
        BY <1>4, <1>7
      <3> QED BY <1>0, <1>1, <1>7, <3>1, <3>2 DEF LifecycleOK
    <2>3. th'[t].pc = "cutover_retire" =>
             fiber'[th'[t].old] \in Committed /\ active' # th'[t].old
      BY <1>0, <1>g, <1>1, <1>3, <1>7 DEF LifecycleOK, LocalsOK
    <2> QED BY <1>3, <2>1, <2>2, <2>3 DEF LifecycleOK, Others, SameThread
  <1>9. \A h \in Gens : Sealed(h) => Sealed(h)'
    BY <1>1, <1>2, <1>3, <1>4, <1>7 DEF Sealed, Closer, Others, SameThread
  <1>10. /\ active' \in Gens \cup {NONE} /\ retired' \in [Gens -> BOOLEAN]
         /\ lock' \in [Gens -> Threads \cup {NONE}]
    BY <1>0, <1>1, <1>4, <1>5 DEF TypeOK
  <1>11. th'[t].pc = "cutover_retire" =>
            th'[t].op = "cutover" /\ th'[t].old \in Gens /\ th'[t].old # g
    BY <1>0, <1>g, <1>3 DEF LocalsOK
  <1> QED BY <1>1, <1>3, <1>6, <1>7, <1>8, <1>9, <1>10, <1>11, LifecycleStep

\* Retiring and hiding: close and the second half of cutover_from.
LEMMA RetireStep ==
  ASSUME GateInv, NEW t \in Threads,
         CloseRetire(t) \/ CloseSwitch(t) \/ CutoverRetire(t)
  PROVE  GateInv'
  <1> USE DEF LifecyclePCs, DrainPCs
  <1>0. TypeOK /\ LocalsOK /\ LocksOK /\ LifecycleOK
    BY DEF GateInv
  <1>1. CASE CloseRetire(t)
    <2>g. PICK g \in Gens : g = th[t].gen
      BY <1>0, <1>1 DEF CloseRetire, At, LocalsOK
    <2>1. /\ th[t].pc = "close" /\ th[t].op = "close" /\ Locked(t)
          /\ retired' = [retired EXCEPT ![g] = TRUE]
          /\ UNCHANGED <<active, word, service_handles, lock, fiber, drained>>
      BY <1>0, <1>1, <2>g DEF CloseRetire, At, LocalsOK, Locked
    <2>2. /\ Others(t) /\ th'[t].pc = "close_switch" /\ th'[t].op = th[t].op
          /\ th'[t].gen = g
      BY <1>0, <1>1, <2>g, GotoFacts DEF CloseRetire, PCs
    <2>3. LocksOK'
      BY <1>0, <2>g, <2>1, <2>2 DEF LocksOK, Locked, Others, SameThread
    <2>4. \A u \in Threads : u # t /\ Locked(u) => th[u].gen # g
      BY <1>0, <2>g, <2>1, OneOwner
    <2>5. LifecycleOK'
      BY <1>0, <2>1, <2>2, <2>4 DEF LifecycleOK, LocalsOK, TypeOK, Locked, Others,
         SameThread
    <2>6. \A h \in Gens : Sealed(h) => Sealed(h)'
      BY <2>1, <2>2 DEF Sealed, Closer, Others, SameThread
    <2> QED BY <1>0, <2>1, <2>2, <2>3, <2>5, <2>6, LifecycleStep DEF TypeOK
  <1>2. CASE CloseSwitch(t)
    <2>g. PICK g \in Gens : g = th[t].gen
      BY <1>0, <1>2 DEF CloseSwitch, At, LocalsOK
    <2>1. /\ th[t].pc = "close_switch" /\ th[t].op = "close"
          /\ active' = IF active = g THEN NONE ELSE active
          /\ UNCHANGED <<retired, word, service_handles, lock, fiber, drained>>
      BY <1>0, <1>2, <2>g DEF CloseSwitch, At, LocalsOK, Switch
    <2>2. /\ Others(t) /\ th'[t].pc = "drain_load" /\ th'[t].op = th[t].op
          /\ th'[t].gen = g
      BY <1>0, <1>2, <2>g, GotoFacts DEF CloseSwitch, PCs
    <2>3. LocksOK'
      BY <1>0, <2>g, <2>1, <2>2 DEF LocksOK, Locked, Others, SameThread
    <2>4. LifecycleOK'
      BY <1>0, <2>1, <2>2, GateAssumption DEF LifecycleOK, LocalsOK, Others, SameThread
    <2>5. \A h \in Gens : Sealed(h) => Sealed(h)'
      BY <2>1, <2>2, GateAssumption DEF Sealed, Closer, Others, SameThread
    <2>6. Sealed(g)'
      BY <2>1, <2>2, GateAssumption DEF Sealed, Closer
    <2>7. th'[t].pc = "drain_load" =>
            th'[t].op \in {"close", "cutover"} /\ Sealed(th[t].gen)'
      BY <2>1, <2>2, <2>6 DEF Sealed, Closer
    <2>8. active' \in Gens \cup {NONE}
      BY <1>0, <2>1 DEF TypeOK
    <2> QED BY <1>0, <2>1, <2>2, <2>3, <2>4, <2>5, <2>7, <2>8, LifecycleStep
            DEF TypeOK
  <1>3. CASE CutoverRetire(t)
    <2>g. PICK g \in Gens : g = th[t].old
      BY <1>0, <1>3 DEF CutoverRetire, At, LocalsOK
    <2> DEFINE r == [th[t] EXCEPT !.pc = "drain_load", !.gen = g]
    <2>1. /\ th[t].pc = "cutover_retire" /\ th[t].op = "cutover"
          /\ retired' = [retired EXCEPT ![g] = TRUE]
          /\ th' = [th EXCEPT ![t] = r]
          /\ UNCHANGED <<active, word, service_handles, lock, fiber, drained>>
      BY <1>0, <1>3, <2>g DEF CutoverRetire, At, LocalsOK
    <2>2. th[t] \in Locals
      BY <1>0 DEF TypeOK
    <2>3. r \in Locals /\ r.pc = "drain_load" /\ r.op = "cutover" /\ r.gen = g
      BY <2>1, <2>2 DEF Locals, PCs
    <2> HIDE DEF r
    <2>4. Others(t) /\ th'[t] = r
      BY <1>0, <2>1, <2>3, ReplacedLocals
    <2>5. LocksOK'
      BY <1>0, <2>1, <2>3, <2>4 DEF LocksOK, Locked, Others, SameThread
    <2>6. fiber[g] \in Committed /\ active # g
      BY <1>0, <2>g, <2>1 DEF LifecycleOK
    <2>7. LifecycleOK'
      <3>1. \A u \in Threads : th[u].pc \in {"publish_switch", "cutover_switch"} =>
               th[u].gen \in Gens /\ th[u].gen # g
        BY <1>0, <2>6 DEF LifecycleOK, LocalsOK, Committed
      <3> QED BY <1>0, <2>1, <2>3, <2>4, <3>1
              DEF LifecycleOK, TypeOK, Others, SameThread
    <2>8. \A h \in Gens : Sealed(h) => Sealed(h)'
      BY <2>1, <2>3, <2>4 DEF Sealed, Closer, Others, SameThread
    <2>9. Sealed(g)'
      BY <2>1, <2>6 DEF Sealed
    <2>10. th'[t].pc = "drain_load" =>
            th'[t].op \in {"close", "cutover"} /\ Sealed(th[t].gen)'
      BY <2>3, <2>4, <2>9 DEF Sealed, Closer
    <2> QED BY <1>0, <2>1, <2>3, <2>4, <2>5, <2>7, <2>8, <2>10, LifecycleStep
            DEF TypeOK
  <1> QED BY <1>1, <1>2, <1>3

-----------------------------------------------------------------------------
\* The gates the runtime creates satisfy the invariant.
LEMMA GateInvInit == Init => GateInv
  <1> SUFFICES ASSUME Init PROVE GateInv
    OBVIOUS
  <1> USE DEF Accepting, Draining, Drained
  <1>1. \A t \in Threads : th[t] = Resting
    BY DEF Init
  <1>2. \A g \in Gens : /\ State(word[g]) = Accepting /\ Inflight(word[g]) = 0
                        /\ word[g] \in Nat
    BY UnpackedWord DEF Init
  <1>3. TypeOK
    <2>1. th \in [Threads -> Locals]
      BY RestingIsLocal DEF Init
    <2> QED BY <1>2, <2>1 DEF Init, TypeOK, FiberStates
  <1>4. LocalsOK /\ LocksOK /\ SeenOK /\ SealedOK
    BY <1>1, <1>2 DEF LocalsOK, LocksOK, Locked, SeenOK, SealedOK, Resting, DrainPCs
  <1>5. WordsOK /\ DrainedOK
    BY <1>2 DEF WordsOK, DrainedOK, Init
  <1>6. LifecycleOK
    BY <1>1, GateAssumption DEF LifecycleOK, Init, Resting
  <1>7. LeaseAccounting
    <2>1. \A g \in Gens : Holders(g) = {} /\ ServiceHolders(g) = {}
      BY <1>1 DEF Holders, ServiceHolders, Resting, HoldingPCs
    <2> QED BY <1>2, <2>1, FS_EmptySet DEF LeaseAccounting, Init
  <1> QED BY <1>3, <1>4, <1>5, <1>6, <1>7 DEF GateInv

\* Every step of every thread preserves the invariant.
LEMMA GateInvStep == GateInv /\ [Next]_vars => GateInv'
  <1> SUFFICES ASSUME GateInv, [Next]_vars PROVE GateInv'
    OBVIOUS
  <1>1. CASE Next
    <2>1. PICK t \in Threads : Begin(t) \/ Continue(t) \/ DropLease(t) \/ Timeout(t)
      BY <1>1 DEF Next
    <2>2. CASE Begin(t)
      BY <2>2, QuietActions, BeginStep DEF Begin
    <2>3. CASE Continue(t)
      BY <2>3, QuietActions, AcquireCasStep, ReleaseCasStep, ServiceStep,
         DrainAlreadyStep, DrainCasBusyStep, DrainCasEmptyStep, CheckDrainedStep,
         CheckStep, SwitchStep, RetireStep DEF Continue
    <2>4. CASE DropLease(t) \/ Timeout(t)
      BY <2>4, ServiceStep, QuietActions
    <2> QED BY <2>1, <2>2, <2>3, <2>4
  <1>2. CASE UNCHANGED vars
    <2>1. \A g \in Gens : /\ Holders(g)' = Holders(g)
                          /\ ServiceHolders(g)' = ServiceHolders(g)
      BY <1>2 DEF vars, Holders, ServiceHolders
    <2>2. TypeOK' /\ LocalsOK' /\ WordsOK' /\ LocksOK' /\ LifecycleOK'
      BY <1>2 DEF vars, GateInv, TypeOK, LocalsOK, WordsOK, LocksOK, Locked,
         LifecycleOK
    <2>3. LeaseAccounting' /\ SeenOK' /\ DrainedOK'
      BY <1>2, <2>1 DEF vars, GateInv, LeaseAccounting, SeenOK, DrainedOK
    <2>4. SealedOK'
      BY <1>2 DEF vars, GateInv, SealedOK, Sealed, Closer
    <2> QED BY <2>2, <2>3, <2>4 DEF GateInv
  <1> QED BY <1>1, <1>2

\* The inductive invariant holds in every reachable state of the gate.
THEOREM GateInvariant == Spec => []GateInv
  <1>1. Init => GateInv
    BY GateInvInit
  <1>2. GateInv /\ [Next]_vars => GateInv'
    BY GateInvStep
  <1> QED BY <1>1, <1>2, PTL DEF Spec

\* The gate is type correct: in particular neither the in-flight count nor
\* the service handle count ever goes below zero (GenerationLease::drop).
THEOREM TypeCorrect == Spec => []TypeOK
  <1>1. GateInv => TypeOK
    BY DEF GateInv
  <1> QED BY <1>1, GateInvariant, PTL

\* The packed in-flight count is the number of live leases and the service
\* handle count the number of live service leases, for any number of threads
\* racing in try_acquire_kind, GenerationLease::drop and begin_draining.
THEOREM LeasesAccounted == Spec => []LeaseAccounting
  <1>1. GateInv => LeaseAccounting
    BY DEF GateInv
  <1> QED BY <1>1, GateInvariant, PTL

\* The in-flight count is zero exactly when no thread holds a lease.
LEMMA NoHolders ==
  ASSUME LeaseAccounting, NEW g \in Gens
  PROVE  Inflight(word[g]) = 0 <=> Holders(g) = {}
BY HoldersFinite, FS_EmptySet DEF LeaseAccounting

\* A Drained word has no live lease, and drain_until reports Drained only
\* for such a generation.
THEOREM DrainedQuiet == Spec => []DrainedIsQuiet
  <1>1. GateInv => DrainedIsQuiet
    BY NoHolders DEF GateInv, DrainedIsQuiet, WordsOK, DrainedOK
  <1> QED BY <1>1, GateInvariant, PTL

\* The assertions of drop_inflight and drain_until never fail.
THEOREM AssertionsSafe == Spec => []AssertionsHold
  <1>1. GateInv => AssertionsHold
    BY DEF GateInv, AssertionsHold, SeenOK, WordsOK, LocalsOK, Accepting, Draining,
       Drained
  <1> QED BY <1>1, GateInvariant, PTL

\* The generation the selector publishes is in state Accepting.
THEOREM VisibleAdmits == Spec => []VisibleAccepts
  <1>1. GateInv => VisibleAccepts
    BY DEF GateInv, VisibleAccepts, TypeOK, SealedOK, Sealed
  <1> QED BY <1>1, GateInvariant, PTL

-----------------------------------------------------------------------------
(***************************************************************************)
(* The gate implements GenerationAdmission.  Only the compare-exchange of  *)
(* an acquire and of a release change who holds a lease.                   *)
(***************************************************************************)
LEMMA StillHolding ==
  ASSUME GateInv, NEW t \in Threads,
         Begin(t) \/ Continue(t) \/ DropLease(t) \/ Timeout(t),
         ~AcquireCas(t), ~ReleaseCas(t)
  PROVE  \A g \in Gens : Holders(g)' = Holders(g)
  <1> USE DEF At, HoldingPCs, Holds
  <1>0. TypeOK /\ LocalsOK /\ th[t] \in Locals
    BY DEF GateInv, TypeOK
  <1>1. ASSUME NEW r \in Locals, th' = [th EXCEPT ![t] = r],
               r.pc \notin HoldingPCs, th[t].pc \notin HoldingPCs
        PROVE  \A g \in Gens : Holders(g)' = Holders(g)
    <2>1. Others(t) /\ th'[t] = r
      BY <1>0, <1>1, ReplacedLocals
    <2> QED BY <1>1, <2>1, HoldersStay
  <1>2. ASSUME NEW r \in Locals, NotifyWaiters(t, r),
               r.pc \notin HoldingPCs, th[t].pc \notin HoldingPCs
        PROVE  \A g \in Gens : Holders(g)' = Holders(g)
    <2>1. Others(t) /\ th'[t] = r
      BY <1>0, <1>2, NotifyFacts
    <2> QED BY <1>2, <2>1, HoldersStay
  <1>3. ASSUME NEW p \in PCs, Goto(t, p), p \in HoldingPCs <=> th[t].pc \in HoldingPCs
        PROVE  \A g \in Gens : Holders(g)' = Holders(g)
    <2>1. Others(t) /\ th'[t].pc = p /\ th'[t].gen = th[t].gen
      BY <1>0, <1>3, GotoFacts
    <2> QED BY <1>3, <2>1, HoldersStay
  <1>4. ASSUME NEW p \in PCs, Load(t, p), p \in HoldingPCs <=> th[t].pc \in HoldingPCs,
               th[t].pc # "idle"
        PROVE  \A g \in Gens : Holders(g)' = Holders(g)
    <2>1. Others(t) /\ th'[t].pc = p /\ th'[t].gen = th[t].gen
      BY <1>0, <1>4, LoadFacts DEF LocalsOK
    <2> QED BY <1>4, <2>1, HoldersStay
  <1>5. CASE Return(t) /\ th[t].pc \notin HoldingPCs
    BY <1>1, <1>5, RestingIsLocal DEF Return, Resting
  <1>6. CASE th' = [th EXCEPT ![t] = AfterDraining(t)] /\ th[t].pc \notin HoldingPCs
    BY <1>0, <1>1, <1>6, AfterDrainingFacts
  <1>7. CASE Begin(t)
    <2>0. th[t].pc = "idle"
      BY <1>7 DEF Begin, AcquireLoad, PublishBegin, CloseBegin, CutoverBegin,
         DrainUntil, Enter
    <2>1. ASSUME NEW g \in Gens, NEW k \in Kinds, AcquireLoad(t, g, k)
          PROVE  \A h \in Gens : Holders(h)' = Holders(h)
      <3> DEFINE r == [Resting EXCEPT !.pc = "acquire", !.op = k, !.gen = g,
                                      !.seen = word[g]]
      <3>1. r \in Locals /\ r.pc = "acquire"
        BY <1>0 DEF TypeOK, Resting, Locals, PCs, Ops, Kinds
      <3>2. th' = [th EXCEPT ![t] = r]
        BY <2>1 DEF AcquireLoad
      <3> HIDE DEF r
      <3> QED BY <1>1, <2>0, <3>1, <3>2
    <2>2. ASSUME NEW g \in Gens,
                 PublishBegin(t, g) \/ CloseBegin(t, g) \/ DrainUntil(t, g)
          PROVE  \A h \in Gens : Holders(h)' = Holders(h)
      <3>1. Others(t) /\ th'[t].pc \in {"publish", "close", "drain_load"}
        BY <1>0, <2>2, EnterFacts DEF PublishBegin, CloseBegin, DrainUntil, PCs, Ops
      <3> QED BY <2>0, <3>1, HoldersStay
    <2>3. ASSUME NEW g \in Gens, NEW new \in Gens, CutoverBegin(t, new, g)
          PROVE  \A h \in Gens : Holders(h)' = Holders(h)
      <3> DEFINE r == [Resting EXCEPT !.pc = "cutover", !.op = "cutover",
                                      !.gen = new, !.old = g]
      <3>1. r \in Locals /\ r.pc = "cutover"
        BY DEF Resting, Locals, PCs, Ops
      <3>2. th' = [th EXCEPT ![t] = r]
        BY <2>3 DEF CutoverBegin
      <3> HIDE DEF r
      <3> QED BY <1>1, <2>0, <3>1, <3>2
    <2> QED BY <1>7, <2>1, <2>2, <2>3 DEF Begin
  <1>8. CASE AcquireRefuse(t) \/ Timeout(t) \/ CheckDrained(t) \/ PublishSwitch(t)
    BY <1>5, <1>8 DEF AcquireRefuse, Timeout, CheckDrained, PublishSwitch
  <1>9. CASE CountService(t) \/ DropLease(t) \/ DrainCasEmpty(t) \/ Register(t)
             \/ CheckBusy(t) \/ Await(t) \/ CloseRetire(t) \/ CloseSwitch(t)
    BY <1>3, <1>9 DEF CountService, DropLease, DrainCasEmpty, Register, CheckBusy,
       Await, CloseRetire, CloseSwitch, PCs
  <1>10. CASE ReleaseLoad(t) \/ CasRetry(t) \/ DrainLoad(t)
    BY <1>4, <1>10 DEF ReleaseLoad, CasRetry, DrainLoad, PCs
  <1>11. CASE ReleaseNotify(t) \/ DrainNotify(t)
    BY <1>0, <1>2, <1>11, AfterDrainingFacts, RestingIsLocal
       DEF ReleaseNotify, DrainNotify, Resting
  <1>12. CASE DrainAlready(t) \/ DrainCasBusy(t)
    BY <1>6, <1>12 DEF DrainAlready, DrainCasBusy
  <1>13. CASE PublishCheck(t) \/ CutoverCheck(t) \/ CutoverSwitch(t)
    BY <1>3, <1>5, <1>13 DEF PublishCheck, CutoverCheck, CutoverSwitch, PCs
  <1>14. CASE CutoverRetire(t)
    <2>1. th[t].pc = "cutover_retire" /\ th[t].old \in Gens
      BY <1>0, <1>14 DEF CutoverRetire, LocalsOK
    <2>2. [th[t] EXCEPT !.pc = "drain_load", !.gen = th[t].old] \in Locals
      BY <1>0, <2>1 DEF Locals, PCs
    <2> QED BY <1>0, <1>1, <1>14, <2>1, <2>2 DEF CutoverRetire, Locals
  <1>15. CASE Wake(t)
    <2>1. [th[t] EXCEPT !.pc = "register", !.notified = FALSE] \in Locals
      BY <1>0 DEF Locals, PCs
    <2> QED BY <1>0, <1>1, <1>15, <2>1 DEF Wake, Locals
  <1> QED BY <1>7, <1>8, <1>9, <1>10, <1>11, <1>12, <1>13, <1>14, <1>15 DEF Continue

\* What a step looks like from outside: nothing, a switch of the visible
\* generation, an admission, the end of one, or the beginning of draining.
Unmoved(h) == State(word'[h]) = State(word[h]) /\ Holders(h)' = Holders(h)

\* Every step is of one of the four kinds of GenerationAdmission, or invisible.
LEMMA StepKinds ==
  ASSUME GateInv, Next
  PROVE  \/ /\ \A h \in Gens : Unmoved(h)
            /\ \/ active' \in {active, NONE}
               \/ active' \in Gens /\ State(word[active']) = Accepting
                                   /\ ~retired[active']
         \/ \E t \in Threads, g \in Gens :
              /\ State(word[g]) = Accepting /\ State(word'[g]) = Accepting
              /\ Holders(g)' = Holders(g) \cup {t}
              /\ \A h \in Gens : h # g => Unmoved(h)
              /\ active' = active
         \/ \E t \in Threads, g \in Gens :
              /\ t \in Holders(g) /\ Holders(g)' = Holders(g) \ {t}
              /\ State(word'[g]) = IF State(word[g]) = Draining /\ Holders(g) = {t}
                                     THEN Drained ELSE State(word[g])
              /\ \A h \in Gens : h # g => Unmoved(h)
              /\ active' = active
         \/ \E g \in Gens :
              /\ active # g /\ State(word[g]) = Accepting
              /\ Holders(g)' = Holders(g)
              /\ State(word'[g]) = IF Holders(g) = {} THEN Drained ELSE Draining
              /\ \A h \in Gens : h # g => Unmoved(h)
              /\ active' = active
  <1>0. /\ TypeOK /\ LocalsOK /\ WordsOK /\ LeaseAccounting /\ SealedOK
        /\ \A h \in Gens : word[h] \in Nat
    BY DEF GateInv, TypeOK
  <1>1. PICK t \in Threads : Begin(t) \/ Continue(t) \/ DropLease(t) \/ Timeout(t)
    BY DEF Next
  <1>2. CASE AcquireCas(t)
    <2>g. PICK g \in Gens : g = th[t].gen
      BY <1>0, <1>2 DEF AcquireCas, At, LocalsOK
    <2>1. /\ th[t].pc = "acquire" /\ State(word[g]) = Accepting
          /\ word' = [word EXCEPT ![g] = word[g] + InflightOne] /\ active' = active
      BY <1>2, <2>g DEF AcquireCas, At, MayAcquire
    <2>2. Others(t) /\ th'[t].pc \in {"count", "holding"} /\ th'[t].gen = g
      BY <1>0, <1>2, <2>g, GotoFacts DEF AcquireCas, PCs, HoldingPCs
    <2>3. /\ Holders(g)' = Holders(g) \cup {t}
          /\ \A h \in Gens : h # g => Holders(h)' = Holders(h)
      BY <2>g, <2>1, <2>2, HoldersJoin DEF Holds, HoldingPCs
    <2>4. State(word'[g]) = Accepting /\ \A h \in Gens : h # g => word'[h] = word[h]
      BY <1>0, <2>1, AddedWord DEF TypeOK
    <2> QED BY <2>1, <2>3, <2>4 DEF Unmoved
  <1>3. CASE ReleaseCas(t)
    <2>g. PICK g \in Gens : g = th[t].gen
      BY <1>0, <1>3 DEF ReleaseCas, At, LocalsOK
    <2>n. PICK s, n : s = ReleasedState(word[g]) /\ n = Inflight(word[g])
      OBVIOUS
    <2>1. /\ th[t].pc = "release" /\ active' = active
          /\ word' = [word EXCEPT ![g] = ExecutionWord(s, n - 1)]
      BY <1>3, <2>g, <2>n DEF ReleaseCas, At
    <2>2. Others(t) /\ th'[t].pc \in {"idle", "release_notify"}
      <3>1. CASE ReleasedState(th[t].seen) = Drained
        BY <1>0, <1>3, <3>1, GotoFacts DEF ReleaseCas, PCs
      <3>2. CASE ReleasedState(th[t].seen) # Drained
        BY <1>0, <1>3, <3>2, ReturnFacts DEF ReleaseCas
      <3> QED BY <3>1, <3>2
    <2>3. /\ t \in Holders(g) /\ Holders(g)' = Holders(g) \ {t}
          /\ \A h \in Gens : h # g => Holders(h)' = Holders(h)
      BY <2>g, <2>1, <2>2, HoldersLeave DEF Holds, HoldingPCs
    <2>4. n = Cardinality(Holders(g)) /\ n \in Nat /\ n # 0
      BY <1>0, <2>g, <2>n, <2>1, HoldersFinite, HolderCounts
         DEF LeaseAccounting, Holds, HoldingPCs
    <2>5. n = 1 <=> Holders(g) = {t}
      <3>1. Cardinality({t}) = 1
        BY FS_Singleton
      <3>2. n = 1 => \E x : Holders(g) = {x}
        BY <2>4, HoldersFinite, FS_Singleton
      <3> QED BY <2>3, <2>4, <3>1, <3>2
    <2>6. s \in 0..3 /\ n - 1 \in Nat
      BY <1>0, <2>n, <2>4, PackedWord DEF ReleasedState, Drained
    <2>7. State(word'[g]) = s /\ \A h \in Gens : h # g => word'[h] = word[h]
      BY <1>0, <2>1, <2>6, UnpackedWord DEF TypeOK
    <2> QED BY <2>n, <2>1, <2>3, <2>5, <2>7 DEF Unmoved, ReleasedState
  <1>4. CASE DrainCasEmpty(t) \/ DrainCasBusy(t)
    <2>g. PICK g \in Gens : g = th[t].gen
      BY <1>0, <1>4 DEF DrainCasEmpty, DrainCasBusy, At, LocalsOK
    <2>n. PICK n \in Nat : n = Inflight(word[g])
      BY <1>0, PackedWord
    <2>1. /\ th[t].pc = "drain" /\ State(word[g]) = Accepting /\ active' = active
          /\ word' = [word EXCEPT ![g] = IF n = 0 THEN ExecutionWord(Drained, 0)
                                                  ELSE ExecutionWord(Draining, n)]
      BY <1>4, <2>g, <2>n DEF DrainCasEmpty, DrainCasBusy, At, BeginDrainingReturns
    <2>2. \A h \in Gens : Holders(h)' = Holders(h)
      BY <1>1, <1>4, StillHolding DEF DrainCasEmpty, DrainCasBusy, AcquireCas,
         ReleaseCas, At
    <2>3. n = 0 <=> Holders(g) = {}
      BY <1>0, <2>n, NoHolders
    <2>4. active # g
      BY <1>0, <2>g, <2>1 DEF SealedOK, Sealed, DrainPCs
    <2>5. /\ State(word'[g]) = IF n = 0 THEN Drained ELSE Draining
          /\ \A h \in Gens : h # g => word'[h] = word[h]
      BY <1>0, <2>1, UnpackedWord DEF TypeOK, Drained, Draining
    <2> QED BY <2>1, <2>2, <2>3, <2>4, <2>5 DEF Unmoved
  <1>5. CASE /\ ~AcquireCas(t) /\ ~ReleaseCas(t)
             /\ ~DrainCasEmpty(t) /\ ~DrainCasBusy(t)
    <2>1. \A h \in Gens : Holders(h)' = Holders(h)
      BY <1>1, <1>5, StillHolding
    <2>2. CASE PublishSwitch(t) \/ CutoverSwitch(t)
      <3>g. PICK g \in Gens : g = th[t].gen
        BY <1>0, <2>2 DEF PublishSwitch, CutoverSwitch, At, LocalsOK
      <3>1. word' = word /\ active' \in {active, g}
        BY <2>2, <3>g DEF PublishSwitch, CutoverSwitch, Switch
      <3>2. State(word[g]) = Accepting /\ ~retired[g]
        BY <1>0, <2>2, <3>g, SwitchNotSealed
           DEF PublishSwitch, CutoverSwitch, At, SealedOK
      <3> QED BY <2>1, <3>1, <3>2 DEF Unmoved
    <2>3. CASE CloseSwitch(t)
      BY <2>1, <2>3 DEF CloseSwitch, Switch, Unmoved
    <2>4. CASE ~PublishSwitch(t) /\ ~CutoverSwitch(t) /\ ~CloseSwitch(t)
      <3>1. word' = word /\ active' = active
        BY <1>1, <1>5, <2>4 DEF Begin, Continue, DropLease, Timeout, AcquireLoad,
           PublishBegin, CloseBegin, CutoverBegin, DrainUntil, AcquireRefuse,
           CountService, ReleaseLoad, ReleaseNotify, CasRetry, DrainLoad,
           DrainAlready, DrainNotify, BeginDrainingReturns, PublishCheck,
           CloseRetire, CutoverCheck, CutoverRetire, Register, CheckDrained,
           CheckBusy, Await, Wake
      <3> QED BY <2>1, <3>1 DEF Unmoved
    <2> QED BY <2>2, <2>3, <2>4
  <1> QED BY <1>2, <1>3, <1>4, <1>5

\* Once begin_draining has won, no lease of the generation starts and its
\* state never moves back (GEN-002).
THEOREM FenceHolds == Spec => AdmissionFence
  <1>1. ASSUME GateInv, [Next]_vars
        PROVE  \A g \in Gens : State(word[g]) # Accepting =>
                 /\ State(word'[g]) >= State(word[g])
                 /\ Holders(g)' \subseteq Holders(g)
    <2>0. \A g \in Gens : State(word[g]) \in 0..3
      BY <1>1, PackedWord DEF GateInv, TypeOK
    <2>1. CASE Next
      BY <1>1, <2>0, <2>1, StepKinds DEF Unmoved, Accepting, Draining, Drained
    <2>2. CASE UNCHANGED vars
      BY <2>0, <2>2 DEF vars, Holders
    <2> QED BY <1>1, <2>1, <2>2
  <1> QED BY <1>1, GateInvariant, PTL DEF Spec, AdmissionFence

\* A retired, hidden generation is never shown again, although publish and
\* cutover_from test the retired flag before the selector moves.
THEOREM RetiredHidden == Spec => RetiredStaysHidden
  <1>1. ASSUME GateInv, [Next]_vars
        PROVE  \A g \in Gens : retired[g] /\ active # g => active' # g
    <2>1. CASE Next
      BY <2>1, <1>1, StepKinds, GateAssumption
    <2>2. CASE UNCHANGED vars
      BY <2>2 DEF vars
    <2> QED BY <1>1, <2>1, <2>2
  <1> QED BY <1>1, GateInvariant, PTL DEF Spec, RetiredStaysHidden

\* The gate implements GenerationAdmission under the mapping in Gate.
THEOREM GateImplementsAdmission == Spec => AdmissionSpec
  <1> USE DEF Admission!Open, Admission!Closing, Admission!Quiet, Accepting,
              Draining, Drained
  <1>1. Init => Admission!Init
    <2>1. Init => \A g \in Gens : State(word[g]) = Accepting /\ Holders(g) = {}
      BY UnpackedWord DEF Init, Holders, Resting, HoldingPCs
    <2> QED BY <2>1 DEF Admission!Init, Init
  <1>2. ASSUME GateInv, [Next]_vars
        PROVE  [Admission!Next]_(Admission!vars)
    <2> DEFINE phase == [g \in Gens |-> State(word[g])]
               held == [g \in Gens |-> Holders(g)]
    <2>1. CASE UNCHANGED vars
      <3>1. phase' = phase /\ held' = held /\ active' = active
        BY <2>1 DEF vars, Holders
      <3> QED BY <3>1 DEF Admission!vars
    <2>2. CASE /\ \A h \in Gens : Unmoved(h)
               /\ \/ active' \in {active, NONE}
                  \/ active' \in Gens /\ State(word[active']) = Accepting
      <3>1. phase' = phase /\ held' = held
        BY <2>2 DEF Unmoved
      <3> QED BY <2>2, <3>1 DEF Admission!vars, Admission!Next, Admission!Hide,
              Admission!Show
    <2>3. ASSUME NEW t \in Threads, NEW g \in Gens,
                 State(word[g]) = Accepting, State(word'[g]) = Accepting,
                 Holders(g)' = Holders(g) \cup {t},
                 \A h \in Gens : h # g => Unmoved(h), active' = active
          PROVE  Admission!Next
      <3>1. phase' = phase /\ held' = [held EXCEPT ![g] = @ \cup {t}]
        BY <2>3 DEF Unmoved
      <3> QED BY <2>3, <3>1 DEF Admission!Next, Admission!Admit
    <2>4. ASSUME NEW t \in Threads, NEW g \in Gens,
                 t \in Holders(g), Holders(g)' = Holders(g) \ {t},
                 State(word'[g]) = IF State(word[g]) = Draining /\ Holders(g) = {t}
                                     THEN Drained ELSE State(word[g]),
                 \A h \in Gens : h # g => Unmoved(h), active' = active
          PROVE  Admission!Next
      <3>1. held' = [held EXCEPT ![g] = @ \ {t}]
        BY <2>4 DEF Unmoved
      <3>2. phase' = IF phase[g] = Draining /\ held[g] = {t}
                       THEN [phase EXCEPT ![g] = Drained] ELSE phase
        BY <2>4 DEF Unmoved
      <3> QED BY <2>4, <3>1, <3>2 DEF Admission!Next, Admission!Finish
    <2>5. ASSUME NEW g \in Gens, active # g, State(word[g]) = Accepting,
                 Holders(g)' = Holders(g),
                 State(word'[g]) = IF Holders(g) = {} THEN Drained ELSE Draining,
                 \A h \in Gens : h # g => Unmoved(h), active' = active
          PROVE  Admission!Next
      <3>1. held' = held
        BY <2>5 DEF Unmoved
      <3>2. phase' = [phase EXCEPT ![g] = IF held[g] = {} THEN Drained ELSE Draining]
        BY <2>5 DEF Unmoved
      <3> QED BY <2>5, <3>1, <3>2 DEF Admission!Next, Admission!Retire
    <2> QED BY <1>2, <2>1, <2>2, <2>3, <2>4, <2>5, StepKinds
  <1> QED BY <1>1, <1>2, GateInvariant, PTL DEF Spec, AdmissionSpec, Admission!Spec

=============================================================================
