---------------------------- MODULE ReloadProofs ----------------------------
(***************************************************************************)
(* Proofs, for any number of generations, callers and cache entries and    *)
(* any interference, of the safety properties of hot reload: what a commit *)
(* and a rollback leave in the registries, what lookups and invocations    *)
(* obtain while they run, and that the cache answers as the walk would.    *)
(***************************************************************************)
EXTENDS Reload, SequenceTheorems, FiniteSetTheorems, WellFoundedInduction, TLAPS

(***************************************************************************)
(* Classes of steps of a transaction.                                      *)
(***************************************************************************)
\* No Fiber has been installed.
Fresh == {"idle", "wait", "stage", "install"}
\* start runs, or has run and is not yet Active.
Activating == {"starting", "registered", "sealed"}
\* Registered in its staging Scope, before and after the revision is prepared.
Prepared == {"commit", "prepare", "fence", "dropStaged"}
\* The record of the staged Fiber is locked.
Held == {"providers", "scope", "invocations", "publish", "retire", "services", "finish",
         "undoInvocations", "undoScope", "undoProviders"}
\* The selector names the staged generation.
Switched == {"retire", "services", "finish"}
Cleaning == {"cleanup", "cleanupWait", "cleanupEnd"}
Failing == {"failedStart", "stagedWait", "dropStaging", "stagingWait", "restore"}
\* The lifecycle mutex of the old Fiber is locked.
Locked == {"stage", "install", "activate"} \cup Activating \cup Prepared \cup Held \cup Failing
PCs == {"idle", "wait", "ended"} \cup Locked \cup Cleaning
\* The disposal of the staging Scope has not been asked for.
Early == PCs \ {"stagingWait", "restore", "cleanupEnd", "ended"}

(***************************************************************************)
(* Classes of steps of a disposal.                                         *)
(***************************************************************************)
Body == {"draining", "registrations", "services", "remove", "removed"}
Gone == {"publish", "complete"}
Released == {"removed", "finalize", "detach", "skip", "faulty"} \cup Gone
Unregistered == {"services", "remove"} \cup Released
Over == {"faulty", "terminated"} \cup Gone
Steps == {"idle", "begun", "terminated"} \cup Body \cup Unregistered

ScopeRec == [state : {"none", "Active", "Disposing", "Disposed", "Terminated"},
             step : {"idle", "begun", "members", "done"},
             kids : SUBSET Txs, fibers : SUBSET Gens, bad : BOOLEAN]
CallPCs == {"idle", "path", "owned", "lookup", "walk", "acquire", "snapshot", "middleware",
            "handler", "chain", "held", "absent", "changed"}
CallRec == [pc : CallPCs, kind : {"get", "invoke"}, owner : 0..MaxGen, scope : Scopes,
            path : {<<>>} \cup {Path(s) : s \in Scopes},
            found : 0..MaxGen, middleware : 0..MaxGen, attempt : {1, 2}, from : Nat]
Locations == (Scopes \cup {NoScope}) \X (0..MaxGen)

-----------------------------------------------------------------------------
(***************************************************************************)
(* The inductive invariant.                                                *)
(***************************************************************************)
Typed ==
  /\ open \in BOOLEAN
  /\ log \in Seq(0..MaxGen) /\ Len(log) >= 1
  /\ retired \subseteq Gens /\ draining \subseteq retired
  /\ owned \subseteq Txs /\ patient \subseteq Gens
  /\ state \in [Gens -> States] /\ home \in [Gens -> Scopes]
  /\ lifecycle \in [Gens -> {"free", "activation", "reload", "disposal"}]
  /\ disposal \in [Gens -> Steps]
  /\ entry \in [Scopes -> 0..MaxGen]
  /\ cache \in [Scopes -> {<<>>} \cup Locations]
  /\ invocation \in [Gens -> Scopes \cup {NoScope}] /\ declared \in [Gens -> Scopes \cup {NoScope}]
  /\ member \in [Gens -> Scopes \cup {NoScope}] /\ child \in [Gens -> Scopes \cup {NoScope}]
  /\ scope \in [Scopes -> ScopeRec]
  /\ boot \in {"registered", "published", "ready"}
  /\ pc \in [Txs -> PCs] /\ old \in [Txs -> 0..MaxGen]
  /\ outcome \in [Txs -> {"none", "Refused", "Failed", "CommittedWithCleanupPending",
                          "Completed", "ReloadCommitted"}]
  /\ call \in [Callers -> CallRec]

\* The selector goes from NONE up through the generations and, once, back to NONE.
Named(f) == \E i \in DOMAIN log : log[i] = f
LogInv ==
  /\ log[1] = 0 /\ (Len(log) = 1 <=> boot = "registered")
  /\ \A i \in 2..(Len(log) - 1) : log[i] # 0
  /\ \A i \in DOMAIN log : log[i] # 0 => log[i] >= i - 1
  /\ \A i, j \in DOMAIN log : i < j /\ log[j] # 0 => log[i] < log[j]

\* A retired generation is not visible; a Fiber whose disposal began is draining.
GateInv ==
  \A f \in Gens :
    /\ f \in retired => ~Visible(f)
    /\ disposal[f] # "idle" => f \in draining

\* Before the first activation is complete, transactions can only wait for it.
BootInv ==
  boot # "ready" =>
    /\ state[1] = "Starting" /\ disposal[1] = "idle" /\ 1 \notin retired
    /\ entry[Target] = 1
    /\ scope[Target].state = "Active" /\ scope[Target].step = "idle"
    /\ \A g \in Txs : pc[g] \in {"idle", "wait"}

\* Transactions begin in order, each to replace an older Fiber that no other one owns.
TxOK(g) ==
  /\ pc[g] # "idle" => /\ old[g] \in 1..(g - 1) /\ old[g] \notin owned /\ state[old[g]] # "none"
                       /\ \A h \in Txs : h < g => pc[h] # "idle"
  /\ pc[g] \in Fresh => state[g] = "none"
  /\ state[g] = "none" => pc[g] \in Fresh \cup {"dropStaging", "stagingWait", "restore", "ended"}
  /\ home[g] \in {g, Target}
  /\ home[g] = Target <=> /\ pc[g] \in Cleaning \cup {"ended"}
                          /\ outcome[g] \notin {"Failed", "Refused"}
  /\ outcome[g] \in {"Failed", "Refused"} => pc[g] = "ended"
  /\ outcome[g] = "Refused" => state[g] = "none"
  /\ outcome[g] # "Refused" /\ pc[g] = "ended" => outcome[g] # "none"
  /\ g \in owned <=> state[g] # "none" /\ disposal[g] = "idle" /\ home[g] = g
  /\ pc[g] \in Held => disposal[g] = "idle" /\ state[g] = "Active"
  /\ pc[g] \in Switched => Visible(g) /\ disposal[old[g]] \in {"idle", "begun"}
  /\ pc[g] \in Switched \cup {"cleanup"} => home[old[g]] = Target
  /\ pc[g] \in {"restore", "ended"} /\ home[g] = g /\ state[g] # "none" => disposal[g] \in Over
TxInv == home[1] = Target /\ \A g \in Txs : TxOK(g)

\* Who holds a lifecycle mutex; one transaction at a time has the Scope lock.
LockInv ==
  /\ \A f \in Gens :
       /\ lifecycle[f] = "activation" <=> IF f = 1 THEN boot # "ready" ELSE pc[f] \in Activating
       /\ lifecycle[f] = "reload" <=> \E g \in Txs : old[g] = f /\ pc[g] \in Locked
       /\ lifecycle[f] = "disposal" <=> disposal[f] \in Body
  /\ \A g, h \in Txs : pc[g] \in Locked /\ pc[h] \in Locked /\ old[g] = old[h] => g = h
  /\ \A g, h \in Txs : Committing(g) /\ Committing(h) => g = h

\* What the state of a Fiber says of its disposal.
FiberOK(f) ==
  /\ state[f] = "none" => /\ disposal[f] = "idle" /\ f \notin retired /\ lifecycle[f] = "free"
                          /\ entry[f] = 0
                          /\ {invocation[f], declared[f], member[f], child[f]} = {NoScope}
  /\ state[f] \in {"Created", "Starting"} => disposal[f] = "idle"
  /\ disposal[f] = "idle" => state[f] \notin {"Disposing", "Disposed"}
  /\ state[f] = "Disposed" => disposal[f] \in {"complete", "faulty"}
  /\ disposal[f] # "idle" /\ (home[f] = Target \/ scope[Target].state = "Active") =>
       state[f] \in {"Disposing", "Disposed"}
  /\ disposal[f] \in {"skip", "faulty"} => scope[Target].state # "Active"
  /\ state[f] = "Reloading" => \E h \in Txs : old[h] = f /\ pc[h] \in Locked \cup {"cleanup"}
  /\ f \in Txs /\ pc[f] \in Activating => disposal[f] \in {"idle", "begun"}
FiberInv == \A f \in Gens : FiberOK(f)

\* Where the Fiber is registered.
Moved == Held \ {"providers"}
MovedScope == Moved \ {"scope", "undoProviders"}
MovedInvocations == MovedScope \ {"invocations", "undoScope"}
Place(g, moved) == IF pc[g] \in moved THEN Target ELSE g

StagedOK(g) ==
  /\ pc[g] \in Held =>
       /\ declared[g] = Place(g, Moved)
       /\ member[g] = Place(g, MovedScope) /\ child[g] = Place(g, MovedScope)
       /\ invocation[g] = Place(g, MovedInvocations)
       /\ entry[g] = IF pc[g] = "finish" THEN 0 ELSE g
  /\ pc[g] \in {"registered", "sealed"} \cup Prepared /\ disposal[g] \in {"idle", "begun"} =>
       {invocation[g], declared[g], member[g], child[g], entry[g]} = {g}
  /\ pc[g] \in {"activate", "starting"} /\ disposal[g] \in {"idle", "begun"} => declared[g] = g
  /\ pc[g] \notin Held => {invocation[g], declared[g], member[g], child[g]} \subseteq {NoScope, home[g]}
  /\ pc[g] \notin Held /\ state[g] # "none" /\ disposal[g] \notin Gone => member[g] = home[g]
  /\ entry[g] \in {0, g}
  /\ disposal[g] \in Released /\ home[g] = g => entry[g] = 0
  /\ state[g] \in {"Active", "Reloading"} /\ disposal[g] = "idle" => entry[g] = g \/ Visible(g) \/ home[g] = Target

RegisteredOK(f) ==
  /\ home[f] = Target /\ disposal[f] = "idle" =>
       {invocation[f], declared[f], member[f], child[f]} = {Target}
  /\ home[f] = Target => {invocation[f], declared[f], member[f], child[f]} \subseteq {NoScope, Target}
  /\ disposal[f] \in Unregistered => child[f] = NoScope /\ invocation[f] = NoScope
  /\ disposal[f] \in Gone => member[f] = NoScope /\ declared[f] = NoScope
  /\ disposal[f] = "remove" => entry[home[f]] = f
RegistryInv == (\A g \in Txs : StagedOK(g)) /\ (\A f \in Gens : RegisteredOK(f))

\* The service of the visible generation is the one in the target Scope.
VisibleInv ==
  /\ ServicesFree /\ active # 0 => entry[Target] = active
  /\ \A g \in Txs : pc[g] \in {"retire", "services"} => entry[Target] = old[g]
  /\ \A f \in Gens : Named(f) => home[f] = Target \/ pc[f] \in Switched
  /\ \A f \in Gens : home[f] = Target /\ boot # "registered" => Named(f)
  /\ \A f \in Gens : home[f] = Target /\ disposal[f] = "idle" /\ boot # "registered" =>
       Visible(f) \/ \E h \in Txs : old[h] = f /\ Replaces(h)

ScopeOK(s) ==
  /\ scope[s].step = "idle" <=> scope[s].state \in {"none", "Active"}
  /\ scope[s].step = "done" <=> scope[s].state \in {"Disposed", "Terminated"}
  /\ scope[s].kids # {} => s = Target
  /\ \A f \in scope[s].fibers : state[f] # "none"
StagingOK(g) ==
  /\ pc[g] \in {"idle", "wait", "stage"} => scope[g].state = "none"
  /\ scope[Target].state = "Active" /\ pc[g] \in Early => scope[g].step = "idle"
  /\ scope[Target].state = "Active" /\ pc[g] \in {"activate"} \cup Activating => disposal[g] = "idle"
  /\ scope[g].fibers \subseteq {g}
  /\ scope[g].step \in {"members", "done"} /\ state[g] # "none" =>
       \/ scope[g].step = "members" /\ g \in scope[g].fibers
       \/ disposal[g] \in Over \/ home[g] = Target
ScopeInv ==
  /\ scope[Target].state # "none" /\ scope[1].state = "none"
  /\ (\A s \in Scopes : ScopeOK(s)) /\ (\A g \in Txs : StagingOK(g))

\* Absence is cached only while the selector names nothing.
CacheInv ==
  /\ \A s \in Scopes : cache[s] # <<>> =>
       /\ cache[s][2] = 0 /\ ServicesFree /\ boot # "published" => active = 0
       /\ cache[s][2] # 0 => cache[s][1] \in {s, Target}
  /\ Cardinality({s \in Scopes : cache[s] # <<>>}) <= MaxCache

\* A call that has found a generation.
Got == {"acquire", "middleware", "handler", "chain", "held"}
Since(c, n, f) == \E i \in (call[c].from + n)..Len(log) : log[i] = f

CallOK(c) ==
  /\ call[c].from \in 1..Len(log) /\ (boot # "ready" => call[c].from = 1)
  /\ call[c].pc \in {"owned", "lookup", "walk"} => call[c].path = Path(call[c].scope)
  /\ call[c].pc \in {"snapshot", "middleware", "handler", "chain"} =>
       call[c].kind = "invoke" /\ call[c].path = <<Target>>
  /\ call[c].pc \in {"path", "owned", "lookup", "walk", "acquire"} => call[c].kind = "get"
  /\ call[c].kind = "invoke" => call[c].owner = 0
  /\ ~Returned(c) /\ call[c].owner # 0 =>
       /\ disposal[call[c].owner] \in {"idle", "begun", "draining", "terminated"}
       /\ \/ Named(call[c].owner)
          \/ call[c].scope = call[c].owner /\ entry[call[c].owner] = call[c].owner
  /\ call[c].pc \in {"lookup", "walk"} => call[c].owner = 0 \/ Named(call[c].owner)
  /\ call[c].pc \in Got =>
       /\ call[c].found \in Gens /\ call[c].found >= call[c].owner
       /\ call[c].found = call[c].owner \/ Since(c, 0, call[c].found)
       /\ call[c].attempt = 2 => \/ call[c].owner \in retired \/ call[c].found = call[c].owner
                                 \/ Since(c, 1, call[c].found)
  /\ call[c].attempt = 2 => call[c].owner \in retired \/ call[c].from < Len(log)
  /\ call[c].pc \in {"handler", "chain", "held"} /\ call[c].kind = "invoke" =>
       call[c].middleware = call[c].found
  /\ call[c].pc = "absent" => Since(c, 0, 0)
  /\ call[c].pc = "changed" => Since(c, 0, 0) \/ Changes(c) >= 2 \/ call[c].owner \in retired
CallInv == \A c \in Callers : CallOK(c)

ReloadInv ==
  /\ Typed /\ LogInv /\ GateInv /\ BootInv /\ TxInv /\ LockInv /\ FiberInv /\ RegistryInv
  /\ VisibleInv /\ ScopeInv /\ CacheInv /\ CallInv

-----------------------------------------------------------------------------
(***************************************************************************)
(* The selector.  Its history only grows.                                  *)
(***************************************************************************)
Extends(x) == log' = Append(log, x)

LEMMA Unchanged ==
  ASSUME log' = log
  PROVE  /\ active' = active
         /\ \A f : (Visible(f)' <=> Visible(f)) /\ (Named(f)' <=> Named(f))
BY DEF active, Visible, Named

\* What a new value of the selector leaves of the ones before it.
LEMMA Extended ==
  ASSUME Typed, NEW x \in 0..MaxGen, Extends(x)
  PROVE  /\ log' \in Seq(0..MaxGen) /\ Len(log') = Len(log) + 1
         /\ \A i \in 1..Len(log) : log'[i] = log[i]
         /\ log'[Len(log) + 1] = x /\ active' = x
         /\ \A f : Named(f)' <=> Named(f) \/ f = x
<1>1. log \in Seq(0..MaxGen)
  BY DEF Typed
<1>2. /\ log' \in Seq(0..MaxGen) /\ Len(log') = Len(log) + 1
      /\ \A i \in 1..Len(log) : log'[i] = log[i]
      /\ log'[Len(log) + 1] = x
  BY <1>1 DEF Extends
<1>3. active' = x
  BY <1>2 DEF active
<1>4. ASSUME NEW f PROVE Named(f)' <=> Named(f) \/ f = x
  <2>1. DOMAIN log' = 1..(Len(log) + 1) /\ DOMAIN log = 1..Len(log) /\ Len(log) \in Nat
    BY <1>1, <1>2
  <2> QED BY <1>2, <2>1 DEF Named
<1> QED BY <1>2, <1>3, <1>4

LEMMA ActiveType ==
  ASSUME Typed
  PROVE  /\ Len(log) \in Nat \ {0} /\ DOMAIN log = 1..Len(log)
         /\ active \in 0..MaxGen /\ active = log[Len(log)]
         /\ Named(active)
<1>1. log \in Seq(0..MaxGen) /\ Len(log) >= 1
  BY DEF Typed
<1>2. Len(log) \in Nat \ {0} /\ DOMAIN log = 1..Len(log) /\ Len(log) \in DOMAIN log
  BY <1>1
<1>3. log[Len(log)] \in 0..MaxGen
  BY <1>1, <1>2, ElementOfSeq
<1> QED BY <1>2, <1>3 DEF active, Named

\* Once the selector has named a generation it names none older: it is at NONE or
\* at least there.
LEMMA NeverOlder ==
  ASSUME Typed, LogInv, NEW f \in Gens, Named(f)
  PROVE  active = 0 \/ active >= f
<1>1. PICK i \in DOMAIN log : log[i] = f
  BY DEF Named
<1>2. Len(log) \in Nat \ {0} /\ DOMAIN log = 1..Len(log) /\ active = log[Len(log)] /\ active \in 0..MaxGen
  BY ActiveType
<1>3. i = Len(log) \/ i < Len(log)
  BY <1>1, <1>2
<1>4. i < Len(log) /\ active # 0 => f < active
  BY <1>1, <1>2 DEF LogInv
<1> QED BY <1>1, <1>2, <1>3, <1>4, ReloadAssumption DEF Gens

\* Only a generation that is newer than the visible one, or NONE, comes next.
LEMMA LogAppend ==
  ASSUME Typed, LogInv, NEW x \in 0..MaxGen, Extends(x),
         boot' # "registered",
         boot = "registered" \/ active # 0, x = 0 \/ x > active
  PROVE  LogInv'
<1>1. /\ Len(log) \in Nat \ {0} /\ DOMAIN log = 1..Len(log) /\ active = log[Len(log)]
      /\ active \in 0..MaxGen /\ \A i \in 1..Len(log) : log[i] \in 0..MaxGen
  <2>1. log \in Seq(0..MaxGen)
    BY DEF Typed
  <2>2. \A i \in 1..Len(log) : log[i] \in 0..MaxGen
    BY <2>1, ElementOfSeq
  <2> QED BY <2>2, ActiveType
<1>2. /\ log' \in Seq(0..MaxGen) /\ Len(log') = Len(log) + 1
      /\ \A i \in 1..Len(log) : log'[i] = log[i]
      /\ log'[Len(log) + 1] = x
  BY Extended
<1>3. DOMAIN log' = 1..(Len(log) + 1)
  BY <1>2
<1>4. log'[1] = 0 /\ ~(Len(log') = 1)
  BY <1>1, <1>2 DEF LogInv
<1>5. \A i \in 2..(Len(log') - 1) : log'[i] # 0
  <2>1. 2..(Len(log') - 1) = 2..Len(log)
    BY <1>1, <1>2
  <2>2. ASSUME NEW i \in 2..Len(log) PROVE log'[i] # 0
    <3>1. i \in 1..Len(log) /\ log'[i] = log[i]
      BY <1>1, <1>2, <2>2
    <3>2. CASE i = Len(log)
      <4>1. boot # "registered"
        BY <1>1, <2>2, <3>2 DEF LogInv
      <4> QED BY <1>1, <3>1, <3>2, <4>1
    <3>3. CASE i # Len(log)
      <4>1. i \in 2..(Len(log) - 1)
        <5>1. Len(log) \in Nat
          BY <1>1
        <5> QED BY <2>2, <3>3, <5>1
      <4> QED BY <3>1, <4>1 DEF LogInv
    <3> QED BY <3>2, <3>3
  <2> QED BY <2>1, <2>2
<1>6. ASSUME NEW i \in DOMAIN log', log'[i] # 0 PROVE log'[i] >= i - 1
  <2>1. CASE i \in 1..Len(log)
    BY <1>1, <1>2, <1>6, <2>1 DEF LogInv
  <2>2. CASE i = Len(log) + 1
    <3>1. x > active
      BY <1>2, <1>6, <2>2
    <3>2. active >= Len(log) - 1
      <4>1. CASE active # 0
        BY <1>1, <4>1 DEF LogInv
      <4>2. CASE active = 0
        BY <1>1, <4>2 DEF LogInv
      <4> QED BY <4>1, <4>2
    <3> QED BY <1>1, <1>2, <2>2, <3>1, <3>2
  <2> QED BY <1>1, <1>3, <2>1, <2>2
<1>7. ASSUME NEW i \in DOMAIN log', NEW j \in DOMAIN log', i < j, log'[j] # 0
      PROVE  log'[i] < log'[j]
  <2>1. CASE j \in 1..Len(log)
    <3>1. i \in 1..Len(log) /\ log'[i] = log[i] /\ log'[j] = log[j]
      BY <1>1, <1>2, <1>3, <1>7, <2>1
    <3>2. i \in DOMAIN log /\ j \in DOMAIN log /\ log[j] # 0
      BY <1>1, <1>7, <2>1, <3>1
    <3> QED BY <1>7, <3>1, <3>2 DEF LogInv
  <2>2. CASE j = Len(log) + 1
    <3>1. log'[j] = x /\ x > active
      BY <1>2, <1>7, <2>2
    <3>2. i \in 1..Len(log) /\ log'[i] = log[i]
      BY <1>1, <1>2, <1>3, <1>7, <2>2
    <3>3. log[i] <= active
      <4>1. CASE i = Len(log)
        BY <1>1, <4>1
      <4>2. CASE i < Len(log)
        <5>1. active # 0 => log[i] < active
          BY <1>1, <3>2, <4>2 DEF LogInv
        <5>2. active = 0 => FALSE
          BY <1>1, <3>2, <4>2 DEF LogInv
        <5> QED BY <1>1, <3>2, <5>1, <5>2
      <4> QED BY <1>1, <3>2, <4>1, <4>2
    <3> QED BY <1>1, <3>1, <3>2, <3>3
  <2> QED BY <1>1, <1>3, <2>1, <2>2
<1> QED BY <1>4, <1>5, <1>6, <1>7 DEF LogInv

-----------------------------------------------------------------------------
(***************************************************************************)
(* What a step of somebody else leaves of a call, and of the cache.        *)
(***************************************************************************)
\* A lease on the caller's own generation keeps the drain from ending.
Undrained == {"idle", "begun", "draining", "terminated"}

LogGrows == log' = log \/ \E x \in 0..MaxGen : Extends(x)

LEMMA Grows ==
  ASSUME Typed, LogGrows
  PROVE  /\ Len(log) \in Nat \ {0} /\ Len(log') \in Nat \ {0} /\ Len(log) <= Len(log')
         /\ \A i \in 1..Len(log) : log'[i] = log[i]
         /\ \A f : Named(f) => Named(f)'
<1>1. Len(log) \in Nat \ {0}
  BY ActiveType
<1>2. CASE log' = log
  BY <1>1, <1>2, Unchanged
<1>3. CASE \E x \in 0..MaxGen : Extends(x)
  <2>1. PICK x \in 0..MaxGen : Extends(x)
    BY <1>3
  <2>2. /\ Len(log') = Len(log) + 1 /\ \A i \in 1..Len(log) : log'[i] = log[i]
        /\ \A f : Named(f)' <=> Named(f) \/ f = x
    BY <2>1, Extended
  <2>3. Len(log') \in Nat \ {0} /\ Len(log) <= Len(log')
    BY <1>1, <2>2
  <2> QED BY <1>1, <2>2, <2>3
<1> QED BY <1>2, <1>3 DEF LogGrows

LEMMA CallKept ==
  ASSUME Typed, CallInv, call' = call, LogGrows, retired \subseteq retired',
         boot' # "ready" => boot # "ready",
         \A f \in Gens : disposal[f] \in Undrained => disposal'[f] \in Undrained \/ ~Leased(f),
         \A f \in Gens : entry[f] = f /\ disposal[f] \in Undrained => entry'[f] = f \/ Named(f)'
  PROVE  CallInv'
<1> SUFFICES ASSUME NEW c \in Callers PROVE CallOK(c)'
  BY DEF CallInv
<1>1. CallOK(c) /\ call'[c] = call[c] /\ call[c] \in CallRec
  BY DEF CallInv, Typed
<1>2. /\ call[c].from \in Nat /\ call[c].owner \in 0..MaxGen
  BY <1>1 DEF CallRec
<1>3. /\ Len(log) \in Nat \ {0} /\ Len(log') \in Nat \ {0} /\ Len(log) <= Len(log')
      /\ \A i \in 1..Len(log) : log'[i] = log[i]
      /\ \A f : Named(f) => Named(f)'
  BY Grows
<1>4. call[c].from \in 1..Len(log) /\ call[c].from \in 1..Len(log')
  BY <1>1, <1>2, <1>3 DEF CallOK
<1>5. ASSUME NEW n \in {0, 1}, NEW f, Since(c, n, f) PROVE Since(c, n, f)'
  <2>1. PICK i \in (call[c].from + n)..Len(log) : log[i] = f
    BY <1>5 DEF Since
  <2>2. i \in 1..Len(log) /\ i \in (call[c].from + n)..Len(log')
    BY <1>3, <1>4, <2>1
  <2> QED BY <1>1, <1>3, <2>1, <2>2 DEF Since
<1>6. Changes(c) >= 2 => Changes(c)' >= 2
  BY <1>1, <1>3, <1>4 DEF Changes
<1>7. call[c].from < Len(log) => call[c].from < Len(log')
  BY <1>3, <1>4
<1>8. ~Returned(c) /\ call[c].owner # 0 =>
        /\ disposal'[call[c].owner] \in Undrained
        /\ \/ Named(call[c].owner)'
           \/ call[c].scope = call[c].owner /\ entry'[call[c].owner] = call[c].owner
  <2> SUFFICES ASSUME ~Returned(c), call[c].owner # 0
               PROVE  /\ disposal'[call[c].owner] \in Undrained
                      /\ \/ Named(call[c].owner)'
                         \/ call[c].scope = call[c].owner /\ entry'[call[c].owner] = call[c].owner
    OBVIOUS
  <2>1. call[c].owner \in Gens
    BY <1>2, ReloadAssumption DEF Gens
  <2>2. Leased(call[c].owner)
    BY DEF Leased, Holds
  <2>3. /\ disposal[call[c].owner] \in Undrained
        /\ \/ Named(call[c].owner)
           \/ call[c].scope = call[c].owner /\ entry[call[c].owner] = call[c].owner
    BY <1>1 DEF CallOK, Undrained
  <2> QED BY <1>3, <2>1, <2>2, <2>3
<1>9. Returned(c)' <=> Returned(c)
  BY <1>1 DEF Returned
<1> QED
  BY <1>1, <1>3, <1>4, <1>5, <1>6, <1>7, <1>8, <1>9 DEF CallOK, Undrained

LEMMA CacheKept ==
  ASSUME CacheInv, cache' = cache, ServicesFree' => ServicesFree,
         boot' # "published" => boot # "published", active' = active \/ active' = 0
  PROVE  CacheInv'
BY DEF CacheInv

\* An emptied cache says nothing.
LEMMA CacheEmptied ==
  ASSUME Bump
  PROVE  CacheInv' /\ cache' \in [Scopes -> {<<>>} \cup Locations]
<1>1. \A s \in Scopes : cache'[s] = <<>>
  BY DEF Bump
<1>2. {s \in Scopes : cache'[s] # <<>>} = {}
  BY <1>1
<1>3. Cardinality({s \in Scopes : cache'[s] # <<>>}) <= MaxCache
  <2>1. Cardinality({}) = 0 /\ 0 <= MaxCache
    BY FS_EmptySet, ReloadAssumption
  <2> QED BY <1>2, <2>1, Zenon
<1> QED BY <1>1, <1>3 DEF CacheInv, Bump

-----------------------------------------------------------------------------
(***************************************************************************)
(* Steps of a caller.                                                      *)
(***************************************************************************)
USE DEF world, gateVars, fiberVars, disposalVars, serviceVars, indexVars, txVars, others

\* The caller's record becomes r, and nothing else changes.
LEMMA CallPut ==
  ASSUME Typed, CallInv, NEW c \in Callers, NEW r \in CallRec, Put(c, r), UNCHANGED others,
         CallOK(c)'
  PROVE  CallInv' /\ call' \in [Callers -> CallRec]
<1>1. call \in [Callers -> CallRec]
  BY DEF Typed
<1>2. call' \in [Callers -> CallRec] /\ \A d \in Callers \ {c} : call'[d] = call[d]
  BY <1>1 DEF Put
<1>3. ASSUME NEW d \in Callers \ {c} PROVE CallOK(d)'
  <2>1. CallOK(d) /\ call'[d] = call[d]
    BY <1>2 DEF CallInv
  <2> QED BY <2>1 DEF CallOK, Returned, Changes, Since, Named
<1> QED BY <1>2, <1>3 DEF CallInv

\* The rest of the invariant does not read what a caller changes.
LEMMA CallOnly ==
  ASSUME ReloadInv, UNCHANGED others, CallInv', CacheInv',
         call' \in [Callers -> CallRec], cache' \in [Scopes -> {<<>>} \cup Locations]
  PROVE  ReloadInv'
<1>1. Typed'
  BY DEF ReloadInv, Typed
<1>2. LogInv' /\ GateInv' /\ BootInv'
  BY DEF ReloadInv, LogInv, GateInv, BootInv, Visible, active
<1>3. TxInv'
  BY DEF ReloadInv, TxInv, TxOK, Visible, active
<1>4. LockInv' /\ FiberInv'
  <2>1. LockInv'
    BY DEF ReloadInv, LockInv, Committing
  <2>2. FiberInv'
    BY DEF ReloadInv, FiberInv, FiberOK
  <2> QED BY <2>1, <2>2
<1>5. RegistryInv'
  <2>1. ASSUME NEW g \in Txs PROVE StagedOK(g)'
    <3>1. StagedOK(g)
      BY DEF ReloadInv, RegistryInv
    <3> QED BY <3>1 DEF StagedOK, Place, Visible, active
  <2>2. ASSUME NEW f \in Gens PROVE RegisteredOK(f)'
    <3>1. RegisteredOK(f)
      BY DEF ReloadInv, RegistryInv
    <3> QED BY <3>1 DEF RegisteredOK
  <2> QED BY <2>1, <2>2 DEF RegistryInv
<1>6. VisibleInv' /\ ScopeInv'
  BY DEF ReloadInv, VisibleInv, ServicesFree, active, Named, Visible, Replaces, ScopeInv, ScopeOK, StagingOK
<1> QED BY <1>1, <1>2, <1>3, <1>4, <1>5, <1>6 DEF ReloadInv

LEMMA CallFields ==
  ASSUME Typed, CallInv, NEW c \in Callers
  PROVE  /\ CallOK(c) /\ call[c] \in CallRec
         /\ call[c].owner \in 0..MaxGen /\ call[c].from \in Nat /\ call[c].scope \in Scopes
         /\ call[c].found \in 0..MaxGen /\ call[c].attempt \in {1, 2}
         /\ call[c].owner # 0 => call[c].owner \in Gens
<1>1. CallOK(c) /\ call[c] \in CallRec
  BY DEF CallInv, Typed
<1> QED BY <1>1, ReloadAssumption DEF CallRec, Gens

LEMMA CallEndsStep ==
  ASSUME ReloadInv, NEW c \in Callers, CallEnds(c)
  PROVE  ReloadInv'
<1>1. Typed /\ CallInv /\ CacheInv
  BY DEF ReloadInv
<1>2. NoCall \in CallRec /\ call' = [call EXCEPT ![c] = NoCall]
  BY ReloadAssumption DEF CallEnds, Put, NoCall, CallRec, CallPCs, Scopes, Target
<1>3. call'[c] = NoCall
  BY <1>1, <1>2 DEF Typed
<1>4. CallOK(c)'
  <2>1. Len(log) \in Nat \ {0} /\ log' = log
    BY <1>1, ActiveType DEF CallEnds
  <2> QED BY <1>3, <2>1 DEF CallOK, NoCall, Returned, Got
<1>5. CallInv' /\ call' \in [Callers -> CallRec]
  BY <1>1, <1>2, <1>4, CallPut DEF CallEnds
<1>6. CacheInv' /\ cache' \in [Scopes -> {<<>>} \cup Locations]
  BY <1>1 DEF CallEnds, CacheInv, ServicesFree, active, Typed
<1> QED BY <1>5, <1>6, CallOnly DEF CallEnds

\* What the lookup's lease or the registry's answer makes of a call.
LEMMA RetryStep ==
  ASSUME Typed, CallInv, NEW c \in Callers, NEW step \in {"path", "snapshot"},
         call[c].pc \in Got, step = "path" => call[c].kind = "get",
         step = "snapshot" => call[c].kind = "invoke" /\ call[c].path = <<Target>>,
         GateInv, call[c].found \in draining, call[c].pc # "held",
         Put(c, Retry(c, step)), UNCHANGED others
  PROVE  CallInv' /\ call' \in [Callers -> CallRec]
<1> DEFINE r == Retry(c, step)
<1>1. /\ CallOK(c) /\ call[c] \in CallRec
      /\ call[c].owner \in 0..MaxGen /\ call[c].from \in Nat /\ call[c].scope \in Scopes
      /\ call[c].found \in 0..MaxGen /\ call[c].attempt \in {1, 2}
      /\ call[c].owner # 0 => call[c].owner \in Gens
  BY CallFields
<1>2. /\ r \in CallRec /\ r.owner = call[c].owner /\ r.scope = call[c].scope /\ r.kind = call[c].kind
      /\ r.from = call[c].from /\ r.path = call[c].path
      /\ \/ call[c].attempt = 1 /\ r.pc = step /\ r.attempt = 2
         \/ call[c].attempt = 2 /\ r.pc = "changed" /\ r.attempt = 2
  BY <1>1 DEF Retry, CallRec, CallPCs
<1> HIDE DEF r
<1>3. call'[c] = r
  BY DEF Put, Typed, r
<1>4. /\ Len(log) \in Nat \ {0} /\ DOMAIN log = 1..Len(log) /\ active = log[Len(log)]
  BY <1>1, ActiveType
\* What was found is draining: the selector has moved on.
<1>5. call[c].found \in retired /\ call[c].found \in Gens /\ active # call[c].found
  BY <1>1 DEF CallOK, GateInv, Typed, Visible
<1>6. call[c].owner \in retired \/ call[c].from + 1 <= Len(log)
  <2>1. CASE call[c].found = call[c].owner
    BY <1>5, <2>1
  <2>2. CASE call[c].found # call[c].owner
    <3>1. PICK i \in call[c].from..Len(log) : log[i] = call[c].found
      BY <1>1, <2>2 DEF CallOK, Since
    <3> QED BY <1>1, <1>4, <1>5, <3>1
  <2> QED BY <2>1, <2>2
<1>7. call[c].attempt = 2 => call[c].owner \in retired \/ Len(log) - call[c].from >= 2
  <2> SUFFICES ASSUME call[c].attempt = 2, call[c].owner \notin retired PROVE Len(log) - call[c].from >= 2
    OBVIOUS
  <2>1. PICK i \in (call[c].from + 1)..Len(log) : log[i] = call[c].found
    BY <1>1, <1>5 DEF CallOK, Since
  <2> QED BY <1>1, <1>4, <1>5, <2>1
<1>8. CallOK(c)'
  <2>1. log' = log /\ retired' = retired /\ disposal' = disposal /\ entry' = entry /\ boot' = boot
    OBVIOUS
  <2>2. call[c].owner # 0 =>
          /\ disposal[call[c].owner] \in Undrained
          /\ \/ Named(call[c].owner)
             \/ call[c].scope = call[c].owner /\ entry[call[c].owner] = call[c].owner
    BY <1>1 DEF CallOK, Undrained, Returned, Got
  <2>3. r.from \in 1..Len(log) /\ (boot # "ready" => r.from = 1) /\ (r.kind = "invoke" => r.owner = 0)
    BY <1>1, <1>2 DEF CallOK
  <2>4. call'[c].owner # 0 =>
          /\ disposal'[call'[c].owner] \in Undrained
          /\ \/ Named(call[c].owner)'
             \/ call'[c].scope = call'[c].owner /\ entry'[call'[c].owner] = call'[c].owner
    <3>1. call'[c].owner = call[c].owner /\ call'[c].scope = call[c].scope
      BY <1>2, <1>3
    <3>2. Named(call[c].owner)' <=> Named(call[c].owner)
      BY <2>1, <3>1 DEF Named
    <3> QED BY <2>1, <2>2, <3>1, <3>2
  <2>6. r.owner \in retired \/ r.from < Len(log)
    BY <1>1, <1>2, <1>4, <1>6
  <2>7. Returned(c)' <=> r.pc = "changed"
    BY <1>2, <1>3 DEF Returned
  <2>8. r.pc = "changed" => Changes(c)' >= 2 \/ r.owner \in retired
    BY <1>2, <1>3, <1>7 DEF Changes
  <2>9. r.pc \in {"path", "snapshot", "changed"} /\ (r.pc = "path" => r.kind = "get")
        /\ (r.pc = "snapshot" => r.kind = "invoke" /\ r.path = <<Target>>)
    BY <1>2
  <2> QED BY <1>3, <2>1, <2>3, <2>4, <2>6, <2>7, <2>8, <2>9 DEF CallOK, Got, Undrained
<1> QED BY <1>2, <1>8, CallPut DEF r

LEMMA LookupBeginStep ==
  ASSUME ReloadInv, NEW c \in Callers, LookupBegin(c)
  PROVE  ReloadInv'
<1>1. Typed /\ CallInv /\ CacheInv /\ GateInv /\ BootInv /\ TxInv /\ RegistryInv /\ VisibleInv /\ LogInv
  BY DEF ReloadInv
<1>2. PICK f \in Owners :
        /\ f # 0 => state[f] \in {"Active", "Reloading"} /\ RecordFree(f) /\ f \notin draining
        /\ Put(c, [NoCall EXCEPT !.pc = "path", !.owner = f, !.from = Now,
                                 !.scope = IF f = 0 THEN Target ELSE home[f]])
  BY DEF LookupBegin
<1> DEFINE r == [NoCall EXCEPT !.pc = "path", !.owner = f, !.from = Now,
                               !.scope = IF f = 0 THEN Target ELSE home[f]]
<1>3. UNCHANGED others /\ cache' = cache
  BY DEF LookupBegin
<1>4. f \in 0..MaxGen /\ (f # 0 => f \in Gens)
  BY ReloadAssumption DEF Gens
<1>5. Len(log) \in Nat \ {0} /\ Now \in 1..Len(log) /\ (boot # "ready" => Now = 1)
  BY <1>1, ActiveType DEF Now
<1>6. r.scope \in Scopes
  BY <1>1, <1>4, ReloadAssumption DEF Typed, NoCall, Scopes, Target
<1>7. /\ r \in CallRec /\ r.pc = "path" /\ r.owner = f /\ r.from = Now /\ r.kind = "get"
      /\ r.attempt = 1 /\ r.scope = IF f = 0 THEN Target ELSE home[f]
  <2> DEFINE n == Now
  <2>1. n \in Nat /\ n = Now /\ 0 \in 0..MaxGen
    BY <1>5, ReloadAssumption
  <2>2. r.scope = IF f = 0 THEN Target ELSE home[f]
    BY DEF NoCall
  <2> DEFINE s == IF f = 0 THEN Target ELSE home[f]
  <2>3. s \in Scopes
    BY <1>6, <2>2
  <2>4. r = [NoCall EXCEPT !.pc = "path", !.owner = f, !.from = n, !.scope = s]
    OBVIOUS
  <2> HIDE DEF s, n, r
  <2>5. r \in CallRec /\ r.pc = "path" /\ r.owner = f /\ r.from = n /\ r.kind = "get" /\ r.attempt = 1
    BY <1>4, <2>1, <2>3, <2>4 DEF CallRec, CallPCs, NoCall
  <2> QED BY <2>1, <2>2, <2>5
<1> HIDE DEF r
<1>8. call'[c] = r
  BY <1>1, <1>2 DEF Put, Typed, r
<1>9. f # 0 => /\ disposal[f] = "idle"
               /\ Named(f) \/ (home[f] = f /\ entry[f] = f)
  <2> SUFFICES ASSUME f # 0 PROVE disposal[f] = "idle" /\ (Named(f) \/ (home[f] = f /\ entry[f] = f))
    OBVIOUS
  <2>1. f \in Gens /\ state[f] \in {"Active", "Reloading"} /\ f \notin draining
    BY <1>2, <1>4
  <2>2. disposal[f] = "idle"
    BY <1>1, <2>1 DEF GateInv
  <2>3. CASE home[f] = Target
    <3>1. boot # "registered"
      <4>1. f \in Txs => boot = "ready"
        BY <1>1, <2>1 DEF BootInv, TxInv, TxOK, Fresh
      <4>2. f = 1 => boot = "ready"
        BY <1>1, <2>1 DEF BootInv
      <4> QED BY <2>1, <4>1, <4>2, ReloadAssumption DEF Gens, Txs
    <3> QED BY <1>1, <2>1, <2>2, <2>3, <3>1 DEF VisibleInv
  <2>4. CASE home[f] # Target
    <3>1. f \in Txs /\ home[f] = f
      BY <1>1, <2>1, <2>4, ReloadAssumption DEF TxInv, TxOK, Gens, Txs
    <3>2. entry[f] = f \/ Visible(f)
      <4>1. StagedOK(f)
        BY <1>1, <3>1 DEF RegistryInv
      <4> QED BY <2>1, <2>2, <2>4, <4>1 DEF StagedOK
    <3>3. Visible(f) => Named(f)
      BY <1>1, ActiveType DEF Visible
    <3> QED BY <2>2, <3>1, <3>2, <3>3
  <2> QED BY <2>2, <2>3, <2>4
<1>10. CallOK(c)'
  <2>1. Named(f)' <=> Named(f)
    BY <1>3 DEF Named
  <2>2. /\ call'[c].owner = f /\ call'[c].from \in 1..Len(log) /\ (boot # "ready" => call'[c].from = 1)
        /\ call'[c].kind = "get" /\ call'[c].attempt = 1 /\ call'[c].pc = "path"
        /\ call'[c].scope = IF f = 0 THEN Target ELSE home[f]
    BY <1>5, <1>7, <1>8
  <2> QED BY <1>3, <1>9, <2>1, <2>2 DEF CallOK, Got
<1>11. CallInv' /\ call' \in [Callers -> CallRec]
  BY <1>1, <1>2, <1>3, <1>7, <1>10, CallPut DEF r
<1>12. CacheInv' /\ cache' \in [Scopes -> {<<>>} \cup Locations]
  BY <1>1, <1>3 DEF CacheInv, ServicesFree, active, Typed
<1> QED BY <1>3, <1>11, <1>12, CallOnly

LEMMA OwnerKept ==
  ASSUME CallInv, NEW c \in Callers, ~Returned(c), call[c].owner # 0
  PROVE  /\ disposal[call[c].owner] \in Undrained
         /\ (Named(call[c].owner) \/ (call[c].scope = call[c].owner /\ entry[call[c].owner] = call[c].owner))
<1>1. CallOK(c)
  BY DEF CallInv
<1> QED BY <1>1 DEF CallOK, Undrained

\* A step that leaves the cache alone.
LEMMA CallAndCache ==
  ASSUME ReloadInv, UNCHANGED others, cache' = cache, CallInv', call' \in [Callers -> CallRec]
  PROVE  ReloadInv'
<1>1. CacheInv' /\ cache' \in [Scopes -> {<<>>} \cup Locations]
  BY DEF ReloadInv, CacheInv, ServicesFree, active, Typed
<1> QED BY <1>1, CallOnly

\* A call that goes on: who owns it and when it began do not change.
Continues(c, r) ==
  /\ r \in CallRec /\ r.owner = call[c].owner /\ r.from = call[c].from /\ r.kind = call[c].kind
  /\ r.scope = call[c].scope /\ r.attempt = call[c].attempt

LEMMA CallContinues ==
  ASSUME Typed, CallInv, NEW c \in Callers, NEW r, Continues(c, r), Put(c, r), UNCHANGED others,
         ~Returned(c),
         r.pc \in {"owned", "lookup", "walk"} => r.path = Path(r.scope) /\ r.kind = "get",
         r.pc \in {"snapshot", "path"} => FALSE, r.pc # "idle",
         r.pc \in {"middleware", "handler", "chain"} => r.kind = "invoke" /\ r.path = <<Target>>,
         r.pc = "acquire" => r.kind = "get",
         r.pc \in {"lookup", "walk"} => r.owner = 0 \/ Named(r.owner),
         r.pc \in Got =>
           /\ r.found \in Gens /\ r.found >= r.owner
           /\ r.found = r.owner \/ Since(c, 0, r.found)
           /\ r.attempt = 2 => r.owner \in retired \/ r.found = r.owner \/ Since(c, 1, r.found),
         r.pc \in {"handler", "chain", "held"} /\ r.kind = "invoke" => r.middleware = r.found,
         r.pc = "absent" => Since(c, 0, 0), r.pc # "changed"
  PROVE  CallInv' /\ call' \in [Callers -> CallRec]
<1>1. CallOK(c) /\ call'[c] = r /\ r \in CallRec
  BY DEF CallInv, Put, Typed, Continues
<1>2. \A n, f : Since(c, n, f)' <=> Since(c, n, f)
  BY <1>1 DEF Since, Continues
<1>3. \A f : Named(f)' <=> Named(f)
  BY DEF Named
<1>4. Returned(c)' => r.pc \in {"held", "absent"}
  BY <1>1 DEF Returned
<1>5. call[c].owner # 0 =>
        /\ disposal[call[c].owner] \in Undrained
        /\ (Named(call[c].owner) \/ (call[c].scope = call[c].owner /\ entry[call[c].owner] = call[c].owner))
  BY OwnerKept
<1>6. CallOK(c)'
  <2>1. /\ call'[c].pc = r.pc /\ call'[c].owner = call[c].owner /\ call'[c].from = call[c].from
        /\ call'[c].kind = call[c].kind /\ call'[c].scope = call[c].scope
        /\ call'[c].attempt = call[c].attempt /\ call'[c].found = r.found /\ call'[c].path = r.path
        /\ call'[c].middleware = r.middleware
    BY <1>1 DEF Continues
  <2>2. Named(call[c].owner)' <=> Named(call[c].owner)
    BY <2>1 DEF Named
  <2>3. /\ Since(c, 0, 0)' <=> Since(c, 0, 0)
        /\ Since(c, 0, call[c].found)' <=> Since(c, 0, r.found)
        /\ Since(c, 1, call[c].found)' <=> Since(c, 1, r.found)
    BY <2>1 DEF Since
  <2>4. /\ call[c].from \in 1..Len(log) /\ (boot # "ready" => call[c].from = 1)
        /\ call[c].kind = "invoke" => call[c].owner = 0
        /\ call[c].attempt = 2 => call[c].owner \in retired \/ call[c].from < Len(log)
    BY <1>1 DEF CallOK
  <2> QED BY <1>5, <2>1, <2>2, <2>3, <2>4 DEF CallOK, Undrained, Got, Continues
<1> QED BY <1>1, <1>6, CallPut

LEMMA LookupPathStep ==
  ASSUME ReloadInv, NEW c \in Callers, LookupPath(c)
  PROVE  ReloadInv'
<1> DEFINE r == [call[c] EXCEPT !.pc = "owned", !.path = Path(call[c].scope)]
<1>1. Typed /\ CallInv /\ call[c].pc = "path" /\ Put(c, r) /\ UNCHANGED others /\ cache' = cache
  BY DEF ReloadInv, LookupPath
<1>2. CallOK(c) /\ call[c] \in CallRec /\ call[c].scope \in Scopes
  BY <1>1, CallFields
<1>3. /\ Continues(c, r) /\ r.pc = "owned" /\ r.path = Path(r.scope)
  BY <1>2 DEF Continues, CallRec, CallPCs
<1> HIDE DEF r
<1>4. ~Returned(c) /\ r.kind = "get"
  BY <1>1, <1>2, <1>3 DEF Returned, CallOK, Continues
<1>5. CallInv' /\ call' \in [Callers -> CallRec]
  BY <1>1, <1>3, <1>4, CallContinues DEF Got
<1> QED BY <1>1, <1>5, CallAndCache

LEMMA LookupOwnedStep ==
  ASSUME ReloadInv, NEW c \in Callers, LookupOwned(c)
  PROVE  ReloadInv'
<1> DEFINE r == IF OwnStaged(c) THEN [call[c] EXCEPT !.pc = "acquire", !.found = call[c].owner]
                ELSE [call[c] EXCEPT !.pc = "lookup"]
<1>1. Typed /\ CallInv /\ call[c].pc = "owned" /\ Put(c, r) /\ UNCHANGED others /\ cache' = cache
  BY DEF ReloadInv, LookupOwned
<1>2. /\ CallOK(c) /\ call[c] \in CallRec /\ call[c].owner \in 0..MaxGen /\ call[c].scope \in Scopes
      /\ call[c].owner # 0 => call[c].owner \in Gens
  BY <1>1, CallFields
<1>3. ~Returned(c) /\ call[c].kind = "get" /\ call[c].path = Path(call[c].scope)
  BY <1>1, <1>2 DEF Returned, CallOK
<1>4. CASE OwnStaged(c)
  <2>1. Continues(c, r) /\ r.pc = "acquire" /\ r.found = call[c].owner
    BY <1>2, <1>4 DEF Continues, CallRec, CallPCs
  <2> HIDE DEF r
  <2>2. r.owner = call[c].owner /\ r.kind = "get" /\ r.found \in Gens /\ r.found >= r.owner
    BY <1>2, <1>3, <1>4, <2>1 DEF OwnStaged, Continues, Gens
  <2>3. CallInv' /\ call' \in [Callers -> CallRec]
    BY <1>1, <1>3, <2>1, <2>2, CallContinues DEF Got
  <2> QED BY <1>1, <2>3, CallAndCache
<1>5. CASE ~OwnStaged(c)
  <2>1. Continues(c, r) /\ r.pc = "lookup" /\ r.path = call[c].path
    BY <1>2, <1>5 DEF Continues, CallRec, CallPCs
  <2> HIDE DEF r
  \* A generation that the selector has never named has its own entry.
  <2>2. call[c].owner = 0 \/ Named(call[c].owner)
    <3> SUFFICES ASSUME call[c].owner # 0, ~Named(call[c].owner) PROVE FALSE
      OBVIOUS
    <3>1. call[c].scope = call[c].owner /\ entry[call[c].owner] = call[c].owner
      BY <1>1, <1>3, OwnerKept
    <3>2. ~Visible(call[c].owner)
      BY <1>1, ActiveType DEF Visible
    <3>3. call[c].path = <<call[c].owner, Target>>
      BY <1>2, <1>3, <3>1 DEF Path, Target, Gens
    <3>4. 1 \in DOMAIN call[c].path /\ call[c].path[1] = call[c].owner
      BY <3>3
    <3> QED BY <1>5, <3>1, <3>2, <3>4 DEF OwnStaged
  <2>3. CallInv' /\ call' \in [Callers -> CallRec]
    BY <1>1, <1>3, <2>1, <2>2, CallContinues DEF Got, Continues
  <2> QED BY <1>1, <2>3, CallAndCache
<1> QED BY <1>4, <1>5

LEMMA LookupAcquireStep ==
  ASSUME ReloadInv, NEW c \in Callers, LookupAcquire(c)
  PROVE  ReloadInv'
<1>1. Typed /\ CallInv /\ GateInv /\ call[c].pc = "acquire" /\ UNCHANGED others /\ cache' = cache
  BY DEF ReloadInv, LookupAcquire
<1>2. CallOK(c) /\ call[c] \in CallRec
  BY <1>1, CallFields
<1>3. CASE call[c].found \in draining
  <2>1. Put(c, Retry(c, "path")) /\ call[c].kind = "get"
    BY <1>1, <1>2, <1>3 DEF LookupAcquire, CallOK
  <2>2. CallInv' /\ call' \in [Callers -> CallRec]
    BY <1>1, <1>3, <2>1, RetryStep DEF Got
  <2> QED BY <1>1, <2>2, CallAndCache
<1>4. CASE call[c].found \notin draining
  <2> DEFINE r == [call[c] EXCEPT !.pc = "held"]
  <2>1. Put(c, r) /\ ~Returned(c) /\ call[c].kind = "get"
    BY <1>1, <1>2, <1>4 DEF LookupAcquire, CallOK, Returned
  <2>2. Continues(c, r) /\ r.pc = "held" /\ r.found = call[c].found
    BY <1>2 DEF Continues, CallRec, CallPCs
  <2> HIDE DEF r
  <2>3. /\ call[c].found \in Gens /\ call[c].found >= call[c].owner
        /\ call[c].found = call[c].owner \/ Since(c, 0, call[c].found)
        /\ call[c].attempt = 2 => \/ call[c].owner \in retired \/ call[c].found = call[c].owner
                                  \/ Since(c, 1, call[c].found)
    BY <1>1, <1>2 DEF CallOK, Got
  <2>4. CallInv' /\ call' \in [Callers -> CallRec]
    BY <1>1, <2>1, <2>2, <2>3, CallContinues DEF Got, Continues
  <2> QED BY <1>1, <2>4, CallAndCache
<1> QED BY <1>3, <1>4

-----------------------------------------------------------------------------
(***************************************************************************)
(* What the walk over the Scopes and the cache answer.                     *)
(***************************************************************************)
LEMMA PathProperties ==
  ASSUME NEW s \in Scopes
  PROVE  /\ Path(s) # <<>> /\ DOMAIN Path(s) \subseteq {1, 2} /\ Len(Path(s)) \in DOMAIN Path(s)
         /\ \A i \in DOMAIN Path(s) : Path(s)[i] \in {s, Target}
         /\ Path(s)[Len(Path(s))] = Target
<1>1. CASE s = Target
  BY <1>1 DEF Path
<1>2. CASE s # Target
  BY <1>2 DEF Path
<1> QED BY <1>1, <1>2

\* The walk finds the visible generation or nothing, and finds it when the registry
\* is not in the middle of a commit.
LEMMA Resolves ==
  ASSUME Typed, VisibleInv, NEW s \in Scopes
  PROVE  /\ Resolution(Path(s)) \in Locations
         /\ Resolution(Path(s))[2] # 0 =>
              /\ Resolution(Path(s))[2] = active
              /\ Resolution(Path(s))[1] \in {s, Target}
              /\ entry[Resolution(Path(s))[1]] = active
         /\ ServicesFree => Resolution(Path(s))[2] = active
         /\ \A i \in DOMAIN Path(s) :
              active # 0 /\ entry[Path(s)[i]] = active => Resolution(Path(s))[2] = active
<1> DEFINE p == Path(s)
           hits == {i \in DOMAIN p : entry[p[i]] # 0 /\ Visible(entry[p[i]])}
<1>1. /\ DOMAIN p \subseteq {1, 2} /\ Len(p) \in DOMAIN p /\ p[Len(p)] = Target
      /\ \A i \in DOMAIN p : p[i] \in {s, Target}
  BY PathProperties
<1>2. Resolution(p) = IF hits = {} THEN <<NoScope, 0>> ELSE <<p[Min(hits)], entry[p[Min(hits)]]>>
  BY DEF Resolution
<1>3. Target \in Scopes /\ entry \in [Scopes -> 0..MaxGen] /\ 0 \in 0..MaxGen
  <2>1. entry \in [Scopes -> 0..MaxGen]
    BY DEF Typed
  <2> QED BY <2>1, ReloadAssumption DEF Target, Scopes
<1>4. \A i : i \in hits <=> i \in DOMAIN p /\ active # 0 /\ entry[p[i]] = active
  BY DEF Visible
<1> HIDE DEF p
<1>5. CASE hits = {}
  <2>1. Resolution(p) = <<NoScope, 0>>
    BY <1>2, <1>5
  <2>2. ServicesFree => active = 0
    BY <1>1, <1>4, <1>5 DEF VisibleInv
  <2> HIDE DEF hits
  <2> QED BY <1>3, <1>4, <1>5, <2>1, <2>2 DEF Locations, p
<1>6. CASE hits # {}
  <2>1. hits \subseteq {1, 2}
    BY <1>1
  <2> HIDE DEF hits
  <2>2. \E x \in hits : \A y \in hits : x =< y
    <3>1. CASE 1 \in hits
      BY <2>1, <3>1
    <3>2. CASE 1 \notin hits
      <4>1. PICK x \in hits : TRUE
        BY <1>6
      <4> QED BY <2>1, <3>2, <4>1
    <3> QED BY <3>1, <3>2
  <2>3. Min(hits) \in hits
    BY <2>2 DEF Min
  <2> DEFINE m == p[Min(hits)]
  <2>4. Resolution(p) = <<m, entry[m]>> /\ active # 0 /\ entry[m] = active /\ m \in {s, Target}
    BY <1>1, <1>2, <1>4, <1>6, <2>3
  <2> HIDE DEF m
  <2> QED BY <1>3, <2>4 DEF Locations, p
<1> QED BY <1>5, <1>6

LEMMA CacheProperties ==
  ASSUME Typed, CacheInv, NEW s \in Scopes
  PROVE  /\ cache[s] # <<>> => cache[s] \in Locations
         /\ CacheHit(s) /\ cache[s][2] # 0 => cache[s][2] = active /\ cache[s][2] \in Gens
         /\ CacheHit(s) /\ cache[s][2] = 0 /\ ServicesFree /\ boot # "published" => active = 0
<1>1. cache[s] # <<>> => cache[s] \in Locations
  BY DEF Typed
<1>2. CacheHit(s) => cache[s] \in Locations
  BY <1>1 DEF CacheHit
<1>3. CacheHit(s) /\ cache[s][2] # 0 => cache[s][2] = active /\ cache[s][2] \in Gens
  BY <1>2, ReloadAssumption DEF CacheHit, Visible, Locations, Gens
<1> QED BY <1>1, <1>3 DEF CacheHit, CacheInv

\* A lookup that has its answer: absence counts for the moment it is read.
LEMMA Answered ==
  ASSUME Typed, LogInv, CallInv, NEW c \in Callers, call[c].pc \in {"lookup", "walk"},
         NEW f \in 0..MaxGen, f # 0 => f = active,
         f = 0 => active = 0 \/ boot = "published",
         Put(c, Found(c, f)), UNCHANGED others
  PROVE  CallInv' /\ call' \in [Callers -> CallRec]
<1> DEFINE r == Found(c, f)
<1>1. /\ CallOK(c) /\ call[c] \in CallRec /\ call[c].owner \in 0..MaxGen
      /\ call[c].from \in Nat /\ call[c].owner # 0 => call[c].owner \in Gens
  BY CallFields
<1>2. ~Returned(c) /\ call[c].kind = "get" /\ call[c].from \in 1..Len(log)
  BY <1>1 DEF Returned, CallOK
<1>3. Len(log) \in Nat \ {0} /\ active = log[Len(log)]
  BY ActiveType
<1>4. CASE f = 0
  <2>1. Continues(c, r) /\ r.pc = "absent"
    BY <1>1, <1>4 DEF Continues, CallRec, CallPCs, Found
  <2> HIDE DEF r
  <2>2. Since(c, 0, 0)
    <3>1. CASE active = 0
      <4>1. Len(log) \in (call[c].from + 0)..Len(log)
        BY <1>1, <1>2, <1>3
      <4> QED BY <1>3, <3>1, <4>1 DEF Since
    <3>2. CASE boot = "published"
      <4>1. call[c].from = 1 /\ log[1] = 0
        BY <1>1, <3>2 DEF CallOK, LogInv
      <4> QED BY <1>3, <4>1 DEF Since
    <3> QED BY <1>4, <3>1, <3>2
  <2> QED BY <1>2, <2>1, <2>2, CallContinues DEF Got, r
<1>5. CASE f # 0
  <2>1. Continues(c, r) /\ r.pc = "acquire" /\ r.found = f
    BY <1>1, <1>5 DEF Continues, CallRec, CallPCs, Found
  <2> HIDE DEF r
  <2>2. f \in Gens /\ f >= call[c].owner
    <3>1. call[c].owner = 0 \/ Named(call[c].owner)
      BY <1>1 DEF CallOK
    <3> QED BY <1>1, <1>5, <3>1, NeverOlder, ReloadAssumption DEF Gens
  <2>3. Since(c, 0, f)
    BY <1>2, <1>3, <1>5 DEF Since
  <2>4. call[c].attempt = 2 => call[c].owner \in retired \/ Since(c, 1, f)
    <3>1. call[c].attempt = 2 => call[c].owner \in retired \/ call[c].from < Len(log)
      BY <1>1 DEF CallOK
    <3> QED BY <1>2, <1>3, <1>5, <3>1 DEF Since
  <2> QED BY <1>2, <2>1, <2>2, <2>3, <2>4, CallContinues DEF Got, Continues, r
<1> QED BY <1>4, <1>5

LEMMA LookupCachedStep ==
  ASSUME ReloadInv, NEW c \in Callers, LookupCached(c)
  PROVE  ReloadInv'
<1> DEFINE s == call[c].scope
<1>1. /\ Typed /\ LogInv /\ CallInv /\ CacheInv /\ call[c].pc = "lookup" /\ ServicesFree
      /\ UNCHANGED others /\ cache' = cache
      /\ Put(c, IF CacheHit(s) THEN Found(c, cache[s][2]) ELSE [call[c] EXCEPT !.pc = "walk"])
  BY DEF ReloadInv, LookupCached
<1>2. CallOK(c) /\ call[c] \in CallRec /\ s \in Scopes
  BY <1>1, CallFields
<1>3. CASE CacheHit(s)
  <2> DEFINE f == cache[s][2]
  <2>1. Put(c, Found(c, f))
    BY <1>1, <1>3
  <2>2. f \in 0..MaxGen
    BY <1>1, <1>2, <1>3, CacheProperties DEF CacheHit, Locations
  <2>3. (f # 0 => f = active) /\ (f = 0 => active = 0 \/ boot = "published")
    BY <1>1, <1>2, <1>3, CacheProperties
  <2> HIDE DEF f
  <2>4. CallInv' /\ call' \in [Callers -> CallRec]
    BY <1>1, <2>1, <2>2, <2>3, Answered
  <2> QED BY <1>1, <2>4, CallAndCache
<1>4. CASE ~CacheHit(s)
  <2> DEFINE r == [call[c] EXCEPT !.pc = "walk"]
  <2>1. Put(c, r) /\ ~Returned(c)
    BY <1>1, <1>4 DEF Returned
  <2>2. Continues(c, r) /\ r.pc = "walk" /\ r.path = call[c].path
    BY <1>2 DEF Continues, CallRec, CallPCs
  <2> HIDE DEF r
  <2>3. /\ call[c].path = Path(call[c].scope) /\ call[c].kind = "get"
        /\ call[c].owner = 0 \/ Named(call[c].owner)
    BY <1>1, <1>2 DEF CallOK
  <2>4. CallInv' /\ call' \in [Callers -> CallRec]
    BY <1>1, <2>1, <2>2, <2>3, CallContinues DEF Got, Continues
  <2> QED BY <1>1, <2>4, CallAndCache
<1> QED BY <1>3, <1>4

\* Remembering one more answer keeps the bound.
LEMMA Remembers ==
  ASSUME Typed, CacheInv, NEW s \in Scopes, NEW location \in Locations, Remember(s, location),
         location[2] = 0 => active = 0 \/ ~ServicesFree \/ boot = "published",
         location[2] # 0 => location[1] \in {s, Target}, UNCHANGED <<pc, boot, log>>
  PROVE  CacheInv' /\ cache' \in [Scopes -> {<<>>} \cup Locations]
<1> DEFINE rest == {k \in Scopes \ {s} : cache[k] # <<>>}
<1>1. PICK evicted \in SUBSET rest :
        /\ Cardinality(rest \ evicted) < MaxCache
        /\ cache' = [k \in Scopes |-> IF k = s THEN location
                                      ELSE IF k \in evicted THEN <<>> ELSE cache[k]]
  BY DEF Remember
<1>2. /\ cache'[s] = location
      /\ \A k \in Scopes \ {s} : cache'[k] = IF k \in evicted THEN <<>> ELSE cache[k]
  BY <1>1
<1>3. location # <<>>
  BY DEF Locations
<1>4. cache' \in [Scopes -> {<<>>} \cup Locations]
  BY <1>1 DEF Typed
<1>5. {k \in Scopes : cache'[k] # <<>>} = (rest \ evicted) \cup {s}
  BY <1>2, <1>3
<1>6. IsFiniteSet(rest \ evicted)
  <2>1. IsFiniteSet(Scopes)
    BY FS_Interval, ReloadAssumption DEF Scopes
  <2> QED BY <2>1, FS_Subset
<1>7. Cardinality((rest \ evicted) \cup {s}) <= MaxCache
  <2> DEFINE kept == rest \ evicted
  <2>1. s \notin kept
    OBVIOUS
  <2> HIDE DEF kept
  <2>2. Cardinality(kept \cup {s}) = Cardinality(kept) + 1 /\ Cardinality(kept) \in Nat
    BY <1>6, <2>1, FS_AddElement, FS_CardinalityType DEF kept
  <2>3. Cardinality(kept) < MaxCache /\ MaxCache \in Nat
    BY <1>1, ReloadAssumption DEF kept
  <2> QED BY <2>2, <2>3 DEF kept
<1>8. Cardinality({k \in Scopes : cache'[k] # <<>>}) <= MaxCache
  BY <1>5, <1>7
<1>9. (ServicesFree' <=> ServicesFree) /\ active' = active /\ boot' = boot
  BY DEF ServicesFree, active
<1>10. ASSUME NEW k \in Scopes, cache'[k] # <<>>
       PROVE  /\ cache'[k][2] = 0 /\ ServicesFree /\ boot # "published" => active = 0
              /\ cache'[k][2] # 0 => cache'[k][1] \in {k, Target}
  <2>1. CASE k = s
    BY <1>2, <2>1
  <2>2. CASE k # s
    <3>1. cache'[k] = cache[k] /\ cache[k] # <<>>
      BY <1>2, <1>10, <2>2
    <3> QED BY <3>1 DEF CacheInv
  <2> QED BY <2>1, <2>2
<1> QED BY <1>4, <1>8, <1>9, <1>10 DEF CacheInv

LEMMA LookupWalkStep ==
  ASSUME ReloadInv, NEW c \in Callers, LookupWalk(c)
  PROVE  ReloadInv'
<1> DEFINE s == call[c].scope
           location == Resolution(call[c].path)
<1>1. /\ Typed /\ LogInv /\ CallInv /\ CacheInv /\ VisibleInv /\ call[c].pc = "walk" /\ ServicesFree
      /\ UNCHANGED others
  BY DEF ReloadInv, LookupWalk
<1>2. CallOK(c) /\ call[c] \in CallRec /\ s \in Scopes
  BY <1>1, CallFields
<1>3. CASE CacheHit(s)
  <2> DEFINE f == cache[s][2]
  <2>1. Put(c, Found(c, f)) /\ cache' = cache
    BY <1>1, <1>3 DEF LookupWalk
  <2>2. f \in 0..MaxGen
    BY <1>1, <1>2, <1>3, CacheProperties DEF CacheHit, Locations
  <2>3. (f # 0 => f = active) /\ (f = 0 => active = 0 \/ boot = "published")
    BY <1>1, <1>2, <1>3, CacheProperties
  <2> HIDE DEF f
  <2>4. CallInv' /\ call' \in [Callers -> CallRec]
    BY <1>1, <2>1, <2>2, <2>3, Answered
  <2> QED BY <1>1, <2>1, <2>4, CallAndCache
<1>4. CASE ~CacheHit(s)
  <2>1. /\ Put(c, Found(c, location[2]))
        /\ IF MaxCache = 0 THEN UNCHANGED cache ELSE Remember(s, location)
    BY <1>1, <1>4 DEF LookupWalk
  <2>2. call[c].path = Path(s)
    BY <1>1, <1>2 DEF CallOK
  <2>3. /\ location \in Locations /\ location[2] = active
        /\ location[2] # 0 => location[1] \in {s, Target}
    BY <1>1, <1>2, <2>2, Resolves
  <2> HIDE DEF s, location
  <2>4. location[2] \in 0..MaxGen
    BY <1>1, <2>3, ActiveType
  <2>5. CallInv' /\ call' \in [Callers -> CallRec]
    BY <1>1, <2>1, <2>3, <2>4, Answered
  <2>6. CacheInv' /\ cache' \in [Scopes -> {<<>>} \cup Locations]
    <3>1. CASE MaxCache = 0
      BY <1>1, <2>1, <3>1 DEF CacheInv, ServicesFree, active, Typed
    <3>2. CASE MaxCache # 0
      BY <1>1, <1>2, <2>1, <2>3, <3>2, Remembers DEF s
    <3> QED BY <3>1, <3>2
  <2> QED BY <1>1, <2>5, <2>6, CallOnly DEF ReloadInv
<1> QED BY <1>3, <1>4

-----------------------------------------------------------------------------
(***************************************************************************)
(* Steps of an invocation.                                                 *)
(***************************************************************************)
LEMMA InvokeBeginStep ==
  ASSUME ReloadInv, NEW c \in Callers, InvokeBegin(c)
  PROVE  ReloadInv'
<1> DEFINE n == Now
           r == [NoCall EXCEPT !.pc = "snapshot", !.kind = "invoke", !.from = n, !.path = Path(Target)]
<1>1. Typed /\ CallInv /\ Put(c, r) /\ UNCHANGED others /\ cache' = cache
  BY DEF ReloadInv, InvokeBegin
<1>2. n \in Nat /\ n \in 1..Len(log) /\ (boot # "ready" => n = 1)
  <2>1. Len(log) \in Nat \ {0}
    BY <1>1, ActiveType
  <2> QED BY <2>1 DEF Now
<1>3. Path(Target) = <<Target>> /\ 0 \in 0..MaxGen /\ Target \in Scopes
  BY ReloadAssumption DEF Path, Scopes, Target
<1> HIDE DEF n
<1>4. /\ r \in CallRec /\ r.pc = "snapshot" /\ r.kind = "invoke" /\ r.from = n /\ r.path = <<Target>>
      /\ r.owner = 0 /\ r.attempt = 1
  BY <1>2, <1>3 DEF NoCall, CallRec, CallPCs
<1> HIDE DEF r
<1>5. call'[c] = r
  BY <1>1 DEF Put, Typed
<1>6. CallOK(c)'
  BY <1>1, <1>2, <1>4, <1>5 DEF CallOK, Got
<1>7. CallInv' /\ call' \in [Callers -> CallRec]
  BY <1>1, <1>4, <1>6, CallPut
<1> QED BY <1>1, <1>7, CallAndCache

LEMMA InvokeSnapshotStep ==
  ASSUME ReloadInv, NEW c \in Callers, InvokeSnapshot(c)
  PROVE  ReloadInv'
<1>1. /\ Typed /\ LogInv /\ CallInv /\ VisibleInv /\ TxInv /\ RegistryInv /\ GateInv
      /\ call[c].pc = "snapshot" /\ UNCHANGED others /\ cache' = cache
  BY DEF ReloadInv, InvokeSnapshot
<1>2. /\ CallOK(c) /\ call[c] \in CallRec /\ call[c].owner \in 0..MaxGen /\ call[c].from \in Nat
  BY <1>1, CallFields
<1>3. /\ ~Returned(c) /\ call[c].kind = "invoke" /\ call[c].owner = 0 /\ call[c].path = <<Target>>
      /\ call[c].from \in 1..Len(log)
      /\ call[c].attempt = 2 => call[c].owner \in retired \/ call[c].from < Len(log)
  BY <1>1, <1>2 DEF Returned, CallOK
<1>4. Len(log) \in Nat \ {0} /\ active = log[Len(log)] /\ active \in 0..MaxGen
  BY <1>1, ActiveType
<1>5. 0 \notin retired
  BY <1>1 DEF Typed, Gens
<1>6. Handler(c) = active
  <2> SUFFICES ASSUME active # 0 PROVE invocation[active] = Target
    BY <1>3 DEF Handler
  <2>1. active \in Gens /\ Named(active) /\ active \notin retired
    BY <1>1, <1>4, ActiveType, ReloadAssumption DEF Gens, GateInv, Visible
  <2>2. disposal[active] = "idle"
    BY <1>1, <2>1 DEF GateInv, Typed
  <2>3. CASE home[active] = Target
    BY <1>1, <2>1, <2>2, <2>3 DEF RegistryInv, RegisteredOK
  <2>4. CASE home[active] # Target
    <3>1. active \in Txs /\ pc[active] \in Switched
      BY <1>1, <2>1, <2>4, ReloadAssumption DEF VisibleInv, TxInv, Gens, Txs
    <3>2. StagedOK(active)
      BY <1>1, <3>1 DEF RegistryInv
    <3> QED BY <3>1, <3>2 DEF StagedOK, Place, Held, Switched, Moved, MovedScope, MovedInvocations
  <2> QED BY <2>3, <2>4
<1>7. Len(log) \in (call[c].from + 0)..Len(log)
  BY <1>2, <1>3, <1>4
<1>8. CASE active = 0
  <2> DEFINE r == [call[c] EXCEPT !.pc = "absent"]
  <2>1. Put(c, r)
    BY <1>6, <1>8 DEF InvokeSnapshot
  <2>2. Continues(c, r) /\ r.pc = "absent"
    BY <1>2 DEF Continues, CallRec, CallPCs
  <2> HIDE DEF r
  <2>3. Since(c, 0, 0)
    BY <1>4, <1>7, <1>8 DEF Since
  <2>4. CallInv' /\ call' \in [Callers -> CallRec]
    BY <1>1, <1>3, <2>1, <2>2, <2>3, CallContinues DEF Got
  <2> QED BY <1>1, <2>4, CallAndCache
<1>9. CASE active # 0
  <2> DEFINE r == [call[c] EXCEPT !.pc = "middleware", !.found = active]
  <2>1. Put(c, r)
    BY <1>6, <1>9 DEF InvokeSnapshot
  <2>2. Continues(c, r) /\ r.pc = "middleware" /\ r.found = active /\ r.path = call[c].path
    BY <1>2, <1>4 DEF Continues, CallRec, CallPCs
  <2> HIDE DEF r
  <2>3. Since(c, 0, active) /\ active \in Gens /\ active >= call[c].owner
    BY <1>3, <1>4, <1>7, <1>9, ReloadAssumption DEF Since, Gens
  <2>4. call[c].attempt = 2 => Since(c, 1, active)
    BY <1>2, <1>3, <1>4, <1>5 DEF Since
  <2>5. CallInv' /\ call' \in [Callers -> CallRec]
    BY <1>1, <1>3, <2>1, <2>2, <2>3, <2>4, CallContinues DEF Got, Continues
  <2> QED BY <1>1, <2>5, CallAndCache
<1> QED BY <1>8, <1>9

\* What a call has found stays good while it goes on with it.
LEMMA FoundKept ==
  ASSUME Typed, CallInv, NEW c \in Callers, call[c].pc \in Got \ {"held"},
         NEW r, Continues(c, r), r.pc \in Got, r.found = call[c].found, r.path = call[c].path,
         call[c].pc = "acquire" => r.pc = "held", r.pc # "acquire",
         r.pc \in {"handler", "chain", "held"} /\ r.kind = "invoke" => r.middleware = r.found,
         Put(c, r), UNCHANGED others
  PROVE  CallInv' /\ call' \in [Callers -> CallRec]
<1>1. CallOK(c)
  BY DEF CallInv
<1>2. ~Returned(c)
  BY DEF Returned, Got
<1>3. /\ call[c].found \in Gens /\ call[c].found >= call[c].owner
      /\ call[c].found = call[c].owner \/ Since(c, 0, call[c].found)
      /\ call[c].attempt = 2 => \/ call[c].owner \in retired \/ call[c].found = call[c].owner
                                \/ Since(c, 1, call[c].found)
  BY <1>1 DEF CallOK
<1>4. r.pc \in {"middleware", "handler", "chain"} => r.kind = "invoke" /\ r.path = <<Target>>
  BY <1>1 DEF CallOK, Got, Continues
<1> QED BY <1>2, <1>3, <1>4, CallContinues DEF Got, Continues

LEMMA InvokeStep ==
  ASSUME ReloadInv, NEW c \in Callers,
         InvokeMiddleware(c) \/ InvokeHandlerLease(c) \/ InvokeChainLease(c)
  PROVE  ReloadInv'
<1>1. Typed /\ CallInv /\ GateInv /\ CallOK(c) /\ call[c] \in CallRec
  BY CallFields DEF ReloadInv
<1>2. UNCHANGED others /\ cache' = cache
  BY DEF InvokeMiddleware, InvokeHandlerLease, InvokeChainLease
<1>3. CASE InvokeMiddleware(c)
  <2> DEFINE r == [call[c] EXCEPT !.pc = "handler", !.middleware = Middleware(c)]
  <2>1. call[c].pc = "middleware" /\ Put(c, r)
    BY <1>3 DEF InvokeMiddleware
  <2>2. /\ Continues(c, r) /\ r.pc = "handler" /\ r.found = call[c].found
        /\ r.middleware = call[c].found /\ r.path = call[c].path
    BY <1>1 DEF Continues, CallRec, CallPCs, Middleware
  <2> HIDE DEF r
  <2>3. CallInv' /\ call' \in [Callers -> CallRec]
    BY <1>1, <1>2, <2>1, <2>2, FoundKept DEF Got
  <2> QED BY <1>2, <2>3, CallAndCache
<1>4. CASE InvokeHandlerLease(c) \/ InvokeChainLease(c)
  <2> DEFINE f == IF call[c].pc = "handler" THEN call[c].found ELSE call[c].middleware
             next == IF call[c].pc = "handler" THEN "chain" ELSE "held"
             r == [call[c] EXCEPT !.pc = next]
  <2>1. /\ call[c].pc \in {"handler", "chain"}
        /\ Put(c, IF f \in draining THEN Retry(c, "snapshot") ELSE r)
    BY <1>4 DEF InvokeHandlerLease, InvokeChainLease
  <2>2. call[c].kind = "invoke" /\ call[c].middleware = call[c].found /\ f = call[c].found
    BY <1>1, <1>4, <2>1 DEF CallOK
  <2>3. CASE f \in draining
    <3>1. call[c].path = <<Target>>
      BY <1>1, <2>1, <2>2 DEF CallOK
    <3>2. CallInv' /\ call' \in [Callers -> CallRec]
      BY <1>1, <1>2, <2>1, <2>2, <2>3, <3>1, RetryStep DEF Got
    <3> QED BY <1>2, <3>2, CallAndCache
  <2>4. CASE f \notin draining
    <3>1. Continues(c, r) /\ r.pc \in {"chain", "held"} /\ r.found = call[c].found
          /\ r.middleware = call[c].middleware /\ r.path = call[c].path
      BY <1>1, <2>1 DEF Continues, CallRec, CallPCs
    <3> HIDE DEF r
    <3>2. CallInv' /\ call' \in [Callers -> CallRec]
      BY <1>1, <1>2, <2>1, <2>2, <2>4, <3>1, FoundKept DEF Got
    <3> QED BY <1>2, <3>2, CallAndCache
  <2> QED BY <2>3, <2>4
<1> QED BY <1>3, <1>4

-----------------------------------------------------------------------------
(***************************************************************************)
(* Frames: what a step of one participant leaves of the others.            *)
(***************************************************************************)
LEMMA Instances ==
  ASSUME ReloadInv
  PROVE  /\ Typed /\ LogInv /\ GateInv /\ BootInv /\ TxInv /\ LockInv /\ FiberInv /\ RegistryInv
         /\ VisibleInv /\ ScopeInv /\ CacheInv /\ CallInv
         /\ \A g \in Txs : TxOK(g) /\ StagedOK(g) /\ StagingOK(g) /\ g \in Gens /\ g \in Scopes /\ g # Target /\ g # 1
         /\ \A f \in Gens : FiberOK(f) /\ RegisteredOK(f) /\ f \in Scopes /\ f # Target /\ (f = 1 \/ f \in Txs)
         /\ \A s \in Scopes : ScopeOK(s) /\ (s = Target \/ s \in Gens)
         /\ Target \in Scopes /\ 1 \in Gens /\ home[1] = Target
<1>1. /\ Typed /\ LogInv /\ GateInv /\ BootInv /\ TxInv /\ LockInv /\ FiberInv /\ RegistryInv
      /\ VisibleInv /\ ScopeInv /\ CacheInv /\ CallInv
  BY DEF ReloadInv
<1>2. /\ \A g \in Txs : TxOK(g) /\ StagedOK(g) /\ StagingOK(g)
      /\ \A f \in Gens : FiberOK(f) /\ RegisteredOK(f)
      /\ \A s \in Scopes : ScopeOK(s)
      /\ home[1] = Target
  BY <1>1 DEF TxInv, FiberInv, RegistryInv, ScopeInv
<1>3. /\ \A g \in Txs : g \in Gens /\ g \in Scopes /\ g # Target /\ g # 1
      /\ \A f \in Gens : f \in Scopes /\ f # Target /\ (f = 1 \/ f \in Txs)
      /\ \A s \in Scopes : s = Target \/ s \in Gens
      /\ Target \in Scopes /\ 1 \in Gens
  BY ReloadAssumption DEF Txs, Gens, Scopes, Target
<1> QED BY <1>1, <1>2, <1>3

\* Before the first activation is complete nothing else has begun.
LEMMA Ready ==
  ASSUME ReloadInv, boot # "ready"
  PROVE  /\ \A g \in Txs : pc[g] \in {"idle", "wait"} /\ state[g] = "none" /\ disposal[g] = "idle"
         /\ \A f \in Gens : disposal[f] = "idle" /\ state[f] \notin {"Active", "Reloading"}
         /\ \A s \in Scopes : scope[s].step = "idle"
<1>1. \A g \in Txs : pc[g] \in {"idle", "wait"} /\ state[g] = "none" /\ disposal[g] = "idle"
  BY Instances DEF BootInv, TxOK, FiberOK, Fresh
<1>2. \A f \in Gens : disposal[f] = "idle" /\ state[f] \notin {"Active", "Reloading"}
  BY <1>1, Instances DEF BootInv
<1>3. \A s \in Scopes : scope[s].step = "idle"
  <2>1. ASSUME NEW g \in Txs PROVE scope[g].step = "idle"
    <3>1. StagingOK(g) /\ ScopeOK(g) /\ pc[g] \in {"idle", "wait"}
      BY <1>1, Instances
    <3>2. scope[g].state = "none"
      BY <3>1 DEF StagingOK
    <3> QED BY <3>1, <3>2 DEF ScopeOK
  <2>2. scope[Target].step = "idle"
    BY Instances DEF BootInv
  <2>3. scope[1].step = "idle"
    BY Instances DEF ScopeInv, ScopeOK
  <2>4. \A s \in Scopes : s = Target \/ s \in Txs \/ s = 1
    BY Instances
  <2> QED BY <2>1, <2>2, <2>3, <2>4
<1> QED BY <1>1, <1>2, <1>3

\* A transaction replaces an older Fiber that is registered and not staged.
LEMMA OldFiber ==
  ASSUME ReloadInv, NEW g \in Txs, pc[g] # "idle"
  PROVE  old[g] \in Gens /\ old[g] < g /\ old[g] # g /\ old[g] \notin owned /\ state[old[g]] # "none"
<1>1. TxOK(g) /\ g \in Gens
  BY Instances
<1>2. g \in Nat /\ g <= MaxGen /\ MaxGen \in Nat
  BY <1>1, ReloadAssumption DEF Gens
<1>3. old[g] \in 1..(g - 1) /\ old[g] \notin owned /\ state[old[g]] # "none"
  BY <1>1 DEF TxOK
<1> QED BY <1>2, <1>3 DEF Gens

\* Transaction g moves and changes only what is kept of its own Fiber.
Aside(g) ==
  /\ UNCHANGED <<log, retired, draining, boot, old, home, disposal, scope>>
  /\ \A f \in Gens \ {g} : /\ state'[f] = state[f] /\ lifecycle'[f] = lifecycle[f]
                           /\ invocation'[f] = invocation[f] /\ declared'[f] = declared[f]
                           /\ member'[f] = member[f] /\ child'[f] = child[f]
                           /\ (f \in owned' <=> f \in owned)
  /\ \A s \in Scopes \ {g} : entry'[s] = entry[s]
  /\ \A h \in Txs \ {g} : pc'[h] = pc[h] /\ outcome'[h] = outcome[h]

\* The classes of steps that others look at.
SameClass(p, q) ==
  /\ p \in Locked \cup {"cleanup"} => q \in Locked \cup {"cleanup"}
  /\ p \in Switched <=> q \in Switched
  /\ p \in {"retire", "services"} <=> q \in {"retire", "services"}
  /\ p \in Switched \cup {"cleanup"} => q \in Switched \cup {"cleanup"}
  /\ p # "idle" => q # "idle"

LEMMA OwnStep ==
  ASSUME ReloadInv, NEW g \in Txs, Aside(g), SameClass(pc[g], pc'[g]), boot = "ready",
         state[g] # "none" => state'[g] # "none" /\ (g \in owned' => g \in owned),
         TxOK(g)', FiberOK(g)', StagedOK(g)', RegisteredOK(g)', StagingOK(g)'
  PROVE  LogInv' /\ GateInv' /\ BootInv' /\ TxInv' /\ FiberInv' /\ RegistryInv' /\ VisibleInv' /\ ScopeInv'
<1>1. active' = active /\ \A f : (Visible(f)' <=> Visible(f)) /\ (Named(f)' <=> Named(f))
  BY Unchanged DEF Aside
<1>2. LogInv' /\ GateInv' /\ BootInv'
  BY <1>1, Instances DEF Aside, LogInv, GateInv, BootInv
<1>3. ASSUME NEW h \in Txs, h # g PROVE TxOK(h)'
  <2>1. TxOK(h) /\ h \in Gens /\ g \in Gens
    BY Instances
  <2>2. pc[h] # "idle" => old[h] \in Gens
    <3>1. h \in Nat /\ h <= MaxGen /\ MaxGen \in Nat
      BY <2>1, ReloadAssumption DEF Gens
    <3>2. 1..(h - 1) \subseteq 1..MaxGen
      BY <3>1
    <3> QED BY <2>1, <3>2 DEF TxOK, Gens
  <2>3. \A k \in Txs : pc[k] # "idle" => pc'[k] # "idle"
    BY DEF Aside, SameClass
  <2>4. /\ UNCHANGED <<old, home, disposal>> /\ pc'[h] = pc[h] /\ outcome'[h] = outcome[h]
        /\ state'[h] = state[h] /\ (h \in owned' <=> h \in owned)
    BY <1>3, <2>1 DEF Aside
  <2>5. pc[h] # "idle" => old[h] \notin owned' /\ state'[old[h]] # "none"
    BY <2>1, <2>2 DEF TxOK, Aside
  <2>6. Visible(h)' <=> Visible(h)
    BY <1>1
  <2> QED BY <2>1, <2>3, <2>4, <2>5, <2>6 DEF TxOK
<1>4. TxInv'
  BY <1>3, Instances DEF TxInv, Aside
<1>5. ASSUME NEW f \in Gens, f # g PROVE FiberOK(f)'
  <2>1. FiberOK(f) /\ f \in Scopes
    BY Instances
  <2>2. (\E h \in Txs : old[h] = f /\ pc[h] \in Locked \cup {"cleanup"})
        => \E h \in Txs : old'[h] = f /\ pc'[h] \in Locked \cup {"cleanup"}
    BY DEF Aside, SameClass
  <2>3. f \in Txs => pc'[f] = pc[f]
    BY <1>5 DEF Aside
  <2>4. /\ UNCHANGED <<retired, home, disposal, scope>> /\ state'[f] = state[f] /\ lifecycle'[f] = lifecycle[f]
        /\ invocation'[f] = invocation[f] /\ declared'[f] = declared[f]
        /\ member'[f] = member[f] /\ child'[f] = child[f] /\ entry'[f] = entry[f]
    BY <1>5, <2>1 DEF Aside
  <2> QED BY <2>1, <2>2, <2>3, <2>4 DEF FiberOK
<1>6. FiberInv'
  BY <1>5 DEF FiberInv
<1>7. ASSUME NEW h \in Txs, h # g PROVE StagedOK(h)' /\ StagingOK(h)'
  <2>1. StagedOK(h) /\ StagingOK(h) /\ h \in Gens /\ h \in Scopes
    BY Instances
  <2>2. /\ UNCHANGED <<home, disposal, scope>> /\ state'[h] = state[h] /\ pc'[h] = pc[h]
        /\ invocation'[h] = invocation[h] /\ declared'[h] = declared[h]
        /\ member'[h] = member[h] /\ child'[h] = child[h] /\ entry'[h] = entry[h]
    BY <1>7, <2>1 DEF Aside
  <2>3. Visible(h)' <=> Visible(h)
    BY <1>1
  <2>4. StagedOK(h)'
    BY <2>1, <2>2, <2>3 DEF StagedOK, Place
  <2> QED BY <2>1, <2>2, <2>4 DEF StagingOK
<1>8. ASSUME NEW f \in Gens, f # g PROVE RegisteredOK(f)'
  <2>1. RegisteredOK(f) /\ home[f] \in Scopes
    BY Instances DEF Typed
  <2>2. home[f] # g
    BY <1>8, Instances DEF TxOK
  <2>3. /\ UNCHANGED <<home, disposal>> /\ entry'[home[f]] = entry[home[f]]
        /\ invocation'[f] = invocation[f] /\ declared'[f] = declared[f]
        /\ member'[f] = member[f] /\ child'[f] = child[f]
    BY <1>8, <2>1, <2>2 DEF Aside
  <2> QED BY <2>1, <2>3 DEF RegisteredOK
<1>9. RegistryInv'
  BY <1>7, <1>8 DEF RegistryInv
<1>10. VisibleInv'
  <2>1. (ServicesFree' <=> ServicesFree) /\ entry'[Target] = entry[Target]
    BY Instances DEF ServicesFree, Aside, SameClass
  <2>2. UNCHANGED <<home, disposal, boot, old, log>>
    BY DEF Aside
  <2>3. \A h \in Txs : pc'[h] \in {"retire", "services"} => pc[h] \in {"retire", "services"}
    BY DEF Aside, SameClass
  <2>4. \A h \in Txs : pc[h] \in Switched => pc'[h] \in Switched
    BY DEF Aside, SameClass
  <2>5. \A h \in Txs : Replaces(h) => Replaces(h)'
    BY DEF Aside, SameClass, Replaces, Switched
  <2>6. ASSUME NEW f \in Gens, Named(f) PROVE home[f] = Target \/ pc'[f] \in Switched
    BY <2>4, <2>6, Instances DEF VisibleInv
  <2>7. ASSUME NEW f \in Gens, home[f] = Target, disposal[f] = "idle", boot # "registered"
        PROVE  Visible(f) \/ \E h \in Txs : old[h] = f /\ Replaces(h)'
    BY <2>5, <2>7, Instances DEF VisibleInv
  <2> QED BY <1>1, <2>1, <2>2, <2>3, <2>6, <2>7, Instances DEF VisibleInv
<1>11. ScopeInv'
  <2>1. \A f \in Gens : state[f] # "none" => state'[f] # "none"
    BY DEF Aside
  <2>2. ASSUME NEW s \in Scopes PROVE ScopeOK(s)'
    <3>1. ScopeOK(s) /\ scope[s].fibers \subseteq Gens
      BY Instances DEF Typed, ScopeRec
    <3> QED BY <2>1, <3>1 DEF ScopeOK, Aside
  <2> QED BY <1>7, <2>2, Instances DEF ScopeInv, Aside
<1> QED BY <1>2, <1>4, <1>6, <1>9, <1>10, <1>11

\* The locks: nobody takes or gives back one.
LEMMA LocksKept ==
  ASSUME Typed, LockInv, UNCHANGED <<lifecycle, old, boot>>,
         \A f \in Gens : disposal'[f] \in Body <=> disposal[f] \in Body,
         \A g \in Txs : /\ pc'[g] \in Locked <=> pc[g] \in Locked
                        /\ pc'[g] \in Activating <=> pc[g] \in Activating,
         \/ \A g \in Txs : Committing(g)' => Committing(g)
         \/ \E g \in Txs : ScopesFree /\ \A h \in Txs \ {g} : ~Committing(h)'
  PROVE  LockInv'
<1>1. ASSUME NEW f \in Gens
      PROVE  /\ lifecycle'[f] = "activation" <=> IF f = 1 THEN boot' # "ready" ELSE pc'[f] \in Activating
             /\ lifecycle'[f] = "reload" <=> \E g \in Txs : old'[g] = f /\ pc'[g] \in Locked
             /\ lifecycle'[f] = "disposal" <=> disposal'[f] \in Body
  <2>1. f = 1 \/ f \in Txs
    BY ReloadAssumption DEF Gens, Txs
  <2> QED BY <2>1 DEF LockInv
<1>2. \A g, h \in Txs : pc'[g] \in Locked /\ pc'[h] \in Locked /\ old'[g] = old'[h] => g = h
  BY DEF LockInv
<1>3. \A g, h \in Txs : Committing(g)' /\ Committing(h)' => g = h
  BY DEF LockInv, ScopesFree
<1> QED BY <1>1, <1>2, <1>3 DEF LockInv

-----------------------------------------------------------------------------
(***************************************************************************)
(* Steps of a transaction that change its own Fiber only.                  *)
(***************************************************************************)
SameLocks(p, q) ==
  /\ p \in Locked <=> q \in Locked
  /\ p \in Activating <=> q \in Activating
  /\ q \in Held \ {"providers", "scope", "undoProviders"} =>
       p \in Held \ {"providers", "scope", "undoProviders"}

\* Only the step and the report of transaction g change.
LEMMA Paces ==
  ASSUME ReloadInv, NEW g \in Txs, pc[g] \in PCs \ {"idle", "wait"},
         UNCHANGED <<open, outside, gateVars, fiberVars, disposalVars, serviceVars, indexVars, scope, boot,
                     old, call>>,
         pc' \in [Txs -> PCs], \A h \in Txs \ {g} : pc'[h] = pc[h] /\ outcome'[h] = outcome[h],
         outcome' \in [Txs -> {"none", "Refused", "Failed", "CommittedWithCleanupPending",
                               "Completed", "ReloadCommitted"}],
         SameClass(pc[g], pc'[g]), SameLocks(pc[g], pc'[g]),
         TxOK(g)', StagedOK(g)', StagingOK(g)'
  PROVE  ReloadInv'
<1>1. /\ Typed /\ LockInv /\ CacheInv /\ CallInv /\ FiberOK(g) /\ RegisteredOK(g) /\ boot = "ready" /\ g \in Gens
  BY Instances, Ready
<1>2. Typed'
  BY <1>1 DEF Typed
<1>3. Aside(g)
  BY DEF Aside
<1>4. FiberOK(g)' /\ RegisteredOK(g)'
  <2>1. (\E h \in Txs : old[h] = g /\ pc[h] \in Locked \cup {"cleanup"})
        => \E h \in Txs : old'[h] = g /\ pc'[h] \in Locked \cup {"cleanup"}
    BY DEF SameClass
  <2>2. pc'[g] \in Activating => pc[g] \in Activating
    BY DEF SameLocks
  <2>3. FiberOK(g)'
    BY <1>1, <2>1, <2>2 DEF FiberOK
  <2> QED BY <1>1, <2>3 DEF RegisteredOK
<1>5. LogInv' /\ GateInv' /\ BootInv' /\ TxInv' /\ FiberInv' /\ RegistryInv' /\ VisibleInv' /\ ScopeInv'
  BY <1>1, <1>3, <1>4, OwnStep
<1>6. LockInv'
  <2>1. \A h \in Txs : /\ pc'[h] \in Locked <=> pc[h] \in Locked
                       /\ pc'[h] \in Activating <=> pc[h] \in Activating
                       /\ (Committing(h)' => Committing(h))
    BY DEF SameLocks, Committing, Held
  <2> QED BY <1>1, <2>1, LocksKept
<1>7. CacheInv'
  <2>1. ServicesFree' => ServicesFree
    BY DEF ServicesFree, SameClass
  <2>2. active' = active
    BY Unchanged
  <2> QED BY <1>1, <2>1, <2>2, CacheKept
<1>8. CallInv'
  BY <1>1, CallKept DEF LogGrows
<1> QED BY <1>2, <1>5, <1>6, <1>7, <1>8 DEF ReloadInv

\* Transaction g goes from p to q, and nothing else changes.
Hop(g, p, q) ==
  /\ pc[g] = p /\ Goto(g, q)
  /\ UNCHANGED <<open, outside, gateVars, fiberVars, disposalVars, serviceVars, indexVars, scope, boot,
                 old, outcome, call>>

LEMMA HopStep ==
  ASSUME ReloadInv, NEW g \in Txs, NEW p \in PCs \ {"idle", "wait"}, NEW q \in PCs, Hop(g, p, q),
         SameClass(p, q), SameLocks(p, q), pc'[g] = q => TxOK(g)' /\ StagedOK(g)' /\ StagingOK(g)'
  PROVE  ReloadInv'
<1>1. pc \in [Txs -> PCs] /\ pc' = [pc EXCEPT ![g] = q] /\ UNCHANGED outcome
  BY Instances DEF Typed, Hop, Goto
<1>2. pc' \in [Txs -> PCs] /\ pc'[g] = q /\ \A h \in Txs \ {g} : pc'[h] = pc[h] /\ outcome'[h] = outcome[h]
  BY <1>1
<1>3. outcome' \in [Txs -> {"none", "Refused", "Failed", "CommittedWithCleanupPending",
                            "Completed", "ReloadCommitted"}]
  BY <1>1, Instances DEF Typed
<1>4. /\ pc[g] = p
      /\ UNCHANGED <<open, outside, gateVars, fiberVars, disposalVars, serviceVars, indexVars, scope,
                     boot, old, call>>
  BY DEF Hop
<1> QED BY <1>2, <1>3, <1>4, Paces

\* What a hop leaves of the facts about its own Fiber.
LEMMA HopKeeps ==
  ASSUME ReloadInv, NEW g \in Txs, NEW p \in PCs \ {"idle", "wait"}, NEW q \in PCs, Hop(g, p, q), pc'[g] = q,
         SameClass(p, q), p \in Fresh <=> q \in Fresh,
         p \in {"dropStaging", "stagingWait", "restore", "ended"} => q \in {"dropStaging", "stagingWait", "restore", "ended"},
         q \notin {"restore", "ended", "cleanup"}, p # "ended", p \in Cleaning <=> q \in Cleaning,
         q \in Held => disposal[g] = "idle" /\ state[g] = "Active"
  PROVE  TxOK(g)'
<1>1. TxOK(g) /\ pc[g] = p
  BY Instances DEF Hop
<1>2. \A h \in Txs : pc[h] # "idle" => pc'[h] # "idle"
  BY Instances DEF Typed, Hop, Goto, SameClass
<1>3. Visible(g)' <=> Visible(g)
  BY Unchanged DEF Hop
<1>4. UNCHANGED <<gateVars, fiberVars, disposalVars, scope, boot, old, outcome>>
  BY DEF Hop
<1> QED BY <1>1, <1>2, <1>3, <1>4 DEF TxOK, SameClass

\* A hop outside the commit, and not to the end.
Quiet(p, q) ==
  /\ SameClass(p, q) /\ SameLocks(p, q) /\ p \notin Held /\ q \notin Held
  /\ p \in Fresh <=> q \in Fresh
  /\ p \in {"dropStaging", "stagingWait", "restore", "ended"} => q \in {"dropStaging", "stagingWait", "restore", "ended"}
  /\ q \notin {"restore", "ended", "cleanup"} /\ p # "ended" /\ (p \in Cleaning <=> q \in Cleaning)
  /\ q \in {"registered", "sealed"} \cup Prepared => p \in {"registered", "sealed"} \cup Prepared
  /\ q \in Early => p \in Early
  /\ q \in {"activate"} \cup Activating => p \in {"activate"} \cup Activating
  /\ q \notin {"idle", "wait", "stage", "activate", "starting"}

LEMMA QuietHop ==
  ASSUME ReloadInv, NEW g \in Txs, NEW p \in PCs \ {"idle", "wait"}, NEW q \in PCs, Hop(g, p, q), Quiet(p, q)
  PROVE  ReloadInv'
<1> SUFFICES ASSUME pc'[g] = q PROVE TxOK(g)' /\ StagedOK(g)' /\ StagingOK(g)'
  BY HopStep DEF Quiet
<1>1. TxOK(g)'
  BY HopKeeps DEF Quiet
<1>2. StagedOK(g) /\ StagingOK(g) /\ pc[g] = p
  BY Instances DEF Hop
<1>3. Visible(g)' <=> Visible(g)
  BY Unchanged DEF Hop
<1>4. StagedOK(g)'
  BY <1>2, <1>3 DEF Hop, Quiet, StagedOK
<1>5. StagingOK(g)'
  BY <1>2 DEF Hop, Quiet, StagingOK
<1> QED BY <1>1, <1>4, <1>5

LEMMA QuietSteps ==
  ASSUME ReloadInv, NEW g \in Txs,
         SealStaged(g) \/ StartConverged(g) \/ CommitBegin(g) \/ Prepare(g) \/ StagedDropped(g)
  PROVE  ReloadInv'
<1> USE DEF Held, Fresh, Cleaning, Early, Activating, Prepared, Failing, Locked, Switched, PCs
<1>1. CASE SealStaged(g)
  <2>1. Hop(g, "registered", "sealed")
    BY <1>1 DEF SealStaged, Hop
  <2>2. Quiet("registered", "sealed")
    BY DEF Quiet, SameClass, SameLocks
  <2> QED BY <2>1, <2>2, QuietHop
<1>2. CASE StartConverged(g)
  <2>1. Hop(g, "failedStart", "dropStaging")
    BY <1>2 DEF StartConverged, Hop
  <2>2. Quiet("failedStart", "dropStaging")
    BY DEF Quiet, SameClass, SameLocks
  <2> QED BY <2>1, <2>2, QuietHop
<1>3. CASE CommitBegin(g)
  <2>1. Hop(g, "commit", "prepare") \/ Hop(g, "commit", "dropStaged")
    BY <1>3 DEF CommitBegin, Check, Hop
  <2>2. Quiet("commit", "prepare") /\ Quiet("commit", "dropStaged")
    BY DEF Quiet, SameClass, SameLocks
  <2> QED BY <2>1, <2>2, QuietHop
<1>4. CASE Prepare(g)
  <2>1. Hop(g, "prepare", "fence") \/ Hop(g, "prepare", "dropStaged")
    BY <1>4 DEF Prepare, Check, Hop
  <2>2. Quiet("prepare", "fence") /\ Quiet("prepare", "dropStaged")
    BY DEF Quiet, SameClass, SameLocks
  <2> QED BY <2>1, <2>2, QuietHop
<1>5. CASE StagedDropped(g)
  <2>1. Hop(g, "stagedWait", "dropStaging")
    BY <1>5 DEF StagedDropped, Hop
  <2>2. Quiet("stagedWait", "dropStaging")
    BY DEF Quiet, SameClass, SameLocks
  <2> QED BY <2>1, <2>2, QuietHop
<1> QED BY <1>1, <1>2, <1>3, <1>4, <1>5

\* The last owner check before the record is locked.
LEMMA FenceStep ==
  ASSUME ReloadInv, NEW g \in Txs, FenceStaged(g)
  PROVE  ReloadInv'
<1> USE DEF Held, Fresh, Cleaning, Early, Activating, Prepared, Failing, Locked, Switched, PCs
<1>1. CASE ~IsStaged(g)
  <2>1. Hop(g, "fence", "dropStaged")
    BY <1>1 DEF FenceStaged, Check, Hop
  <2>2. Quiet("fence", "dropStaged")
    BY DEF Quiet, SameClass, SameLocks
  <2> QED BY <2>1, <2>2, QuietHop
<1>2. CASE IsStaged(g)
  <2>1. Hop(g, "fence", "providers")
    BY <1>2 DEF FenceStaged, Check, Hop
  <2>2. SameClass("fence", "providers") /\ SameLocks("fence", "providers")
    BY DEF SameClass, SameLocks
  <2> SUFFICES ASSUME pc'[g] = "providers" PROVE TxOK(g)' /\ StagedOK(g)' /\ StagingOK(g)'
    BY <2>1, <2>2, HopStep
  <2>3. /\ TxOK(g) /\ StagedOK(g) /\ StagingOK(g) /\ pc[g] = "fence" /\ state[g] = "Active"
        /\ disposal[g] = "idle"
    BY <1>2, <2>1, Instances DEF Hop, IsStaged, GateInv, Typed
  <2>4. TxOK(g)'
    BY <2>1, <2>2, <2>3, HopKeeps
  <2>5. Visible(g)' <=> Visible(g)
    BY <2>1, Unchanged DEF Hop
  <2>6. StagedOK(g)'
    BY <2>1, <2>3, <2>5 DEF Hop, StagedOK, Place, Moved, MovedScope, MovedInvocations
  <2>7. StagingOK(g)'
    BY <2>1, <2>3 DEF Hop, StagingOK
  <2> QED BY <2>4, <2>6, <2>7
<1> QED BY <1>1, <1>2

\* Staging fails before a Fiber is installed, or before it is started.
LEMMA StagingFails ==
  ASSUME ReloadInv, NEW g \in Txs,
         Hop(g, "stage", "restore") \/ Hop(g, "install", "dropStaging") \/ Hop(g, "activate", "dropStaging")
  PROVE  ReloadInv'
<1> USE DEF Held, Fresh, Cleaning, Early, Activating, Prepared, Failing, Locked, Switched, PCs
<1>1. CASE Hop(g, "activate", "dropStaging")
  <2>1. Quiet("activate", "dropStaging")
    BY DEF Quiet, SameClass, SameLocks
  <2> QED BY <1>1, <2>1, QuietHop
<1>2. ASSUME NEW p \in {"stage", "install"}, NEW q \in {"restore", "dropStaging"}, Hop(g, p, q)
      PROVE  ReloadInv'
  <2>1. SameClass(p, q) /\ SameLocks(p, q) /\ p \in PCs \ {"idle", "wait"} /\ q \in PCs
    BY DEF SameClass, SameLocks
  <2> SUFFICES ASSUME pc'[g] = q PROVE TxOK(g)' /\ StagedOK(g)' /\ StagingOK(g)'
    BY <1>2, <2>1, HopStep
  <2>2. TxOK(g) /\ StagedOK(g) /\ StagingOK(g) /\ pc[g] = p /\ (Visible(g)' <=> Visible(g))
    BY <1>2, Instances, Unchanged DEF Hop
  <2>3. \A h \in Txs : pc[h] # "idle" => pc'[h] # "idle"
    BY <1>2, <2>1, Instances DEF Typed, Hop, Goto, SameClass
  <2>4. TxOK(g)'
    BY <1>2, <2>2, <2>3 DEF Hop, TxOK
  <2>5. StagedOK(g)' /\ StagingOK(g)'
    BY <1>2, <2>2 DEF Hop, StagedOK, StagingOK
  <2> QED BY <2>4, <2>5
<1> QED BY <1>1, <1>2

\* The commit turns back.
LEMMA CommitFails ==
  ASSUME ReloadInv, NEW g \in Txs,
         Hop(g, "scope", "undoProviders") \/ Hop(g, "publish", "undoInvocations")
  PROVE  ReloadInv'
<1> USE DEF Held, Fresh, Cleaning, Early, Activating, Prepared, Failing, Locked, Switched, PCs
<1>1. ASSUME NEW p \in PCs, NEW q \in PCs, Hop(g, p, q),
             (p = "scope" /\ q = "undoProviders") \/ (p = "publish" /\ q = "undoInvocations")
      PROVE  ReloadInv'
  <2>1. SameClass(p, q) /\ SameLocks(p, q) /\ p \in PCs \ {"idle", "wait"} /\ q \in PCs
    BY <1>1 DEF SameClass, SameLocks
  <2> SUFFICES ASSUME pc'[g] = q PROVE TxOK(g)' /\ StagedOK(g)' /\ StagingOK(g)'
    BY <1>1, <2>1, HopStep
  <2>2. /\ TxOK(g) /\ StagedOK(g) /\ StagingOK(g) /\ pc[g] = p /\ (Visible(g)' <=> Visible(g))
        /\ disposal[g] = "idle" /\ state[g] = "Active"
    <3>1. TxOK(g) /\ StagedOK(g) /\ StagingOK(g) /\ pc[g] = p /\ (Visible(g)' <=> Visible(g))
      BY <1>1, Instances, Unchanged DEF Hop
    <3> QED BY <1>1, <3>1 DEF TxOK
  <2>3. TxOK(g)'
    BY <1>1, <2>1, <2>2, HopKeeps
  <2>4. StagedOK(g)'
    BY <1>1, <2>2 DEF Hop, StagedOK, Place, Moved, MovedScope, MovedInvocations
  <2>5. StagingOK(g)'
    BY <1>1, <2>2 DEF Hop, StagingOK
  <2> QED BY <2>3, <2>4, <2>5
<1> QED BY <1>1

\* The staging Scope is disposed, and with it the staged Fiber.
LEMMA StagingDroppedStep ==
  ASSUME ReloadInv, NEW g \in Txs, StagingDropped(g)
  PROVE  ReloadInv'
<1> USE DEF Held, Fresh, Cleaning, Early, Activating, Prepared, Failing, Locked, Switched, PCs
<1>1. Hop(g, "stagingWait", "restore")
  BY DEF StagingDropped, Hop
<1>2. SameClass("stagingWait", "restore") /\ SameLocks("stagingWait", "restore")
  BY DEF SameClass, SameLocks
<1> SUFFICES ASSUME pc'[g] = "restore" PROVE TxOK(g)' /\ StagedOK(g)' /\ StagingOK(g)'
  BY <1>1, <1>2, HopStep
<1>3. /\ TxOK(g) /\ StagedOK(g) /\ StagingOK(g) /\ pc[g] = "stagingWait" /\ (Visible(g)' <=> Visible(g))
      /\ scope[g].step = "done"
  BY <1>1, Instances, Unchanged DEF Hop, StagingDropped, ScopeEnded, ScopeOK
<1>4. \A h \in Txs : pc[h] # "idle" => pc'[h] # "idle"
  BY <1>1, <1>2, Instances DEF Typed, Hop, Goto, SameClass
<1>5. state[g] # "none" => disposal[g] \in Over \/ home[g] = Target
  BY <1>3 DEF StagingOK
<1>6. TxOK(g)'
  BY <1>1, <1>3, <1>4, <1>5 DEF Hop, TxOK
<1>7. StagedOK(g)' /\ StagingOK(g)'
  BY <1>1, <1>3 DEF Hop, StagedOK, StagingOK
<1> QED BY <1>6, <1>7

\* The report of a committed reload.
LEMMA CleanupReports ==
  ASSUME ReloadInv, NEW g \in Txs, CleanupPending(g) \/ CleanupEnds(g)
  PROVE  ReloadInv'
<1> USE DEF Held, Fresh, Cleaning, Early, Activating, Prepared, Failing, Locked, Switched, PCs
<1>1. /\ pc \in [Txs -> PCs]
      /\ outcome \in [Txs -> {"none", "Refused", "Failed", "CommittedWithCleanupPending",
                              "Completed", "ReloadCommitted"}]
      /\ TxOK(g) /\ StagedOK(g) /\ StagingOK(g) /\ home[g] = Target
  <2>1. TxOK(g) /\ pc[g] \in Cleaning
    BY Instances DEF CleanupPending, CleanupEnds
  <2>2. home[g] = Target
    BY <2>1 DEF TxOK
  <2> QED BY <2>2, Instances DEF Typed
<1>2. /\ pc[g] \in {"cleanupWait", "cleanupEnd"} /\ pc'[g] \in {pc[g], "ended"}
      /\ pc' \in [Txs -> PCs] /\ \A h \in Txs \ {g} : pc'[h] = pc[h] /\ outcome'[h] = outcome[h]
      /\ outcome' \in [Txs -> {"none", "Refused", "Failed", "CommittedWithCleanupPending",
                               "Completed", "ReloadCommitted"}]
      /\ outcome'[g] \in {outcome[g], "CommittedWithCleanupPending", "Completed", "ReloadCommitted"}
      /\ pc'[g] = "ended" => outcome'[g] # "none"
      /\ pc'[g] = "ended" => ScopeEnded(g)
  <2>1. CASE CleanupPending(g)
    BY <1>1, <2>1 DEF CleanupPending
  <2>2. CASE CleanupEnds(g)
    <3> DEFINE last == IF disposal[old[g]] = "complete" /\ scope[g].state = "Disposed"
                       THEN "Completed" ELSE "ReloadCommitted"
    <3>1. /\ pc[g] = "cleanupEnd" /\ pc' = [pc EXCEPT ![g] = "ended"] /\ ScopeEnded(g)
          /\ outcome' = IF outcome[g] # "none" THEN outcome ELSE [outcome EXCEPT ![g] = last]
      BY <2>2 DEF CleanupEnds, Goto
    <3>2. last \in {"Completed", "ReloadCommitted"}
      OBVIOUS
    <3> HIDE DEF last
    <3>3. /\ pc'[g] = "ended" /\ pc' \in [Txs -> PCs] /\ \A h \in Txs \ {g} : pc'[h] = pc[h]
      BY <1>1, <3>1
    <3>4. CASE outcome[g] # "none"
      BY <1>1, <3>1, <3>3, <3>4
    <3>5. CASE outcome[g] = "none"
      BY <1>1, <3>1, <3>2, <3>3, <3>5
    <3> QED BY <3>4, <3>5
  <2> QED BY <2>1, <2>2
<1>3. /\ UNCHANGED <<open, outside, gateVars, fiberVars, disposalVars, serviceVars, indexVars, scope,
                     boot, old, call>>
      /\ (Visible(g)' <=> Visible(g))
  <2>1. UNCHANGED <<open, outside, gateVars, fiberVars, disposalVars, serviceVars, indexVars, scope,
                    boot, old, call>>
    BY DEF CleanupPending, CleanupEnds
  <2> QED BY <2>1, Unchanged
<1>4. TxOK(g)'
  <2>1. \A h \in Txs : pc[h] # "idle" => pc'[h] # "idle"
    BY <1>2
  <2>2. g # Target
    BY Instances
  <2> QED BY <1>1, <1>2, <1>3, <2>1, <2>2 DEF TxOK
<1>5. StagedOK(g)' /\ StagingOK(g)'
  BY <1>1, <1>2, <1>3 DEF StagedOK, StagingOK
<1>6. SameClass(pc[g], pc'[g]) /\ SameLocks(pc[g], pc'[g])
  BY <1>2 DEF SameClass, SameLocks
<1> QED BY <1>2, <1>3, <1>4, <1>5, <1>6, Paces

LEMMA OwnMove ==
  ASSUME ReloadInv, NEW g \in Txs, Aside(g), pc[g] \notin {"idle", "wait"}, SameClass(pc[g], pc'[g]),
         Typed', LockInv', cache' = cache \/ Bump, call' = call, entry'[g] \in {entry[g], g},
         state[g] # "none" => state'[g] # "none" /\ (g \in owned' => g \in owned),
         TxOK(g)', FiberOK(g)', StagedOK(g)', RegisteredOK(g)', StagingOK(g)'
  PROVE  ReloadInv'
<1>1. Typed /\ CacheInv /\ CallInv /\ boot = "ready"
  BY Instances, Ready
<1>2. LogInv' /\ GateInv' /\ BootInv' /\ TxInv' /\ FiberInv' /\ RegistryInv' /\ VisibleInv' /\ ScopeInv'
  BY <1>1, OwnStep
<1>3. CacheInv'
  <2>1. ServicesFree' => ServicesFree
    BY DEF ServicesFree, SameClass, Aside
  <2>2. active' = active /\ boot' = boot
    BY Unchanged DEF Aside
  <2> QED BY <1>1, <2>1, <2>2, CacheKept, CacheEmptied
<1>4. CallInv'
  <2>1. UNCHANGED <<log, retired, boot, disposal>>
    BY DEF Aside
  <2>2. ASSUME NEW f \in Gens, entry[f] = f PROVE entry'[f] = f
    <3>1. f \in Scopes
      BY Instances
    <3> QED BY <2>2, <3>1 DEF Aside
  <2> QED BY <1>1, <2>1, <2>2, CallKept DEF LogGrows
<1> QED BY <1>2, <1>3, <1>4 DEF ReloadInv

\* The revisions of the indexes, one after the other, and back.
Indexes(g, p, q, i, d, m, c) ==
  /\ pc[g] = p /\ Goto(g, q)
  /\ SameLocks(p, q) \/ (ScopesFree /\ p \in Locked /\ q \in Locked)
  /\ UNCHANGED <<world, gateVars, fiberVars, disposalVars, serviceVars, scope, boot, old, outcome, call>>
  /\ invocation' = [invocation EXCEPT ![g] = i] /\ declared' = [declared EXCEPT ![g] = d]
  /\ member' = [member EXCEPT ![g] = m] /\ child' = [child EXCEPT ![g] = c]
  /\ i = IF q \in MovedInvocations THEN Target ELSE g
  /\ d = IF q \in Moved THEN Target ELSE g
  /\ m = IF q \in MovedScope THEN Target ELSE g
  /\ c = m

LEMMA IndexMove ==
  ASSUME ReloadInv, NEW g \in Txs, NEW p \in Held \ Switched, NEW q \in (Held \ Switched) \cup {"dropStaged"},
         NEW i, NEW d, NEW m, NEW c, Indexes(g, p, q, i, d, m, c)
  PROVE  ReloadInv'
<1> USE DEF Indexes
<1>1. /\ Typed /\ LockInv /\ TxOK(g) /\ StagedOK(g) /\ StagingOK(g) /\ FiberOK(g) /\ RegisteredOK(g)
      /\ g \in Gens /\ g \in Scopes /\ g # Target /\ Target \in Scopes
  BY Instances
<1>2. p \in PCs \ {"idle", "wait", "ended"} /\ q \in PCs \ {"idle"} /\ SameClass(p, q)
  BY DEF PCs, Locked, Held, Switched, Prepared, SameClass
<1>3. pc' \in [Txs -> PCs] /\ pc'[g] = q /\ \A h \in Txs \ {g} : pc'[h] = pc[h]
  BY <1>1, <1>2 DEF Typed, Goto
<1>4. /\ invocation' \in [Gens -> Scopes \cup {NoScope}] /\ declared' \in [Gens -> Scopes \cup {NoScope}]
      /\ member' \in [Gens -> Scopes \cup {NoScope}] /\ child' \in [Gens -> Scopes \cup {NoScope}]
      /\ invocation'[g] = i /\ declared'[g] = d /\ member'[g] = m /\ child'[g] = c
  BY <1>1 DEF Typed
<1>5. \A f \in Gens \ {g} : /\ invocation'[f] = invocation[f] /\ declared'[f] = declared[f]
                            /\ member'[f] = member[f] /\ child'[f] = child[f]
  BY <1>1 DEF Typed
<1>6. Aside(g)
  BY <1>3, <1>5 DEF Aside
<1>7. Typed'
  BY <1>1, <1>3, <1>4 DEF Typed
<1>8. LockInv'
  <2>1. p \in Locked /\ q \in Locked /\ p \notin Activating /\ q \notin Activating
    BY DEF Held, Switched, Locked, Prepared, Activating
  <2>2. \/ \A h \in Txs : Committing(h)' => Committing(h)
        \/ \E h \in Txs : ScopesFree /\ \A k \in Txs \ {h} : ~Committing(k)'
    BY <1>3 DEF SameLocks, Committing, Held, ScopesFree
  <2> QED BY <1>1, <1>3, <2>1, <2>2, LocksKept
<1>9. disposal[g] = "idle" /\ state[g] = "Active" /\ (Visible(g)' <=> Visible(g))
  BY <1>1, Unchanged DEF TxOK
<1>10. TxOK(g)'
  <2>1. \A h \in Txs : pc[h] # "idle" => pc'[h] # "idle"
    BY <1>2, <1>3
  <2>2. /\ p \in Held /\ p \notin Cleaning \cup {"ended"} /\ p \notin Fresh
        /\ q \notin Cleaning \cup {"ended", "restore"} /\ q \notin Switched /\ q \notin Fresh
        /\ q # "cleanup"
    BY DEF Held, Switched, Cleaning, Fresh
  <2> QED BY <1>1, <1>2, <1>3, <1>9, <2>1, <2>2 DEF TxOK
<1>11. home[g] = g
  BY <1>1 DEF TxOK, Held, Cleaning
<1>12. FiberOK(g)' /\ RegisteredOK(g)'
  <2>1. (\E h \in Txs : old[h] = g /\ pc[h] \in Locked \cup {"cleanup"})
        => \E h \in Txs : old'[h] = g /\ pc'[h] \in Locked \cup {"cleanup"}
    BY <1>2, <1>3 DEF SameClass
  <2>2. FiberOK(g)'
    BY <1>1, <1>9, <2>1 DEF FiberOK
  <2> QED BY <1>1, <1>9, <1>11, <2>2 DEF RegisteredOK, Unregistered, Released, Gone
<1>13. StagedOK(g)'
  <2>1. q = "dropStaged" => Place(g, MovedInvocations)' = g /\ Place(g, Moved)' = g /\ Place(g, MovedScope)' = g
    BY <1>3 DEF Place, MovedInvocations, MovedScope, Moved, Held
  <2>2. entry[g] = g
    BY <1>1 DEF StagedOK, Switched
  <2>3. i = Place(g, MovedInvocations)' /\ d = Place(g, Moved)' /\ m = Place(g, MovedScope)' /\ c = Place(g, MovedScope)'
    BY <1>3 DEF Place
  <2>4. q # "finish" /\ (q \in Held \/ q = "dropStaged") /\ "dropStaged" \notin Held
    BY DEF Switched, Held
  <2>5. UNCHANGED <<entry, home, disposal, state>>
    OBVIOUS
  <2>6. "idle" \notin Released
    BY DEF Released, Gone
  <2>7. \A x \in Held : x \notin {"registered", "sealed", "activate", "starting"} \cup Prepared
    BY DEF Held, Prepared
  <2>8. CASE q \in Held
    BY <1>3, <1>4, <1>9, <1>11, <2>2, <2>3, <2>4, <2>5, <2>6, <2>8, <2>7
       DEF StagedOK
  <2>9. CASE q = "dropStaged"
    BY <1>3, <1>4, <1>9, <1>11, <2>1, <2>2, <2>3, <2>4, <2>5, <2>6, <2>9 DEF StagedOK
  <2> QED BY <2>4, <2>8, <2>9
<1>14. StagingOK(g)'
  <2>1. p \in Early /\ q \notin {"idle", "wait", "stage"} /\ q \notin {"activate"} \cup Activating
    BY <1>2 DEF Early, PCs, Locked, Failing, Held, Activating, Switched
  <2> QED BY <1>1, <1>3, <2>1 DEF StagingOK
<1> QED BY <1>2, <1>6, <1>7, <1>8, <1>9, <1>10, <1>12, <1>13, <1>14, <1>3, OwnMove

\* Setting an index to what it holds changes nothing.
LEMMA SameIndex ==
  ASSUME NEW S, NEW x \in [Gens -> S], NEW g \in Gens
  PROVE  x = [x EXCEPT ![g] = x[g]]
OBVIOUS

LEMMA CommitMoves ==
  ASSUME ReloadInv, NEW g \in Txs,
         MoveProviders(g) \/ MoveScope(g) \/ MoveInvocations(g) \/ UndoInvocations(g) \/ UndoScope(g)
           \/ UndoProviders(g)
  PROVE  ReloadInv'
<1>1. StagedOK(g) /\ g \in Gens
  BY Instances
<1>2. /\ invocation = [invocation EXCEPT ![g] = invocation[g]]
      /\ declared = [declared EXCEPT ![g] = declared[g]]
      /\ member = [member EXCEPT ![g] = member[g]] /\ child = [child EXCEPT ![g] = child[g]]
  BY <1>1, SameIndex, Instances DEF Typed
<1> USE DEF Held, Switched, Activating, Prepared, Failing, Locked, SameLocks, Place, Moved, MovedScope, MovedInvocations
<1>4. CASE MoveProviders(g)
  <2>1. pc[g] = "providers" /\ declared[g] = g /\ invocation[g] = g /\ member[g] = g /\ child[g] = g
    BY <1>1, <1>4 DEF MoveProviders, StagedOK
  <2>2. /\ declared' = [declared EXCEPT ![g] = Target] /\ Goto(g, "scope")
        /\ UNCHANGED <<world, gateVars, fiberVars, disposalVars, serviceVars, invocation, member,
                       child, scope, boot, old, outcome, call>>
    BY <1>4, <2>1 DEF MoveProviders
  <2>3. Indexes(g, "providers", "scope", g, Target, g, g)
    BY <1>2, <2>1, <2>2 DEF Indexes
  <2> QED BY <2>3, IndexMove
<1>5. CASE MoveScope(g)
  <2>1. pc[g] = "scope" /\ declared[g] = Target /\ invocation[g] = g /\ member[g] = g /\ child[g] = g
    BY <1>1, <1>5 DEF MoveScope, StagedOK
  <2>2. CASE ScopesPrepared(g)
    <3>1. /\ member' = [member EXCEPT ![g] = Target] /\ child' = [child EXCEPT ![g] = Target]
          /\ Goto(g, "invocations")
          /\ UNCHANGED <<world, gateVars, fiberVars, disposalVars, serviceVars, invocation, declared,
                         scope, boot, old, outcome, call>>
      BY <1>5, <2>2 DEF MoveScope
    <3>2. ScopesFree
      BY <1>5 DEF MoveScope
    <3>3. Indexes(g, "scope", "invocations", g, Target, Target, Target)
      BY <1>2, <2>1, <3>1, <3>2 DEF Indexes
    <3> QED BY <3>3, IndexMove
  <2>3. CASE ~ScopesPrepared(g)
    <3>1. Hop(g, "scope", "undoProviders")
      BY <1>5, <2>3 DEF MoveScope, Hop
    <3> QED BY <3>1, CommitFails
  <2> QED BY <2>2, <2>3
<1>6. CASE MoveInvocations(g)
  <2>1. pc[g] = "invocations" /\ declared[g] = Target /\ invocation[g] = g /\ member[g] = Target /\ child[g] = Target
    BY <1>1, <1>6 DEF MoveInvocations, StagedOK
  <2>2. /\ invocation' = [invocation EXCEPT ![g] = Target] /\ Goto(g, "publish")
        /\ UNCHANGED <<world, gateVars, fiberVars, disposalVars, serviceVars, declared, member, child,
                       scope, boot, old, outcome, call>>
    BY <1>6 DEF MoveInvocations, CommitRevision
  <2>3. Indexes(g, "invocations", "publish", Target, Target, Target, Target)
    BY <1>2, <2>1, <2>2 DEF Indexes
  <2> QED BY <2>3, IndexMove
<1>7. CASE UndoInvocations(g)
  <2>1. pc[g] = "undoInvocations" /\ declared[g] = Target /\ member[g] = Target /\ child[g] = Target
    BY <1>1, <1>7 DEF UndoInvocations, StagedOK
  <2>2. /\ invocation' = [invocation EXCEPT ![g] = g] /\ Goto(g, "undoScope")
        /\ UNCHANGED <<world, gateVars, fiberVars, disposalVars, serviceVars, declared, member, child,
                       scope, boot, old, outcome, call>>
    BY <1>7 DEF UndoInvocations, CommitRevision
  <2>3. Indexes(g, "undoInvocations", "undoScope", g, Target, Target, Target)
    BY <1>2, <2>1, <2>2 DEF Indexes
  <2> QED BY <2>3, IndexMove
<1>8. CASE UndoScope(g)
  <2>1. pc[g] = "undoScope" /\ declared[g] = Target /\ invocation[g] = g
    BY <1>1, <1>8 DEF UndoScope, StagedOK
  <2>2. /\ member' = [member EXCEPT ![g] = g] /\ child' = [child EXCEPT ![g] = g]
        /\ Goto(g, "undoProviders")
        /\ UNCHANGED <<world, gateVars, fiberVars, disposalVars, serviceVars, invocation, declared,
                       scope, boot, old, outcome, call>>
    BY <1>8 DEF UndoScope
  <2>3. Indexes(g, "undoScope", "undoProviders", g, Target, g, g)
    BY <1>2, <2>1, <2>2 DEF Indexes
  <2> QED BY <2>3, IndexMove
<1>9. CASE UndoProviders(g)
  <2>1. pc[g] = "undoProviders" /\ invocation[g] = g /\ member[g] = g /\ child[g] = g
    BY <1>1, <1>9 DEF UndoProviders, StagedOK
  <2>2. /\ declared' = [declared EXCEPT ![g] = g] /\ Goto(g, "dropStaged")
        /\ UNCHANGED <<world, gateVars, fiberVars, disposalVars, serviceVars, invocation, member,
                       child, scope, boot, old, outcome, call>>
    BY <1>9 DEF UndoProviders
  <2>3. Indexes(g, "undoProviders", "dropStaged", g, g, g, g)
    BY <1>2, <2>1, <2>2 DEF Indexes
  <2> QED BY <2>3, IndexMove
<1> QED BY <1>4, <1>5, <1>6, <1>7, <1>8, <1>9

\* The lifecycle mutex of the staged Fiber is taken for start, and given back after it.
LEMMA OwnLock ==
  ASSUME ReloadInv, NEW g \in Txs, UNCHANGED <<old, boot>>,
         \A f \in Gens : disposal'[f] \in Body <=> disposal[f] \in Body,
         pc[g] \in Locked, pc'[g] \in Locked, ~Committing(g)',
         \A h \in Txs \ {g} : pc'[h] = pc[h],
         \A f \in Gens \ {g} : lifecycle'[f] = lifecycle[f],
         \/ lifecycle[g] = "free" /\ lifecycle'[g] = "activation" /\ pc'[g] \in Activating
         \/ lifecycle[g] = "activation" /\ lifecycle'[g] = "free" /\ pc'[g] \notin Activating
  PROVE  LockInv'
<1>1. LockInv /\ g \in Gens /\ g # 1 /\ \A f \in Gens : f = 1 \/ f \in Txs
  BY Instances
<1>2. \A h \in Txs : pc'[h] \in Locked <=> pc[h] \in Locked
  OBVIOUS
<1>3. ASSUME NEW f \in Gens
      PROVE  /\ lifecycle'[f] = "activation" <=> IF f = 1 THEN boot' # "ready" ELSE pc'[f] \in Activating
             /\ lifecycle'[f] = "reload" <=> \E h \in Txs : old'[h] = f /\ pc'[h] \in Locked
             /\ lifecycle'[f] = "disposal" <=> disposal'[f] \in Body
  <2>1. (\E h \in Txs : old'[h] = f /\ pc'[h] \in Locked) <=> \E h \in Txs : old[h] = f /\ pc[h] \in Locked
    BY <1>2
  <2>2. CASE f = g
    BY <1>1, <2>1, <2>2 DEF LockInv
  <2>3. CASE f # g
    BY <1>1, <2>1, <2>3 DEF LockInv
  <2> QED BY <2>2, <2>3
<1>4. \A h, k \in Txs : pc'[h] \in Locked /\ pc'[k] \in Locked /\ old'[h] = old'[k] => h = k
  BY <1>1, <1>2 DEF LockInv
<1>5. \A h, k \in Txs : Committing(h)' /\ Committing(k)' => h = k
  BY <1>1 DEF LockInv, Committing
<1> QED BY <1>3, <1>4, <1>5 DEF LockInv

LEMMA InstallStep ==
  ASSUME ReloadInv, NEW g \in Txs, InstallStaged(g)
  PROVE  ReloadInv'
<1> USE DEF Held, Fresh, Cleaning, Early, Activating, Prepared, Failing, Locked, Switched, PCs
<1>1. /\ Typed /\ LockInv /\ TxOK(g) /\ StagedOK(g) /\ StagingOK(g) /\ FiberOK(g) /\ RegisteredOK(g) /\ ScopeOK(g)
      /\ g \in Gens /\ g \in Scopes /\ g # Target /\ pc[g] = "install"
  BY Instances DEF InstallStaged
<1>2. CASE ~(open /\ scope[g].state = "Active")
  <2>1. Hop(g, "install", "dropStaging")
    BY <1>2 DEF InstallStaged, Hop
  <2> QED BY <2>1, StagingFails
<1>3. CASE open /\ scope[g].state = "Active"
  <2>1. /\ pc' = [pc EXCEPT ![g] = "activate"] /\ state' = [state EXCEPT ![g] = "Created"]
        /\ owned' = owned \cup {g}
        /\ member' = [member EXCEPT ![g] = g] /\ declared' = [declared EXCEPT ![g] = g]
        /\ UNCHANGED <<world, gateVars, home, lifecycle, disposalVars, serviceVars, invocation, child,
                       scope, boot, old, outcome, call>>
    BY <1>3 DEF InstallStaged, Goto
  <2>2. /\ pc' \in [Txs -> PCs] /\ pc'[g] = "activate" /\ \A h \in Txs \ {g} : pc'[h] = pc[h]
    BY <1>1, <2>1 DEF Typed
  <2>3. /\ state' \in [Gens -> States] /\ state'[g] = "Created" /\ \A f \in Gens \ {g} : state'[f] = state[f]
    BY <1>1, <2>1 DEF Typed, States
  <2>4. /\ member' \in [Gens -> Scopes \cup {NoScope}] /\ member'[g] = g
        /\ declared' \in [Gens -> Scopes \cup {NoScope}] /\ declared'[g] = g
        /\ \A f \in Gens \ {g} : member'[f] = member[f] /\ declared'[f] = declared[f]
    BY <1>1, <2>1 DEF Typed
  <2>5. Aside(g)
    BY <2>1, <2>2, <2>3, <2>4 DEF Aside
  <2>6. Typed'
    BY <1>1, <2>1, <2>2, <2>3, <2>4 DEF Typed
  <2>7. LockInv'
    <3>1. \A h \in Txs : /\ pc'[h] \in Locked <=> pc[h] \in Locked
                         /\ pc'[h] \in Activating <=> pc[h] \in Activating
                         /\ (Committing(h)' => Committing(h))
      BY <1>1, <2>2 DEF Committing
    <3> QED BY <1>1, <2>1, <3>1, LocksKept
  <2>8. SameClass(pc[g], pc'[g])
    BY <1>1, <2>2 DEF SameClass
  <2>9. state[g] = "none"
    BY <1>1 DEF TxOK
  <2>10. /\ disposal[g] = "idle" /\ g \notin retired /\ entry[g] = 0 /\ invocation[g] = NoScope /\ child[g] = NoScope
         /\ home[g] = g
    BY <1>1, <2>9 DEF FiberOK, TxOK
  <2>11. TxOK(g)'
    <3>1. \A h \in Txs : pc[h] # "idle" => pc'[h] # "idle"
      BY <1>1, <2>2
    <3>2. old[g] \in 1..(g - 1) /\ old[g] # g /\ old[g] \notin owned' /\ state'[old[g]] # "none"
      <4>1. old[g] \in 1..(g - 1)
        BY <1>1 DEF TxOK
      <4> QED BY <1>1, <2>1, <2>3, <4>1, OldFiber
    <3> QED BY <1>1, <2>1, <2>2, <2>3, <2>10, <3>1, <3>2 DEF TxOK
  <2>12. FiberOK(g)'
    BY <1>1, <2>1, <2>2, <2>3, <2>10 DEF FiberOK
  <2>13. StagedOK(g)'
    BY <1>1, <2>1, <2>2, <2>3, <2>4, <2>10 DEF StagedOK
  <2>14. RegisteredOK(g)'
    BY <1>1, <2>1, <2>10 DEF RegisteredOK, Unregistered, Released, Gone
  <2>15. StagingOK(g)'
    BY <1>1, <1>3, <2>1, <2>2, <2>10 DEF StagingOK, ScopeOK
  <2> QED BY <1>1, <2>1, <2>5, <2>6, <2>7, <2>8, <2>9, <2>11, <2>12, <2>13, <2>14, <2>15, OwnMove
<1> QED BY <1>2, <1>3

LEMMA ActivateStep ==
  ASSUME ReloadInv, NEW g \in Txs, ActivateStaged(g)
  PROVE  ReloadInv'
<1> USE DEF Held, Fresh, Cleaning, Early, Activating, Prepared, Failing, Locked, Switched, PCs
<1>1. /\ Typed /\ LockInv /\ TxOK(g) /\ StagedOK(g) /\ StagingOK(g) /\ FiberOK(g) /\ RegisteredOK(g) /\ ScopeOK(g)
      /\ g \in Gens /\ g \in Scopes /\ g # Target /\ pc[g] = "activate" /\ lifecycle[g] = "free"
  BY Instances DEF ActivateStaged
<1>2. CASE ~(open /\ state[g] = "Created")
  <2>1. Hop(g, "activate", "dropStaging")
    BY <1>2 DEF ActivateStaged, Hop
  <2> QED BY <2>1, StagingFails
<1>3. CASE open /\ state[g] = "Created"
  <2>1. /\ pc' = [pc EXCEPT ![g] = "starting"] /\ state' = [state EXCEPT ![g] = "Starting"]
        /\ lifecycle' = [lifecycle EXCEPT ![g] = "activation"]
        /\ UNCHANGED <<world, gateVars, home, owned, disposalVars, serviceVars, indexVars, scope,
                       boot, old, outcome, call>>
    BY <1>3 DEF ActivateStaged, Goto
  <2>2. /\ pc' \in [Txs -> PCs] /\ pc'[g] = "starting" /\ \A h \in Txs \ {g} : pc'[h] = pc[h]
    BY <1>1, <2>1 DEF Typed
  <2>3. /\ state' \in [Gens -> States] /\ state'[g] = "Starting" /\ \A f \in Gens \ {g} : state'[f] = state[f]
    BY <1>1, <2>1 DEF Typed, States
  <2>4. /\ lifecycle' \in [Gens -> {"free", "activation", "reload", "disposal"}]
        /\ lifecycle'[g] = "activation" /\ \A f \in Gens \ {g} : lifecycle'[f] = lifecycle[f]
    BY <1>1, <2>1 DEF Typed
  <2>5. Aside(g)
    BY <2>1, <2>2, <2>3, <2>4 DEF Aside
  <2>6. Typed'
    BY <1>1, <2>1, <2>2, <2>3, <2>4 DEF Typed
  <2>7. LockInv'
    BY <1>1, <2>1, <2>2, <2>4, OwnLock DEF Committing
  <2>8. SameClass(pc[g], pc'[g])
    BY <1>1, <2>2 DEF SameClass
  <2>9. disposal[g] = "idle"
    BY <1>1, <1>3 DEF FiberOK
  <2>10. TxOK(g)'
    <3>1. \A h \in Txs : pc[h] # "idle" => pc'[h] # "idle"
      BY <1>1, <2>2
    <3>2. old[g] \in 1..(g - 1) /\ old[g] # g /\ old[g] \notin owned' /\ state'[old[g]] # "none"
      <4>1. old[g] \in 1..(g - 1)
        BY <1>1 DEF TxOK
      <4> QED BY <1>1, <2>1, <2>3, <4>1, OldFiber
    <3> QED BY <1>1, <1>3, <2>1, <2>2, <2>3, <3>1, <3>2 DEF TxOK
  <2>11. FiberOK(g)'
    BY <1>1, <2>1, <2>2, <2>3, <2>9 DEF FiberOK
  <2>12. StagedOK(g)'
    BY <1>1, <1>3, <2>1, <2>2, <2>3 DEF StagedOK
  <2>13. RegisteredOK(g)'
    BY <1>1, <2>1 DEF RegisteredOK
  <2>14. StagingOK(g)'
    BY <1>1, <1>3, <2>1, <2>2, <2>9 DEF StagingOK
  <2> QED BY <1>1, <1>3, <2>1, <2>3, <2>5, <2>6, <2>7, <2>8, <2>10, <2>11, <2>12, <2>13, <2>14, OwnMove
<1> QED BY <1>2, <1>3

LEMMA RegisterStep ==
  ASSUME ReloadInv, NEW g \in Txs, RegisterStaged(g)
  PROVE  ReloadInv'
<1> USE DEF Held, Fresh, Cleaning, Early, Activating, Prepared, Failing, Locked, Switched, PCs
<1>1. /\ Typed /\ LockInv /\ TxOK(g) /\ StagedOK(g) /\ StagingOK(g) /\ FiberOK(g) /\ RegisteredOK(g)
      /\ g \in Gens /\ g \in Scopes /\ g # Target /\ pc[g] = "starting" /\ state[g] = "Starting"
      /\ pc' = [pc EXCEPT ![g] = "registered"]
      /\ entry' = [entry EXCEPT ![g] = g] /\ invocation' = [invocation EXCEPT ![g] = g]
      /\ child' = [child EXCEPT ![g] = g] /\ Bump
      /\ UNCHANGED <<world, gateVars, fiberVars, disposalVars, declared, member, scope, boot, old,
                     outcome, call>>
  BY Instances DEF RegisterStaged, Goto
<1>2. /\ pc' \in [Txs -> PCs] /\ pc'[g] = "registered" /\ \A h \in Txs \ {g} : pc'[h] = pc[h]
  BY <1>1 DEF Typed
<1>3. /\ entry' \in [Scopes -> 0..MaxGen] /\ entry'[g] = g /\ \A s \in Scopes \ {g} : entry'[s] = entry[s]
  BY <1>1 DEF Typed, Scopes
<1>4. /\ invocation' \in [Gens -> Scopes \cup {NoScope}] /\ invocation'[g] = g
      /\ child' \in [Gens -> Scopes \cup {NoScope}] /\ child'[g] = g
      /\ \A f \in Gens \ {g} : invocation'[f] = invocation[f] /\ child'[f] = child[f]
  BY <1>1 DEF Typed
<1>5. Aside(g)
  BY <1>1, <1>2, <1>3, <1>4 DEF Aside
<1>6. Typed'
  BY <1>1, <1>2, <1>3, <1>4, CacheEmptied DEF Typed
<1>7. LockInv'
  <2>1. \A h \in Txs : /\ pc'[h] \in Locked <=> pc[h] \in Locked
                       /\ pc'[h] \in Activating <=> pc[h] \in Activating
                       /\ (Committing(h)' => Committing(h))
    BY <1>1, <1>2 DEF Committing
  <2> QED BY <1>1, <2>1, LocksKept
<1>8. SameClass(pc[g], pc'[g])
  BY <1>1, <1>2 DEF SameClass
<1>9. disposal[g] = "idle" /\ home[g] = g /\ member[g] = g /\ declared[g] = g
  <2>1. disposal[g] = "idle" /\ home[g] = g
    BY <1>1 DEF FiberOK, TxOK
  <2> QED BY <1>1, <2>1 DEF StagedOK, Gone
<1>10. TxOK(g)'
  <2>1. \A h \in Txs : pc[h] # "idle" => pc'[h] # "idle"
    BY <1>1, <1>2
  <2> QED BY <1>1, <1>2, <2>1 DEF TxOK
<1>11. FiberOK(g)'
  BY <1>1, <1>2, <1>9 DEF FiberOK
<1>12. StagedOK(g)'
  BY <1>1, <1>2, <1>3, <1>4, <1>9 DEF StagedOK, Released, Gone
<1>13. RegisteredOK(g)'
  BY <1>1, <1>9 DEF RegisteredOK, Unregistered, Released, Gone
<1>14. StagingOK(g)'
  BY <1>1, <1>2, <1>9 DEF StagingOK
<1> QED BY <1>1, <1>3, <1>5, <1>6, <1>7, <1>8, <1>10, <1>11, <1>12, <1>13, <1>14, OwnMove

\* A staged activation is complete, whatever has become of its Fiber meanwhile.
LEMMA FinishStagedStep ==
  ASSUME ReloadInv, NEW g \in Txs, FinishStaged(g)
  PROVE  ReloadInv'
<1> USE DEF Held, Fresh, Cleaning, Early, Activating, Prepared, Failing, Locked, Switched, PCs
<1>1. /\ Typed /\ LockInv /\ TxOK(g) /\ StagedOK(g) /\ StagingOK(g) /\ FiberOK(g) /\ RegisteredOK(g)
      /\ g \in Gens /\ g \in Scopes /\ g # Target /\ pc[g] = "sealed"
      /\ pc' = [pc EXCEPT ![g] = "commit"] /\ state' = [state EXCEPT ![g] = "Active"]
      /\ lifecycle' = [lifecycle EXCEPT ![g] = "free"]
      /\ UNCHANGED <<world, gateVars, home, owned, disposalVars, serviceVars, indexVars, scope,
                     boot, old, outcome, call>>
  BY Instances DEF FinishStaged, Goto
<1>2. /\ pc' \in [Txs -> PCs] /\ pc'[g] = "commit" /\ \A h \in Txs \ {g} : pc'[h] = pc[h]
  BY <1>1 DEF Typed
<1>3. /\ state' \in [Gens -> States] /\ state'[g] = "Active" /\ \A f \in Gens \ {g} : state'[f] = state[f]
  BY <1>1 DEF Typed, States
<1>4. /\ lifecycle' \in [Gens -> {"free", "activation", "reload", "disposal"}]
      /\ lifecycle'[g] = "free" /\ \A f \in Gens \ {g} : lifecycle'[f] = lifecycle[f]
  BY <1>1 DEF Typed
<1>5. Aside(g)
  BY <1>1, <1>2, <1>3, <1>4 DEF Aside
<1>6. Typed'
  BY <1>1, <1>2, <1>3, <1>4 DEF Typed
<1>7. LockInv'
  <2>1. lifecycle[g] = "activation"
    BY <1>1, Instances DEF LockInv
  <2> QED BY <1>1, <1>2, <1>4, <2>1, OwnLock DEF Committing
<1>8. SameClass(pc[g], pc'[g])
  BY <1>1, <1>2 DEF SameClass
<1>9. home[g] = g /\ state[g] # "none" /\ disposal[g] \in {"idle", "begun"}
      /\ (scope[Target].state = "Active" => disposal[g] = "idle")
  BY <1>1 DEF TxOK, FiberOK, StagingOK
<1>10. TxOK(g)'
  <2>1. \A h \in Txs : pc[h] # "idle" => pc'[h] # "idle"
    BY <1>1, <1>2
  <2>2. old[g] \in 1..(g - 1) /\ old[g] # g /\ old[g] \notin owned' /\ state'[old[g]] # "none"
    <3>1. old[g] \in 1..(g - 1)
      BY <1>1 DEF TxOK
    <3> QED BY <1>1, <1>3, <3>1, OldFiber
  <2> QED BY <1>1, <1>2, <1>3, <1>9, <2>1, <2>2 DEF TxOK
<1>11. FiberOK(g)'
  BY <1>1, <1>2, <1>3, <1>9 DEF FiberOK
<1>12. StagedOK(g)'
  BY <1>1, <1>2, <1>3, <1>9 DEF StagedOK, Released, Gone
<1>13. RegisteredOK(g)'
  BY <1>1 DEF RegisteredOK
<1>14. StagingOK(g)'
  BY <1>1, <1>2, <1>9 DEF StagingOK
<1> QED BY <1>1, <1>3, <1>5, <1>6, <1>7, <1>8, <1>9, <1>10, <1>11, <1>12, <1>13, <1>14, OwnMove

-----------------------------------------------------------------------------
(***************************************************************************)
(* Steps of a disposal.                                                    *)
(***************************************************************************)
DisposalMove(f, b) ==
  /\ UNCHANGED <<open, outside, log, retired, draining, home, owned, patient, scope, boot, pc, old,
                 outcome, call>>
  /\ disposal[f] # "idle" /\ disposal' = [disposal EXCEPT ![f] = b] /\ b \in Steps \ {"idle", "begun"}
  /\ \A h \in Gens \ {f} : /\ state'[h] = state[h] /\ lifecycle'[h] = lifecycle[h]
                           /\ invocation'[h] = invocation[h] /\ declared'[h] = declared[h]
                           /\ member'[h] = member[h] /\ child'[h] = child[h]
  /\ state'[f] \in {state[f], "Disposed"}
  /\ \A s \in Scopes : entry'[s] = entry[s] \/ (s = home[f] /\ disposal[f] = "remove")
  /\ cache' = cache \/ Bump
  /\ disposal[f] \in Over => b \in Over
  /\ disposal[f] = "begun" => lifecycle[f] = "free"
  /\ disposal[f] \in Undrained => b \in Undrained \/ ~Leased(f)
  /\ \/ lifecycle'[f] = lifecycle[f] /\ (b \in Body <=> disposal[f] \in Body)
     \/ lifecycle'[f] = "disposal" /\ b \in Body /\ lifecycle[f] = "free"
     \/ lifecycle'[f] = "free" /\ b \notin Body /\ lifecycle[f] = "disposal"

\* A disposal that has begun changes nothing that the rest depends on.
LEMMA DisposalMoves ==
  ASSUME ReloadInv, NEW f \in Gens, NEW b, DisposalMove(f, b), Typed', FiberOK(f)', RegisteredOK(f)',
         f \in Txs => StagedOK(f)'
  PROVE  ReloadInv'
<1>1. /\ Typed /\ LogInv /\ GateInv /\ LockInv /\ VisibleInv /\ CacheInv /\ CallInv /\ boot = "ready"
      /\ FiberOK(f) /\ RegisteredOK(f) /\ disposal[f] # "idle" /\ f \in draining /\ f \in retired /\ ~Visible(f)
  <2>1. /\ Typed /\ LogInv /\ GateInv /\ LockInv /\ VisibleInv /\ CacheInv /\ CallInv /\ boot = "ready"
        /\ FiberOK(f) /\ RegisteredOK(f) /\ disposal[f] # "idle"
    BY Instances, Ready DEF DisposalMove
  <2>2. f \in draining /\ draining \subseteq retired
    BY <2>1 DEF GateInv, Typed
  <2> QED BY <2>1, <2>2 DEF GateInv
<1>2. /\ disposal'[f] = b /\ \A h \in Gens \ {f} : disposal'[h] = disposal[h]
      /\ \A h \in Gens : (disposal'[h] = "idle" <=> disposal[h] = "idle")
      /\ \A h \in Gens : disposal[h] \in Over => disposal'[h] \in Over
  <2>1. disposal'[f] = b /\ \A h \in Gens \ {f} : disposal'[h] = disposal[h]
    BY <1>1 DEF DisposalMove, Typed
  <2> QED BY <1>1, <2>1 DEF DisposalMove
<1>3. active' = active /\ \A h : (Visible(h)' <=> Visible(h)) /\ (Named(h)' <=> Named(h))
  BY Unchanged DEF DisposalMove
<1>4. LogInv' /\ GateInv' /\ BootInv'
  <2>1. LogInv'
    BY <1>1 DEF DisposalMove, LogInv
  <2>2. GateInv'
    BY <1>1, <1>2, <1>3 DEF DisposalMove, GateInv
  <2> QED BY <1>1, <2>1, <2>2 DEF DisposalMove, BootInv
<1>5. \A h \in Gens : state'[h] = "none" <=> state[h] = "none"
  BY <1>1 DEF DisposalMove, FiberOK
<1>6. \A h \in Txs : pc[h] \in Locked => disposal'[old[h]] \in {"idle", "begun"} \/ disposal[old[h]] \notin {"idle", "begun"}
  <2> SUFFICES ASSUME NEW h \in Txs, pc[h] \in Locked, disposal[old[h]] \in {"idle", "begun"}
               PROVE  disposal'[old[h]] \in {"idle", "begun"}
    OBVIOUS
  <2>1. old[h] \in Gens
    BY OldFiber DEF Locked, Activating, Prepared, Held, Failing
  <2>2. lifecycle[old[h]] = "reload"
    BY <1>1, <2>1 DEF LockInv
  <2>3. old[h] # f
    BY <1>1, <2>2 DEF DisposalMove
  <2> QED BY <1>2, <2>1, <2>3
<1>7. ASSUME NEW h \in Txs PROVE TxOK(h)'
  <2>1. TxOK(h) /\ h \in Gens
    BY Instances
  <2>2. pc[h] # "idle" => old[h] \in Gens
    BY OldFiber
  <2>3. pc[h] \in Held => state'[h] = state[h]
    BY <1>1, <2>1 DEF TxOK, DisposalMove
  <2>4. pc[h] \in Switched => disposal'[old[h]] \in {"idle", "begun"}
    BY <1>6, <2>1 DEF TxOK, Switched, Locked, Held
  <2>5. UNCHANGED <<pc, old, outcome, home, owned>>
    BY DEF DisposalMove
  <2> QED BY <1>2, <1>3, <1>5, <2>1, <2>2, <2>3, <2>4, <2>5 DEF TxOK
<1>8. TxInv'
  BY <1>7, Instances DEF TxInv, DisposalMove
<1>9. LockInv'
  <2>1. ASSUME NEW h \in Gens
        PROVE  /\ lifecycle'[h] = "activation" <=> IF h = 1 THEN boot # "ready" ELSE pc[h] \in Activating
               /\ lifecycle'[h] = "reload" <=> \E g \in Txs : old[g] = h /\ pc[g] \in Locked
               /\ lifecycle'[h] = "disposal" <=> disposal'[h] \in Body
    <3>1. /\ lifecycle[h] = "activation" <=> IF h = 1 THEN boot # "ready" ELSE pc[h] \in Activating
          /\ lifecycle[h] = "reload" <=> \E g \in Txs : old[g] = h /\ pc[g] \in Locked
          /\ lifecycle[h] = "disposal" <=> disposal[h] \in Body
      BY <1>1, Instances DEF LockInv
    <3>2. CASE h # f
      BY <1>2, <3>1, <3>2 DEF DisposalMove
    <3>3. CASE h = f
      BY <1>2, <3>1, <3>3 DEF DisposalMove
    <3> QED BY <3>2, <3>3
  <2>2. \A g \in Txs : Committing(g)' <=> Committing(g)
    BY DEF DisposalMove, Committing
  <2>3. UNCHANGED <<pc, old, boot>>
    BY DEF DisposalMove
  <2> QED BY <1>1, <2>1, <2>2, <2>3 DEF LockInv
<1>10. home[f] \in {f, Target} /\ f # Target
  BY Instances DEF TxOK
<1>11. ASSUME NEW h \in Gens, h # f PROVE FiberOK(h)'
  <2>1. FiberOK(h) /\ h \in Scopes /\ h # Target
    BY Instances
  <2>2. /\ UNCHANGED <<retired, home, scope, pc, old>> /\ state'[h] = state[h] /\ lifecycle'[h] = lifecycle[h]
        /\ invocation'[h] = invocation[h] /\ declared'[h] = declared[h]
        /\ member'[h] = member[h] /\ child'[h] = child[h] /\ entry'[h] = entry[h] /\ disposal'[h] = disposal[h]
    BY <1>2, <1>10, <1>11, <2>1 DEF DisposalMove
  <2> QED BY <2>1, <2>2 DEF FiberOK
<1>12. FiberInv'
  BY <1>11 DEF FiberInv
<1>13. ASSUME NEW h \in Txs, h # f PROVE StagedOK(h)'
  <2>1. StagedOK(h) /\ h \in Gens /\ h \in Scopes /\ h # Target
    BY Instances
  <2>2. /\ UNCHANGED <<home, scope, pc>> /\ state'[h] = state[h]
        /\ invocation'[h] = invocation[h] /\ declared'[h] = declared[h]
        /\ member'[h] = member[h] /\ child'[h] = child[h] /\ entry'[h] = entry[h] /\ disposal'[h] = disposal[h]
        /\ (Visible(h)' <=> Visible(h))
    BY <1>2, <1>3, <1>10, <1>13, <2>1 DEF DisposalMove
  <2> QED BY <2>1, <2>2 DEF StagedOK, Place
<1>14. ASSUME NEW h \in Gens, h # f PROVE RegisteredOK(h)'
  <2>1. RegisteredOK(h) /\ home[h] \in Scopes
    BY Instances DEF Typed
  <2>2. /\ UNCHANGED home /\ invocation'[h] = invocation[h] /\ declared'[h] = declared[h]
        /\ member'[h] = member[h] /\ child'[h] = child[h] /\ disposal'[h] = disposal[h]
    BY <1>2, <1>14 DEF DisposalMove
  <2>3. disposal[h] = "remove" => entry'[home[h]] = h
    BY <1>1, <1>14, <2>1 DEF RegisteredOK, DisposalMove
  <2> QED BY <2>1, <2>2, <2>3 DEF RegisteredOK
<1>15. RegistryInv'
  <2>1. \A g \in Txs : StagedOK(g)'
    BY <1>13
  <2>2. \A h \in Gens : RegisteredOK(h)'
    BY <1>14
  <2> QED BY <2>1, <2>2 DEF RegistryInv
<1>16. VisibleInv'
  <2>1. UNCHANGED <<home, boot, pc, old>> /\ Target \in Scopes
    BY Instances DEF DisposalMove
  <2>2. ServicesFree' <=> ServicesFree
    BY <2>1 DEF ServicesFree
  <2>3. ServicesFree' /\ active' # 0 => entry'[Target] = active'
    <3>1. ServicesFree /\ active # 0 => entry[Target] = active
      BY <1>1 DEF VisibleInv
    <3>2. entry'[Target] = entry[Target] \/ entry[Target] = f
      BY <1>1, <2>1 DEF DisposalMove, RegisteredOK
    <3>3. active # f
      BY <1>1 DEF Visible
    <3> QED BY <1>3, <2>2, <3>1, <3>2, <3>3
  <2>4. \A g \in Txs : pc'[g] \in {"retire", "services"} => entry'[Target] = old'[g]
    <3> SUFFICES ASSUME NEW g \in Txs, pc[g] \in {"retire", "services"} PROVE entry'[Target] = old[g]
      BY <2>1
    <3>1. entry[Target] = old[g] /\ disposal[old[g]] \in {"idle", "begun"}
      BY <1>1, Instances DEF VisibleInv, TxOK, Switched
    <3> QED BY <1>1, <2>1, <3>1 DEF DisposalMove, RegisteredOK
  <2>5. \A h \in Txs : Replaces(h)' <=> Replaces(h)
    BY <2>1 DEF Replaces
  <2> QED BY <1>1, <1>2, <1>3, <2>1, <2>3, <2>4, <2>5 DEF VisibleInv
<1>17. ScopeInv'
  <2>1. UNCHANGED <<scope, pc, home>>
    BY DEF DisposalMove
  <2>2. ASSUME NEW s \in Scopes PROVE ScopeOK(s)'
    <3>1. ScopeOK(s) /\ scope[s].fibers \subseteq Gens
      BY Instances DEF Typed, ScopeRec
    <3> QED BY <1>5, <2>1, <3>1 DEF ScopeOK
  <2>3. ASSUME NEW g \in Txs PROVE StagingOK(g)'
    <3>1. StagingOK(g) /\ g \in Gens
      BY Instances
    <3> QED BY <1>2, <1>5, <2>1, <3>1 DEF StagingOK
  <2> QED BY <2>1, <2>2, <2>3, Instances DEF ScopeInv
<1>18. CacheInv'
  <2>1. (ServicesFree' => ServicesFree) /\ boot' = boot /\ (cache' = cache \/ Bump)
    BY DEF DisposalMove, ServicesFree
  <2> QED BY <1>1, <1>3, <2>1, CacheKept, CacheEmptied
<1>19. CallInv'
  <2>1. UNCHANGED <<log, retired, boot, call>>
    BY DEF DisposalMove
  <2>2. \A h \in Gens : disposal[h] \in Undrained => disposal'[h] \in Undrained \/ ~Leased(h)
    BY <1>2 DEF DisposalMove
  <2>3. ASSUME NEW h \in Gens, entry[h] = h, disposal[h] \in Undrained PROVE entry'[h] = h
    <3>1. h \in Scopes /\ h # Target
      BY Instances
    <3>2. disposal[h] # "remove"
      BY <2>3 DEF Undrained
    <3> QED BY <1>10, <2>3, <3>1, <3>2 DEF DisposalMove
  <2> QED BY <1>1, <2>1, <2>2, <2>3, CallKept DEF LogGrows
<1> QED BY <1>4, <1>8, <1>9, <1>12, <1>15, <1>16, <1>17, <1>18, <1>19 DEF ReloadInv

\* What is known of a Fiber whose disposal has begun.
LEMMA DisposalFacts ==
  ASSUME ReloadInv, NEW f \in Gens, disposal[f] # "idle"
  PROVE  /\ state[f] \notin {"none", "Created", "Starting"}
         /\ disposal[f] \notin {"complete", "faulty"} => state[f] # "Disposed"
         /\ f \in Txs => pc[f] \notin Held
         /\ f \in Txs /\ pc[f] \in Activating => disposal[f] = "begun" /\ lifecycle[f] # "free"
         /\ home[f] \in {f, Target} /\ f # Target /\ (home[f] # Target => f \in Txs)
         /\ {invocation[f], declared[f], member[f], child[f]} \subseteq {NoScope, home[f]}
         /\ boot = "ready" /\ f \in Scopes /\ home[f] \in Scopes
<1>1. FiberOK(f) /\ RegisteredOK(f) /\ f # Target /\ f \in Scopes /\ Target \in Scopes /\ (f = 1 \/ f \in Txs) /\ home[1] = Target
  BY Instances
<1>2. CASE f = 1
  BY <1>1, <1>2, Ready, Instances DEF FiberOK, RegisteredOK, Txs
<1>3. CASE f \in Txs
  <2>1. TxOK(f) /\ StagedOK(f) /\ f # 1
    BY <1>3, Instances
  <2>2. pc[f] \in Activating => lifecycle[f] = "activation"
    BY <1>3, <2>1, Instances DEF LockInv
  <2> QED BY <1>1, <1>3, <2>1, <2>2, Ready DEF FiberOK, TxOK, StagedOK, RegisteredOK
<1> QED BY <1>1, <1>2, <1>3

\* A disposal goes on and leaves the registries alone.
DisposalPace(f, b) ==
  /\ UNCHANGED <<world, gateVars, state, home, owned, patient, entry, indexVars, scope, boot, txVars, call>>
  /\ disposal' = [disposal EXCEPT ![f] = b]
  /\ disposal[f] \notin {"idle", "complete", "faulty", "terminated"}
  /\ disposal[f] = "begun" => lifecycle[f] = "free"
  /\ disposal[f] \in Undrained => b \in Undrained \/ ~Leased(f)
  /\ cache' = cache \/ Bump
  /\ b \in Steps \ ({"idle", "begun", "faulty"} \cup Gone)
  /\ b = "skip" => state[f] # "Disposing"
  /\ b = "remove" => entry[home[f]] = f
  /\ b \in Unregistered => disposal[f] \in Unregistered
  /\ b \in Released => disposal[f] \in Released \/ entry[home[f]] # f
  /\ \/ lifecycle' = lifecycle /\ (b \in Body <=> disposal[f] \in Body)
     \/ lifecycle' = [lifecycle EXCEPT ![f] = "disposal"] /\ b \in Body /\ lifecycle[f] = "free"
     \/ lifecycle' = [lifecycle EXCEPT ![f] = "free"] /\ b \notin Body /\ disposal[f] \in Body
  /\ disposal[f] \notin Over

LEMMA DisposalPaces ==
  ASSUME ReloadInv, NEW f \in Gens, NEW b, DisposalPace(f, b)
  PROVE  ReloadInv'
<1>1. /\ Typed /\ LockInv /\ FiberOK(f) /\ RegisteredOK(f) /\ disposal[f] # "idle"
  BY Instances DEF DisposalPace
<1>2. /\ state[f] \notin {"none", "Created", "Starting", "Disposed"}
      /\ f \in Txs => pc[f] \notin Held /\ pc[f] \notin Activating
      /\ home[f] \in {f, Target} /\ f # Target /\ (home[f] # Target => f \in Txs)
      /\ f \in Scopes
  BY <1>1, DisposalFacts DEF DisposalPace
<1>3. lifecycle[f] = "disposal" <=> disposal[f] \in Body
  BY <1>1 DEF LockInv
<1>4. disposal' \in [Gens -> Steps] /\ disposal'[f] = b
  BY <1>1 DEF Typed, DisposalPace
<1>5. /\ lifecycle' \in [Gens -> {"free", "activation", "reload", "disposal"}]
      /\ \A h \in Gens \ {f} : lifecycle'[h] = lifecycle[h]
      /\ \/ lifecycle'[f] = lifecycle[f] /\ (b \in Body <=> disposal[f] \in Body)
         \/ lifecycle'[f] = "disposal" /\ b \in Body /\ lifecycle[f] = "free"
         \/ lifecycle'[f] = "free" /\ b \notin Body /\ lifecycle[f] = "disposal"
  BY <1>1, <1>3 DEF Typed, DisposalPace
<1>6. Typed'
  BY <1>1, <1>4, <1>5, CacheEmptied DEF Typed, DisposalPace
<1>7. DisposalMove(f, b)
  BY <1>1, <1>5 DEF DisposalPace, DisposalMove
<1>8. b = "skip" => scope[Target].state # "Active"
  BY <1>1, <1>2 DEF FiberOK, DisposalPace
<1>9. FiberOK(f)'
  BY <1>1, <1>2, <1>4, <1>8 DEF FiberOK, DisposalPace
<1>10. RegisteredOK(f)'
  BY <1>1, <1>4 DEF RegisteredOK, DisposalPace
<1>11. ASSUME f \in Txs PROVE StagedOK(f)'
  <2>1. StagedOK(f) /\ (Visible(f)' <=> Visible(f))
    BY <1>11, Instances, Unchanged DEF DisposalPace
  <2>2. b \in Released /\ home[f] = f => entry[f] = 0
    BY <1>2, <2>1 DEF StagedOK, DisposalPace
  <2>3. "publish" \in Gone /\ "complete" \in Gone /\ disposal[f] \notin Gone
    BY DEF Gone, DisposalPace, Over
  <2> QED BY <1>2, <1>4, <1>11, <2>1, <2>2, <2>3 DEF StagedOK, DisposalPace
<1> QED BY <1>6, <1>7, <1>9, <1>10, <1>11, DisposalMoves

LEMMA DisposalPaceSteps ==
  ASSUME ReloadInv, NEW f \in Gens,
         DisposeLock(f) \/ DisposeDrained(f) \/ DrainTimesOut(f) \/ DisposeServices(f) \/ DisposeBodyEnds(f)
           \/ FinalizeDecides(f)
  PROVE  ReloadInv'
<1> USE DEF Body, Gone, Released, Unregistered, Over, Steps, Undrained
<1>1. CASE DisposeLock(f)
  <2>1. DisposalPace(f, "draining")
    BY <1>1 DEF DisposeLock, DisposalPace
  <2> QED BY <2>1, DisposalPaces
<1>2. CASE DisposeDrained(f)
  <2>1. DisposalPace(f, "registrations")
    BY <1>2 DEF DisposeDrained, DisposalPace
  <2> QED BY <2>1, DisposalPaces
<1>3. CASE DrainTimesOut(f)
  <2>1. DisposalPace(f, "terminated")
    BY <1>3 DEF DrainTimesOut, DisposalPace
  <2> QED BY <2>1, DisposalPaces
<1>4. CASE DisposeServices(f)
  <2>1. CASE Removable(f)
    <3>1. DisposalPace(f, "remove")
      BY <1>4, <2>1 DEF DisposeServices, DisposalPace, Removable
    <3> QED BY <3>1, DisposalPaces
  <2>2. CASE ~Removable(f)
    <3>1. DisposalPace(f, "removed")
      BY <1>4, <2>2 DEF DisposeServices, DisposalPace, Removable
    <3> QED BY <3>1, DisposalPaces
  <2> QED BY <2>1, <2>2
<1>5. CASE DisposeBodyEnds(f)
  <2>1. DisposalPace(f, "finalize")
    BY <1>5 DEF DisposeBodyEnds, DisposalPace
  <2> QED BY <2>1, DisposalPaces
<1>6. CASE FinalizeDecides(f)
  <2>1. CASE state[f] = "Disposing"
    <3>1. DisposalPace(f, "detach")
      BY <1>6, <2>1 DEF FinalizeDecides, DisposalPace
    <3> QED BY <3>1, DisposalPaces
  <2>2. CASE state[f] # "Disposing"
    <3>1. DisposalPace(f, "skip")
      BY <1>6, <2>2 DEF FinalizeDecides, DisposalPace
    <3> QED BY <3>1, DisposalPaces
  <2> QED BY <2>1, <2>2
<1> QED BY <1>1, <1>2, <1>3, <1>4, <1>5, <1>6

\* Child Scopes, handlers and middleware of the Fiber are gone.
LEMMA DisposeRegistrationsStep ==
  ASSUME ReloadInv, NEW f \in Gens, DisposeRegistrations(f)
  PROVE  ReloadInv'
<1> USE DEF Body, Gone, Released, Unregistered, Over, Steps, Undrained
<1>1. /\ Typed /\ FiberOK(f) /\ RegisteredOK(f) /\ disposal[f] = "registrations"
      /\ disposal' = [disposal EXCEPT ![f] = "services"]
      /\ child' = [child EXCEPT ![f] = NoScope] /\ invocation' = [invocation EXCEPT ![f] = NoScope]
      /\ UNCHANGED <<world, gateVars, fiberVars, patient, serviceVars, declared, member, scope,
                     boot, txVars, call>>
  BY Instances DEF DisposeRegistrations
<1>2. /\ state[f] \notin {"none", "Created", "Starting", "Disposed"}
      /\ f \in Txs => pc[f] \notin Held /\ pc[f] \notin Activating
      /\ home[f] \in {f, Target} /\ f # Target /\ f \in Scopes
  BY <1>1, DisposalFacts
<1>3. disposal' \in [Gens -> Steps] /\ disposal'[f] = "services"
  BY <1>1 DEF Typed
<1>4. /\ child' \in [Gens -> Scopes \cup {NoScope}] /\ child'[f] = NoScope
      /\ invocation' \in [Gens -> Scopes \cup {NoScope}] /\ invocation'[f] = NoScope
      /\ \A h \in Gens \ {f} : child'[h] = child[h] /\ invocation'[h] = invocation[h]
  BY <1>1 DEF Typed
<1>5. Typed'
  BY <1>1, <1>3, <1>4 DEF Typed
<1>6. DisposalMove(f, "services")
  BY <1>1, <1>4 DEF DisposalMove
<1>7. FiberOK(f)'
  BY <1>1, <1>2, <1>3 DEF FiberOK
<1>8. RegisteredOK(f)'
  BY <1>1, <1>3, <1>4 DEF RegisteredOK
<1>9. ASSUME f \in Txs PROVE StagedOK(f)'
  <2>1. StagedOK(f) /\ (Visible(f)' <=> Visible(f))
    BY <1>1, <1>9, Instances, Unchanged
  <2> QED BY <1>1, <1>2, <1>3, <1>4, <1>9, <2>1 DEF StagedOK
<1> QED BY <1>5, <1>6, <1>7, <1>8, <1>9, DisposalMoves

LEMMA RemoveServiceStep ==
  ASSUME ReloadInv, NEW f \in Gens, RemoveService(f)
  PROVE  ReloadInv'
<1> USE DEF Body, Gone, Released, Unregistered, Over, Steps, Undrained
<1>1. /\ Typed /\ FiberOK(f) /\ RegisteredOK(f) /\ disposal[f] = "remove"
      /\ disposal' = [disposal EXCEPT ![f] = "removed"]
      /\ entry' = [entry EXCEPT ![home[f]] = 0] /\ Bump
      /\ UNCHANGED <<world, gateVars, fiberVars, patient, indexVars, scope, boot, txVars, call>>
  BY Instances DEF RemoveService
<1>2. /\ state[f] \notin {"none", "Created", "Starting", "Disposed"}
      /\ f \in Txs => pc[f] \notin Held /\ pc[f] \notin Activating
      /\ home[f] \in {f, Target} /\ f # Target /\ f \in Scopes /\ home[f] \in Scopes
  BY <1>1, DisposalFacts
<1>3. disposal' \in [Gens -> Steps] /\ disposal'[f] = "removed"
  BY <1>1 DEF Typed
<1>4. /\ entry' \in [Scopes -> 0..MaxGen] /\ entry'[home[f]] = 0
      /\ \A s \in Scopes \ {home[f]} : entry'[s] = entry[s]
  <2>1. 0 \in 0..MaxGen
    BY ReloadAssumption
  <2> QED BY <1>1, <1>2, <2>1 DEF Typed
<1>5. Typed'
  BY <1>1, <1>3, <1>4, CacheEmptied DEF Typed
<1>6. DisposalMove(f, "removed")
  BY <1>1, <1>4 DEF DisposalMove
<1>7. FiberOK(f)'
  BY <1>1, <1>2, <1>3, <1>4 DEF FiberOK
<1>8. RegisteredOK(f)'
  BY <1>1, <1>3 DEF RegisteredOK
<1>9. ASSUME f \in Txs PROVE StagedOK(f)'
  <2>1. StagedOK(f) /\ (Visible(f)' <=> Visible(f))
    BY <1>1, <1>9, Instances, Unchanged
  <2>2. entry'[f] \in {entry[f], 0} /\ (home[f] = f => entry'[f] = 0)
    BY <1>2, <1>4
  <2> QED BY <1>1, <1>2, <1>3, <1>9, <2>1, <2>2 DEF StagedOK
<1> QED BY <1>5, <1>6, <1>7, <1>8, <1>9, DisposalMoves

\* The Fiber leaves the provider index and the list of its Scope.
LEMMA FinalizeDetachesStep ==
  ASSUME ReloadInv, NEW f \in Gens, FinalizeDetaches(f)
  PROVE  ReloadInv'
<1> USE DEF Body, Gone, Released, Unregistered, Over, Steps, Undrained
<1>1. /\ Typed /\ FiberOK(f) /\ RegisteredOK(f) /\ disposal[f] = "detach"
      /\ disposal' = [disposal EXCEPT ![f] = "publish"]
      /\ declared' = [declared EXCEPT ![f] = IF declared[f] = home[f] THEN NoScope ELSE declared[f]]
      /\ member' = [member EXCEPT ![f] = IF member[f] = home[f] THEN NoScope ELSE member[f]]
      /\ UNCHANGED <<world, gateVars, fiberVars, patient, serviceVars, invocation, child, scope,
                     boot, txVars, call>>
  BY Instances DEF FinalizeDetaches
<1>2. /\ state[f] \notin {"none", "Created", "Starting", "Disposed"}
      /\ f \in Txs => pc[f] \notin Held /\ pc[f] \notin Activating
      /\ {invocation[f], declared[f], member[f], child[f]} \subseteq {NoScope, home[f]}
  BY <1>1, DisposalFacts
<1>3. disposal' \in [Gens -> Steps] /\ disposal'[f] = "publish"
  BY <1>1 DEF Typed
<1>4. /\ declared' \in [Gens -> Scopes \cup {NoScope}] /\ declared'[f] = NoScope
      /\ member' \in [Gens -> Scopes \cup {NoScope}] /\ member'[f] = NoScope
      /\ \A h \in Gens \ {f} : declared'[h] = declared[h] /\ member'[h] = member[h]
  BY <1>1, <1>2 DEF Typed
<1>5. Typed'
  BY <1>1, <1>3, <1>4 DEF Typed
<1>6. DisposalMove(f, "publish")
  BY <1>1, <1>4 DEF DisposalMove
<1>7. FiberOK(f)'
  BY <1>1, <1>2, <1>3 DEF FiberOK
<1>8. RegisteredOK(f)'
  BY <1>1, <1>3, <1>4 DEF RegisteredOK
<1>9. ASSUME f \in Txs PROVE StagedOK(f)'
  <2>1. StagedOK(f) /\ (Visible(f)' <=> Visible(f))
    BY <1>1, <1>9, Instances, Unchanged
  <2> QED BY <1>1, <1>2, <1>3, <1>4, <1>9, <2>1 DEF StagedOK
<1> QED BY <1>5, <1>6, <1>7, <1>8, <1>9, DisposalMoves

LEMMA FinalizePublishesStep ==
  ASSUME ReloadInv, NEW f \in Gens, FinalizePublishes(f)
  PROVE  ReloadInv'
<1> USE DEF Body, Gone, Released, Unregistered, Over, Steps, Undrained
<1> DEFINE b == IF disposal[f] = "skip" THEN "faulty" ELSE "complete"
<1>1. /\ Typed /\ FiberOK(f) /\ RegisteredOK(f) /\ disposal[f] \in {"publish", "skip"}
      /\ disposal' = [disposal EXCEPT ![f] = b]
      /\ state' = [state EXCEPT ![f] = "Disposed"]
      /\ UNCHANGED <<world, gateVars, home, owned, lifecycle, patient, serviceVars, indexVars,
                     scope, boot, txVars, call>>
  BY Instances DEF FinalizePublishes
<1>2. /\ f \in Txs => pc[f] \notin Held /\ pc[f] \notin Activating
  BY <1>1, DisposalFacts
<1>3. /\ b \in {"faulty", "complete"} /\ (b = "faulty" <=> disposal[f] = "skip")
      /\ disposal' \in [Gens -> Steps] /\ disposal'[f] = b
  BY <1>1 DEF Typed
<1> HIDE DEF b
<1>4. /\ state' \in [Gens -> States] /\ state'[f] = "Disposed" /\ \A h \in Gens \ {f} : state'[h] = state[h]
  BY <1>1 DEF Typed, States
<1>5. Typed'
  BY <1>1, <1>3, <1>4 DEF Typed
<1>6. DisposalMove(f, b)
  BY <1>1, <1>3, <1>4 DEF DisposalMove
<1>7. FiberOK(f)'
  BY <1>1, <1>2, <1>3, <1>4 DEF FiberOK
<1>8. RegisteredOK(f)'
  BY <1>1, <1>3 DEF RegisteredOK
<1>9. ASSUME f \in Txs PROVE StagedOK(f)'
  <2>1. StagedOK(f) /\ (Visible(f)' <=> Visible(f)) /\ FiberOK(f)
    BY <1>1, <1>9, Instances, Unchanged
  <2>2. state[f] # "none"
    BY <1>1, DisposalFacts
  <2> QED BY <1>1, <1>2, <1>3, <1>4, <1>9, <2>1, <2>2 DEF StagedOK
<1> QED BY <1>5, <1>6, <1>7, <1>8, <1>9, DisposalMoves

LEMMA DisposalSteps ==
  ASSUME ReloadInv, NEW f \in Gens, DisposeStep(f) \/ DrainTimesOut(f)
  PROVE  ReloadInv'
BY DisposalPaceSteps, DisposeRegistrationsStep, RemoveServiceStep, FinalizeDetachesStep,
   FinalizePublishesStep
   DEF DisposeStep

-----------------------------------------------------------------------------
(***************************************************************************)
(* The beginning of a disposal, by whoever asks for it first.              *)
(***************************************************************************)
\* What transactions do while the disposal of f begins.
BeginPace(f) ==
  /\ pc' \in [Txs -> PCs]
  /\ \A h \in Txs :
       \/ pc'[h] = pc[h]
       \/ h = f /\ pc[h] \in Activating \cup {"dropStaged"} /\ pc'[h] \in {"failedStart", "stagedWait"}
       \/ old[h] = f /\ pc[h] = "cleanup" /\ pc'[h] = "cleanupWait"

LEMMA BeginEffect ==
  ASSUME ReloadInv, NEW f \in Gens, NEW persistent, BeginDisposal(f, persistent), boot = "ready", boot' = boot, state[f] # "none"
  PROVE  /\ f \notin owned' /\ \A h \in Gens \ {f} : h \in owned' <=> h \in owned
         /\ disposal' \in [Gens -> Steps] /\ \A h \in Gens \ {f} : disposal'[h] = disposal[h]
         /\ disposal'[f] = IF disposal[f] = "idle" THEN "begun" ELSE disposal[f]
         /\ state' \in [Gens -> States] /\ \A h \in Gens \ {f} : state'[h] = state[h]
         /\ state'[f] = IF disposal[f] = "idle" THEN "Disposing" ELSE state[f]
         /\ retired \subseteq retired' /\ retired' \subseteq retired \cup {f} /\ f \in draining'
         /\ draining \subseteq draining' /\ draining' \subseteq retired'
         /\ owned' \subseteq Txs /\ patient' \subseteq Gens
         /\ log' = log \/ (active = f /\ Extends(0))
         /\ log' \in Seq(0..MaxGen) /\ Len(log') >= 1 /\ LogInv'
         /\ active' \in {active, 0} /\ active' # f /\ (active # f => active' = active)
         /\ \A h \in Gens : Named(h)' <=> Named(h)
<1>1. Typed /\ LogInv /\ GateInv /\ f # 0 /\ owned \subseteq Txs /\ (f \in Txs => f # 1) /\ (f = 1 \/ f \in Txs)
      /\ 1 \notin Txs /\ 0 \in 0..MaxGen /\ \A h \in Gens : h # 0
  <2>1. 1 \notin Txs /\ 0 \in 0..MaxGen /\ \A h \in Gens : h # 0
    BY ReloadAssumption DEF Gens, Txs
  <2>2. owned \subseteq Txs
    BY Instances DEF Typed
  <2> QED BY <2>1, <2>2, Instances
<1>2. /\ owned' = owned \ {f} /\ patient' \subseteq Gens
  BY <1>1 DEF BeginDisposal, Typed
<1>3. CASE disposal[f] = "idle"
  <2>1. /\ state' = [state EXCEPT ![f] = "Disposing"] /\ disposal' = [disposal EXCEPT ![f] = "begun"]
        /\ retired' = retired \cup {f} /\ draining' = draining \cup {f}
        /\ log' = IF Visible(f) THEN Append(log, 0) ELSE log
    BY <1>3 DEF BeginDisposal, Close
  <2>2. /\ disposal' \in [Gens -> Steps] /\ disposal'[f] = "begun" /\ \A h \in Gens \ {f} : disposal'[h] = disposal[h]
    BY <1>1, <2>1 DEF Typed, Steps
  <2>3. /\ state' \in [Gens -> States] /\ state'[f] = "Disposing" /\ \A h \in Gens \ {f} : state'[h] = state[h]
    BY <1>1, <2>1 DEF Typed, States
  <2>4. CASE Visible(f)
    <3>1. Extends(0) /\ active = f
      BY <2>1, <2>4 DEF Extends, Visible
    <3>2. /\ log' \in Seq(0..MaxGen) /\ Len(log') = Len(log) + 1 /\ active' = 0
          /\ \A h : Named(h)' <=> Named(h) \/ h = 0
      BY <1>1, <3>1, Extended
    <3>3. LogInv'
      BY <1>1, <3>1, LogAppend
    <3>4. Len(log') >= 1
      BY <1>1, <3>2, ActiveType
    <3> QED
      BY <1>1, <1>2, <1>3, <2>1, <2>2, <2>3, <3>1, <3>2, <3>3, <3>4 DEF Typed
  <2>5. CASE ~Visible(f)
    <3>1. log' = log
      BY <2>1, <2>5
    <3>2. active' = active /\ \A h : Named(h)' <=> Named(h)
      BY <3>1, Unchanged
    <3>3. LogInv'
      BY <1>1, <3>1 DEF LogInv
    <3> QED BY <1>1, <1>2, <1>3, <2>1, <2>2, <2>3, <2>5, <3>1, <3>2, <3>3 DEF Typed, Visible
  <2> QED BY <2>4, <2>5
<1>4. CASE disposal[f] # "idle"
  <2>1. UNCHANGED <<state, disposal, gateVars>>
    BY <1>4 DEF BeginDisposal
  <2>2. active' = active /\ \A h : Named(h)' <=> Named(h)
    BY <2>1, Unchanged
  <2>3. f \in draining /\ f \in retired /\ active # f
    BY <1>1, <1>4 DEF GateInv, Typed, Visible
  <2>4. LogInv'
    BY <1>1, <2>1 DEF LogInv
  <2> QED BY <1>1, <1>2, <1>4, <2>1, <2>2, <2>3, <2>4 DEF Typed
<1> QED BY <1>3, <1>4

\* The gate of the Fiber is closed, and the rest does not depend on it.
LEMMA DisposalBegins ==
  ASSUME ReloadInv, NEW f \in Gens, NEW persistent, BeginDisposal(f, persistent), boot = "ready",
         state[f] # "none", BeginPace(f),
         UNCHANGED <<open, home, serviceVars, indexVars, scope, boot, old, outcome, call>>,
         scope[Target].state = "Active" /\ f \in Txs => pc'[f] \notin {"activate"} \cup Activating,
         lifecycle' \in [Gens -> {"free", "activation", "reload", "disposal"}],
         \A h \in Gens \ {f} : lifecycle'[h] = lifecycle[h], LockInv'
  PROVE  ReloadInv'
<1> DEFINE idle == disposal[f] = "idle"
<1>1. /\ f \notin owned' /\ \A h \in Gens \ {f} : h \in owned' <=> h \in owned
      /\ disposal' \in [Gens -> Steps] /\ \A h \in Gens \ {f} : disposal'[h] = disposal[h]
      /\ disposal'[f] = IF idle THEN "begun" ELSE disposal[f]
      /\ state' \in [Gens -> States] /\ \A h \in Gens \ {f} : state'[h] = state[h]
      /\ state'[f] = IF idle THEN "Disposing" ELSE state[f]
      /\ retired \subseteq retired' /\ retired' \subseteq retired \cup {f} /\ f \in draining'
      /\ draining \subseteq draining' /\ draining' \subseteq retired'
      /\ owned' \subseteq Txs /\ patient' \subseteq Gens
      /\ log' = log \/ (active = f /\ Extends(0))
      /\ log' \in Seq(0..MaxGen) /\ Len(log') >= 1 /\ LogInv'
      /\ active' \in {active, 0} /\ active' # f /\ (active # f => active' = active)
      /\ \A h \in Gens : Named(h)' <=> Named(h)
  BY BeginEffect
<1>2. /\ Typed /\ GateInv /\ LockInv /\ VisibleInv /\ CacheInv /\ CallInv
      /\ FiberOK(f) /\ RegisteredOK(f) /\ f \in Scopes /\ f # Target /\ retired \subseteq Gens
  BY Instances DEF Typed
<1>3. \A h \in Gens : /\ disposal'[h] = "idle" <=> disposal[h] = "idle" /\ h # f
                      /\ disposal'[h] # disposal[h] => disposal[h] = "idle" /\ disposal'[h] = "begun"
                      /\ state'[h] = "none" <=> state[h] = "none"
  BY <1>1
<1>4. /\ \A h \in Gens : Visible(h)' => Visible(h) /\ h # f
      /\ \A h \in Gens \ {f} : Visible(h) => Visible(h)'
  <2>1. \A h \in Gens : h # 0
    BY Instances DEF Target
  <2> QED BY <1>1, <2>1 DEF Visible
<1>5. Typed'
  BY <1>1, <1>2 DEF Typed, BeginPace
<1>6. GateInv'
  <2>1. ASSUME NEW h \in Gens PROVE (h \in retired' => ~Visible(h)') /\ (disposal'[h] # "idle" => h \in draining')
    BY <1>1, <1>2, <1>3, <1>4 DEF GateInv
  <2> QED BY <2>1 DEF GateInv
<1>7. BootInv'
  BY DEF BootInv
<1>8. f \in Txs => pc[f] \notin Held
  BY DEF BeginDisposal, RecordFree, Committing, Held
<1>9. ASSUME NEW h \in Txs PROVE TxOK(h)'
  <2>1. TxOK(h) /\ h \in Gens /\ h # Target
    BY Instances
  <2>2. /\ UNCHANGED <<old, outcome, home>>
    OBVIOUS
  <2>3. \A k \in Txs : pc[k] # "idle" <=> pc'[k] # "idle"
    BY DEF BeginPace, Activating
  <2>4. pc[h] # "idle" => old[h] \in Gens
    BY OldFiber
  <2>5. pc[h] # "idle" => old[h] \notin owned' /\ state'[old[h]] # "none"
    BY <1>1, <1>3, <2>1, <2>4 DEF TxOK
  <2>6. /\ pc'[h] \in Fresh <=> pc[h] \in Fresh
        /\ pc'[h] \in Cleaning \cup {"ended"} <=> pc[h] \in Cleaning \cup {"ended"}
        /\ pc'[h] \in Held <=> pc[h] \in Held
        /\ pc'[h] \in Switched <=> pc[h] \in Switched
        /\ pc'[h] = "cleanup" => pc[h] = "cleanup"
        /\ pc'[h] \in {"restore", "ended"} <=> pc[h] \in {"restore", "ended"}
        /\ pc'[h] = "ended" <=> pc[h] = "ended"
        /\ state[h] = "none" => pc'[h] = pc[h]
    BY <1>2, <2>1 DEF BeginPace, Activating, Fresh, Cleaning, Held, Switched, TxOK
  <2>7. pc[h] \in Held => h # f
    BY <1>8
  <2>8. pc[h] \in Switched => Visible(h)' /\ disposal'[old[h]] \in {"idle", "begun"}
    <3>1. pc[h] \in Switched => pc[h] \in Held /\ pc[h] # "idle"
      BY DEF Switched, Held
    <3> QED BY <1>3, <1>4, <2>1, <2>4, <2>7, <3>1 DEF TxOK
  <2>9. pc[h] \in Held => state'[h] = state[h] /\ disposal'[h] = disposal[h]
    BY <1>1, <2>1, <2>7
  <2>10. h \in owned' <=> state'[h] # "none" /\ disposal'[h] = "idle" /\ home[h] = h
    BY <1>1, <1>3, <2>1 DEF TxOK
  <2>11. disposal[h] \in Over => disposal'[h] \in Over
    BY <1>3, <2>1 DEF Over, Gone
  <2> QED BY <1>3, <2>1, <2>2, <2>3, <2>5, <2>6, <2>8, <2>9, <2>10, <2>11 DEF TxOK
<1>10. TxInv'
  BY <1>9, Instances DEF TxInv
<1>11. ASSUME NEW h \in Gens PROVE FiberOK(h)'
  <2>1. FiberOK(h) /\ h \in Scopes
    BY Instances
  <2>2. h \in Txs /\ pc'[h] \in Activating => pc[h] \in Activating
    BY DEF BeginPace, Activating
  <2>3. state'[h] = "Reloading" => \E k \in Txs : old[k] = h /\ pc'[k] \in Locked \cup {"cleanup"}
    <3> SUFFICES ASSUME state'[h] = "Reloading" PROVE \E k \in Txs : old[k] = h /\ pc'[k] \in Locked \cup {"cleanup"}
      OBVIOUS
    <3>1. state[h] = "Reloading" /\ (h = f => ~idle)
      BY <1>1
    <3>2. PICK k \in Txs : old[k] = h /\ pc[k] \in Locked \cup {"cleanup"}
      BY <2>1, <3>1 DEF FiberOK
    <3>3. CASE pc'[k] = pc[k]
      BY <3>2, <3>3
    <3>4. CASE pc'[k] \in {"failedStart", "stagedWait"}
      BY <3>2, <3>4 DEF Locked, Failing
    <3>5. CASE old[k] = f /\ pc[k] = "cleanup"
      <4>1. h = f /\ home[f] = Target
        BY <3>2, <3>5, Instances DEF TxOK
      <4> QED BY <1>2, <3>1, <4>1 DEF FiberOK
    <3> QED BY <3>3, <3>4, <3>5 DEF BeginPace
  <2>4. UNCHANGED <<home, scope, old, entry, indexVars>>
    OBVIOUS
  <2>5. CASE h = f
    BY <1>1, <1>3, <2>1, <2>2, <2>3, <2>4, <2>5 DEF FiberOK
  <2>6. CASE h # f
    <3>1. /\ state'[h] = state[h] /\ disposal'[h] = disposal[h] /\ lifecycle'[h] = lifecycle[h]
          /\ (h \in retired' <=> h \in retired)
      BY <1>1, <2>6
    <3> QED BY <2>1, <2>2, <2>3, <2>4, <3>1 DEF FiberOK
  <2> QED BY <2>5, <2>6
<1>12. FiberInv'
  BY <1>11 DEF FiberInv
<1>13. ASSUME NEW h \in Txs PROVE StagedOK(h)'
  <2>1. StagedOK(h) /\ h \in Gens
    BY Instances
  <2>2. /\ pc'[h] \in Held <=> pc[h] \in Held
        /\ pc'[h] \in Held => pc'[h] = pc[h]
        /\ pc'[h] \in {"registered", "sealed"} \cup Prepared => pc[h] \in {"registered", "sealed"} \cup Prepared
        /\ pc'[h] \in {"activate", "starting"} => pc'[h] = pc[h]
    BY DEF BeginPace, Activating, Held, Prepared
  <2>3. /\ disposal'[h] \in {"idle", "begun"} => disposal[h] \in {"idle", "begun"}
        /\ disposal'[h] \in Gone <=> disposal[h] \in Gone
        /\ disposal'[h] \in Released => disposal[h] \in Released
        /\ disposal'[h] = "idle" => disposal[h] = "idle" /\ state'[h] = state[h] /\ h # f
    BY <1>1, <1>3, <2>1 DEF Gone, Released
  <2>4. /\ UNCHANGED <<home, entry, indexVars>> /\ (state'[h] = "none" <=> state[h] = "none")
        /\ (h # f /\ Visible(h) => Visible(h)')
    BY <1>3, <1>4, <2>1
  <2> QED BY <2>1, <2>2, <2>3, <2>4 DEF StagedOK, Place
<1>14. ASSUME NEW h \in Gens PROVE RegisteredOK(h)'
  <2>1. RegisteredOK(h)
    BY Instances
  <2>2. /\ disposal'[h] = "idle" => disposal[h] = "idle"
        /\ disposal'[h] \in Unregistered => disposal[h] \in Unregistered
        /\ disposal'[h] \in Gone => disposal[h] \in Gone
        /\ disposal'[h] = "remove" => disposal[h] = "remove"
    BY <1>3 DEF Unregistered, Released, Gone
  <2>3. UNCHANGED <<home, entry, indexVars>>
    OBVIOUS
  <2> QED BY <2>1, <2>2, <2>3 DEF RegisteredOK
<1>15. RegistryInv'
  BY <1>13, <1>14 DEF RegistryInv
<1>16. ServicesFree' <=> ServicesFree
  BY DEF ServicesFree, BeginPace, Activating
<1>17. VisibleInv'
  <2>1. UNCHANGED <<home, entry, boot, old>>
    OBVIOUS
  <2>2. ServicesFree' /\ active' # 0 => entry[Target] = active'
    BY <1>1, <1>2, <1>16 DEF VisibleInv
  <2>3. \A g \in Txs : pc'[g] \in {"retire", "services"} => pc[g] \in {"retire", "services"}
    BY DEF BeginPace
  <2>4. ASSUME NEW h \in Gens, Named(h) PROVE home[h] = Target \/ pc'[h] \in Switched
    <3>1. home[h] = Target \/ pc[h] \in Switched
      BY <1>2, <2>4 DEF VisibleInv
    <3>2. home[h] # Target => h \in Txs
      BY Instances
    <3> QED BY <3>1, <3>2 DEF BeginPace, Switched, Activating
  <2>5. ASSUME NEW h \in Gens, home[h] = Target, disposal'[h] = "idle"
        PROVE  Visible(h)' \/ \E k \in Txs : old[k] = h /\ Replaces(k)'
    <3>1. disposal[h] = "idle" /\ h # f
      BY <1>3, <2>5
    <3>2. Visible(h) \/ \E k \in Txs : old[k] = h /\ Replaces(k)
      BY <1>2, <2>5, <3>1 DEF VisibleInv
    <3>3. \A k \in Txs : old[k] = h /\ Replaces(k) => Replaces(k)'
      BY <3>1 DEF Replaces, BeginPace, Activating
    <3> QED BY <1>4, <3>1, <3>2, <3>3
  <2> QED BY <1>1, <1>2, <2>1, <2>2, <2>3, <2>4, <2>5 DEF VisibleInv
<1>18. ScopeInv'
  <2>1. UNCHANGED <<scope, home>>
    OBVIOUS
  <2>2. ASSUME NEW s \in Scopes PROVE ScopeOK(s)'
    <3>1. ScopeOK(s) /\ scope[s].fibers \subseteq Gens
      BY Instances DEF Typed, ScopeRec
    <3> QED BY <1>3, <2>1, <3>1 DEF ScopeOK
  <2>3. ASSUME NEW g \in Txs PROVE StagingOK(g)'
    <3>1. StagingOK(g) /\ g \in Gens
      BY Instances
    <3>2. /\ pc'[g] \in {"idle", "wait", "stage"} => pc'[g] = pc[g]
          /\ pc'[g] \in Early => pc[g] \in Early
          /\ pc'[g] \in {"activate"} \cup Activating => pc[g] \in {"activate"} \cup Activating
      BY DEF BeginPace, Early, PCs, Locked, Failing, Prepared, Activating, Cleaning
    <3>3. disposal[g] \in Over => disposal'[g] \in Over
      BY <1>3, <3>1 DEF Over, Gone
    <3> QED BY <1>3, <2>1, <3>1, <3>2, <3>3 DEF StagingOK
  <2> QED BY <2>1, <2>2, <2>3, Instances DEF ScopeInv
<1>19. CacheInv'
  BY <1>1, <1>2, <1>16, CacheKept
<1>20. CallInv'
  <2>1. LogGrows
    BY <1>1, ReloadAssumption DEF LogGrows
  <2>2. \A h \in Gens : disposal[h] \in Undrained => disposal'[h] \in Undrained
    BY <1>3 DEF Undrained
  <2> QED BY <1>1, <1>2, <2>1, <2>2, CallKept
<1> QED BY <1>1, <1>5, <1>6, <1>7, <1>10, <1>12, <1>15, <1>17, <1>18, <1>19, <1>20 DEF ReloadInv

\* A set of generations that is not empty has a greatest one: a Scope's disposal takes the
\* members in reverse order.
LEMMA Greatest ==
  ASSUME NEW S, S \subseteq Gens, S # {}
  PROVE  Max(S) \in S
<1> DEFINE T == {MaxGen - x : x \in S}
<1>1. MaxGen \in Nat /\ T \subseteq Nat /\ T # {}
  <2>1. MaxGen \in Nat
    BY ReloadAssumption
  <2>2. ASSUME NEW x \in S PROVE MaxGen - x \in Nat
    <3>1. x \in 1..MaxGen
      BY DEF Gens
    <3> QED BY <2>1, <3>1
  <2>3. PICK x \in S : TRUE
    OBVIOUS
  <2> QED BY <2>1, <2>2, <2>3
<1> HIDE DEF T
<1>2. \E n \in T : \A m \in T : ~ (<<m, n>> \in OpToRel(<, Nat))
  BY <1>1, NatLessThanWellFounded, WFMin
<1>3. OpToRel(<, Nat) = {ss \in Nat \X Nat : ss[1] < ss[2]}
  BY Zenon DEF OpToRel
<1>4. PICK n \in T : \A m \in T : ~ (<<m, n>> \in {ss \in Nat \X Nat : ss[1] < ss[2]})
  BY <1>2, <1>3, Zenon
<1>5. ASSUME NEW m \in T PROVE ~(m < n)
  <2>1. <<m, n>> \in Nat \X Nat
    BY <1>1
  <2>2. m < n => <<m, n>> \in {ss \in Nat \X Nat : ss[1] < ss[2]}
    BY <2>1
  <2> QED BY <1>4, <2>2, Zenon
<1>6. PICK x \in S : n = MaxGen - x
  BY DEF T
<1>7. ASSUME NEW y \in S PROVE x >= y
  <2>1. MaxGen - y \in T
    BY DEF T
  <2>2. ~(MaxGen - y < MaxGen - x) /\ x \in Nat /\ y \in Nat
    <3>1. x \in 1..MaxGen /\ y \in 1..MaxGen
      BY <1>6 DEF Gens
    <3>2. ~(MaxGen - y < n)
      BY <1>5, <2>1
    <3> QED BY <1>6, <3>1, <3>2
  <2> QED BY <1>1, <2>2
<1> QED BY <1>7 DEF Max

\* The lifecycle mutexes are left as they are.
LEMMA BeginLocks ==
  ASSUME ReloadInv, NEW f \in Gens, BeginPace(f), UNCHANGED <<lifecycle, old, boot>>,
         \A h \in Gens : disposal'[h] # disposal[h] => disposal[h] = "idle" /\ disposal'[h] = "begun",
         \A h \in Txs : pc'[h] \in Activating <=> pc[h] \in Activating
  PROVE  LockInv'
<1>1. \A h \in Gens : disposal'[h] \in Body <=> disposal[h] \in Body
  BY DEF Body
<1>2. \A g \in Txs : pc'[g] \in Locked <=> pc[g] \in Locked
  BY DEF BeginPace, Locked, Failing, Prepared, Activating, Held
<1>3. \A g \in Txs : Committing(g)' => Committing(g)
  BY DEF BeginPace, Committing
<1> QED BY <1>1, <1>2, <1>3, LocksKept, Instances

LEMMA DropStagedStep ==
  ASSUME ReloadInv, NEW g \in Txs, DropStaged(g)
  PROVE  ReloadInv'
<1>1. /\ Typed /\ TxOK(g) /\ g \in Gens /\ pc[g] = "dropStaged" /\ BeginDisposal(g, FALSE) /\ boot = "ready"
      /\ pc' = [pc EXCEPT ![g] = "stagedWait"]
      /\ UNCHANGED <<world, home, lifecycle, serviceVars, indexVars, scope, boot, old, outcome, call>>
  BY Instances, Ready DEF DropStaged, Goto
<1>2. /\ pc' \in [Txs -> PCs] /\ pc'[g] = "stagedWait" /\ \A h \in Txs \ {g} : pc'[h] = pc[h]
  BY <1>1 DEF Typed, PCs, Locked, Failing
<1>3. BeginPace(g)
  BY <1>1, <1>2 DEF BeginPace
<1>4. state[g] # "none"
  BY <1>1 DEF TxOK, Fresh
<1>5. \A h \in Gens : disposal'[h] # disposal[h] => disposal[h] = "idle" /\ disposal'[h] = "begun"
  BY <1>1, <1>4, BeginEffect
<1>6. LockInv'
  BY <1>1, <1>2, <1>3, <1>5, BeginLocks DEF Activating
<1>7. lifecycle' \in [Gens -> {"free", "activation", "reload", "disposal"}]
  BY <1>1 DEF Typed
<1> QED BY <1>1, <1>2, <1>3, <1>4, <1>6, <1>7, DisposalBegins DEF Activating

\* converge_failed_activation gives the lifecycle mutex back and disposes the Fiber.
LEMMA FailStagedStep ==
  ASSUME ReloadInv, NEW g \in Txs, StartFails(g) \/ StartRefused(g)
  PROVE  ReloadInv'
<1>1. /\ Typed /\ LockInv /\ TxOK(g) /\ g \in Gens /\ g # 1 /\ pc[g] \in Activating /\ BeginDisposal(g, FALSE) /\ boot = "ready"
      /\ pc' = [pc EXCEPT ![g] = "failedStart"] /\ lifecycle' = [lifecycle EXCEPT ![g] = "free"]
      /\ UNCHANGED <<world, home, serviceVars, indexVars, scope, boot, old, outcome, call>>
  BY Instances, Ready DEF StartFails, StartRefused, FailStaged, Goto, Activating
<1>2. /\ pc' \in [Txs -> PCs] /\ pc'[g] = "failedStart" /\ \A h \in Txs \ {g} : pc'[h] = pc[h]
  BY <1>1 DEF Typed, PCs, Locked, Failing
<1>3. BeginPace(g)
  BY <1>1, <1>2 DEF BeginPace
<1>4. state[g] # "none"
  BY <1>1 DEF TxOK, Fresh, Activating
<1>5. \A h \in Gens : disposal'[h] # disposal[h] => disposal[h] = "idle" /\ disposal'[h] = "begun"
  BY <1>1, <1>4, BeginEffect
<1>6. /\ lifecycle' \in [Gens -> {"free", "activation", "reload", "disposal"}]
      /\ lifecycle'[g] = "free" /\ \A f \in Gens \ {g} : lifecycle'[f] = lifecycle[f]
      /\ lifecycle[g] = "activation"
  BY <1>1 DEF Typed, LockInv
<1>7. LockInv'
  <2>1. \A f \in Gens : disposal'[f] \in Body <=> disposal[f] \in Body
    BY <1>5 DEF Body
  <2>2. pc[g] \in Locked /\ pc'[g] \in Locked /\ ~Committing(g)' /\ pc'[g] \notin Activating
    BY <1>1, <1>2 DEF Locked, Failing, Activating, Committing
  <2> QED BY <1>1, <1>2, <1>6, <2>1, <2>2, OwnLock
<1> QED BY <1>1, <1>2, <1>3, <1>4, <1>6, <1>7, DisposalBegins DEF Activating

\* The old generation is disposed with a drain that waits as long as it takes.
LEMMA CleanupOldStep ==
  ASSUME ReloadInv, NEW g \in Txs, CleanupOld(g)
  PROVE  ReloadInv'
<1> DEFINE f == old[g]
<1>1. /\ Typed /\ TxOK(g) /\ pc[g] = "cleanup" /\ BeginDisposal(f, TRUE) /\ boot = "ready"
      /\ pc' = [pc EXCEPT ![g] = "cleanupWait"]
      /\ UNCHANGED <<world, home, lifecycle, serviceVars, indexVars, scope, boot, old, outcome, call>>
  BY Instances, Ready DEF CleanupOld, Goto
<1>2. /\ pc' \in [Txs -> PCs] /\ pc'[g] = "cleanupWait" /\ \A h \in Txs \ {g} : pc'[h] = pc[h]
  BY <1>1 DEF Typed, PCs, Cleaning
<1>3. f \in Gens /\ f # g /\ state[f] # "none" /\ home[f] = Target
  BY <1>1, OldFiber DEF TxOK
<1>4. BeginPace(f)
  BY <1>1, <1>2 DEF BeginPace
<1>5. f \in Txs => pc[f] \notin {"activate"} \cup Activating
  BY <1>3, Instances DEF TxOK, Cleaning, Activating
<1>6. \A h \in Gens : disposal'[h] # disposal[h] => disposal[h] = "idle" /\ disposal'[h] = "begun"
  BY <1>1, <1>3, BeginEffect
<1>7. LockInv'
  BY <1>1, <1>2, <1>3, <1>4, <1>6, BeginLocks DEF Activating
<1>8. lifecycle' \in [Gens -> {"free", "activation", "reload", "disposal"}]
  BY <1>1 DEF Typed
<1> HIDE DEF f
<1> QED BY <1>1, <1>2, <1>3, <1>4, <1>5, <1>7, <1>8, DisposalBegins

\* A disposal that no transaction asks for.
LEMMA OtherBegins ==
  ASSUME ReloadInv, NEW f \in Gens, BeginDisposal(f, FALSE), boot = "ready", state[f] # "none",
         UNCHANGED <<open, home, lifecycle, serviceVars, indexVars, scope, boot, pc, old, outcome, call>>,
         scope[Target].state = "Active" /\ f \in Txs => pc[f] \notin {"activate"} \cup Activating
  PROVE  ReloadInv'
<1>1. BeginPace(f)
  BY Instances DEF BeginPace, Typed
<1>2. \A h \in Gens : disposal'[h] # disposal[h] => disposal[h] = "idle" /\ disposal'[h] = "begun"
  BY BeginEffect
<1>3. LockInv'
  BY <1>1, <1>2, BeginLocks
<1>4. lifecycle' \in [Gens -> {"free", "activation", "reload", "disposal"}]
  BY Instances DEF Typed
<1> QED BY <1>1, <1>3, <1>4, DisposalBegins

LEMMA OutsideDisposeStep ==
  ASSUME ReloadInv, NEW f \in Gens, OutsideDispose(f)
  PROVE  ReloadInv'
<1>1. /\ state[f] \in {"Active", "Reloading"} /\ f \notin owned /\ disposal[f] = "idle" /\ boot = "ready"
      /\ BeginDisposal(f, FALSE)
      /\ UNCHANGED <<open, home, lifecycle, serviceVars, indexVars, scope, boot, txVars, call>>
  BY DEF OutsideDispose, Meddles
<1>2. f \in Txs => pc[f] \notin {"activate"} \cup Activating
  BY <1>1, Instances DEF TxOK, Cleaning, Activating
<1> QED BY <1>1, <1>2, OtherBegins

-----------------------------------------------------------------------------
(***************************************************************************)
(* Steps of the disposal of a Scope.                                       *)
(***************************************************************************)
\* What transactions do while a Scope changes.
ScopePace ==
  /\ pc' \in [Txs -> PCs]
  /\ \A h \in Txs : \/ pc'[h] = pc[h]
                    \/ pc[h] = "stage" /\ pc'[h] = "install"
                    \/ pc[h] = "dropStaging" /\ pc'[h] = "stagingWait"
                    \/ pc[h] = "cleanupWait" /\ pc'[h] = "cleanupEnd"

LEMMA ScopeMoves ==
  ASSUME ReloadInv, boot = "ready", ScopePace,
         UNCHANGED <<open, gateVars, fiberVars, disposalVars, serviceVars, indexVars, boot, old, outcome, call>>,
         scope' \in [Scopes -> ScopeRec], scope'[Target].state # "none", scope'[1].state = "none",
         scope[Target].state # "Active" => scope'[Target].state # "Active",
         \A s \in Scopes : ScopeOK(s)', \A g \in Txs : StagingOK(g)'
  PROVE  ReloadInv'
<1>1. /\ Typed /\ LogInv /\ GateInv /\ LockInv /\ VisibleInv /\ CacheInv /\ CallInv
  BY Instances
<1>2. active' = active /\ \A h : (Visible(h)' <=> Visible(h)) /\ (Named(h)' <=> Named(h))
  BY Unchanged
<1>3. Typed'
  BY <1>1 DEF Typed, ScopePace
<1>4. LogInv' /\ GateInv' /\ BootInv'
  BY <1>1, <1>2 DEF LogInv, GateInv, BootInv
<1>5. \A h \in Txs : /\ pc'[h] \in Fresh <=> pc[h] \in Fresh
                     /\ pc'[h] \in Cleaning <=> pc[h] \in Cleaning
                     /\ pc'[h] \in Locked <=> pc[h] \in Locked
                     /\ pc'[h] \in Activating <=> pc[h] \in Activating
                     /\ pc'[h] \in Held \cup Prepared \cup {"activate", "idle", "restore", "ended", "cleanup"} => pc'[h] = pc[h]
                     /\ pc[h] \in Held \cup Prepared \cup {"activate", "idle", "restore", "ended", "cleanup"} => pc'[h] = pc[h]
                     /\ pc'[h] \in {"dropStaging", "stagingWait", "restore", "ended"} <=> pc[h] \in {"dropStaging", "stagingWait", "restore", "ended"}
  BY DEF ScopePace, Fresh, Cleaning, Locked, Activating, Held, Prepared, Failing
<1>6. ASSUME NEW h \in Txs PROVE TxOK(h)'
  <2>1. TxOK(h)
    BY Instances
  <2>2. Switched \subseteq Held
    BY DEF Switched, Held
  <2> QED BY <1>2, <1>5, <2>1, <2>2 DEF TxOK
<1>7. TxInv'
  BY <1>6, Instances DEF TxInv
<1>8. LockInv'
  <2>1. \A h \in Txs : Committing(h)' => Committing(h)
    BY DEF ScopePace, Committing
  <2> QED BY <1>1, <1>5, <2>1, LocksKept
<1>9. ASSUME NEW f \in Gens PROVE FiberOK(f)'
  <2>1. FiberOK(f)
    BY Instances
  <2> QED BY <1>5, <2>1 DEF FiberOK
<1>10. ASSUME NEW h \in Txs PROVE StagedOK(h)'
  <2>1. StagedOK(h)
    BY Instances
  <2>2. /\ pc'[h] \in Held <=> pc[h] \in Held
        /\ pc'[h] \in Held \cup Prepared \cup {"registered", "sealed", "activate", "starting"} => pc'[h] = pc[h]
    BY <1>5 DEF ScopePace
  <2> QED BY <1>2, <2>1, <2>2 DEF StagedOK, Place
<1>11. FiberInv' /\ RegistryInv'
  <2>1. \A f \in Gens : RegisteredOK(f)'
    BY Instances DEF RegisteredOK
  <2> QED BY <1>9, <1>10, <2>1 DEF FiberInv, RegistryInv
<1>12. ServicesFree' <=> ServicesFree
  BY DEF ServicesFree, ScopePace
<1>13. VisibleInv'
  <2>1. \A h \in Txs : pc[h] \in Switched => pc'[h] \in Switched
    BY DEF ScopePace, Switched
  <2>2. \A h \in Txs : Replaces(h) => Replaces(h)'
    BY DEF ScopePace, Replaces
  <2>3. \A h \in Txs : pc'[h] \in {"retire", "services"} => pc[h] \in {"retire", "services"}
    BY DEF ScopePace
  <2>4. ASSUME NEW f \in Gens, Named(f) PROVE home[f] = Target \/ pc'[f] \in Switched
    <3>1. home[f] = Target \/ pc[f] \in Switched
      BY <1>1, <2>4 DEF VisibleInv
    <3>2. home[f] # Target => f \in Txs
      BY Instances
    <3> QED BY <2>1, <3>1, <3>2
  <2> QED BY <1>1, <1>2, <1>12, <2>2, <2>3, <2>4 DEF VisibleInv
<1>14. ScopeInv'
  BY DEF ScopeInv
<1>15. CacheInv'
  BY <1>1, <1>2, <1>12, CacheKept
<1>16. CallInv'
  BY <1>1, CallKept DEF LogGrows
<1> QED BY <1>3, <1>4, <1>7, <1>8, <1>11, <1>13, <1>14, <1>15, <1>16 DEF ReloadInv

LEMMA BeginScopeEffect ==
  ASSUME ReloadInv, NEW s \in Scopes, BeginScopeDisposal(s), state' = state, s # 1
  PROVE  /\ scope' \in [Scopes -> ScopeRec]
         /\ \A t \in Scopes \ {s} : scope'[t] = scope[t]
         /\ scope'[s].kids = scope[s].kids /\ scope'[s].fibers = scope[s].fibers
         /\ IF scope[s].state = "Active" THEN scope'[s].state = "Disposing" /\ scope'[s].step = "begun"
            ELSE scope' = scope
         /\ \A t \in Scopes : ScopeOK(t)'
         /\ scope'[Target].state # "none" /\ scope'[1].state = "none"
         /\ scope[Target].state # "Active" => scope'[Target].state # "Active"
<1>1. scope \in [Scopes -> ScopeRec] /\ scope[Target].state # "none" /\ scope[1].state = "none"
      /\ Target \in Scopes /\ 1 \in Scopes /\ \A t \in Scopes : ScopeOK(t)
  BY Instances DEF Typed, ScopeInv
<1>2. CASE scope[s].state # "Active"
  <2>1. scope' = scope
    BY <1>2 DEF BeginScopeDisposal
  <2> QED BY <1>1, <1>2, <2>1 DEF ScopeOK
<1>3. CASE scope[s].state = "Active"
  <2> DEFINE r == [scope[s] EXCEPT !.state = "Disposing", !.step = "begun"]
  <2>1. scope' = [scope EXCEPT ![s] = r]
    BY <1>1, <1>3 DEF BeginScopeDisposal
  <2>2. r \in ScopeRec /\ r.state = "Disposing" /\ r.step = "begun" /\ r.kids = scope[s].kids /\ r.fibers = scope[s].fibers
    <3>1. scope[s] \in ScopeRec
      BY <1>1
    <3> QED BY <3>1 DEF ScopeRec
  <2> HIDE DEF r
  <2>3. scope' \in [Scopes -> ScopeRec] /\ scope'[s] = r /\ \A t \in Scopes \ {s} : scope'[t] = scope[t]
    BY <1>1, <2>1, <2>2
  <2>4. \A t \in Scopes : ScopeOK(t)'
    BY <1>1, <2>2, <2>3 DEF ScopeOK
  <2> QED BY <1>1, <1>3, <2>2, <2>3, <2>4
<1> QED BY <1>2, <1>3

\* Disposal of a Scope begins, asked for by the Scope above or from outside.
LEMMA OtherScopeBegins ==
  ASSUME ReloadInv, boot = "ready", NEW s \in Scopes, BeginScopeDisposal(s), s # 1,
         UNCHANGED <<open, gateVars, fiberVars, disposalVars, serviceVars, indexVars, boot, pc, old, outcome, call>>,
         s = Target \/ scope[Target].state # "Active", scope[s].state = "Active"
  PROVE  ReloadInv'
<1>1. /\ scope' \in [Scopes -> ScopeRec]
      /\ \A t \in Scopes \ {s} : scope'[t] = scope[t]
      /\ scope'[s].kids = scope[s].kids /\ scope'[s].fibers = scope[s].fibers
      /\ scope'[s].state = "Disposing" /\ scope'[s].step = "begun"
      /\ \A t \in Scopes : ScopeOK(t)'
      /\ scope'[Target].state # "none" /\ scope'[1].state = "none"
      /\ scope[Target].state # "Active" => scope'[Target].state # "Active"
  BY BeginScopeEffect
<1>2. scope'[Target].state # "Active"
  BY <1>1, Instances
<1>3. ASSUME NEW g \in Txs PROVE StagingOK(g)'
  <2>1. StagingOK(g) /\ g \in Scopes
    BY Instances
  <2>2. CASE g = s
    BY <1>1, <1>2, <2>1, <2>2 DEF StagingOK
  <2>3. CASE g # s
    BY <1>1, <1>2, <2>1, <2>3 DEF StagingOK
  <2> QED BY <2>2, <2>3
<1>4. ScopePace
  BY Instances DEF ScopePace, Typed
<1> QED BY <1>1, <1>3, <1>4, ScopeMoves

LEMMA OutsideScopeStep ==
  ASSUME ReloadInv, OutsideScope
  PROVE  ReloadInv'
<1>1. /\ boot = "ready" /\ BeginScopeDisposal(Target) /\ scope[Target].state = "Active"
      /\ UNCHANGED <<open, gateVars, fiberVars, disposalVars, serviceVars, indexVars, boot, txVars, call>>
  BY DEF OutsideScope, Meddles
<1>2. Target \in Scopes /\ Target # 1
  BY Instances DEF Target
<1> QED BY <1>1, <1>2, OtherScopeBegins

\* A transaction has its staging Scope disposed.
LEMMA StagingScopeBegins ==
  ASSUME ReloadInv, NEW g \in Txs, DropStaging(g) \/ CleanupScope(g)
  PROVE  ReloadInv'
<1>1. /\ Typed /\ BeginScopeDisposal(g)
      /\ \/ pc[g] = "dropStaging" /\ Goto(g, "stagingWait")
         \/ pc[g] = "cleanupWait" /\ Goto(g, "cleanupEnd")
      /\ UNCHANGED <<open, outside, gateVars, fiberVars, disposalVars, serviceVars, indexVars, boot, old, outcome, call>>
  BY Instances DEF DropStaging, CleanupScope
<1>2. boot = "ready" /\ g \in Scopes /\ g # 1 /\ g # Target /\ Target \in Scopes
  BY <1>1, Instances, Ready
<1>3. /\ scope' \in [Scopes -> ScopeRec]
      /\ \A t \in Scopes \ {g} : scope'[t] = scope[t]
      /\ scope'[g].kids = scope[g].kids /\ scope'[g].fibers = scope[g].fibers
      /\ IF scope[g].state = "Active" THEN scope'[g].state = "Disposing" /\ scope'[g].step = "begun"
         ELSE scope' = scope
      /\ \A t \in Scopes : ScopeOK(t)'
      /\ scope'[Target].state # "none" /\ scope'[1].state = "none"
      /\ scope[Target].state # "Active" => scope'[Target].state # "Active"
  BY <1>1, <1>2, BeginScopeEffect
<1>4. /\ pc' \in [Txs -> PCs] /\ pc'[g] \in {"stagingWait", "cleanupEnd"} /\ \A h \in Txs \ {g} : pc'[h] = pc[h]
  BY <1>1 DEF Typed, Goto, PCs, Locked, Failing, Cleaning
<1>5. ScopePace
  BY <1>1, <1>4 DEF ScopePace, Goto, Typed
<1>6. ASSUME NEW h \in Txs PROVE StagingOK(h)'
  <2>1. StagingOK(h) /\ h \in Scopes /\ scope'[Target] = scope[Target]
    BY <1>2, <1>3, Instances
  <2>2. CASE h # g
    BY <1>1, <1>3, <1>4, <2>1, <2>2 DEF StagingOK
  <2>3. CASE h = g
    <3>1. pc'[g] \notin Early /\ pc'[g] \notin {"idle", "wait", "stage"} /\ pc'[g] \notin {"activate"} \cup Activating
      BY <1>4 DEF Early, Activating
    <3> QED BY <1>1, <1>3, <2>1, <2>3, <3>1 DEF StagingOK
  <2> QED BY <2>2, <2>3
<1> QED BY <1>1, <1>2, <1>3, <1>5, <1>6, ScopeMoves

LEMMA CreateStagingStep ==
  ASSUME ReloadInv, NEW g \in Txs, CreateStaging(g)
  PROVE  ReloadInv'
<1>1. /\ Typed /\ pc[g] = "stage" /\ boot = "ready" /\ g \in Scopes /\ g # 1 /\ g # Target /\ Target \in Scopes
      /\ UNCHANGED <<open, outside, gateVars, fiberVars, disposalVars, serviceVars, indexVars, boot, old, outcome, call>>
      /\ StagingOK(g) /\ ScopeOK(g) /\ 1 \in Scopes
  BY Instances, Ready DEF CreateStaging
<1>2. CASE ~(open /\ scope[Target].state = "Active")
  <2>1. Hop(g, "stage", "restore")
    BY <1>2 DEF CreateStaging, Hop
  <2> QED BY <2>1, StagingFails
<1>3. CASE open /\ scope[Target].state = "Active"
  <2> DEFINE r == [scope[g] EXCEPT !.state = "Active"]
  <2>1. scope' = [scope EXCEPT ![g] = r] /\ pc' = [pc EXCEPT ![g] = "install"]
    BY <1>1, <1>3 DEF CreateStaging, Goto, Typed
  <2>2. r \in ScopeRec /\ r.state = "Active" /\ r.step = scope[g].step /\ r.kids = scope[g].kids /\ r.fibers = scope[g].fibers
    <3>1. scope[g] \in ScopeRec
      BY <1>1 DEF Typed
    <3> QED BY <3>1 DEF ScopeRec
  <2> HIDE DEF r
  <2>3. scope' \in [Scopes -> ScopeRec] /\ scope'[g] = r /\ \A t \in Scopes \ {g} : scope'[t] = scope[t]
    BY <1>1, <2>1, <2>2 DEF Typed
  <2>4. pc' \in [Txs -> PCs] /\ pc'[g] = "install" /\ \A h \in Txs \ {g} : pc'[h] = pc[h]
    BY <1>1, <2>1 DEF Typed, PCs, Locked
  <2>5. ScopePace
    BY <1>1, <2>4 DEF ScopePace
  <2>6. scope[g].step = "idle"
    BY <1>1 DEF StagingOK, ScopeOK
  <2>7. ASSUME NEW s \in Scopes PROVE ScopeOK(s)'
    <3>1. ScopeOK(s)
      BY Instances
    <3>2. CASE s = g
      BY <1>1, <2>2, <2>3, <2>6, <3>1, <3>2 DEF ScopeOK
    <3>3. CASE s # g
      BY <1>1, <2>3, <3>1, <3>3 DEF ScopeOK
    <3> QED BY <3>2, <3>3
  <2>8. ASSUME NEW h \in Txs PROVE StagingOK(h)'
    <3>1. StagingOK(h) /\ h \in Scopes /\ scope'[Target] = scope[Target]
      BY <1>1, <2>3, Instances
    <3>2. CASE h # g
      BY <1>1, <2>3, <2>4, <3>1, <3>2 DEF StagingOK
    <3>3. CASE h = g
      <4>1. "install" \notin {"activate"} \cup Activating
        BY DEF Activating
      <4> QED BY <1>1, <2>2, <2>3, <2>4, <2>6, <3>1, <3>3, <4>1 DEF StagingOK
    <3> QED BY <3>2, <3>3
  <2>9. scope'[Target].state # "none" /\ scope'[1].state = "none" /\ scope'[Target] = scope[Target]
    BY <1>1, <2>3, Instances DEF ScopeInv
  <2> QED BY <1>1, <2>3, <2>5, <2>7, <2>8, <2>9, ScopeMoves
<1> QED BY <1>2, <1>3

\* The disposal of Scope s goes on.
LEMMA ScopeGoesOn ==
  ASSUME ReloadInv, NEW s \in Scopes, scope[s].step # "idle", NEW r \in ScopeRec, scope' = [scope EXCEPT ![s] = r],
         UNCHANGED <<world, gateVars, fiberVars, disposalVars, serviceVars, indexVars, boot, txVars, call>>,
         r.step \in {"members", "done"}, r.step = "members" => r.state = scope[s].state /\ scope[s].step # "done",
         r.step = "done" => r.state \in {"Disposed", "Terminated"},
         r.kids # {} => s = Target, \A f \in r.fibers : state[f] # "none",
         s \in Txs => /\ r.fibers \subseteq {s}
                      /\ state[s] # "none" => \/ r.step = "members" /\ s \in r.fibers
                                              \/ disposal[s] \in Over \/ home[s] = Target
  PROVE  ReloadInv'
<1>1. /\ scope \in [Scopes -> ScopeRec] /\ boot = "ready" /\ ScopeOK(s) /\ pc \in [Txs -> PCs]
      /\ scope[Target].state # "none" /\ scope[1].state = "none" /\ Target \in Scopes /\ Target # 1 /\ 1 \in Scopes
      /\ \A t \in Scopes : ScopeOK(t)
  BY Instances, Ready DEF Typed, ScopeInv
<1>2. scope' \in [Scopes -> ScopeRec] /\ scope'[s] = r /\ \A t \in Scopes \ {s} : scope'[t] = scope[t]
  BY <1>1
<1>3. s # 1 /\ scope[s].state \notin {"none", "Active"}
  BY <1>1 DEF ScopeOK
<1>4. ASSUME NEW t \in Scopes PROVE ScopeOK(t)'
  <2>1. CASE t = s
    BY <1>1, <1>2, <1>3, <2>1 DEF ScopeOK
  <2>2. CASE t # s
    BY <1>1, <1>2, <2>2 DEF ScopeOK
  <2> QED BY <2>1, <2>2
<1>5. r.state \notin {"none", "Active"}
  BY <1>3
<1>6. /\ scope'[Target].state # "none" /\ scope'[1].state = "none"
      /\ scope'[Target].state = "Active" <=> scope[Target].state = "Active"
  <2>1. CASE s = Target
    BY <1>1, <1>2, <1>3, <1>5, <2>1
  <2>2. CASE s # Target
    BY <1>1, <1>2, <1>3, <2>2
  <2> QED BY <2>1, <2>2
<1>7. ASSUME NEW h \in Txs PROVE StagingOK(h)'
  <2>1. StagingOK(h) /\ h \in Scopes
    BY Instances
  <2>2. CASE h # s
    BY <1>2, <1>6, <2>1, <2>2 DEF StagingOK
  <2>3. CASE h = s
    BY <1>2, <1>3, <1>5, <1>6, <2>1, <2>3 DEF StagingOK
  <2> QED BY <2>2, <2>3
<1>8. ScopePace
  BY <1>1 DEF ScopePace
<1> QED BY <1>1, <1>2, <1>4, <1>6, <1>7, <1>8, ScopeMoves

LEMMA ScopeTraversesStep ==
  ASSUME ReloadInv, NEW s \in Scopes, ScopeTraverses(s)
  PROVE  ReloadInv'
<1> DEFINE kids == {k \in Txs : s = Target /\ scope[k].state \in {"Active", "Disposing"}}
           fibers == {f \in Gens : member[f] = s}
           r == [scope[s] EXCEPT !.step = "members", !.kids = kids, !.fibers = fibers]
<1>1. /\ scope[s] \in ScopeRec /\ scope[s].step = "begun" /\ ScopesFree /\ scope \in [Scopes -> ScopeRec]
      /\ UNCHANGED <<world, gateVars, fiberVars, disposalVars, serviceVars, indexVars, boot, txVars, call>>
  BY Instances DEF Typed, ScopeTraverses
<1>2. scope' = [scope EXCEPT ![s] = r]
  BY <1>1 DEF ScopeTraverses
<1>3. kids \in SUBSET Txs /\ fibers \in SUBSET Gens
  OBVIOUS
<1>4. kids # {} => s = Target
  OBVIOUS
<1>5. ASSUME NEW f \in fibers PROVE state[f] # "none" /\ f \in Gens /\ member[f] = s /\ s # NoScope
  <2>1. f \in Gens /\ member[f] = s
    OBVIOUS
  <2>2. s # NoScope
    BY ReloadAssumption DEF Scopes, NoScope
  <2> QED BY <2>1, <2>2, Instances DEF FiberOK
<1>6. ASSUME s \in Txs
      PROVE  /\ fibers \subseteq {s}
             /\ state[s] # "none" => s \in fibers \/ disposal[s] \in Over \/ home[s] = Target
  <2>1. s # Target /\ s \in Gens /\ StagedOK(s) /\ TxOK(s)
    BY <1>6, Instances
  <2>2. \A f \in Gens : f # s => member[f] # s
    <3> SUFFICES ASSUME NEW f \in Gens, f # s PROVE member[f] # s
      OBVIOUS
    <3>1. s # NoScope
      BY ReloadAssumption DEF Scopes, NoScope
    <3>2. CASE f = 1
      BY <2>1, <3>1, <3>2, Instances DEF RegisteredOK
    <3>3. CASE f \in Txs
      <4>1. StagedOK(f) /\ TxOK(f)
        BY <3>3, Instances
      <4> QED BY <2>1, <3>1, <4>1 DEF StagedOK, TxOK, Place
    <3> QED BY <3>2, <3>3, Instances
  <2>3. state[s] # "none" /\ disposal[s] \notin Over /\ home[s] # Target => member[s] = s
    <3>1. pc[s] \in Held => member[s] = s
      BY <1>1, <1>6, <2>1 DEF StagedOK, Place, MovedScope, Moved, Held, ScopesFree, Committing
    <3> QED BY <2>1, <3>1 DEF StagedOK, TxOK, Over
  <2> QED BY <2>1, <2>2, <2>3
<1> HIDE DEF kids, fibers
<1>7. r \in ScopeRec /\ r.state = scope[s].state /\ r.step = "members" /\ r.kids = kids /\ r.fibers = fibers
  BY <1>1, <1>3 DEF ScopeRec
<1> HIDE DEF r
<1> QED BY <1>1, <1>2, <1>4, <1>5, <1>6, <1>7, ScopeGoesOn

LEMMA ScopeFinalizesStep ==
  ASSUME ReloadInv, NEW s \in Scopes, ScopeFinalizes(s)
  PROVE  ReloadInv'
<1> DEFINE last == IF scope[s].bad THEN "Terminated" ELSE "Disposed"
           r == [scope[s] EXCEPT !.step = "done", !.state = last]
<1>1. /\ scope[s] \in ScopeRec /\ scope \in [Scopes -> ScopeRec] /\ ScopeOK(s)
      /\ scope[s].step = "members" /\ scope[s].kids = {} /\ scope[s].fibers = {}
      /\ UNCHANGED <<world, gateVars, fiberVars, disposalVars, serviceVars, indexVars, boot, txVars, call>>
  BY Instances DEF Typed, ScopeFinalizes
<1>2. scope' = [scope EXCEPT ![s] = r]
  BY <1>1 DEF ScopeFinalizes
<1>3. last \in {"Disposed", "Terminated"}
  OBVIOUS
<1> HIDE DEF last
<1>4. r \in ScopeRec /\ r.state = last /\ r.step = "done" /\ r.kids = {} /\ r.fibers = {}
  BY <1>1, <1>3 DEF ScopeRec
<1>5. s \in Txs /\ state[s] # "none" => disposal[s] \in Over \/ home[s] = Target
  BY <1>1, Instances DEF StagingOK
<1> HIDE DEF r
<1> QED BY <1>1, <1>2, <1>3, <1>4, <1>5, ScopeGoesOn

\* The children of a Scope, the youngest first.
LEMMA ScopeChildStep ==
  ASSUME ReloadInv, NEW s \in Scopes, ScopeChild(s)
  PROVE  ReloadInv'
<1> DEFINE k == Max(scope[s].kids)
<1>1. /\ scope[s] \in ScopeRec /\ scope \in [Scopes -> ScopeRec] /\ ScopeOK(s)
      /\ scope[s].step = "members" /\ scope[s].kids # {}
      /\ UNCHANGED <<world, gateVars, fiberVars, disposalVars, serviceVars, indexVars, boot, txVars, call>>
  BY Instances DEF Typed, ScopeChild
<1>2. scope[s].kids \subseteq Txs /\ scope[s].kids \subseteq Gens
  <2>1. scope[s].kids \subseteq Txs
    BY <1>1 DEF ScopeRec
  <2> QED BY <2>1, Instances
<1>3. k \in scope[s].kids /\ k \in Txs
  BY <1>1, <1>2, Greatest
<1>4. s = Target /\ scope[Target].state # "Active" /\ k # 1 /\ k \in Scopes
  BY <1>1, <1>3, Instances DEF ScopeOK
<1>5. CASE scope[k].state = "Active" /\ BeginScopeDisposal(k)
  <2>1. boot = "ready"
    BY <1>1, Ready
  <2> HIDE DEF k
  <2> QED BY <1>1, <1>4, <1>5, <2>1, OtherScopeBegins
<1>6. CASE scope' = [scope EXCEPT ![s].kids = @ \ {k}, ![s].bad = @ \/ scope[k].state = "Terminated"]
  <2> DEFINE bad == scope[s].bad \/ scope[k].state = "Terminated"
             kids == scope[s].kids \ {k}
             r == [scope[s] EXCEPT !.kids = kids, !.bad = bad]
  <2>1. scope' = [scope EXCEPT ![s] = r]
    BY <1>1, <1>6
  <2>2. bad \in BOOLEAN /\ kids \subseteq Txs
    BY <1>2
  <2> HIDE DEF bad, kids
  <2>3. r \in ScopeRec /\ r.state = scope[s].state /\ r.step = "members" /\ r.kids = kids /\ r.fibers = scope[s].fibers
    BY <1>1, <2>2 DEF ScopeRec
  <2>4. s \notin Txs
    BY <1>4, Instances
  <2> HIDE DEF r
  <2>5. \A f \in r.fibers : state[f] # "none"
    BY <1>1, <2>3 DEF ScopeOK
  <2> QED BY <1>1, <1>4, <2>1, <2>3, <2>4, <2>5, ScopeGoesOn
<1> QED BY <1>5, <1>6 DEF ScopeChild

\* The Fibers of a Scope, the youngest first.
LEMMA ScopeFiberStep ==
  ASSUME ReloadInv, NEW s \in Scopes, ScopeFiber(s)
  PROVE  ReloadInv'
<1> DEFINE f == Max(scope[s].fibers)
<1>1. /\ scope[s] \in ScopeRec /\ scope \in [Scopes -> ScopeRec] /\ ScopeOK(s)
      /\ scope[s].step = "members" /\ scope[s].kids = {} /\ scope[s].fibers # {}
      /\ UNCHANGED <<world, home, lifecycle, serviceVars, indexVars, boot, txVars, call>>
  BY Instances DEF Typed, ScopeFiber
<1>2. scope[s].fibers \subseteq Gens
  BY <1>1 DEF ScopeRec
<1>3. f \in scope[s].fibers /\ f \in Gens /\ state[f] # "none" /\ boot = "ready"
  BY <1>1, <1>2, Greatest, Ready DEF ScopeOK
<1>4. CASE BeginDisposal(f, FALSE) /\ UNCHANGED scope
  <2>1. scope[Target].state = "Active" /\ f \in Txs => pc[f] \notin {"activate"} \cup Activating
    <3> SUFFICES ASSUME scope[Target].state = "Active", f \in Txs PROVE pc[f] \notin {"activate"} \cup Activating
      OBVIOUS
    <3>1. s # Target
      BY <1>1 DEF ScopeOK
    <3>2. s \in Txs
      BY <1>1, <3>1, Instances DEF ScopeInv, ScopeOK
    <3>3. f = s
      BY <1>3, <3>2, Instances DEF StagingOK
    <3>4. pc[s] \notin Early
      BY <1>1, <3>2, Instances DEF StagingOK
    <3> QED BY <3>3, <3>4 DEF Early, PCs, Locked, Activating
  <2> HIDE DEF f
  <2> QED BY <1>1, <1>3, <1>4, <2>1, OtherBegins
<1>5. CASE /\ state[f] = "Disposed" \/ DisposalEnded(f)
           /\ scope' = [scope EXCEPT ![s].fibers = @ \ {f},
                                     ![s].bad = @ \/ disposal[f] \in {"terminated", "faulty"}]
           /\ UNCHANGED <<state, owned, disposalVars, gateVars>>
  <2> DEFINE bad == scope[s].bad \/ disposal[f] \in {"terminated", "faulty"}
             fibers == scope[s].fibers \ {f}
             r == [scope[s] EXCEPT !.fibers = fibers, !.bad = bad]
  <2>1. scope' = [scope EXCEPT ![s] = r]
    BY <1>1, <1>5
  <2>2. bad \in BOOLEAN /\ fibers \subseteq Gens
    BY <1>2
  <2>3. disposal[f] \in Over
    <3>1. FiberOK(f)
      BY <1>3, Instances
    <3> QED BY <1>5, <3>1 DEF FiberOK, DisposalEnded, Over, Gone
  <2>4. fibers \subseteq scope[s].fibers /\ scope[s].fibers \subseteq fibers \cup {f}
    OBVIOUS
  <2> HIDE DEF bad, fibers
  <2>5. r \in ScopeRec /\ r.state = scope[s].state /\ r.step = "members" /\ r.kids = {} /\ r.fibers = fibers
    BY <1>1, <2>2 DEF ScopeRec
  <2> HIDE DEF r
  <2>6. \A h \in r.fibers : state[h] # "none"
    BY <1>1, <2>4, <2>5 DEF ScopeOK
  <2>7. ASSUME s \in Txs
        PROVE  /\ r.fibers \subseteq {s}
               /\ state[s] # "none" => \/ r.step = "members" /\ s \in r.fibers
                                       \/ disposal[s] \in Over \/ home[s] = Target
    <3>1. StagingOK(s)
      BY <2>7, Instances
    <3> QED BY <1>1, <2>3, <2>4, <2>5, <3>1 DEF StagingOK
  <2> QED BY <1>1, <1>5, <2>1, <2>5, <2>6, <2>7, ScopeGoesOn
<1> QED BY <1>4, <1>5 DEF ScopeFiber

LEMMA ScopeSteps ==
  ASSUME ReloadInv, NEW s \in Scopes, ScopeStep(s)
  PROVE  ReloadInv'
BY ScopeTraversesStep, ScopeChildStep, ScopeFiberStep, ScopeFinalizesStep DEF ScopeStep

-----------------------------------------------------------------------------
(***************************************************************************)
(* A transaction begins, and takes or gives back the old Fiber.            *)
(***************************************************************************)
\* Whether the runtime admits is not part of the invariant.
LEMMA WorldStep ==
  ASSUME ReloadInv, open' \in BOOLEAN,
         UNCHANGED <<gateVars, fiberVars, disposalVars, serviceVars, indexVars, scope, boot, txVars, call>>
  PROVE  ReloadInv'
<1>1. /\ Typed /\ LogInv /\ GateInv /\ BootInv /\ TxInv /\ LockInv /\ FiberInv /\ RegistryInv
      /\ VisibleInv /\ ScopeInv /\ CacheInv /\ CallInv
  BY Instances
<1>2. Typed'
  BY <1>1 DEF Typed
<1>3. LogInv' /\ GateInv' /\ BootInv'
  BY <1>1 DEF LogInv, GateInv, BootInv, Visible, active
<1>4. TxInv'
  BY <1>1 DEF TxInv, TxOK, Visible, active
<1>5. LockInv'
  BY <1>1 DEF LockInv, Committing
<1>6. FiberInv'
  BY <1>1 DEF FiberInv, FiberOK
<1>7. RegistryInv'
  <2>1. ASSUME NEW g \in Txs PROVE StagedOK(g)'
    <3>1. StagedOK(g)
      BY <1>1 DEF RegistryInv
    <3> QED BY <3>1 DEF StagedOK, Place, Visible, active
  <2>2. ASSUME NEW f \in Gens PROVE RegisteredOK(f)'
    <3>1. RegisteredOK(f)
      BY <1>1 DEF RegistryInv
    <3> QED BY <3>1 DEF RegisteredOK
  <2> QED BY <2>1, <2>2 DEF RegistryInv
<1>8. VisibleInv'
  BY <1>1 DEF VisibleInv, ServicesFree, active, Named, Visible, Replaces
<1>9. ScopeInv'
  BY <1>1 DEF ScopeInv, ScopeOK, StagingOK
<1>10. CacheInv'
  BY <1>1 DEF CacheInv, ServicesFree, active
<1>11. CallInv'
  BY <1>1 DEF CallInv, CallOK, Returned, Changes, Since, Named
<1> QED BY <1>2, <1>3, <1>4, <1>5, <1>6, <1>7, <1>8, <1>9, <1>10, <1>11 DEF ReloadInv

LEMMA OutsideShutdownStep ==
  ASSUME ReloadInv, OutsideShutdown
  PROVE  ReloadInv'
BY WorldStep DEF OutsideShutdown

LEMMA ReloadStutters ==
  ASSUME ReloadInv, UNCHANGED vars
  PROVE  ReloadInv'
BY WorldStep, Instances DEF vars, Typed

\* The Fibers that exist are older than a transaction that has not begun.
LEMMA ReloadBeginStep ==
  ASSUME ReloadInv, NEW g \in Txs, ReloadBegin(g)
  PROVE  ReloadInv'
<1> USE DEF Held, Fresh, Cleaning, Early, Activating, Prepared, Failing, Locked, Switched, PCs
<1>1. /\ Typed /\ LogInv /\ GateInv /\ BootInv /\ TxInv /\ LockInv /\ FiberInv /\ RegistryInv
      /\ VisibleInv /\ ScopeInv /\ CacheInv /\ CallInv /\ pc[g] = "idle" /\ g \in Gens
  BY Instances DEF ReloadBegin
<1>2. PICK f \in Gens : state[f] # "none" /\ f \notin owned /\ old' = [old EXCEPT ![g] = f]
  BY DEF ReloadBegin
<1>3. /\ pc' = [pc EXCEPT ![g] = "wait"] /\ \A h \in Txs : h < g => pc[h] # "idle"
      /\ UNCHANGED <<world, gateVars, fiberVars, disposalVars, serviceVars, indexVars, scope, boot,
                     outcome, call>>
  BY DEF ReloadBegin, Goto
<1>4. f \in 1..(g - 1)
  <2>1. g \in Nat /\ f \in Nat /\ g >= 2 /\ f >= 1
    BY ReloadAssumption DEF Gens, Txs
  <2>2. f # 1 => f \in Txs /\ pc[f] # "idle" /\ \A h \in Txs : h < f => pc[h] # "idle"
    <3>1. f # 1 => f \in Txs /\ TxOK(f)
      BY Instances
    <3> QED BY <1>2, <3>1 DEF TxOK
  <2>3. ~(g < f) /\ f # g
    BY <1>1, <2>1, <2>2
  <2> QED BY <2>1, <2>3
<1>5. /\ pc' \in [Txs -> PCs] /\ pc'[g] = "wait" /\ \A h \in Txs \ {g} : pc'[h] = pc[h]
  BY <1>1, <1>3 DEF Typed
<1>6. /\ old' \in [Txs -> 0..MaxGen] /\ old'[g] = f /\ \A h \in Txs \ {g} : old'[h] = old[h]
  BY <1>1, <1>2, ReloadAssumption DEF Typed, Gens
<1>7. /\ active' = active /\ \A x : (Visible(x)' <=> Visible(x)) /\ (Named(x)' <=> Named(x))
  BY <1>3, Unchanged
<1>8. Typed'
  BY <1>1, <1>3, <1>5, <1>6 DEF Typed
<1>9. LogInv' /\ GateInv' /\ BootInv'
  BY <1>1, <1>3, <1>5, <1>7 DEF LogInv, GateInv, BootInv
<1>10. TxInv'
  <2>1. \A h \in Txs : pc[h] # "idle" => pc'[h] # "idle"
    BY <1>5
  <2>2. TxOK(g)'
    <3>1. TxOK(g)
      BY Instances
    <3>2. old'[g] \in 1..(g - 1) /\ old'[g] \notin owned /\ state[old'[g]] # "none"
      BY <1>2, <1>4, <1>6
    <3> QED BY <1>1, <1>3, <1>5, <1>7, <2>1, <3>1, <3>2 DEF TxOK
  <2>3. ASSUME NEW h \in Txs \ {g} PROVE TxOK(h)'
    <3>1. TxOK(h)
      BY Instances
    <3> QED BY <1>3, <1>5, <1>6, <1>7, <2>1, <3>1 DEF TxOK
  <2> QED BY <1>1, <1>3, <2>2, <2>3 DEF TxInv
<1>11. LockInv'
  <2>1. \A h \in Txs : /\ pc'[h] \in Locked <=> pc[h] \in Locked
                       /\ pc'[h] \in Activating <=> pc[h] \in Activating
                       /\ (pc'[h] \in Locked => old'[h] = old[h])
                       /\ (Committing(h)' <=> Committing(h))
    BY <1>1, <1>5, <1>6 DEF Committing
  <2>2. \A x \in Gens : (\E h \in Txs : old'[h] = x /\ pc'[h] \in Locked) <=> \E h \in Txs : old[h] = x /\ pc[h] \in Locked
    BY <2>1
  <2>3. \A x \in Gens : x = 1 \/ x \in Txs
    BY Instances
  <2> HIDE DEF Held, Fresh, Cleaning, Early, Activating, Prepared, Failing, Locked, Switched, PCs
  <2>4. ASSUME NEW x \in Gens
        PROVE  /\ lifecycle'[x] = "activation" <=> IF x = 1 THEN boot' # "ready" ELSE pc'[x] \in Activating
               /\ lifecycle'[x] = "reload" <=> \E h \in Txs : old'[h] = x /\ pc'[h] \in Locked
               /\ lifecycle'[x] = "disposal" <=> disposal'[x] \in Body
    BY <1>1, <1>3, <2>1, <2>2, <2>3 DEF LockInv
  <2>5. /\ \A h, k \in Txs : pc'[h] \in Locked /\ pc'[k] \in Locked /\ old'[h] = old'[k] => h = k
        /\ \A h, k \in Txs : Committing(h)' /\ Committing(k)' => h = k
    BY <1>1, <2>1 DEF LockInv
  <2> QED BY <2>4, <2>5 DEF LockInv
<1>12. FiberInv'
  <2> SUFFICES ASSUME NEW x \in Gens PROVE FiberOK(x)'
    BY DEF FiberInv
  <2>1. FiberOK(x)
    BY Instances
  <2>2. (\E h \in Txs : old[h] = x /\ pc[h] \in Locked \cup {"cleanup"})
        => \E h \in Txs : old'[h] = x /\ pc'[h] \in Locked \cup {"cleanup"}
    BY <1>1, <1>5, <1>6
  <2>3. x \in Txs /\ pc'[x] \in Activating => pc[x] \in Activating
    BY <1>5
  <2> QED BY <1>3, <2>1, <2>2, <2>3 DEF FiberOK
<1>13. RegistryInv'
  <2>1. \A h \in Txs : Place(h, Moved)' = Place(h, Moved) /\ Place(h, MovedScope)' = Place(h, MovedScope)
                       /\ Place(h, MovedInvocations)' = Place(h, MovedInvocations)
    BY <1>1, <1>5 DEF Place, Moved, MovedScope, MovedInvocations
  <2>2. ASSUME NEW h \in Txs PROVE StagedOK(h)'
    <3>1. StagedOK(h) /\ (pc'[h] # pc[h] => pc[h] = "idle" /\ pc'[h] = "wait")
      BY <1>1, <1>5, Instances
    <3> QED BY <1>3, <1>7, <2>1, <3>1 DEF StagedOK
  <2>3. \A x \in Gens : RegisteredOK(x)'
    BY <1>1, <1>3 DEF RegistryInv, RegisteredOK
  <2> QED BY <2>2, <2>3 DEF RegistryInv
<1>14. VisibleInv'
  <2>1. /\ ServicesFree' <=> ServicesFree
        /\ \A h \in Txs : pc'[h] \in {"retire", "services"} => pc[h] \in {"retire", "services"} /\ old'[h] = old[h]
        /\ \A h \in Txs : pc[h] \in Switched => pc'[h] \in Switched
        /\ \A h \in Txs : Replaces(h) => Replaces(h)' /\ old'[h] = old[h]
    BY <1>1, <1>5, <1>6 DEF ServicesFree, Replaces
  <2>2. \A x \in Gens : x = 1 \/ x \in Txs
    BY Instances
  <2>3. ASSUME NEW x \in Gens, Named(x) PROVE home[x] = Target \/ pc'[x] \in Switched
    BY <1>1, <2>1, <2>2, <2>3, Instances DEF VisibleInv
  <2>4. ASSUME NEW x \in Gens, home[x] = Target, disposal[x] = "idle", boot # "registered"
        PROVE  Visible(x) \/ \E h \in Txs : old'[h] = x /\ Replaces(h)'
    BY <1>1, <2>1, <2>4 DEF VisibleInv
  <2> QED BY <1>1, <1>3, <1>7, <2>1, <2>3, <2>4 DEF VisibleInv
<1>15. ScopeInv'
  <2>1. ASSUME NEW h \in Txs PROVE StagingOK(h)'
    <3>1. StagingOK(h) /\ (pc'[h] # pc[h] => pc[h] = "idle" /\ pc'[h] = "wait")
      BY <1>1, <1>5, Instances
    <3> QED BY <1>3, <3>1 DEF StagingOK
  <2> QED BY <1>1, <1>3, <2>1 DEF ScopeInv, ScopeOK
<1>16. CacheInv'
  <2>1. ServicesFree' => ServicesFree
    BY <1>1, <1>5 DEF ServicesFree
  <2> QED BY <1>1, <1>3, <1>7, <2>1, CacheKept
<1>17. CallInv'
  BY <1>1, <1>3, CallKept DEF LogGrows
<1> QED BY <1>8, <1>9, <1>10, <1>11, <1>12, <1>13, <1>14, <1>15, <1>16, <1>17 DEF ReloadInv

\* Transaction g takes or gives back the lock and the Reloading state of its old Fiber.
LEMMA OldMove ==
  ASSUME ReloadInv, NEW g \in Txs, boot = "ready", RecordFree(old[g]),
         pc[g] \in {"wait", "restore"}, pc'[g] \in {"stage", "ended"},
         UNCHANGED <<open, outside, gateVars, home, owned, disposalVars, serviceVars, indexVars, scope, boot,
                     old, call>>,
         pc' \in [Txs -> PCs], \A h \in Txs \ {g} : pc'[h] = pc[h] /\ outcome'[h] = outcome[h],
         outcome' \in [Txs -> {"none", "Refused", "Failed", "CommittedWithCleanupPending",
                               "Completed", "ReloadCommitted"}],
         state' \in [Gens -> States], \A f \in Gens \ {old[g]} : state'[f] = state[f],
         \/ state'[old[g]] = state[old[g]]
         \/ state[old[g]] \in {"Active", "Reloading"} /\ state'[old[g]] \in {"Active", "Reloading"},
         lifecycle' \in [Gens -> {"free", "activation", "reload", "disposal"}],
         state'[old[g]] = "Reloading" => \E h \in Txs : old[h] = old[g] /\ pc'[h] \in Locked \cup {"cleanup"},
         LockInv', TxOK(g)', StagedOK(g)', StagingOK(g)'
  PROVE  ReloadInv'
<1> USE DEF Held, Fresh, Cleaning, Early, Activating, Prepared, Failing, Locked, Switched, PCs
<1>1. /\ Typed /\ LogInv /\ GateInv /\ BootInv /\ TxInv /\ LockInv /\ FiberInv /\ RegistryInv
      /\ VisibleInv /\ ScopeInv /\ CacheInv /\ CallInv /\ g \in Gens
      /\ old[g] \in Gens /\ old[g] # g /\ state[old[g]] # "none"
  BY Instances, OldFiber
<1>2. /\ active' = active /\ \A x : (Visible(x)' <=> Visible(x)) /\ (Named(x)' <=> Named(x))
  BY Unchanged
<1>3. /\ \A f \in Gens : /\ state'[f] = "none" <=> state[f] = "none"
                         /\ state'[f] \in {"Active", "Reloading"} <=> state[f] \in {"Active", "Reloading"}
                         /\ state'[f] # state[f] => f = old[g] /\ state[f] \in {"Active", "Reloading"}
  BY <1>1
<1>4. Typed'
  BY <1>1 DEF Typed
<1>5. LogInv' /\ GateInv' /\ BootInv'
  BY <1>1, <1>2 DEF LogInv, GateInv, BootInv
<1>6. \A h \in Txs : pc[h] # "idle" => pc'[h] # "idle"
  OBVIOUS
<1>7. ASSUME NEW h \in Txs \ {g} PROVE TxOK(h)'
  <2>1. TxOK(h) /\ h \in Gens /\ (pc[h] # "idle" => old[h] \in Gens)
    BY Instances, OldFiber
  <2>2. pc[h] \in Held => h # old[g]
    BY DEF RecordFree, Committing
  <2> QED BY <1>2, <1>3, <1>6, <2>1, <2>2 DEF TxOK
<1>8. TxInv'
  BY <1>1, <1>7 DEF TxInv
<1>9. FiberInv'
  <2> SUFFICES ASSUME NEW f \in Gens PROVE FiberOK(f)'
    BY DEF FiberInv
  <2>1. FiberOK(f)
    BY Instances
  <2>2. f \in Txs /\ pc'[f] \in Activating => pc[f] \in Activating
    OBVIOUS
  <2>3. lifecycle'[f] = "free" \/ state'[f] # "none"
    <3>1. state[f] = "none" => lifecycle[f] = "free" /\ disposal[f] = "idle"
      BY <2>1 DEF FiberOK
    <3>2. state[f] = "none" => \A h \in Txs : pc'[h] \in Locked => old[h] # f
      BY <1>1, <1>3, OldFiber
    <3>3. state[f] = "none" => f \in Txs /\ pc[f] \notin Activating /\ f # 1
      <4>1. f = 1 \/ f \in Txs
        BY Instances
      <4>2. state[1] # "none"
        <5>1. home[1] = Target /\ disposal[1] \in Steps /\ RegisteredOK(1) /\ FiberOK(1)
          BY Instances DEF Typed
        <5>2. state[1] = "none" => disposal[1] = "idle" /\ invocation[1] = NoScope
          BY <5>1 DEF FiberOK
        <5>3. disposal[1] = "idle" => invocation[1] = Target
          BY <5>1 DEF RegisteredOK
        <5> QED BY <5>2, <5>3 DEF Target, NoScope
      <4>3. f \in Txs /\ state[f] = "none" => pc[f] \notin Activating
        BY Instances DEF TxOK
      <4> QED BY <4>1, <4>2, <4>3
    <3>4. state[f] = "none" => lifecycle'[f] \notin {"activation", "reload", "disposal"}
      <4>1. UNCHANGED <<old, disposal, boot>>
        OBVIOUS
      <4>2. "idle" \notin Body
        BY DEF Body
      <4> QED BY <2>2, <3>1, <3>2, <3>3, <4>1, <4>2 DEF LockInv
    <3> QED BY <1>1, <1>3, <3>4
  <2>4. state'[f] = "Reloading" => \E h \in Txs : old[h] = f /\ pc'[h] \in Locked \cup {"cleanup"}
    <3>1. CASE f = old[g]
      BY <3>1
    <3>2. CASE f # old[g]
      BY <2>1, <3>2 DEF FiberOK
    <3> QED BY <3>1, <3>2
  <2>5. f \in Scopes /\ entry'[f] = entry[f]
    BY Instances
  <2> QED BY <1>3, <2>1, <2>2, <2>3, <2>4, <2>5 DEF FiberOK
<1>10. RegistryInv'
  <2> HIDE DEF Held, Fresh, Cleaning, Early, Activating, Prepared, Failing, Locked, Switched, PCs
  <2>1. ASSUME NEW h \in Txs \ {g} PROVE StagedOK(h)'
    <3>1. StagedOK(h) /\ h \in Gens
      BY Instances
    <3> QED BY <1>2, <1>3, <3>1 DEF StagedOK, Place
  <2>2. \A f \in Gens : RegisteredOK(f)'
    BY <1>1 DEF RegistryInv, RegisteredOK
  <2> QED BY <2>1, <2>2 DEF RegistryInv
<1>11. ServicesFree' <=> ServicesFree
  BY DEF ServicesFree
<1>12. VisibleInv'
  <2>1. /\ \A h \in Txs : pc'[h] \in {"retire", "services"} => pc[h] \in {"retire", "services"}
        /\ \A h \in Txs : pc[h] \in Switched => pc'[h] \in Switched
        /\ \A h \in Txs : Replaces(h) => Replaces(h)'
    BY DEF Replaces
  <2>2. ASSUME NEW x \in Gens, Named(x) PROVE home[x] = Target \/ pc'[x] \in Switched
    <3>1. x = 1 \/ x \in Txs
      BY Instances
    <3> QED BY <1>1, <2>1, <2>2, <3>1, Instances DEF VisibleInv
  <2>3. ASSUME NEW x \in Gens, home[x] = Target, disposal[x] = "idle", boot # "registered"
        PROVE  Visible(x) \/ \E h \in Txs : old[h] = x /\ Replaces(h)'
    BY <1>1, <2>1, <2>3 DEF VisibleInv
  <2> QED BY <1>1, <1>2, <1>11, <2>1, <2>2, <2>3 DEF VisibleInv
<1>13. ScopeInv'
  <2>1. ASSUME NEW h \in Txs \ {g} PROVE StagingOK(h)'
    <3>1. StagingOK(h) /\ h \in Gens
      BY Instances
    <3> QED BY <1>3, <3>1 DEF StagingOK
  <2>2. ASSUME NEW s \in Scopes PROVE ScopeOK(s)'
    <3>1. ScopeOK(s) /\ scope[s].fibers \subseteq Gens
      BY Instances DEF Typed, ScopeRec
    <3> QED BY <1>3, <3>1 DEF ScopeOK
  <2> QED BY <1>1, <2>1, <2>2 DEF ScopeInv
<1>14. CacheInv' /\ CallInv'
  BY <1>1, <1>2, <1>11, CacheKept, CallKept DEF LogGrows
<1> QED BY <1>4, <1>5, <1>8, <1>9, <1>10, <1>12, <1>13, <1>14 DEF ReloadInv

\* Whoever finds the lifecycle mutex of a Fiber free finds the first activation complete.
LEMMA FreeReady ==
  ASSUME ReloadInv, NEW g \in Txs, pc[g] # "idle", lifecycle[old[g]] = "free"
  PROVE  boot = "ready"
<1> SUFFICES ASSUME boot # "ready" PROVE FALSE
  OBVIOUS
<1>1. old[g] \in Gens /\ state[old[g]] # "none"
  BY OldFiber
<1>2. old[g] = 1
  BY <1>1, Ready, Instances
<1> QED BY <1>1, <1>2, Instances DEF LockInv

LEMMA ReloadLockStep ==
  ASSUME ReloadInv, NEW g \in Txs, ReloadLock(g)
  PROVE  ReloadInv'
<1> USE DEF Held, Fresh, Cleaning, Early, Activating, Prepared, Failing, Locked, Switched, PCs
<1>1. /\ Typed /\ LockInv /\ TxOK(g) /\ StagedOK(g) /\ StagingOK(g) /\ FiberOK(g) /\ RegisteredOK(g)
      /\ g \in Gens /\ pc[g] = "wait" /\ lifecycle[old[g]] = "free" /\ RecordFree(old[g])
      /\ old[g] \in Gens /\ old[g] # g /\ state[old[g]] # "none" /\ old[g] \notin owned /\ boot = "ready"
  BY Instances, OldFiber, FreeReady DEF ReloadLock
<1>2. UNCHANGED <<world, gateVars, home, owned, disposalVars, serviceVars, indexVars, scope, boot, old, call>>
  BY DEF ReloadLock
<1>3. /\ \A h \in Txs : pc[h] # "idle" => pc'[h] # "idle"
      /\ (Visible(g)' <=> Visible(g))
      /\ \A h \in Txs : pc[h] \in Locked => old[h] # old[g]
  <2>1. Visible(g)' <=> Visible(g)
    BY <1>2, Unchanged
  <2>2. \A h \in Txs : pc[h] # "idle" => pc'[h] # "idle"
    <3>1. pc' = [pc EXCEPT ![g] = "stage"] \/ pc' = [pc EXCEPT ![g] = "ended"]
      BY DEF ReloadLock, Goto
    <3> HIDE DEF Held, Fresh, Cleaning, Early, Activating, Prepared, Failing, Locked, Switched, PCs
    <3> QED BY <1>1, <3>1 DEF Typed
  <2>3. \A h \in Txs : pc[h] \in Locked => old[h] # old[g]
    <3> HIDE DEF Held, Fresh, Cleaning, Early, Activating, Prepared, Failing, Locked, Switched, PCs
    <3> QED BY <1>1 DEF LockInv
  <2> QED BY <2>1, <2>2, <2>3
<1>4. CASE state[old[g]] = "Active"
  <2>1. /\ state' = [state EXCEPT ![old[g]] = "Reloading"] /\ lifecycle' = [lifecycle EXCEPT ![old[g]] = "reload"]
        /\ pc' = [pc EXCEPT ![g] = "stage"] /\ UNCHANGED outcome
    BY <1>4 DEF ReloadLock, Goto
  <2>2. /\ pc' \in [Txs -> PCs] /\ pc'[g] = "stage" /\ \A h \in Txs \ {g} : pc'[h] = pc[h]
    BY <1>1, <2>1 DEF Typed
  <2>3. /\ state' \in [Gens -> States] /\ state'[old[g]] = "Reloading"
        /\ \A f \in Gens \ {old[g]} : state'[f] = state[f]
    BY <1>1, <2>1 DEF Typed, States
  <2>4. /\ lifecycle' \in [Gens -> {"free", "activation", "reload", "disposal"}]
        /\ lifecycle'[old[g]] = "reload" /\ \A f \in Gens \ {old[g]} : lifecycle'[f] = lifecycle[f]
    BY <1>1, <2>1 DEF Typed
  <2>5. LockInv'
    <3>1. \A h \in Txs : /\ pc'[h] \in Locked <=> pc[h] \in Locked \/ h = g
                         /\ pc'[h] \in Activating <=> pc[h] \in Activating
                         /\ (Committing(h)' <=> Committing(h))
      BY <1>1, <2>2 DEF Committing
    <3>2. \A f \in Gens : f = 1 \/ f \in Txs
      BY Instances
    <3> HIDE DEF Held, Fresh, Cleaning, Early, Activating, Prepared, Failing, Locked, Switched, PCs
    <3>3. ASSUME NEW f \in Gens
          PROVE  /\ lifecycle'[f] = "activation" <=> IF f = 1 THEN boot' # "ready" ELSE pc'[f] \in Activating
                 /\ lifecycle'[f] = "reload" <=> \E h \in Txs : old'[h] = f /\ pc'[h] \in Locked
                 /\ lifecycle'[f] = "disposal" <=> disposal'[f] \in Body
      <4>1. CASE f = old[g]
        BY <1>1, <1>2, <2>4, <3>1, <3>2, <4>1 DEF LockInv
      <4>2. CASE f # old[g]
        BY <1>1, <1>2, <2>4, <3>1, <3>2, <4>2 DEF LockInv
      <4> QED BY <4>1, <4>2
    <3>4. \A h, k \in Txs : pc'[h] \in Locked /\ pc'[k] \in Locked /\ old'[h] = old'[k] => h = k
      BY <1>1, <1>2, <1>3, <3>1 DEF LockInv
    <3>5. \A h, k \in Txs : Committing(h)' /\ Committing(k)' => h = k
      BY <1>1, <3>1 DEF LockInv
    <3> QED BY <3>3, <3>4, <3>5 DEF LockInv
  <2>6. TxOK(g)'
    <3>1. old[g] \in 1..(g - 1) /\ old[g] \notin owned' /\ state'[old[g]] # "none"
      BY <1>1, <1>2, <2>3 DEF TxOK
    <3> QED BY <1>1, <1>2, <1>3, <2>1, <2>2, <2>3, <3>1 DEF TxOK
  <2>7. StagedOK(g)'
    BY <1>1, <1>2, <1>3, <2>2, <2>3 DEF StagedOK
  <2>8. StagingOK(g)'
    BY <1>1, <1>2, <2>2, <2>3 DEF StagingOK
  <2>9. outcome' \in [Txs -> {"none", "Refused", "Failed", "CommittedWithCleanupPending",
                              "Completed", "ReloadCommitted"}]
    BY <1>1, <2>1 DEF Typed
  <2>10. \E h \in Txs : old[h] = old[g] /\ pc'[h] \in Locked \cup {"cleanup"}
    BY <2>2
  <2> QED BY <1>1, <1>2, <1>4, <2>1, <2>2, <2>3, <2>4, <2>5, <2>6, <2>7, <2>8, <2>9, <2>10, OldMove
<1>5. CASE state[old[g]] # "Active"
  <2>1. /\ outcome' = [outcome EXCEPT ![g] = "Refused"] /\ pc' = [pc EXCEPT ![g] = "ended"]
        /\ UNCHANGED <<state, lifecycle>>
    BY <1>5 DEF ReloadLock, Goto
  <2>2. /\ pc' \in [Txs -> PCs] /\ pc'[g] = "ended" /\ \A h \in Txs \ {g} : pc'[h] = pc[h]
    BY <1>1, <2>1 DEF Typed
  <2>3. /\ outcome' \in [Txs -> {"none", "Refused", "Failed", "CommittedWithCleanupPending",
                                 "Completed", "ReloadCommitted"}]
        /\ outcome'[g] = "Refused" /\ \A h \in Txs \ {g} : outcome'[h] = outcome[h]
    BY <1>1, <2>1 DEF Typed
  <2>4. LockInv'
    <3>1. \A h \in Txs : /\ pc'[h] \in Locked <=> pc[h] \in Locked
                         /\ pc'[h] \in Activating <=> pc[h] \in Activating
                         /\ (Committing(h)' => Committing(h))
      BY <1>1, <2>2 DEF Committing
    <3> QED BY <1>1, <1>2, <2>1, <3>1, LocksKept
  <2>5. TxOK(g)'
    BY <1>1, <1>2, <1>3, <2>1, <2>2, <2>3 DEF TxOK
  <2>6. StagedOK(g)'
    BY <1>1, <1>2, <1>3, <2>1, <2>2 DEF StagedOK
  <2>7. StagingOK(g)'
    BY <1>1, <1>2, <2>1, <2>2 DEF StagingOK
  <2>8. state[old[g]] = "Reloading" => \E h \in Txs : old[h] = old[g] /\ pc'[h] \in Locked \cup {"cleanup"}
    <3>1. state[old[g]] = "Reloading" => \E h \in Txs : old[h] = old[g] /\ pc[h] \in Locked \cup {"cleanup"}
      BY <1>1, Instances DEF FiberOK
    <3> QED BY <1>1, <2>2, <3>1
  <2>9. state' \in [Gens -> States] /\ lifecycle' \in [Gens -> {"free", "activation", "reload", "disposal"}]
    BY <1>1, <2>1 DEF Typed
  <2> QED BY <1>1, <1>2, <2>1, <2>2, <2>3, <2>4, <2>5, <2>6, <2>7, <2>8, <2>9, OldMove
<1> QED BY <1>4, <1>5

LEMMA RestoreOldStep ==
  ASSUME ReloadInv, NEW g \in Txs, RestoreOld(g)
  PROVE  ReloadInv'
<1> USE DEF Held, Fresh, Cleaning, Early, Activating, Prepared, Failing, Locked, Switched, PCs
<1>1. /\ Typed /\ LockInv /\ TxOK(g) /\ StagedOK(g) /\ StagingOK(g) /\ FiberOK(g) /\ RegisteredOK(g)
      /\ g \in Gens /\ pc[g] = "restore" /\ RecordFree(old[g])
      /\ old[g] \in Gens /\ old[g] # g /\ state[old[g]] # "none" /\ old[g] \notin owned /\ boot = "ready"
  BY Instances, OldFiber, Ready DEF RestoreOld
<1>2. /\ UNCHANGED <<world, gateVars, home, owned, disposalVars, serviceVars, indexVars, scope, boot, old, call>>
      /\ state' = IF state[old[g]] = "Reloading" THEN [state EXCEPT ![old[g]] = "Active"] ELSE state
      /\ lifecycle' = [lifecycle EXCEPT ![old[g]] = "free"]
      /\ outcome' = [outcome EXCEPT ![g] = "Failed"] /\ pc' = [pc EXCEPT ![g] = "ended"]
  BY DEF RestoreOld, Goto
<1>3. /\ pc' \in [Txs -> PCs] /\ pc'[g] = "ended" /\ \A h \in Txs \ {g} : pc'[h] = pc[h]
  BY <1>1, <1>2 DEF Typed
<1>4. /\ outcome' \in [Txs -> {"none", "Refused", "Failed", "CommittedWithCleanupPending",
                               "Completed", "ReloadCommitted"}]
      /\ outcome'[g] = "Failed" /\ \A h \in Txs \ {g} : outcome'[h] = outcome[h]
  BY <1>1, <1>2 DEF Typed
<1>5. /\ state' \in [Gens -> States] /\ \A f \in Gens \ {old[g]} : state'[f] = state[f]
      /\ state'[old[g]] = IF state[old[g]] = "Reloading" THEN "Active" ELSE state[old[g]]
  BY <1>1, <1>2 DEF Typed, States
<1>6. /\ lifecycle' \in [Gens -> {"free", "activation", "reload", "disposal"}]
      /\ lifecycle'[old[g]] = "free" /\ \A f \in Gens \ {old[g]} : lifecycle'[f] = lifecycle[f]
  BY <1>1, <1>2 DEF Typed
<1>7. LockInv'
  <2>1. \A h \in Txs : /\ pc'[h] \in Locked <=> pc[h] \in Locked /\ h # g
                       /\ pc'[h] \in Activating <=> pc[h] \in Activating
                       /\ (Committing(h)' <=> Committing(h))
    BY <1>1, <1>3 DEF Committing
  <2>2. /\ \A f \in Gens : f = 1 \/ f \in Txs
        /\ pc[g] \in Locked
    BY <1>1, Instances
  <2> HIDE DEF Held, Fresh, Cleaning, Early, Activating, Prepared, Failing, Locked, Switched, PCs
  <2>3. lifecycle[old[g]] = "reload" /\ \A h \in Txs : pc[h] \in Locked /\ old[h] = old[g] => h = g
    BY <1>1, <2>2 DEF LockInv
  <2>4. ASSUME NEW f \in Gens
        PROVE  /\ lifecycle'[f] = "activation" <=> IF f = 1 THEN boot' # "ready" ELSE pc'[f] \in Activating
               /\ lifecycle'[f] = "reload" <=> \E h \in Txs : old'[h] = f /\ pc'[h] \in Locked
               /\ lifecycle'[f] = "disposal" <=> disposal'[f] \in Body
    <3>1. CASE f = old[g]
      BY <1>1, <1>2, <1>6, <2>1, <2>2, <2>3, <3>1 DEF LockInv
    <3>2. CASE f # old[g]
      BY <1>1, <1>2, <1>6, <2>1, <2>2, <3>2 DEF LockInv
    <3> QED BY <3>1, <3>2
  <2>5. /\ \A h, k \in Txs : pc'[h] \in Locked /\ pc'[k] \in Locked /\ old'[h] = old'[k] => h = k
        /\ \A h, k \in Txs : Committing(h)' /\ Committing(k)' => h = k
    BY <1>1, <1>2, <2>1 DEF LockInv
  <2> QED BY <2>4, <2>5 DEF LockInv
<1>8. /\ \A h \in Txs : pc[h] # "idle" => pc'[h] # "idle"
      /\ (Visible(g)' <=> Visible(g))
  BY <1>1, <1>2, <1>3, Unchanged
<1>9. TxOK(g)'
  <2>1. old[g] \in 1..(g - 1) /\ old[g] \notin owned' /\ state'[old[g]] # "none"
    BY <1>1, <1>2, <1>5 DEF TxOK
  <2> QED BY <1>1, <1>2, <1>3, <1>4, <1>5, <1>8, <2>1 DEF TxOK
<1>10. StagedOK(g)'
  BY <1>1, <1>2, <1>3, <1>5, <1>8 DEF StagedOK
<1>11. StagingOK(g)'
  BY <1>1, <1>2, <1>3, <1>5 DEF StagingOK
<1> QED BY <1>1, <1>2, <1>3, <1>4, <1>5, <1>6, <1>7, <1>9, <1>10, <1>11, OldMove

-----------------------------------------------------------------------------
(***************************************************************************)
(* The first activation is complete.                                       *)
(***************************************************************************)
\* Until then only the first Fiber is in the target Scope.
LEMMA OnlyFirst ==
  ASSUME ReloadInv, boot # "ready"
  PROVE  /\ \A g \in Txs : pc[g] \in {"idle", "wait"} /\ home[g] # Target /\ state[g] = "none"
         /\ \A f \in Gens : home[f] = Target => f = 1
<1>1. \A g \in Txs : pc[g] \in {"idle", "wait"} /\ TxOK(g) /\ state[g] = "none"
  BY Ready, Instances
<1>2. \A g \in Txs : home[g] # Target
  BY <1>1 DEF TxOK, Cleaning
<1> QED BY <1>1, <1>2, Instances

LEMMA PublishStep ==
  ASSUME ReloadInv, Publish
  PROVE  ReloadInv'
<1>1. /\ Typed /\ LogInv /\ GateInv /\ BootInv /\ TxInv /\ LockInv /\ FiberInv /\ RegistryInv
      /\ VisibleInv /\ ScopeInv /\ CacheInv /\ CallInv /\ boot = "registered" /\ boot' = "published"
      /\ Extends(1)
      /\ UNCHANGED <<world, retired, draining, fiberVars, disposalVars, serviceVars, indexVars,
                     scope, txVars, call>>
  BY Instances DEF Publish, Extends
<1>2. /\ \A g \in Txs : pc[g] \in {"idle", "wait"} /\ home[g] # Target /\ state[g] = "none"
      /\ \A f \in Gens : home[f] = Target => f = 1
  BY <1>1, OnlyFirst
<1>3. 1 \in 0..MaxGen /\ 1 \in Gens /\ home[1] = Target
  BY ReloadAssumption, Instances
<1>4. /\ log' \in Seq(0..MaxGen) /\ Len(log') = Len(log) + 1 /\ active' = 1
      /\ \A f : Named(f)' <=> Named(f) \/ f = 1
  BY <1>1, <1>3, Extended
<1>5. active = 0 /\ Len(log) = 1
  BY <1>1, ActiveType DEF LogInv
<1>6. \A f : Visible(f)' <=> f = 1
  BY <1>4 DEF Visible
<1>7. Typed'
  BY <1>1, <1>4, <1>5 DEF Typed
<1>8. LogInv'
  BY <1>1, <1>3, <1>5, LogAppend
<1>9. GateInv' /\ BootInv'
  BY <1>1, <1>6 DEF GateInv, BootInv
<1>10. TxInv'
  <2>1. ASSUME NEW g \in Txs PROVE TxOK(g)'
    <3>1. TxOK(g) /\ pc[g] \notin Switched
      BY <1>2, Instances DEF Switched
    <3> QED BY <1>1, <3>1 DEF TxOK
  <2> QED BY <1>1, <2>1 DEF TxInv
<1>11. LockInv'
  BY <1>1 DEF LockInv, Committing
<1>12. FiberInv'
  BY <1>1 DEF FiberInv, FiberOK
<1>13. RegistryInv'
  <2>1. ASSUME NEW g \in Txs PROVE StagedOK(g)'
    <3>1. StagedOK(g) /\ state[g] = "none"
      BY <1>2, Instances
    <3> QED BY <1>1, <3>1 DEF StagedOK, Place
  <2>2. \A f \in Gens : RegisteredOK(f)'
    BY <1>1 DEF RegistryInv, RegisteredOK
  <2> QED BY <2>1, <2>2 DEF RegistryInv
<1>14. VisibleInv'
  <2>1. entry[Target] = 1
    BY <1>1 DEF BootInv
  <2>2. \A f \in Gens : Named(f)' => home'[f] = Target \/ pc'[f] \in Switched
    BY <1>1, <1>3, <1>4 DEF VisibleInv
  <2> QED BY <1>1, <1>2, <1>4, <1>6, <2>1, <2>2 DEF VisibleInv
<1>15. ScopeInv'
  BY <1>1 DEF ScopeInv, ScopeOK, StagingOK
<1>16. CacheInv'
  BY <1>1 DEF CacheInv
<1>17. CallInv'
  BY <1>1, <1>3, CallKept DEF LogGrows
<1> QED
  BY <1>7, <1>8, <1>9, <1>10, <1>11, <1>12, <1>13, <1>14, <1>15, <1>16, <1>17 DEF ReloadInv

LEMMA PublishBumpStep ==
  ASSUME ReloadInv, PublishBump
  PROVE  ReloadInv'
<1>1. /\ Typed /\ LogInv /\ GateInv /\ BootInv /\ TxInv /\ LockInv /\ FiberInv /\ RegistryInv
      /\ VisibleInv /\ ScopeInv /\ CacheInv /\ CallInv /\ boot = "published" /\ boot' = "ready"
      /\ state' = [state EXCEPT ![1] = "Active"] /\ lifecycle' = [lifecycle EXCEPT ![1] = "free"]
      /\ Bump
      /\ UNCHANGED <<world, gateVars, home, owned, disposalVars, entry, indexVars, scope, txVars, call>>
  BY Instances DEF PublishBump
<1>2. /\ \A g \in Txs : pc[g] \in {"idle", "wait"} /\ home[g] # Target /\ state[g] = "none"
      /\ state[1] = "Starting" /\ disposal[1] = "idle"
  BY <1>1, OnlyFirst DEF BootInv
<1>3. 1 \in Gens /\ home[1] = Target /\ \A g \in Txs : g \in Gens /\ g # 1
  BY Instances
<1>4. /\ state' \in [Gens -> States] /\ state'[1] = "Active" /\ \A f \in Gens \ {1} : state'[f] = state[f]
  BY <1>1, <1>3 DEF Typed, States
<1>5. /\ lifecycle' \in [Gens -> {"free", "activation", "reload", "disposal"}]
      /\ lifecycle'[1] = "free" /\ \A f \in Gens \ {1} : lifecycle'[f] = lifecycle[f]
  BY <1>1, <1>3 DEF Typed
<1>6. active' = active /\ \A f : (Visible(f)' <=> Visible(f)) /\ (Named(f)' <=> Named(f))
  BY <1>1, Unchanged
<1>7. \A f \in Gens : state'[f] = "none" <=> state[f] = "none"
  BY <1>2, <1>4
<1>8. Typed'
  BY <1>1, <1>4, <1>5, CacheEmptied DEF Typed
<1>9. LogInv' /\ GateInv' /\ BootInv'
  BY <1>1, <1>6 DEF LogInv, GateInv, BootInv
<1>10. TxInv'
  <2>1. ASSUME NEW g \in Txs PROVE TxOK(g)'
    <3>1. TxOK(g) /\ (pc[g] # "idle" => old[g] \in Gens) /\ state'[g] = state[g]
      BY <1>3, <1>4, Instances, OldFiber
    <3> QED BY <1>1, <1>6, <1>7, <3>1 DEF TxOK
  <2> QED BY <1>1, <2>1 DEF TxInv
<1>11. LockInv'
  <2>1. ASSUME NEW f \in Gens
        PROVE  /\ lifecycle'[f] = "activation" <=> IF f = 1 THEN boot' # "ready" ELSE pc'[f] \in Activating
               /\ lifecycle'[f] = "reload" <=> \E h \in Txs : old'[h] = f /\ pc'[h] \in Locked
               /\ lifecycle'[f] = "disposal" <=> disposal'[f] \in Body
    <3>1. CASE f = 1
      <4>1. \A h \in Txs : pc[h] \notin Locked
        BY <1>2 DEF Locked, Activating, Prepared, Held, Failing
      <4>2. "idle" \notin Body
        BY DEF Body
      <4> QED BY <1>1, <1>2, <1>5, <3>1, <4>1, <4>2
    <3>2. CASE f # 1
      BY <1>1, <1>5, <3>2 DEF LockInv
    <3> QED BY <3>1, <3>2
  <2>2. /\ \A g, h \in Txs : pc'[g] \in Locked /\ pc'[h] \in Locked /\ old'[g] = old'[h] => g = h
        /\ \A g, h \in Txs : Committing(g)' /\ Committing(h)' => g = h
    BY <1>1 DEF LockInv, Committing
  <2> QED BY <2>1, <2>2 DEF LockInv
<1>12. FiberInv'
  <2>1. ASSUME NEW f \in Gens PROVE FiberOK(f)'
    <3>1. FiberOK(f)
      BY Instances
    <3>2. CASE f = 1
      <4>1. f \notin Txs
        BY <3>2, Instances
      <4> QED BY <1>1, <1>2, <1>4, <3>1, <3>2, <4>1 DEF FiberOK
    <3>3. CASE f # 1
      BY <1>1, <1>4, <1>5, <3>1, <3>3 DEF FiberOK
    <3> QED BY <3>2, <3>3
  <2> QED BY <2>1 DEF FiberInv
<1>13. RegistryInv'
  <2>1. ASSUME NEW g \in Txs PROVE StagedOK(g)'
    <3>1. StagedOK(g) /\ state'[g] = state[g]
      BY <1>3, <1>4, Instances
    <3> QED BY <1>1, <1>6, <3>1 DEF StagedOK, Place
  <2>2. \A f \in Gens : RegisteredOK(f)'
    BY <1>1 DEF RegistryInv, RegisteredOK
  <2> QED BY <2>1, <2>2 DEF RegistryInv
<1>14. VisibleInv'
  <2>1. ServicesFree' <=> ServicesFree
    BY <1>1 DEF ServicesFree
  <2>2. \A h \in Txs : Replaces(h)' <=> Replaces(h)
    BY <1>1 DEF Replaces
  <2> QED BY <1>1, <1>6, <2>1, <2>2 DEF VisibleInv
<1>15. ScopeInv'
  <2>1. ASSUME NEW g \in Txs PROVE StagingOK(g)'
    <3>1. StagingOK(g) /\ state'[g] = state[g]
      BY <1>3, <1>4, Instances
    <3> QED BY <1>1, <3>1 DEF StagingOK
  <2>2. ASSUME NEW s \in Scopes PROVE ScopeOK(s)'
    <3>1. ScopeOK(s) /\ scope[s].fibers \subseteq Gens
      BY Instances DEF Typed, ScopeRec
    <3> QED BY <1>1, <1>7, <3>1 DEF ScopeOK
  <2> QED BY <1>1, <2>1, <2>2 DEF ScopeInv
<1>16. CacheInv'
  BY <1>1, CacheEmptied
<1>17. CallInv'
  BY <1>1, CallKept DEF LogGrows
<1> QED
  BY <1>8, <1>9, <1>10, <1>11, <1>12, <1>13, <1>14, <1>15, <1>16, <1>17 DEF ReloadInv

-----------------------------------------------------------------------------
(***************************************************************************)
(* The cutover, and what follows it.                                       *)
(***************************************************************************)
\* While transaction g has the Scope lock nobody else commits, and its own Fiber is staged.
LEMMA Alone ==
  ASSUME ReloadInv, NEW g \in Txs, pc[g] \in {"publish", "retire", "services", "finish"}
  PROVE  /\ \A h \in Txs \ {g} : ~Committing(h) /\ pc[h] \notin Switched
         /\ boot = "ready" /\ home[g] = g /\ state[g] = "Active" /\ disposal[g] = "idle" /\ g \in owned
         /\ old[g] \in Gens /\ old[g] # g /\ old[g] < g /\ lifecycle[old[g]] = "reload"
         /\ pc[g] \in Held /\ pc[g] \in Locked
<1>1. TxOK(g) /\ LockInv /\ g \in Gens
  BY Instances
<1>2. pc[g] \in Held /\ pc[g] \in Locked /\ Committing(g) /\ pc[g] \notin Cleaning \cup {"ended"}
  BY DEF Held, Locked, Committing, Cleaning
<1>3. boot = "ready" /\ old[g] \in Gens /\ old[g] # g /\ old[g] < g
  BY Ready, OldFiber
<1>4. \A h \in Txs \ {g} : ~Committing(h) /\ pc[h] \notin Switched
  BY <1>1, <1>2 DEF LockInv, Switched, Committing
<1>5. lifecycle[old[g]] = "reload"
  BY <1>1, <1>2, <1>3 DEF LockInv
<1>6. home[g] = g /\ state[g] = "Active" /\ disposal[g] = "idle" /\ g \in owned
  BY <1>1, <1>2 DEF TxOK
<1> QED BY <1>2, <1>3, <1>4, <1>5, <1>6

LEMMA CutoverStep ==
  ASSUME ReloadInv, NEW g \in Txs, Cutover(g)
  PROVE  ReloadInv'
<1>1. /\ Typed /\ LogInv /\ GateInv /\ BootInv /\ TxInv /\ LockInv /\ FiberInv /\ RegistryInv
      /\ VisibleInv /\ ScopeInv /\ CacheInv /\ CallInv /\ TxOK(g) /\ StagedOK(g) /\ StagingOK(g)
      /\ g \in Gens /\ pc[g] = "publish" /\ ServicesFree
  BY Instances DEF Cutover
<1>2. CASE ~(ServicesPrepared(g) /\ Switches(g))
  <2>1. Hop(g, "publish", "undoInvocations")
    BY <1>2 DEF Cutover, Hop
  <2> QED BY <2>1, CommitFails
<1>3. CASE ServicesPrepared(g) /\ Switches(g)
  <2>1. /\ Extends(g) /\ pc' = [pc EXCEPT ![g] = "retire"] /\ Visible(old[g]) /\ g \notin retired
        /\ UNCHANGED <<world, retired, draining, fiberVars, disposalVars, serviceVars, indexVars,
                       scope, boot, old, outcome, call>>
    BY <1>3 DEF Cutover, Switches, Extends, Goto
  <2>2. /\ \A h \in Txs \ {g} : ~Committing(h) /\ pc[h] \notin Switched
        /\ boot = "ready" /\ home[g] = g /\ state[g] = "Active" /\ disposal[g] = "idle"
        /\ old[g] \in Gens /\ old[g] # g /\ old[g] < g
    BY <1>1, Alone
  <2>3. /\ pc' \in [Txs -> PCs] /\ pc'[g] = "retire" /\ \A h \in Txs \ {g} : pc'[h] = pc[h]
    BY <1>1, <2>1 DEF Typed, PCs, Locked, Held
  <2>4. active = old[g] /\ g \in 0..MaxGen
    BY <1>1, <2>1, ReloadAssumption DEF Visible, Gens
  <2>5. /\ log' \in Seq(0..MaxGen) /\ Len(log') = Len(log) + 1 /\ active' = g
        /\ \A f : Named(f)' <=> Named(f) \/ f = g
    BY <1>1, <2>1, <2>4, Extended
  <2>6. (\A f : Visible(f)' <=> f = g) /\ (\A f : Visible(f) <=> f = old[g])
    BY <2>4, <2>5 DEF Visible
  <2>7. disposal[old[g]] = "idle" /\ home[old[g]] = Target
    <3>1. disposal[old[g]] = "idle"
      BY <1>1, <2>1, <2>2 DEF GateInv, Typed
    <3>2. Named(old[g])
      BY <1>1, <2>4, ActiveType
    <3>3. old[g] = 1 \/ old[g] \in Txs \ {g}
      BY <2>2, Instances
    <3>4. home[old[g]] = Target \/ pc[old[g]] \in Switched
      BY <1>1, <2>2, <3>2 DEF VisibleInv
    <3> QED BY <2>2, <3>1, <3>3, <3>4, Instances
  <2>8. Typed'
    <3>1. Len(log') >= 1
      BY <1>1, <2>5, ActiveType
    <3> QED BY <1>1, <2>1, <2>3, <2>5, <3>1 DEF Typed
  <2>9. LogInv'
    <3>1. active # 0 /\ g > active
      BY <2>2, <2>4, <1>1, ReloadAssumption DEF Gens
    <3> QED BY <1>1, <2>1, <2>2, <2>4, <3>1, LogAppend
  <2>10. GateInv' /\ BootInv'
    BY <1>1, <2>1, <2>2, <2>6 DEF GateInv, BootInv
  <2> USE DEF Held, Fresh, Cleaning, Early, Activating, Prepared, Failing, Locked, Switched
  <2>11. \A h \in Txs : pc[h] # "idle" => pc'[h] # "idle"
    BY <2>3
  <2>12. TxInv'
    <3>1. TxOK(g)'
      BY <1>1, <2>1, <2>2, <2>3, <2>6, <2>7, <2>11 DEF TxOK
    <3>2. ASSUME NEW h \in Txs \ {g} PROVE TxOK(h)'
      <4>1. TxOK(h) /\ pc'[h] = pc[h] /\ pc[h] \notin Switched
        BY <2>2, <2>3, Instances
      <4> QED BY <2>1, <2>11, <4>1 DEF TxOK
    <3> QED BY <1>1, <2>1, <3>1, <3>2 DEF TxInv
  <2>13. LockInv'
    <3>1. \A h \in Txs : /\ pc'[h] \in Locked <=> pc[h] \in Locked
                         /\ pc'[h] \in Activating <=> pc[h] \in Activating
                         /\ (Committing(h)' => Committing(h))
      BY <1>1, <2>3 DEF Committing
    <3> QED BY <1>1, <2>1, <3>1, LocksKept
  <2>14. FiberInv'
    <3>1. ASSUME NEW f \in Gens PROVE FiberOK(f)'
      <4>1. FiberOK(f)
        BY Instances
      <4>2. (\E h \in Txs : old[h] = f /\ pc[h] \in Locked \cup {"cleanup"})
            => \E h \in Txs : old'[h] = f /\ pc'[h] \in Locked \cup {"cleanup"}
        BY <1>1, <2>1, <2>3
      <4>3. f \in Txs /\ pc'[f] \in Activating => pc[f] \in Activating
        BY <2>3
      <4> QED BY <2>1, <4>1, <4>2, <4>3 DEF FiberOK
    <3> QED BY <3>1 DEF FiberInv
  <2>15. RegistryInv'
    <3>1. StagedOK(g)'
      BY <1>1, <2>1, <2>2, <2>3 DEF StagedOK, Place, Moved, MovedScope, MovedInvocations, Released, Gone
    <3>2. ASSUME NEW h \in Txs \ {g} PROVE StagedOK(h)'
      <4>1. StagedOK(h) /\ pc'[h] = pc[h] /\ h \in Gens
        BY <2>3, Instances
      <4>2. Visible(h) => home[h] = Target
        BY <2>6, <2>7
      <4> QED BY <2>1, <4>1, <4>2 DEF StagedOK, Place
    <3>3. \A f \in Gens : RegisteredOK(f)'
      BY <1>1, <2>1 DEF RegistryInv, RegisteredOK
    <3> QED BY <3>1, <3>2, <3>3 DEF RegistryInv
  <2>16. VisibleInv'
    <3>1. ~ServicesFree'
      BY <2>3 DEF ServicesFree
    <3>2. ASSUME NEW h \in Txs, pc'[h] \in {"retire", "services"} PROVE entry[Target] = old[h]
      <4>1. h = g
        BY <2>2, <2>3, <3>2
      <4>2. entry[Target] = active
        BY <1>1, <2>2, <2>4, ReloadAssumption DEF VisibleInv, Gens
      <4> QED BY <2>4, <4>1, <4>2
    <3>3. ASSUME NEW f \in Gens, Named(f)' PROVE home[f] = Target \/ pc'[f] \in Switched
      <4>1. CASE f = g
        BY <2>3, <4>1
      <4>2. CASE f # g
        <5>1. f = 1 \/ f \in Txs \ {g}
          BY <4>2, Instances
        <5>2. home[f] = Target \/ pc[f] \in Switched
          BY <1>1, <2>5, <3>3, <4>2 DEF VisibleInv
        <5> QED BY <2>2, <5>1, <5>2, Instances
      <4> QED BY <4>1, <4>2
    <3>4. ASSUME NEW f \in Gens, home[f] = Target, disposal[f] = "idle"
          PROVE  \E h \in Txs : old[h] = f /\ Replaces(h)'
      <4>1. Visible(f) \/ \E h \in Txs : old[h] = f /\ Replaces(h)
        BY <1>1, <2>2, <3>4 DEF VisibleInv
      <4>2. \A h \in Txs : Replaces(h) => Replaces(h)'
        BY <1>1, <2>3 DEF Replaces
      <4>3. Replaces(g)'
        BY <2>3 DEF Replaces
      <4> QED BY <2>6, <4>1, <4>2, <4>3
    <3> QED BY <1>1, <2>1, <2>2, <2>5, <3>1, <3>2, <3>3, <3>4 DEF VisibleInv
  <2>17. ScopeInv'
    <3>1. ASSUME NEW h \in Txs PROVE StagingOK(h)'
      <4>1. StagingOK(h) /\ (h # g => pc'[h] = pc[h])
        BY <2>3, Instances
      <4> QED BY <1>1, <2>1, <2>3, <4>1 DEF StagingOK, PCs
    <3> QED BY <1>1, <2>1, <3>1 DEF ScopeInv, ScopeOK
  <2>18. CacheInv'
    <3>1. ~ServicesFree'
      BY <2>3 DEF ServicesFree
    <3> QED BY <1>1, <2>1, <3>1 DEF CacheInv
  <2>19. CallInv'
    BY <1>1, <2>1, <2>4, CallKept DEF LogGrows
  <2> QED
    BY <2>8, <2>9, <2>10, <2>12, <2>13, <2>14, <2>15, <2>16, <2>17, <2>18, <2>19 DEF ReloadInv
<1> QED BY <1>2, <1>3

\* The old generation is not visible any more when its gate is retired.
LEMMA RetireOldStep ==
  ASSUME ReloadInv, NEW g \in Txs, RetireOld(g)
  PROVE  ReloadInv'
<1>1. /\ Typed /\ LogInv /\ GateInv /\ BootInv /\ TxInv /\ LockInv /\ FiberInv /\ RegistryInv
      /\ VisibleInv /\ ScopeInv /\ CacheInv /\ CallInv /\ TxOK(g) /\ StagedOK(g) /\ StagingOK(g)
      /\ g \in Gens /\ pc[g] = "retire"
      /\ retired' = retired \cup {old[g]} /\ draining' = draining \cup {old[g]}
      /\ pc' = [pc EXCEPT ![g] = "services"]
      /\ UNCHANGED <<world, log, fiberVars, disposalVars, serviceVars, indexVars, scope, boot, old,
                     outcome, call>>
  BY Instances DEF RetireOld, Goto
<1>2. /\ \A h \in Txs \ {g} : ~Committing(h) /\ pc[h] \notin Switched
      /\ boot = "ready" /\ home[g] = g /\ state[g] = "Active" /\ disposal[g] = "idle"
      /\ old[g] \in Gens /\ old[g] # g /\ state[old[g]] # "none"
  BY <1>1, Alone, OldFiber
<1>3. /\ pc' \in [Txs -> PCs] /\ pc'[g] = "services" /\ \A h \in Txs \ {g} : pc'[h] = pc[h]
  BY <1>1 DEF Typed, PCs, Locked, Held
<1>4. active' = active /\ \A f : (Visible(f)' <=> Visible(f)) /\ (Named(f)' <=> Named(f))
  BY <1>1, Unchanged
<1> USE DEF Held, Fresh, Cleaning, Early, Activating, Prepared, Failing, Locked, Switched
<1>5. ~Visible(old[g])
  BY <1>1, <1>2 DEF TxOK, Visible
<1>6. Typed' /\ LogInv' /\ GateInv' /\ BootInv'
  BY <1>1, <1>2, <1>3, <1>4, <1>5 DEF Typed, LogInv, GateInv, BootInv
<1>7. \A h \in Txs : pc[h] # "idle" => pc'[h] # "idle"
  BY <1>3
<1>8. TxInv'
  <2>1. TxOK(g)'
    BY <1>1, <1>2, <1>3, <1>4, <1>7 DEF TxOK
  <2>2. ASSUME NEW h \in Txs \ {g} PROVE TxOK(h)'
    <3>1. TxOK(h) /\ pc'[h] = pc[h]
      BY <1>3, Instances
    <3> QED BY <1>1, <1>4, <1>7, <3>1 DEF TxOK
  <2> QED BY <1>1, <2>1, <2>2 DEF TxInv
<1>9. LockInv'
  <2>1. \A h \in Txs : /\ pc'[h] \in Locked <=> pc[h] \in Locked
                       /\ pc'[h] \in Activating <=> pc[h] \in Activating
                       /\ (Committing(h)' => Committing(h))
    BY <1>1, <1>3 DEF Committing
  <2> QED BY <1>1, <2>1, LocksKept
<1>10. FiberInv'
  <2>1. ASSUME NEW f \in Gens PROVE FiberOK(f)'
    <3>1. FiberOK(f)
      BY Instances
    <3>2. (\E h \in Txs : old[h] = f /\ pc[h] \in Locked \cup {"cleanup"})
          => \E h \in Txs : old'[h] = f /\ pc'[h] \in Locked \cup {"cleanup"}
      BY <1>1, <1>3
    <3>3. f \in Txs /\ pc'[f] \in Activating => pc[f] \in Activating
      BY <1>3
    <3> QED BY <1>1, <1>2, <3>1, <3>2, <3>3 DEF FiberOK
  <2> QED BY <2>1 DEF FiberInv
<1>11. RegistryInv'
  <2>1. StagedOK(g)'
    BY <1>1, <1>2, <1>3, <1>4 DEF StagedOK, Place, Moved, MovedScope, MovedInvocations, Released, Gone
  <2>2. ASSUME NEW h \in Txs \ {g} PROVE StagedOK(h)'
    <3>1. StagedOK(h) /\ pc'[h] = pc[h]
      BY <1>3, Instances
    <3> QED BY <1>1, <1>4, <3>1 DEF StagedOK, Place
  <2>3. \A f \in Gens : RegisteredOK(f)'
    BY <1>1 DEF RegistryInv, RegisteredOK
  <2> QED BY <2>1, <2>2, <2>3 DEF RegistryInv
<1>12. VisibleInv'
  <2>1. ~ServicesFree'
    BY <1>3 DEF ServicesFree
  <2>2. /\ \A h \in Txs : pc'[h] \in {"retire", "services"} => pc[h] \in {"retire", "services"}
        /\ \A h \in Txs : pc[h] \in Switched => pc'[h] \in Switched
        /\ \A h \in Txs : Replaces(h) => Replaces(h)'
    BY <1>1, <1>3 DEF Replaces
  <2>3. ASSUME NEW f \in Gens, Named(f) PROVE home[f] = Target \/ pc'[f] \in Switched
    <3>1. f = 1 \/ f \in Txs
      BY Instances
    <3> QED BY <1>1, <2>2, <2>3, <3>1, Instances DEF VisibleInv
  <2>4. ASSUME NEW f \in Gens, home[f] = Target, disposal[f] = "idle", boot # "registered"
        PROVE  Visible(f) \/ \E h \in Txs : old[h] = f /\ Replaces(h)'
    BY <1>1, <2>2, <2>4 DEF VisibleInv
  <2> QED BY <1>1, <1>4, <2>1, <2>2, <2>3, <2>4 DEF VisibleInv
<1>13. ScopeInv'
  <2>1. ASSUME NEW h \in Txs PROVE StagingOK(h)'
    <3>1. StagingOK(h) /\ (h # g => pc'[h] = pc[h])
      BY <1>3, Instances
    <3> QED BY <1>1, <1>3, <3>1 DEF StagingOK, PCs
  <2> QED BY <1>1, <2>1 DEF ScopeInv, ScopeOK
<1>14. CacheInv'
  <2>1. ~ServicesFree'
    BY <1>3 DEF ServicesFree
  <2> QED BY <1>1, <2>1 DEF CacheInv
<1>15. CallInv'
  BY <1>1, CallKept DEF LogGrows
<1> QED
  BY <1>6, <1>8, <1>9, <1>10, <1>11, <1>12, <1>13, <1>14, <1>15 DEF ReloadInv

\* The services follow the selector, and the cache is emptied.
LEMMA MoveServicesStep ==
  ASSUME ReloadInv, NEW g \in Txs, MoveServices(g)
  PROVE  ReloadInv'
<1>1. /\ Typed /\ LogInv /\ GateInv /\ BootInv /\ TxInv /\ LockInv /\ FiberInv /\ RegistryInv
      /\ VisibleInv /\ ScopeInv /\ CacheInv /\ CallInv /\ TxOK(g) /\ StagedOK(g) /\ StagingOK(g)
      /\ g \in Gens /\ pc[g] = "services" /\ g \in Scopes /\ g # Target /\ Target \in Scopes
      /\ entry' = [entry EXCEPT ![g] = 0, ![Target] = g] /\ Bump
      /\ pc' = [pc EXCEPT ![g] = "finish"]
      /\ UNCHANGED <<world, gateVars, fiberVars, disposalVars, indexVars, scope, boot, old, outcome,
                     call>>
  BY Instances DEF MoveServices, Goto
<1>2. /\ \A h \in Txs \ {g} : ~Committing(h) /\ pc[h] \notin Switched
      /\ boot = "ready" /\ home[g] = g /\ state[g] = "Active" /\ disposal[g] = "idle"
      /\ old[g] \in Gens /\ old[g] # g
  BY <1>1, Alone
<1>3. /\ pc' \in [Txs -> PCs] /\ pc'[g] = "finish" /\ \A h \in Txs \ {g} : pc'[h] = pc[h]
  BY <1>1 DEF Typed, PCs, Locked, Held
<1>4. /\ entry' \in [Scopes -> 0..MaxGen] /\ entry'[g] = 0 /\ entry'[Target] = g
      /\ \A s \in Scopes \ {g, Target} : entry'[s] = entry[s]
  BY <1>1, ReloadAssumption DEF Typed, Gens
<1>5. active' = active /\ \A f : (Visible(f)' <=> Visible(f)) /\ (Named(f)' <=> Named(f))
  BY <1>1, Unchanged
<1> USE DEF Held, Fresh, Cleaning, Early, Activating, Prepared, Failing, Locked, Switched
<1>6. Visible(g) /\ active = g /\ Named(g) /\ disposal[old[g]] \in {"idle", "begun"} /\ entry[Target] = old[g]
  BY <1>1, ActiveType DEF TxOK, Visible, VisibleInv
<1>7. Typed' /\ LogInv' /\ GateInv' /\ BootInv'
  BY <1>1, <1>2, <1>3, <1>4, <1>5, CacheEmptied DEF Typed, LogInv, GateInv, BootInv
<1>8. \A h \in Txs : pc[h] # "idle" => pc'[h] # "idle"
  BY <1>3
<1>9. TxInv'
  <2>1. TxOK(g)'
    BY <1>1, <1>2, <1>3, <1>5, <1>8 DEF TxOK
  <2>2. ASSUME NEW h \in Txs \ {g} PROVE TxOK(h)'
    <3>1. TxOK(h) /\ pc'[h] = pc[h]
      BY <1>3, Instances
    <3> QED BY <1>1, <1>5, <1>8, <3>1 DEF TxOK
  <2> QED BY <1>1, <2>1, <2>2 DEF TxInv
<1>10. LockInv'
  <2>1. \A h \in Txs : /\ pc'[h] \in Locked <=> pc[h] \in Locked
                       /\ pc'[h] \in Activating <=> pc[h] \in Activating
                       /\ (Committing(h)' => Committing(h))
    BY <1>1, <1>3 DEF Committing
  <2> QED BY <1>1, <2>1, LocksKept
<1>11. FiberInv'
  <2>1. ASSUME NEW f \in Gens PROVE FiberOK(f)'
    <3>1. FiberOK(f) /\ f \in Scopes /\ f # Target
      BY Instances
    <3>2. (\E h \in Txs : old[h] = f /\ pc[h] \in Locked \cup {"cleanup"})
          => \E h \in Txs : old'[h] = f /\ pc'[h] \in Locked \cup {"cleanup"}
      BY <1>1, <1>3
    <3>3. f \in Txs /\ pc'[f] \in Activating => pc[f] \in Activating
      BY <1>3
    <3>4. f # g => entry'[f] = entry[f]
      BY <1>4, <3>1
    <3> QED BY <1>1, <1>2, <3>1, <3>2, <3>3, <3>4 DEF FiberOK
  <2> QED BY <2>1 DEF FiberInv
<1>12. RegistryInv'
  <2>1. StagedOK(g)'
    BY <1>1, <1>2, <1>3, <1>4, <1>5, <1>6 DEF StagedOK, Place, Moved, MovedScope, MovedInvocations, Released, Gone
  <2>2. ASSUME NEW h \in Txs \ {g} PROVE StagedOK(h)'
    <3>1. StagedOK(h) /\ pc'[h] = pc[h] /\ entry'[h] = entry[h]
      BY <1>3, <1>4, Instances
    <3> QED BY <1>1, <1>5, <3>1 DEF StagedOK, Place
  <2>3. ASSUME NEW f \in Gens PROVE RegisteredOK(f)'
    <3>1. RegisteredOK(f) /\ (f # g => home[f] # g)
      BY <1>1, Instances DEF TxOK
    <3>2. ASSUME disposal[f] = "remove" PROVE entry'[home[f]] = f
      <4>1. entry[home[f]] = f /\ f # g /\ f # old[g]
        BY <1>2, <1>6, <3>1, <3>2 DEF RegisteredOK
      <4>2. home[f] \in Scopes \ {g, Target}
        BY <1>1, <1>6, <3>1, <4>1 DEF Typed
      <4> QED BY <1>4, <4>1, <4>2
    <3> QED BY <1>1, <3>1, <3>2 DEF RegisteredOK
  <2> QED BY <2>1, <2>2, <2>3 DEF RegistryInv
<1>13. VisibleInv'
  <2>1. /\ \A h \in Txs : pc'[h] \notin {"retire", "services"}
        /\ \A h \in Txs : pc[h] \in Switched => pc'[h] \in Switched
        /\ \A h \in Txs : Replaces(h) => Replaces(h)'
    BY <1>1, <1>2, <1>3 DEF Replaces
  <2>2. ASSUME NEW f \in Gens, Named(f) PROVE home[f] = Target \/ pc'[f] \in Switched
    <3>1. f = 1 \/ f \in Txs
      BY Instances
    <3> QED BY <1>1, <2>1, <2>2, <3>1, Instances DEF VisibleInv
  <2>3. ASSUME NEW f \in Gens, home[f] = Target, disposal[f] = "idle", boot # "registered"
        PROVE  Visible(f) \/ \E h \in Txs : old[h] = f /\ Replaces(h)'
    BY <1>1, <2>1, <2>3 DEF VisibleInv
  <2> QED BY <1>1, <1>4, <1>5, <1>6, <2>1, <2>2, <2>3 DEF VisibleInv
<1>14. ScopeInv'
  <2>1. ASSUME NEW h \in Txs PROVE StagingOK(h)'
    <3>1. StagingOK(h) /\ (h # g => pc'[h] = pc[h])
      BY <1>3, Instances
    <3> QED BY <1>1, <1>3, <3>1 DEF StagingOK, PCs
  <2> QED BY <1>1, <2>1 DEF ScopeInv, ScopeOK
<1>15. CacheInv' /\ CallInv'
  <2>1. ASSUME NEW f \in Gens, entry[f] = f PROVE entry'[f] = f \/ Named(f)'
    <3>1. f \in Scopes /\ f # Target
      BY Instances
    <3> QED BY <1>4, <1>5, <1>6, <2>1, <3>1
  <2>2. CallInv'
    BY <1>1, <2>1, CallKept DEF LogGrows
  <2> QED BY <1>1, <2>2, CacheEmptied
<1> QED
  BY <1>7, <1>9, <1>10, <1>11, <1>12, <1>13, <1>14, <1>15 DEF ReloadInv

\* The binding of the new Fiber is committed and the locks are given back.
LEMMA FinishCommitStep ==
  ASSUME ReloadInv, NEW g \in Txs, FinishCommit(g)
  PROVE  ReloadInv'
<1>1. /\ Typed /\ LogInv /\ GateInv /\ BootInv /\ TxInv /\ LockInv /\ FiberInv /\ RegistryInv
      /\ VisibleInv /\ ScopeInv /\ CacheInv /\ CallInv /\ TxOK(g) /\ StagedOK(g) /\ StagingOK(g)
      /\ g \in Gens /\ pc[g] = "finish" /\ g \in Scopes /\ g # Target /\ Target \in Scopes
      /\ home' = [home EXCEPT ![g] = Target] /\ owned' = owned \ {g}
      /\ lifecycle' = [lifecycle EXCEPT ![old[g]] = "free"]
      /\ pc' = [pc EXCEPT ![g] = "cleanup"]
      /\ UNCHANGED <<world, gateVars, state, disposalVars, serviceVars, indexVars, scope, boot, old,
                     outcome, call>>
  BY Instances DEF FinishCommit, Goto
<1>2. /\ \A h \in Txs \ {g} : ~Committing(h) /\ pc[h] \notin Switched
      /\ boot = "ready" /\ home[g] = g /\ state[g] = "Active" /\ disposal[g] = "idle"
      /\ old[g] \in Gens /\ old[g] # g /\ lifecycle[old[g]] = "reload" /\ pc[g] \in Locked
  BY <1>1, Alone
<1>3. /\ pc' \in [Txs -> PCs] /\ pc'[g] = "cleanup" /\ \A h \in Txs \ {g} : pc'[h] = pc[h]
  BY <1>1 DEF Typed, PCs, Cleaning
<1>4. /\ home' \in [Gens -> Scopes] /\ home'[g] = Target /\ \A f \in Gens \ {g} : home'[f] = home[f]
  BY <1>1 DEF Typed
<1>5. /\ lifecycle' \in [Gens -> {"free", "activation", "reload", "disposal"}]
      /\ lifecycle'[old[g]] = "free" /\ \A f \in Gens \ {old[g]} : lifecycle'[f] = lifecycle[f]
  BY <1>1, <1>2 DEF Typed
<1>6. active' = active /\ \A f : (Visible(f)' <=> Visible(f)) /\ (Named(f)' <=> Named(f))
  BY <1>1, Unchanged
<1> USE DEF Held, Fresh, Cleaning, Early, Activating, Prepared, Failing, Locked, Switched
<1>7. Visible(g) /\ Named(g)
  BY <1>1, ActiveType DEF TxOK, Visible
<1>8. /\ {invocation[g], declared[g], member[g], child[g]} = {Target} /\ entry[g] = 0
  BY <1>1 DEF StagedOK, Place, Moved, MovedScope, MovedInvocations
<1>9. Typed' /\ LogInv' /\ GateInv' /\ BootInv'
  BY <1>1, <1>2, <1>3, <1>4, <1>5, <1>6 DEF Typed, LogInv, GateInv, BootInv
<1>10. \A h \in Txs : pc[h] # "idle" => pc'[h] # "idle"
  BY <1>3
<1>11. TxInv'
  <2>1. TxOK(g)'
    BY <1>1, <1>2, <1>3, <1>4, <1>6, <1>10 DEF TxOK
  <2>2. ASSUME NEW h \in Txs \ {g} PROVE TxOK(h)'
    <3>1. TxOK(h) /\ pc'[h] = pc[h] /\ h \in Gens /\ (pc[h] # "idle" => old[h] \in Gens)
      BY <1>3, Instances, OldFiber
    <3>2. home'[h] = home[h] /\ (pc[h] # "idle" /\ home[old[h]] = Target => home'[old[h]] = Target)
      BY <1>4, <3>1
    <3> QED BY <1>1, <1>6, <1>10, <3>1, <3>2 DEF TxOK
  <2>3. home'[1] = Target
    BY <1>4, Instances
  <2> QED BY <2>1, <2>2, <2>3 DEF TxInv
<1>12. LockInv'
  <2>1. \A h \in Txs : /\ pc'[h] \in Locked <=> pc[h] \in Locked /\ h # g
                       /\ pc'[h] \in Activating <=> pc[h] \in Activating
                       /\ (Committing(h)' => Committing(h))
    BY <1>1, <1>3 DEF Committing
  <2>2. \A f \in Gens : f = 1 \/ f \in Txs
    BY Instances
  <2> HIDE DEF Held, Fresh, Cleaning, Early, Activating, Prepared, Failing, Locked, Switched
  <2>3. \A h \in Txs : pc[h] \in Locked /\ old[h] = old[g] => h = g
    BY <1>1, <1>2 DEF LockInv
  <2>4. ASSUME NEW f \in Gens
        PROVE  /\ lifecycle'[f] = "activation" <=> IF f = 1 THEN boot' # "ready" ELSE pc'[f] \in Activating
               /\ lifecycle'[f] = "reload" <=> \E h \in Txs : old'[h] = f /\ pc'[h] \in Locked
               /\ lifecycle'[f] = "disposal" <=> disposal'[f] \in Body
    <3>1. CASE f = old[g]
      BY <1>1, <1>2, <1>5, <2>1, <2>2, <2>3, <3>1 DEF LockInv
    <3>2. CASE f # old[g]
      BY <1>1, <1>2, <1>5, <2>1, <2>2, <3>2 DEF LockInv
    <3> QED BY <3>1, <3>2
  <2>5. /\ \A h, k \in Txs : pc'[h] \in Locked /\ pc'[k] \in Locked /\ old'[h] = old'[k] => h = k
        /\ \A h, k \in Txs : Committing(h)' /\ Committing(k)' => h = k
    BY <1>1, <2>1 DEF LockInv
  <2> QED BY <2>4, <2>5 DEF LockInv
<1>13. FiberInv'
  <2>1. ASSUME NEW f \in Gens PROVE FiberOK(f)'
    <3>1. FiberOK(f)
      BY Instances
    <3>2. (\E h \in Txs : old[h] = f /\ pc[h] \in Locked \cup {"cleanup"})
          => \E h \in Txs : old'[h] = f /\ pc'[h] \in Locked \cup {"cleanup"}
      BY <1>1, <1>3
    <3>3. f \in Txs /\ pc'[f] \in Activating => pc[f] \in Activating
      BY <1>3
    <3>4. f = g \/ home'[f] = home[f]
      BY <1>4
    <3>5. state[f] = "none" => lifecycle'[f] = "free"
      BY <1>5, <3>1 DEF FiberOK
    <3> QED BY <1>1, <1>2, <3>1, <3>2, <3>3, <3>4, <3>5 DEF FiberOK
  <2> QED BY <2>1 DEF FiberInv
<1>14. RegistryInv'
  <2>1. StagedOK(g)'
    BY <1>1, <1>2, <1>3, <1>4, <1>8 DEF StagedOK, Released, Gone
  <2>2. ASSUME NEW h \in Txs \ {g} PROVE StagedOK(h)'
    <3>1. StagedOK(h) /\ pc'[h] = pc[h] /\ home'[h] = home[h]
      BY <1>3, <1>4, Instances
    <3> QED BY <1>1, <1>6, <3>1 DEF StagedOK, Place
  <2>3. ASSUME NEW f \in Gens PROVE RegisteredOK(f)'
    <3>1. RegisteredOK(f)
      BY Instances
    <3>2. CASE f = g
      BY <1>1, <1>2, <1>4, <1>8, <3>2 DEF RegisteredOK, Unregistered, Released, Gone
    <3>3. CASE f # g
      BY <1>1, <1>4, <3>1, <3>3 DEF RegisteredOK
    <3> QED BY <3>2, <3>3
  <2> QED BY <2>1, <2>2, <2>3 DEF RegistryInv
<1>15. (ServicesFree' <=> ServicesFree) /\ \A h \in Txs : pc'[h] \in {"retire", "services"} => pc[h] \in {"retire", "services"}
  BY <1>1, <1>3 DEF ServicesFree
<1>16. VisibleInv'
  <2>1. \A h \in Txs : Replaces(h) => Replaces(h)'
    BY <1>1, <1>3 DEF Replaces
  <2>2. ASSUME NEW f \in Gens, Named(f) PROVE home'[f] = Target \/ pc'[f] \in Switched
    <3>1. f = 1 \/ f \in Txs
      BY Instances
    <3> QED BY <1>1, <1>3, <1>4, <2>2, <3>1, Instances DEF VisibleInv
  <2>3. ASSUME NEW f \in Gens, home'[f] = Target PROVE Named(f)
    BY <1>1, <1>2, <1>4, <1>7, <2>3 DEF VisibleInv
  <2>4. ASSUME NEW f \in Gens, home'[f] = Target, disposal[f] = "idle"
        PROVE  Visible(f) \/ \E h \in Txs : old[h] = f /\ Replaces(h)'
    BY <1>1, <1>2, <1>4, <1>7, <2>1, <2>4 DEF VisibleInv
  <2> QED BY <1>1, <1>6, <1>15, <2>2, <2>3, <2>4 DEF VisibleInv
<1>17. ScopeInv'
  <2>1. ASSUME NEW h \in Txs PROVE StagingOK(h)'
    <3>1. StagingOK(h) /\ (h # g => pc'[h] = pc[h] /\ home'[h] = home[h])
      BY <1>3, <1>4, Instances
    <3> QED BY <1>1, <1>3, <1>4, <3>1 DEF StagingOK, PCs
  <2> QED BY <1>1, <2>1 DEF ScopeInv, ScopeOK
<1>18. CacheInv' /\ CallInv'
  BY <1>1, <1>6, <1>15, CacheKept, CallKept DEF LogGrows
<1> QED
  BY <1>9, <1>11, <1>12, <1>13, <1>14, <1>16, <1>17, <1>18 DEF ReloadInv

-----------------------------------------------------------------------------
(***************************************************************************)
(* The invariant is inductive.                                             *)
(***************************************************************************)
LEMMA ReloadInit ==
  ASSUME Init
  PROVE  ReloadInv
<1> USE DEF Init
<1>1. /\ MaxGen \in Nat \ {0} /\ 1 \in Gens /\ 1 \in 0..MaxGen /\ 0 \in 0..MaxGen /\ Target \in Scopes
      /\ \A g \in Txs : g \in Gens /\ g \in Scopes /\ g # Target /\ g # 1 /\ g # NoScope
      /\ \A f \in Gens : f \in Scopes /\ f # Target /\ f # NoScope /\ (f = 1 \/ f \in Txs)
  BY ReloadAssumption DEF Gens, Txs, Scopes, Target, NoScope
<1>2. log = <<0>> /\ log \in Seq(0..MaxGen) /\ Len(log) = 1 /\ log[1] = 0 /\ DOMAIN log = 1..1
  BY <1>1
<1>3. active = 0 /\ \A f \in Gens : ~Visible(f) /\ ~Named(f)
  BY <1>1, <1>2, ReloadAssumption DEF active, Visible, Named, Gens
<1>4. /\ NoCall \in CallRec /\ NoCall.pc = "idle" /\ NoCall.from = 1 /\ NoCall.kind = "get"
      /\ NoCall.owner = 0 /\ NoCall.attempt = 1
  BY <1>1 DEF NoCall, CallRec, CallPCs, Scopes, Target
<1>5. \A f \in Gens : /\ state[f] = IF f = 1 THEN "Starting" ELSE "none"
                      /\ home[f] = IF f = 1 THEN Target ELSE f
                      /\ lifecycle[f] = IF f = 1 THEN "activation" ELSE "free"
                      /\ disposal[f] = "idle" /\ entry[f] = 0
                      /\ {invocation[f], declared[f], member[f], child[f]} = {IF f = 1 THEN Target ELSE NoScope}
  BY <1>1
<1>6. \A g \in Txs : pc[g] = "idle" /\ old[g] = 0 /\ outcome[g] = "none"
  OBVIOUS
<1>7. \A s \in Scopes : /\ scope[s] \in ScopeRec /\ scope[s].step = "idle" /\ scope[s].kids = {}
                        /\ scope[s].fibers = {} /\ scope[s].state = IF s = Target THEN "Active" ELSE "none"
  BY DEF ScopeRec
<1>8. Typed
  <2>1. /\ state \in [Gens -> States] /\ home \in [Gens -> Scopes]
        /\ lifecycle \in [Gens -> {"free", "activation", "reload", "disposal"}]
        /\ disposal \in [Gens -> Steps] /\ entry \in [Scopes -> 0..MaxGen]
        /\ cache \in [Scopes -> {<<>>} \cup Locations]
    BY <1>1 DEF States, Steps
  <2>2. /\ invocation \in [Gens -> Scopes \cup {NoScope}] /\ declared \in [Gens -> Scopes \cup {NoScope}]
        /\ member \in [Gens -> Scopes \cup {NoScope}] /\ child \in [Gens -> Scopes \cup {NoScope}]
    BY <1>1
  <2>3. scope \in [Scopes -> ScopeRec]
    BY <1>7
  <2>4. /\ pc \in [Txs -> PCs] /\ old \in [Txs -> 0..MaxGen]
        /\ outcome \in [Txs -> {"none", "Refused", "Failed", "CommittedWithCleanupPending",
                                "Completed", "ReloadCommitted"}]
    BY <1>1 DEF PCs
  <2>5. call \in [Callers -> CallRec]
    BY <1>4
  <2> QED BY <1>2, <2>1, <2>2, <2>3, <2>4, <2>5 DEF Typed
<1>9. LogInv
  BY <1>2 DEF LogInv
<1>10. GateInv
  BY <1>5 DEF GateInv
<1>11. BootInv
  BY <1>1, <1>5, <1>6, <1>7 DEF BootInv
<1>12. TxInv
  BY <1>1, <1>5, <1>6 DEF TxInv, TxOK, Fresh, Cleaning, Held, Switched
<1>13. LockInv
  <2>1. \A g \in Txs : pc[g] \notin Locked /\ pc[g] \notin Activating /\ ~Committing(g)
    BY <1>6 DEF Locked, Activating, Prepared, Held, Failing, Committing
  <2>2. "idle" \notin Body
    BY DEF Body
  <2> QED BY <1>1, <1>5, <2>1, <2>2 DEF LockInv
<1>14. FiberInv
  BY <1>1, <1>5, <1>6 DEF FiberInv, FiberOK, Activating
<1>15. RegistryInv
  <2>1. ASSUME NEW g \in Txs PROVE StagedOK(g)
    BY <1>1, <1>5, <1>6, <2>1 DEF StagedOK, Held, Prepared, Released, Gone
  <2>2. ASSUME NEW f \in Gens PROVE RegisteredOK(f)
    BY <1>1, <1>5, <2>2 DEF RegisteredOK, Unregistered, Released, Gone
  <2> QED BY <2>1, <2>2 DEF RegistryInv
<1>16. VisibleInv
  BY <1>3, <1>6 DEF VisibleInv
<1>17. ScopeInv
  <2>1. Target # 1 /\ 1 \in Scopes
    BY <1>1 DEF Target
  <2> QED BY <1>1, <1>6, <1>7, <2>1 DEF ScopeInv, ScopeOK, StagingOK, Activating
<1>18. CacheInv
  <2>1. {s \in Scopes : cache[s] # <<>>} = {}
    OBVIOUS
  <2>2. Cardinality({s \in Scopes : cache[s] # <<>>}) <= MaxCache
    <3>1. Cardinality({}) = 0 /\ 0 <= MaxCache
      BY FS_EmptySet, ReloadAssumption
    <3> QED BY <2>1, <3>1, Zenon
  <2> QED BY <2>2 DEF CacheInv
<1>19. CallInv
  BY <1>2, <1>4 DEF CallInv, CallOK, Returned, Got
<1> QED
  BY <1>8, <1>9, <1>10, <1>11, <1>12, <1>13, <1>14, <1>15, <1>16, <1>17, <1>18, <1>19 DEF ReloadInv

LEMMA TxSteps ==
  ASSUME ReloadInv, NEW g \in Txs,
         ReloadBegin(g) \/ TxStep(g) \/ StartFails(g) \/ CleanupPending(g)
  PROVE  ReloadInv'
<1>1. CASE ReloadBegin(g)
  BY <1>1, ReloadBeginStep
<1>2. CASE StagingStep(g)
  BY <1>2, ReloadLockStep, CreateStagingStep, InstallStep, ActivateStep, RegisterStep, QuietSteps,
     FailStagedStep, FinishStagedStep
     DEF StagingStep
<1>3. CASE CommitStep(g)
  BY <1>3, QuietSteps, FenceStep, CommitMoves, CutoverStep, RetireOldStep, MoveServicesStep,
     FinishCommitStep
     DEF CommitStep
<1>4. CASE EndStep(g)
  BY <1>4, DropStagedStep, QuietSteps, StagingScopeBegins, StagingDroppedStep, RestoreOldStep,
     CleanupOldStep, CleanupReports
     DEF EndStep
<1>5. CASE StartFails(g)
  BY <1>5, FailStagedStep
<1>6. CASE CleanupPending(g)
  BY <1>6, CleanupReports
<1> QED BY <1>1, <1>2, <1>3, <1>4, <1>5, <1>6 DEF TxStep

LEMMA CallerSteps ==
  ASSUME ReloadInv, NEW c \in Callers, LookupBegin(c) \/ InvokeBegin(c) \/ CallStep(c)
  PROVE  ReloadInv'
BY LookupBeginStep, LookupPathStep, LookupOwnedStep, LookupCachedStep, LookupWalkStep,
   LookupAcquireStep, InvokeBeginStep, InvokeSnapshotStep, InvokeStep, CallEndsStep
   DEF CallStep

LEMMA ReloadNext ==
  ASSUME ReloadInv, [Next]_vars
  PROVE  ReloadInv'
<1>1. CASE Publish \/ PublishBump
  BY <1>1, PublishStep, PublishBumpStep
<1>2. CASE \E g \in Txs : ReloadBegin(g) \/ TxStep(g) \/ StartFails(g) \/ CleanupPending(g)
  BY <1>2, TxSteps
<1>3. CASE \E f \in Gens : DisposeStep(f) \/ DrainTimesOut(f) \/ OutsideDispose(f)
  BY <1>3, DisposalSteps, OutsideDisposeStep
<1>4. CASE \E s \in Scopes : ScopeStep(s)
  BY <1>4, ScopeSteps
<1>5. CASE OutsideScope \/ OutsideShutdown
  BY <1>5, OutsideScopeStep, OutsideShutdownStep
<1>6. CASE \E c \in Callers : LookupBegin(c) \/ InvokeBegin(c) \/ CallStep(c)
  BY <1>6, CallerSteps
<1>7. CASE UNCHANGED vars
  BY <1>7, ReloadStutters
<1> QED BY <1>1, <1>2, <1>3, <1>4, <1>5, <1>6, <1>7 DEF Next

\* The invariant the properties follow from: what every step of a transaction, of a
\* disposal and of a call has left in the Fiber's record, the registries and the selector.
THEOREM ReloadInvariant == Spec => []ReloadInv
<1>1. Init => ReloadInv
  BY ReloadInit
<1>2. ReloadInv /\ [Next]_vars => ReloadInv'
  BY ReloadNext
<1> QED BY <1>1, <1>2, PTL DEF Spec

-----------------------------------------------------------------------------
(***************************************************************************)
(* What the invariant says of the properties.                              *)
(***************************************************************************)
\* Types; GenerationSelector's history is bounded because no generation is named twice,
\* and insert_cached_resolution keeps the cache within max_service_cache_entries.
THEOREM ReloadTypes == Spec => []TypeOK
<1>1. ReloadInv => TypeOK
  <2> SUFFICES ASSUME ReloadInv PROVE TypeOK
    OBVIOUS
  <2>1. Typed /\ LogInv /\ MaxGen \in Nat \ {0}
    BY Instances, ReloadAssumption
  <2>2. Len(log) \in 1..(2 * MaxGen + 1)
    <3>1. /\ Len(log) \in Nat \ {0} /\ DOMAIN log = 1..Len(log)
          /\ \A i \in 1..Len(log) : log[i] \in 0..MaxGen
      BY <2>1, ActiveType, ElementOfSeq DEF Typed
    <3>2. \A i \in 1..Len(log) : log[i] # 0 => i <= MaxGen + 1
      <4>1. ASSUME NEW i \in 1..Len(log), log[i] # 0 PROVE i <= MaxGen + 1
        <5>1. log[i] >= i - 1 /\ log[i] \in 0..MaxGen
          BY <2>1, <3>1, <4>1 DEF LogInv
        <5> QED BY <2>1, <3>1, <5>1
      <4> QED BY <4>1
    <3>3. CASE Len(log) <= 2
      BY <2>1, <3>1, <3>3
    <3>4. CASE Len(log) > 2
      <4>1. Len(log) - 1 \in 2..(Len(log) - 1) /\ Len(log) - 1 \in 1..Len(log)
        BY <3>1, <3>4
      <4>2. log[Len(log) - 1] # 0
        BY <2>1, <4>1 DEF LogInv
      <4>3. Len(log) - 1 <= MaxGen + 1
        BY <3>2, <4>1, <4>2
      <4> QED BY <2>1, <3>1, <4>3
    <3> QED BY <3>1, <3>3, <3>4
  <2>3. \A s \in Scopes : cache[s] = <<>> \/ cache[s] \in (Scopes \cup {NoScope}) \X (0..MaxGen)
    BY <2>1 DEF Typed, Locations
  <2>4. ASSUME NEW f \in Gens
        PROVE  {invocation[f], declared[f], member[f], child[f]} \subseteq {NoScope, f, Target}
    <3>1. CASE f = 1
      <4>1. RegisteredOK(f) /\ home[f] = Target
        BY <3>1, Instances
      <4> QED BY <4>1 DEF RegisteredOK
    <3>2. CASE f \in Txs
      <4>1. StagedOK(f) /\ home[f] \in {f, Target}
        BY <3>2, Instances DEF TxOK
      <4> QED BY <4>1 DEF StagedOK, Place
    <3> QED BY <3>1, <3>2, Instances
  <2>5. \A c \in Callers : call[c].found \in 0..MaxGen /\ call[c].middleware \in 0..MaxGen
    <3>1. \A c \in Callers : call[c] \in CallRec
      BY <2>1 DEF Typed
    <3> QED BY <3>1 DEF CallRec
  <2> QED BY <2>1, <2>2, <2>3, <2>4, <2>5 DEF TypeOK, Typed
<1> QED BY <1>1, ReloadInvariant, PTL

\* resolve_owned, cached_resolution, the walk and InvocationRegistry::snapshot miss the
\* plugin only when the selector was at NONE at some moment of the call, and give up after
\* one retry only when it changed twice or the caller's own generation was retired.
THEOREM ReloadHasNoGap == Spec => []NoGap
<1>1. ReloadInv => NoGap
  <2> SUFFICES ASSUME ReloadInv, NEW c \in Callers
               PROVE  /\ call[c].pc = "absent" => 0 \in During(c)
                      /\ call[c].pc = "changed" =>
                           0 \in During(c) \/ Changes(c) >= 2 \/ call[c].owner \in retired
    BY DEF NoGap
  <2>1. CallOK(c) /\ call[c].from \in Nat
    BY Instances, CallFields
  <2>2. Since(c, 0, 0) => 0 \in During(c)
    BY <2>1 DEF Since, During
  <2> QED BY <2>1, <2>2 DEF CallOK
<1> QED BY <1>1, ReloadInvariant, PTL

\* A lease that try_get or invoke returns is for a generation the selector named during
\* the call, or the caller's own; and one snapshot takes handler and middleware together.
THEOREM NewWorkIsNew == Spec => []NewWorkSeesNew
<1>1. ReloadInv => NewWorkSeesNew
  <2> SUFFICES ASSUME ReloadInv, NEW c \in Callers, call[c].pc = "held"
               PROVE  /\ call[c].found \in During(c) \cup {call[c].owner}
                      /\ call[c].found >= call[c].owner
                      /\ call[c].kind = "invoke" => call[c].middleware = call[c].found
    BY DEF NewWorkSeesNew
  <2>1. CallOK(c) /\ call[c].from \in Nat
    BY Instances, CallFields
  <2>2. Since(c, 0, call[c].found) => call[c].found \in During(c)
    BY <2>1 DEF Since, During
  <2> QED BY <2>1, <2>2 DEF CallOK, Got
<1> QED BY <1>1, ReloadInvariant, PTL

\* commit_staged_revision keeps the Scope lock and the Fiber's record until home, indexes,
\* selector and services agree, so whoever can take both sees one committed revision.
THEOREM CommitsTogether == Spec => []CommittedTogether
<1>1. ReloadInv => CommittedTogether
  <2> SUFFICES ASSUME ReloadInv, NEW f \in Gens, ScopesFree, RecordFree(f), Visible(f)
               PROVE  /\ home[f] = Target /\ member[f] = Target /\ declared[f] = Target
                      /\ child[f] = Target /\ invocation[f] = Target /\ entry[Target] = f
                      /\ f \notin owned
    BY DEF CommittedTogether
  <2>1. /\ Typed /\ GateInv /\ VisibleInv /\ RegisteredOK(f) /\ (f = 1 \/ f \in Txs) /\ f # Target
    BY Instances
  <2>2. active = f /\ f # 0 /\ Named(f)
    BY <2>1, ActiveType DEF Visible, Target
  <2>3. home[f] = Target
    <3>1. f \in Txs => pc[f] \notin Switched
      BY DEF RecordFree, Committing, Switched
    <3> QED BY <2>1, <2>2, <3>1, Instances DEF VisibleInv
  <2>4. disposal[f] = "idle"
    BY <2>1 DEF GateInv, Typed
  <2>5. ServicesFree
    BY DEF ScopesFree, ServicesFree, Committing
  <2>6. entry[Target] = f
    BY <2>1, <2>2, <2>5 DEF VisibleInv
  <2>7. f \notin owned
    <3>1. owned \subseteq Txs
      BY <2>1 DEF Typed
    <3>2. f \in Txs => TxOK(f)
      BY Instances
    <3> QED BY <2>1, <2>3, <3>1, <3>2 DEF TxOK
  <2> QED BY <2>1, <2>3, <2>4, <2>6, <2>7 DEF RegisteredOK
<1> QED BY <1>1, ReloadInvariant, PTL

\* rollback_reload: once it has reported the failure, the old Fiber is Active and resolvable
\* unless it is disposed of or replaced, and the staged one is in no registry.
THEOREM RollbackIsClean == Spec => []RollbackRestores
<1>1. ReloadInv => RollbackRestores
  <2> SUFFICES ASSUME ReloadInv, NEW g \in Txs, outcome[g] = "Failed"
               PROVE  /\ state[old[g]] # "Reloading" \/ \E h \in Txs \ {g} : old[h] = old[g]
                      /\ \/ disposal[old[g]] # "idle"
                         \/ Visible(old[g]) /\ entry[Target] = old[g]
                         \/ \E h \in Txs \ {g} : old[h] = old[g] /\ Replaces(h)
                      /\ ~Visible(g)
                      /\ disposal[g] # "terminated" =>
                           entry[g] = 0 /\ invocation[g] = NoScope /\ child[g] = NoScope
                      /\ disposal[g] # "terminated" /\ scope[Target].state = "Active" =>
                           member[g] = NoScope /\ declared[g] = NoScope
    BY DEF RollbackRestores
  <2>1. /\ Typed /\ VisibleInv /\ TxOK(g) /\ StagedOK(g) /\ FiberOK(g) /\ RegisteredOK(g)
        /\ g \in Gens /\ g # Target
    BY Instances
  <2>2. pc[g] = "ended" /\ home[g] = g
    BY <2>1 DEF TxOK
  <2>3. /\ pc[g] \notin Locked \cup {"cleanup"} /\ pc[g] \notin Switched /\ ~Replaces(g)
    BY <2>2 DEF Locked, Activating, Prepared, Held, Failing, Switched, Replaces
  <2>4. /\ boot = "ready" /\ old[g] \in Gens /\ old[g] \notin owned /\ state[old[g]] # "none"
    BY <2>2, Ready, OldFiber
  <2>5. FiberOK(old[g]) /\ (old[g] = 1 \/ old[g] \in Txs)
    BY <2>4, Instances
  <2>6. state[old[g]] # "Reloading" \/ \E h \in Txs \ {g} : old[h] = old[g]
    BY <2>3, <2>5 DEF FiberOK
  <2>7. ASSUME disposal[old[g]] = "idle"
        PROVE  \/ Visible(old[g]) /\ entry[Target] = old[g]
               \/ \E h \in Txs \ {g} : old[h] = old[g] /\ Replaces(h)
    <3>1. home[old[g]] = Target
      <4>1. old[g] \in Txs => TxOK(old[g]) /\ old[g] # Target
        BY Instances
      <4> QED BY <2>4, <2>5, <2>7, <4>1, Instances DEF TxOK
    <3>2. Visible(old[g]) \/ \E h \in Txs : old[h] = old[g] /\ Replaces(h)
      BY <2>1, <2>4, <2>7, <3>1 DEF VisibleInv
    <3>3. ASSUME Visible(old[g]) PROVE entry[Target] = old[g]
      <4>1. ServicesFree
        <5> SUFFICES ASSUME NEW h \in Txs, pc[h] \in {"retire", "services"} PROVE FALSE
          BY DEF ServicesFree
        <5>1. TxOK(h) /\ h # Target
          BY Instances
        <5>2. Visible(h) /\ home[h] # Target
          BY <5>1 DEF TxOK, Switched, Cleaning
        <5> QED BY <3>1, <3>3, <5>2 DEF Visible
      <4>2. active = old[g] /\ active # 0
        BY <2>4, <3>3, ReloadAssumption DEF Visible, Gens
      <4> QED BY <2>1, <4>1, <4>2 DEF VisibleInv
    <3> QED BY <2>3, <3>2, <3>3
  <2>8. ~Visible(g)
    <3>1. Visible(g) => Named(g)
      BY <2>1, ActiveType DEF Visible
    <3> QED BY <2>1, <2>2, <2>3, <3>1 DEF VisibleInv
  <2>9. ASSUME disposal[g] # "terminated"
        PROVE  /\ entry[g] = 0 /\ invocation[g] = NoScope /\ child[g] = NoScope
               /\ scope[Target].state = "Active" => member[g] = NoScope /\ declared[g] = NoScope
    <3>1. CASE state[g] = "none"
      BY <2>1, <3>1 DEF FiberOK
    <3>2. CASE state[g] # "none"
      <4>1. disposal[g] \in Over
        BY <2>1, <2>2, <3>2 DEF TxOK
      <4>2. disposal[g] \in Released /\ disposal[g] \in Unregistered
        BY <2>9, <4>1 DEF Over, Released, Unregistered, Gone
      <4>3. scope[Target].state = "Active" => disposal[g] \in Gone
        BY <2>1, <2>9, <4>1 DEF Over, FiberOK
      <4> QED BY <2>1, <2>2, <4>2, <4>3 DEF StagedOK, RegisteredOK
    <3> QED BY <3>1, <3>2
  <2> QED BY <2>6, <2>7, <2>8, <2>9
<1> QED BY <1>1, ReloadInvariant, PTL

\* ServiceRegistry: between its critical sections a cached answer is what the walk would
\* give, because the epoch moves whenever a location could have changed.
THEOREM CacheAnswersExactly == Spec => []CacheExact
<1>1. ReloadInv => CacheExact
  <2> SUFFICES ASSUME ReloadInv
               PROVE  /\ \A s \in Scopes :
                           ServicesFree /\ boot # "published" /\ CacheHit(s) =>
                             cache[s][2] = Resolution(Path(s))[2]
                      /\ Cardinality({s \in Scopes : cache[s] # <<>>}) <= MaxCache
    BY DEF CacheExact
  <2>1. Typed /\ VisibleInv /\ CacheInv
    BY Instances
  <2>2. ASSUME NEW s \in Scopes, ServicesFree, boot # "published", CacheHit(s)
        PROVE  cache[s][2] = Resolution(Path(s))[2]
    <3>1. Resolution(Path(s))[2] = active
      BY <2>1, <2>2, Resolves
    <3>2. cache[s][2] = active
      <4>1. CASE cache[s][2] # 0
        BY <2>1, <2>2, <4>1, CacheProperties
      <4>2. CASE cache[s][2] = 0
        BY <2>1, <2>2, <4>2, CacheProperties
      <4> QED BY <4>1, <4>2
    <3> QED BY <3>1, <3>2
  <2> QED BY <2>1, <2>2 DEF CacheInv
<1> QED BY <1>1, ReloadInvariant, PTL
=============================================================================
