------------------------------ MODULE EventBus ------------------------------
(***************************************************************************)
(* The event bus (cordis-runtime/src/event_bus.rs) for one event key:      *)
(* the map entry of its slot, the copy-on-write handler snapshot and the   *)
(* writer lock of each slot, the handler arena, and dispatches of the five *)
(* kinds.                                                                  *)
(*                                                                         *)
(* Registration comes from Context::on and removal from the Fiber's        *)
(* disposal, once per handler and after its generation drained.  The       *)
(* generation gate is abstracted to what Gate establishes: the visible     *)
(* generation of each selector, whether a generation still admits, and who *)
(* holds its leases.                                                       *)
(***************************************************************************)
EXTENDS Integers, Sequences, FiniteSets, SequencesExt, Retain

CONSTANTS
  Handlers,      \* registrations, one HandlerId each
  Gens,          \* generations
  GenOf,         \* the generation a handler is registered for
  PluginOf,      \* the logical plugin (selector) of a generation
  Dispatchers,   \* concurrent emit, serial, bail, parallel or waterfall calls
  MaxSlots,      \* slots ever created for the event
  NONE

ASSUME EventBusAssumption ==
  /\ GenOf \in [Handlers -> Gens]
  /\ NONE \notin Gens /\ NONE \notin Handlers /\ MaxSlots \in Nat \ {0}
  /\ NONE \notin 1..MaxSlots /\ "unread" \notin Gens \cup {NONE}

Plugins == {PluginOf[g] : g \in Gens}
Slots == 1..MaxSlots

VARIABLES
  \* EventBus: the slot of the event in the map, each slot's snapshot and
  \* writer lock, the arena, the number of slots created
  slot, snapshot, writer, arena, created,
  \* what the gates of the generations allow
  active, gate,
  \* registrations and their removal, dispatches
  reg, dis

bus == <<slot, snapshot, writer, arena, created>>
gates == <<active, gate>>
vars == <<bus, gates, reg, dis>>

Kinds == {"emit", "serial", "bail", "parallel", "waterfall"}
Unread == "unread"
Idle == [pc |-> "idle", kind |-> "none", slot |-> NONE, list |-> <<>>, at |-> 1,
         cache |-> [p \in Plugins |-> Unread], held |-> {}, ran |-> <<>>,
         cut |-> FALSE, due |-> {}]

Init ==
  /\ slot = NONE /\ created = 0 /\ arena = {}
  /\ snapshot = [s \in Slots |-> <<>>] /\ writer = [s \in Slots |-> NONE]
  /\ active = [p \in Plugins |-> NONE]
  /\ gate = [g \in Gens |-> "accepting"]
  /\ reg = [h \in Handlers |-> [pc |-> "new", slot |-> NONE]]
  /\ dis = [d \in Dispatchers |-> Idle]

-----------------------------------------------------------------------------
(***************************************************************************)
(* Generation gates, as Gate specifies them.                               *)
(***************************************************************************)
Leases(g) == {d \in Dispatchers : \E h \in dis[d].held : GenOf[h] = g}

PublishGen(g) ==
  /\ active[PluginOf[g]] = NONE /\ gate[g] = "accepting"
  /\ active' = [active EXCEPT ![PluginOf[g]] = g]
  /\ UNCHANGED <<bus, gate, reg, dis>>

\* The first half of cutover_from: the old generation still grants leases.
CutoverSwitch(old, new) ==
  /\ old # new /\ PluginOf[old] = PluginOf[new]
  /\ active[PluginOf[old]] = old /\ gate[new] = "accepting"
  /\ active' = [active EXCEPT ![PluginOf[old]] = new]
  /\ gate' = [gate EXCEPT ![old] = "superseded"]
  /\ UNCHANGED <<bus, reg, dis>>

\* close, and the second half of cutover_from
CloseGen(g) ==
  /\ gate[g] \in {"accepting", "superseded"}
  /\ active' = [active EXCEPT ![PluginOf[g]] = IF @ = g THEN NONE ELSE @]
  /\ gate' = [gate EXCEPT ![g] = "draining"]
  /\ UNCHANGED <<bus, reg, dis>>

DrainGen(g) ==
  /\ gate[g] = "draining" /\ Leases(g) = {}
  /\ gate' = [gate EXCEPT ![g] = "drained"]
  /\ UNCHANGED <<bus, active, reg, dis>>

-----------------------------------------------------------------------------
(***************************************************************************)
(* register_gated: find or create the slot, lock its writer, look whether  *)
(* the slot is still the event's (if not, start over), then insert into    *)
(* the arena and publish the extended snapshot under the writer lock.      *)
(***************************************************************************)
At(h, pc) == reg[h].pc = pc
Goto(h, pc, s) == reg' = [reg EXCEPT ![h] = [pc |-> pc, slot |-> s]]

\* EventBus::slot, for the caller that goes on at pc
FindSlot(h, pc) ==
  IF slot # NONE
  THEN Goto(h, pc, slot) /\ UNCHANGED <<slot, created>>
  ELSE /\ created < MaxSlots
       /\ created' = created + 1 /\ slot' = created + 1
       /\ Goto(h, pc, created + 1)

\* Context::on holds the Fiber's record while it registers, and the disposal
\* worker removes the Fiber's handlers one after the other.
OwnerFree(h) ==
  \A k \in Handlers : GenOf[k] = GenOf[h] => reg[k].pc \in {"new", "registered", "removed"}

RegisterSlot(h) ==
  /\ \/ At(h, "new") /\ gate[GenOf[h]] = "accepting" /\ OwnerFree(h)
     \/ At(h, "reg_slot")
  /\ FindSlot(h, "reg_lock")
  /\ UNCHANGED <<snapshot, writer, arena, gates, dis>>

RegisterLock(h) ==
  /\ At(h, "reg_lock") /\ writer[reg[h].slot] = NONE
  /\ writer' = [writer EXCEPT ![reg[h].slot] = h]
  /\ Goto(h, "reg_check", reg[h].slot)
  /\ UNCHANGED <<slot, snapshot, arena, created, gates, dis>>

\* Mutant: the slot found before the lock is taken for granted.
StillCurrentAssumed(h) == reg[h].slot \in Slots

\* Under the writer lock: is the slot still the event's?
StillCurrent(h) == slot = reg[h].slot

RegisterRetry(h) ==
  /\ At(h, "reg_check") /\ ~StillCurrent(h)
  /\ writer' = [writer EXCEPT ![reg[h].slot] = NONE]
  /\ Goto(h, "reg_slot", NONE)
  /\ UNCHANGED <<slot, snapshot, arena, created, gates, dis>>

RegisterInsert(h) ==
  /\ At(h, "reg_check") /\ StillCurrent(h)
  /\ arena' = arena \cup {h}
  /\ Goto(h, "reg_store", reg[h].slot)
  /\ UNCHANGED <<slot, snapshot, writer, created, gates, dis>>

RegisterStore(h) ==
  /\ At(h, "reg_store")
  /\ snapshot' = [snapshot EXCEPT ![reg[h].slot] = Append(@, h)]
  /\ writer' = [writer EXCEPT ![reg[h].slot] = NONE]
  /\ Goto(h, "registered", NONE)
  /\ UNCHANGED <<slot, arena, created, gates, dis>>

(***************************************************************************)
(* remove, from the Handlers phase of the Fiber's disposal.                *)
(***************************************************************************)
RemoveSlot(h) ==
  /\ At(h, "registered") /\ gate[GenOf[h]] = "drained" /\ h \in arena
  /\ OwnerFree(h)
  /\ FindSlot(h, "rem_lock")
  /\ UNCHANGED <<snapshot, writer, arena, gates, dis>>

RemoveLock(h) ==
  /\ At(h, "rem_lock") /\ writer[reg[h].slot] = NONE
  /\ writer' = [writer EXCEPT ![reg[h].slot] = h]
  /\ Goto(h, "rem_arena", reg[h].slot)
  /\ UNCHANGED <<slot, snapshot, arena, created, gates, dis>>

\* The arena entry goes, and whether the event is unregistered is decided here.
RemoveArena(h) ==
  /\ At(h, "rem_arena")
  /\ arena' = arena \ {h}
  /\ Goto(h, IF arena = {h} THEN "rem_last" ELSE "rem_store", reg[h].slot)
  /\ UNCHANGED <<slot, snapshot, writer, created, gates, dis>>

\* retain takes the handler out of the list.
RemoveStore(h) ==
  /\ reg[h].pc \in {"rem_store", "rem_last"}
  /\ LET s == reg[h].slot
         rest == Without(snapshot[s], h)
     IN /\ snapshot' = [snapshot EXCEPT ![s] = rest]
        /\ slot' = IF At(h, "rem_last") /\ rest = <<>> THEN NONE ELSE slot
        /\ writer' = [writer EXCEPT ![s] = NONE]
  /\ Goto(h, "removed", NONE)
  /\ UNCHANGED <<arena, created, gates, dis>>

HandlerStep(h) ==
  \/ RegisterLock(h) \/ RegisterRetry(h) \/ RegisterInsert(h) \/ RegisterStore(h)
  \/ RemoveSlot(h) \/ RemoveLock(h) \/ RemoveArena(h) \/ RemoveStore(h)

-----------------------------------------------------------------------------
(***************************************************************************)
(* Dispatches.  All five kinds take the slot if there is one, load its     *)
(* snapshot once, and look at the handlers in order through a              *)
(* VisibilityCache.  They differ in when a lease is taken, in what runs    *)
(* beside what, and in what ends them early.                               *)
(***************************************************************************)
Dispatching(d, pc) == dis[d].pc = pc
Current(d) == dis[d].list[dis[d].at]
Exhausted(d) == dis[d].at > Len(dis[d].list)

\* A dispatch that ends keeps what the caller can observe; a dropped one nothing.
Update(d, r) ==
  dis' = [dis EXCEPT ![d] = CASE r.pc = "done" -> [r EXCEPT !.cache = Idle.cache, !.at = 1]
                              [] r.pc = "dropped" -> Idle
                              [] OTHER -> r]

\* Ghost "due": the handlers registered for a visible generation right now.
Registered(h) == At(h, "registered")
Visible(h) == active[PluginOf[GenOf[h]]] = GenOf[h]

DispatchBegin(d, k) ==
  /\ dis[d].pc \in {"idle", "done"}
  /\ Update(d, [Idle EXCEPT !.kind = k, !.slot = slot,
                            !.pc = IF slot = NONE THEN "done" ELSE "load",
                            !.due = {h \in Handlers : Registered(h) /\ Visible(h)}])
  /\ UNCHANGED <<bus, gates, reg>>

DispatchLoad(d) ==
  /\ Dispatching(d, "load")
  /\ Update(d, [dis[d] EXCEPT !.list = snapshot[dis[d].slot], !.pc = "look",
                              !.slot = NONE])
  /\ UNCHANGED <<bus, gates, reg>>

\* Mutant: the selector is read again for every handler.
LookUncached(d, h) == active[PluginOf[GenOf[h]]]

\* VisibilityCache::visible: the selector is read once per dispatch.
Look(d, h) ==
  LET p == PluginOf[GenOf[h]]
  IN IF dis[d].cache[p] = Unread THEN active[p] ELSE dis[d].cache[p]

FilterOut(r) == [r EXCEPT !.list = RemoveAt(@, r.at)]

\* A waterfall filters the whole snapshot before it runs anything; the others
\* ask for a lease as soon as they have seen a visible handler.
DispatchLook(d) ==
  /\ Dispatching(d, "look") /\ ~Exhausted(d)
  /\ LET h == Current(d)
         seen == Look(d, h)
         read == [dis[d] EXCEPT !.cache[PluginOf[GenOf[h]]] = seen]
     IN IF seen = GenOf[h]
        THEN IF dis[d].kind = "waterfall"
             THEN Update(d, [read EXCEPT !.at = @ + 1])
             ELSE Update(d, [read EXCEPT !.pc = "acquire"])
        ELSE IF dis[d].kind = "waterfall"
             THEN Update(d, FilterOut(read))
             ELSE Update(d, [read EXCEPT !.at = @ + 1])
  /\ UNCHANGED <<bus, gates, reg>>

\* The end of the snapshot: the collected parallel handlers run, the filtered
\* waterfall starts with its first handler, the others are done.
DispatchEnd(d) ==
  /\ Dispatching(d, "look") /\ Exhausted(d)
  /\ Update(d, CASE dis[d].kind = "waterfall" -> [dis[d] EXCEPT !.pc = "acquire", !.at = 1]
                 [] dis[d].kind = "parallel" /\ dis[d].held # {} -> [dis[d] EXCEPT !.pc = "running"]
                 [] OTHER -> [dis[d] EXCEPT !.pc = "done"])
  /\ UNCHANGED <<bus, gates, reg>>

\* Mutant: a lease is granted although the generation is draining.
AdmitsAlways(h) == h \in Handlers

\* GenerationExecution::try_acquire: the gate is asked, not the selector.
Admits(h) == gate[GenOf[h]] \in {"accepting", "superseded"}

\* try_acquire, then the call (a parallel dispatch collects first).
DispatchAcquire(d) ==
  /\ Dispatching(d, "acquire") /\ ~Exhausted(d)
  /\ LET h == Current(d)
         leased == [dis[d] EXCEPT !.held = @ \cup {h}, !.ran = Append(@, h), !.at = @ + 1]
         refused == [dis[d] EXCEPT !.at = @ + 1]
         look == IF dis[d].kind = "waterfall" THEN "acquire" ELSE "look"
     IN IF Admits(h)
        THEN Update(d, [leased EXCEPT !.pc = IF dis[d].kind = "parallel" THEN "look" ELSE "running"])
        ELSE Update(d, [refused EXCEPT !.pc = look])
  /\ UNCHANGED <<bus, gates, reg>>

\* run_waterfall past the last handler returns the value to whoever called next.
WaterfallEnd(d) ==
  /\ Dispatching(d, "acquire") /\ Exhausted(d)
  /\ Update(d, [dis[d] EXCEPT !.pc = IF dis[d].held = {} THEN "done" ELSE "returning"])
  /\ UNCHANGED <<bus, gates, reg>>

\* A waterfall handler runs its continuation, which it can do only once.
CallNext(d) ==
  /\ Dispatching(d, "running") /\ dis[d].kind = "waterfall"
  /\ Update(d, [dis[d] EXCEPT !.pc = "acquire"])
  /\ UNCHANGED <<bus, gates, reg>>

Results == {"value", "nothing", "error"}   \* a panic is caught and is an error

\* Mutant: emit propagates the first error like serial does.
StopsEmit(kind, result) ==
  \/ kind \in {"emit", "serial"} /\ result = "error"
  \/ kind = "bail" /\ result \in {"error", "value"}

\* Whether the result of one handler ends the dispatch.
Stops(kind, result) ==
  \/ kind = "serial" /\ result = "error"
  \/ kind = "bail" /\ result \in {"error", "value"}

\* emit, serial, bail: the lease of the handler goes with the loop body.
HandlerReturns(d, result) ==
  /\ Dispatching(d, "running") /\ dis[d].kind \in {"emit", "serial", "bail"}
  /\ LET stop == Stops(dis[d].kind, result)
     IN Update(d, [dis[d] EXCEPT !.held = {}, !.cut = stop,
                                 !.pc = IF stop THEN "done" ELSE "look"])
  /\ UNCHANGED <<bus, gates, reg>>

\* parallel: each future drops its own lease; join_all waits for all of them.
ParallelReturns(d, h) ==
  /\ Dispatching(d, "running") /\ dis[d].kind = "parallel" /\ h \in dis[d].held
  /\ Update(d, [dis[d] EXCEPT !.held = @ \ {h},
                              !.pc = IF dis[d].held = {h} THEN "done" ELSE @])
  /\ UNCHANGED <<bus, gates, reg>>

\* waterfall: the innermost handler returns to the one that called next.  The
\* ones behind it are not reached when it did not call next itself.
WaterfallReturns(d) ==
  /\ dis[d].pc \in {"running", "returning"} /\ dis[d].kind = "waterfall"
  /\ LET top == CHOOSE i \in DOMAIN dis[d].ran :
                  /\ dis[d].ran[i] \in dis[d].held
                  /\ \A j \in DOMAIN dis[d].ran : j > i => dis[d].ran[j] \notin dis[d].held
         rest == dis[d].held \ {dis[d].ran[top]}
     IN Update(d, [dis[d] EXCEPT !.held = rest,
                                 !.cut = @ \/ Dispatching(d, "running"),
                                 !.pc = IF rest = {} THEN "done" ELSE "returning"])
  /\ UNCHANGED <<bus, gates, reg>>

\* The caller drops the dispatch future, and with it every lease it holds.
DispatchDropped(d) ==
  /\ dis[d].pc \notin {"idle", "done"}
  /\ Update(d, [dis[d] EXCEPT !.held = {}, !.pc = "dropped"])
  /\ UNCHANGED <<bus, gates, reg>>

DispatchStep(d) ==
  \/ DispatchLoad(d) \/ DispatchLook(d) \/ DispatchEnd(d)
  \/ DispatchAcquire(d) \/ WaterfallEnd(d)

Returns(d) ==
  \/ \E r \in Results : HandlerReturns(d, r)
  \/ \E h \in Handlers : ParallelReturns(d, h)
  \/ WaterfallReturns(d)

-----------------------------------------------------------------------------
Next ==
  \/ \E g \in Gens : PublishGen(g) \/ CloseGen(g) \/ DrainGen(g)
  \/ \E old, new \in Gens : CutoverSwitch(old, new)
  \/ \E h \in Handlers : RegisterSlot(h) \/ HandlerStep(h)
  \/ \E d \in Dispatchers :
       \/ \E k \in Kinds : DispatchBegin(d, k)
       \/ DispatchStep(d) \/ CallNext(d) \/ Returns(d) \/ DispatchDropped(d)

Spec == Init /\ [][Next]_vars

-----------------------------------------------------------------------------
\* Types of the bus, the gates and the dispatches; a dispatch never walks past its list.
TypeOK ==
  /\ slot \in Slots \cup {NONE} /\ created \in 0..MaxSlots
  /\ snapshot \in [Slots -> Seq(Handlers)]
  /\ writer \in [Slots -> Handlers \cup {NONE}]
  /\ arena \subseteq Handlers
  /\ active \in [Plugins -> Gens \cup {NONE}]
  /\ gate \in [Gens -> {"accepting", "superseded", "draining", "drained"}]
  /\ \A h \in Handlers : reg[h].slot \in Slots \cup {NONE}
  /\ \A d \in Dispatchers : /\ dis[d].held \subseteq Handlers
                            /\ dis[d].at \in 1..(Len(dis[d].list) + 1)
                            /\ dis[d].ran \in Seq(Handlers)

(***************************************************************************)
(* No registration is lost: once Context::on has returned, and until the   *)
(* handler's removal begins, the event has a slot that lists the handler   *)
(* exactly once, and the arena has it, whatever slots other registrations  *)
(* created and other removals dropped meanwhile.  And nothing else is      *)
(* served: when nobody holds its writer lock, a slot lists the arena's     *)
(* handlers if it is the event's slot and nobody if it is not, and an      *)
(* event without handlers keeps no slot.                                   *)
(***************************************************************************)
NoLostRegistration ==
  /\ \A h \in Handlers :
       Registered(h) => /\ slot # NONE /\ h \in arena
                        /\ Cardinality({i \in DOMAIN snapshot[slot] : snapshot[slot][i] = h}) = 1
  /\ \A s \in Slots : writer[s] = NONE =>
       /\ ToSet(snapshot[s]) = IF slot = s THEN arena ELSE {}
       /\ slot = s /\ arena = {} => \E h \in Handlers : reg[h].slot = s

(***************************************************************************)
(* One dispatch never runs handlers of two generations of a plugin, also   *)
(* when a reload switches the selector while it walks the snapshot.        *)
(***************************************************************************)
OneGeneration ==
  \A d \in Dispatchers : \A h, k \in ToSet(dis[d].ran) :
    PluginOf[GenOf[h]] = PluginOf[GenOf[k]] => GenOf[h] = GenOf[k]

(***************************************************************************)
(* A handler is running only while it is registered: the lease keeps the   *)
(* drain, and with it the removal and the effects' cleanup, waiting.       *)
(***************************************************************************)
RemovedNotRunning ==
  \A d \in Dispatchers : \A h \in dis[d].held :
    gate[GenOf[h]] # "drained" /\ Registered(h)

(***************************************************************************)
(* A dispatch that ends by itself has run every handler that was           *)
(* registered and visible when it began and whose generation is visible    *)
(* still, each once and in registration order; only serial, bail and       *)
(* waterfall may be cut short, by a result of a handler.                   *)
(***************************************************************************)
Delivered ==
  \A d \in Dispatchers :
    /\ \A i, j \in DOMAIN dis[d].ran :
         i < j => \E a, b \in DOMAIN dis[d].list :
                    a < b /\ dis[d].list[a] = dis[d].ran[i] /\ dis[d].list[b] = dis[d].ran[j]
    /\ dis[d].pc = "done" /\ (dis[d].cut => dis[d].kind \in {"emit", "parallel"})
       => \A h \in dis[d].due : Visible(h) => h \in ToSet(dis[d].ran)
=============================================================================
