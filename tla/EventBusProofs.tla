--------------------------- MODULE EventBusProofs ---------------------------
(***************************************************************************)
(* Theorems about the event bus (EventBus): what a dispatch promises to    *)
(* handlers that come and go while it walks a snapshot, and what the slot, *)
(* the arena and the snapshots promise to a registration, for any number   *)
(* of handlers, generations, plugins and dispatches.                       *)
(***************************************************************************)
EXTENDS EventBus, RetainProofs, SequenceTheorems, FiniteSetTheorems, TLAPS

-----------------------------------------------------------------------------
(***************************************************************************)
(* Facts about the sequences the bus is built from.                        *)
(***************************************************************************)
\* Removing one position of a list (the filter of a waterfall).
LEMMA RemoveAtProperties ==
  ASSUME NEW s \in Seq(Handlers), NEW i \in 1..Len(s)
  PROVE  /\ RemoveAt(s, i) \in Seq(Handlers)
         /\ Len(RemoveAt(s, i)) = Len(s) - 1
         /\ \A j \in 1..(Len(s) - 1) :
              RemoveAt(s, i)[j] = IF j < i THEN s[j] ELSE s[j + 1]
<1> DEFINE a == SubSeq(s, 1, i - 1)
           b == SubSeq(s, i + 1, Len(s))
<1>1. a \in Seq(Handlers) /\ Len(a) = i - 1 /\ \A j \in 1..(i - 1) : a[j] = s[j]
  OBVIOUS
<1>2. /\ b \in Seq(Handlers) /\ Len(b) = Len(s) - i
      /\ \A j \in 1..(Len(s) - i) : b[j] = s[i + j]
  OBVIOUS
<1>3. RemoveAt(s, i) = a \o b
  BY DEF RemoveAt
<1> HIDE DEF a, b
<1>4. a \o b \in Seq(Handlers) /\ Len(a \o b) = Len(s) - 1
  <2>1. a \o b \in Seq(Handlers) /\ Len(a \o b) = Len(a) + Len(b)
    BY <1>1, <1>2, ConcatProperties
  <2> QED BY <1>1, <1>2, <2>1
<1>5. \A j \in 1..(Len(s) - 1) : (a \o b)[j] = IF j < i THEN s[j] ELSE s[j + 1]
  BY <1>1, <1>2
<1> QED BY <1>3, <1>4, <1>5

-----------------------------------------------------------------------------
(***************************************************************************)
(* The inductive invariant.  First the types, with the fields of the       *)
(* records.                                                                *)
(***************************************************************************)
RegPCs == {"new", "reg_slot", "reg_lock", "reg_check", "reg_store", "registered",
           "rem_lock", "rem_arena", "rem_store", "rem_last", "removed"}
RegRec == [pc : RegPCs, slot : Slots \cup {NONE}]
GateStates == {"accepting", "superseded", "draining", "drained"}
DisPCs == {"idle", "load", "look", "acquire", "running", "returning", "done"}
Caches == [Plugins -> Gens \cup {NONE, Unread}]
DisRec == [pc : DisPCs, kind : Kinds \cup {"none"}, slot : Slots \cup {NONE},
           list : Seq(Handlers), at : Nat, cache : Caches,
           held : SUBSET Handlers, ran : Seq(Handlers), cut : BOOLEAN,
           due : SUBSET Handlers]

BusTyped ==
  /\ slot \in Slots \cup {NONE} /\ created \in 0..MaxSlots
  /\ snapshot \in [Slots -> Seq(Handlers)]
  /\ writer \in [Slots -> Handlers \cup {NONE}]
  /\ arena \subseteq Handlers
  /\ reg \in [Handlers -> RegRec]
GatesTyped ==
  /\ active \in [Plugins -> Gens \cup {NONE}]
  /\ gate \in [Gens -> GateStates]
DisTyped == dis \in [Dispatchers -> DisRec]

(***************************************************************************)
(* The program points at which a registration or removal knows a slot,     *)
(* holds its writer lock, is in the arena, is listed by the snapshot, and  *)
(* is on its way out.                                                      *)
(***************************************************************************)
Pointing == {"reg_lock", "reg_check", "reg_store", "rem_lock", "rem_arena",
             "rem_store", "rem_last"}
Locking == {"reg_check", "reg_store", "rem_arena", "rem_store", "rem_last"}
InArena == {"reg_store", "registered", "rem_lock", "rem_arena"}
Listed == {"registered", "rem_lock", "rem_arena", "rem_store", "rem_last"}
Leaving == {"rem_lock", "rem_arena", "rem_store", "rem_last", "removed"}

\* A registered handler, and one that changes the arena or a snapshot, keeps
\* the event's slot in place; a writer lock has one owner.
PointsRight(h) ==
  /\ reg[h].slot # NONE <=> reg[h].pc \in Pointing
  /\ reg[h].slot # NONE => reg[h].slot \in 1..created
  /\ reg[h].pc \in InArena \cup Listed => slot # NONE
  /\ reg[h].pc \in (InArena \cup Listed) \ {"registered"} => reg[h].slot = slot
OwnsLock(s, h) == writer[s] = h <=> reg[h].pc \in Locking /\ reg[h].slot = s

SlotInv ==
  /\ slot # NONE => slot \in 1..created
  /\ \A h \in Handlers : PointsRight(h)
  /\ \A s \in Slots, h \in Handlers : OwnsLock(s, h)

\* The arena between the steps of a registration or removal; the decision
\* that the event is unregistered is still right when it is acted on.
ArenaRight(h) ==
  /\ h \in arena <=> reg[h].pc \in InArena
  /\ reg[h].pc = "rem_last" => arena = {}
  /\ reg[h].pc = "rem_store" => arena # {}

ArenaInv ==
  /\ \A h \in Handlers : ArenaRight(h)
  /\ slot # NONE /\ arena = {} => \E h \in Handlers : reg[h].slot = slot

\* Only the event's slot lists handlers, the ones its registrations published.
SnapshotInv ==
  /\ \A s \in Slots : s # slot => snapshot[s] = <<>>
  /\ slot # NONE => /\ \A h \in Handlers : Lists(snapshot[slot], h) <=> reg[h].pc \in Listed
                    /\ Once(snapshot[slot])

\* A visible generation admits, and only a drained one is taken apart.
GateInv ==
  /\ \A g \in Gens, p \in Plugins : active[p] = g => gate[g] = "accepting" /\ PluginOf[g] = p
  /\ \A h \in Handlers : reg[h].pc \in Leaving => gate[GenOf[h]] = "drained"

(***************************************************************************)
(* One dispatch r: where it can be, what it holds, which generations it    *)
(* chose, the order of what it ran, and what it still owes.                *)
(***************************************************************************)
Walking == {"look", "acquire", "running", "returning"}

Shape(r) ==
  /\ r.at \in 1..(Len(r.list) + 1)
  /\ r.pc \notin {"idle", "done"} => r.kind \in Kinds
  /\ r.pc \in {"idle", "load", "done"} => r.held = {}
  /\ r.pc \in {"look", "acquire"} /\ r.kind \notin {"parallel", "waterfall"} => r.held = {}
  /\ r.pc \in {"idle", "load"} \/ (r.pc = "look" /\ r.kind = "waterfall") => r.ran = <<>>
  /\ r.pc = "load" => r.slot # NONE /\ r.at = 1 /\ r.cache = Idle.cache
  /\ r.pc = "acquire" /\ r.kind # "waterfall" => r.at <= Len(r.list)
  /\ r.pc = "running" /\ r.kind = "parallel" => r.at > Len(r.list)
  /\ r.pc = "returning" => r.kind = "waterfall" /\ (r.at > Len(r.list) \/ r.cut)
  /\ r.cut => r.kind \notin {"emit", "parallel"} /\ r.pc \in {"returning", "done"}

LeaseInv(r) ==
  /\ \A h \in r.held : gate[GenOf[h]] # "drained" /\ reg[h].pc = "registered"
  /\ \A i \in DOMAIN r.list : reg[r.list[i]].pc \in Listed \cup {"removed"}

\* The cache decided for h's generation.
Chosen(r, h) == r.cache[PluginOf[GenOf[h]]] = GenOf[h]
SamePlugin(h, k) == PluginOf[GenOf[h]] = PluginOf[GenOf[k]]

CacheInv(r) ==
  /\ r.pc \in Walking => \A i \in DOMAIN r.ran : Chosen(r, r.ran[i])
  /\ r.pc = "look" /\ r.kind = "waterfall" =>
       \A i \in DOMAIN r.list : i < r.at => Chosen(r, r.list[i])
  /\ r.pc \in {"acquire", "running", "returning"} /\ r.kind = "waterfall" =>
       \A i \in DOMAIN r.list : Chosen(r, r.list[i])
  /\ r.pc = "acquire" /\ r.kind # "waterfall" => Chosen(r, r.list[r.at])
  /\ \A i, j \in DOMAIN r.ran :
       SamePlugin(r.ran[i], r.ran[j]) => GenOf[r.ran[i]] = GenOf[r.ran[j]]

OrderInv(r) ==
  /\ \A i \in DOMAIN r.ran :
       \E m \in DOMAIN r.list : r.list[m] = r.ran[i] /\ (r.pc # "done" => m < r.at)
  /\ \A i, j \in DOMAIN r.ran :
       i < j => \E m, n \in DOMAIN r.list :
                  m < n /\ r.list[m] = r.ran[i] /\ r.list[n] = r.ran[j]

\* The walk went past position i and ran or skipped it.
Passed(r, i) == i < r.at /\ ~(r.pc = "look" /\ r.kind = "waterfall")

\* A generation that was visible when the dispatch began and is visible now
\* was visible all the time, so its handlers are before the walk or were run.
Owed(r, h) ==
  /\ r.pc = "load" => r.slot = slot /\ reg[h].pc = "registered"
  /\ r.pc \in Walking =>
       /\ r.cache[PluginOf[GenOf[h]]] \in {Unread, GenOf[h]}
       /\ \E i \in DOMAIN r.list : r.list[i] = h /\ (Passed(r, i) => Lists(r.ran, h))
  /\ r.pc = "done" /\ ~r.cut => Lists(r.ran, h)

DueInv(r) ==
  \A h \in r.due : /\ Visible(h) \/ gate[GenOf[h]] # "accepting"
                   /\ Visible(h) => Owed(r, h)

DispatchOK(r) == Shape(r) /\ LeaseInv(r) /\ CacheInv(r) /\ OrderInv(r) /\ DueInv(r)
DispatchInv == \A d \in Dispatchers : DispatchOK(dis[d])

Typed == BusTyped /\ GatesTyped /\ DisTyped
BusInv == SlotInv /\ ArenaInv /\ SnapshotInv
EventBusInv == Typed /\ BusInv /\ GateInv /\ DispatchInv

-----------------------------------------------------------------------------
(***************************************************************************)
(* Registration and removal.  What each step does, field by field.         *)
(***************************************************************************)
\* Handler h goes to pc with slot s; the others stay where they are.
Moves(h, pc, s) ==
  /\ reg' \in [Handlers -> RegRec]
  /\ reg'[h].pc = pc /\ reg'[h].slot = s
  /\ \A k \in Handlers : k # h => reg'[k] = reg[k]

\* The writer lock of s goes to who.
Hands(s, who) == \A t \in Slots : writer'[t] = IF t = s THEN who ELSE writer[t]

LEMMA GotoMoves ==
  ASSUME reg \in [Handlers -> RegRec], NEW h \in Handlers, NEW pc \in RegPCs,
         NEW s \in Slots \cup {NONE}, Goto(h, pc, s)
  PROVE  Moves(h, pc, s)
<1>1. [pc |-> pc, slot |-> s] \in RegRec
  BY DEF RegRec
<1> DEFINE r == [pc |-> pc, slot |-> s]
<1>2. r \in RegRec /\ r.pc = pc /\ r.slot = s
  BY <1>1
<1>3. reg' = [reg EXCEPT ![h] = r]
  BY DEF Goto
<1> HIDE DEF r
<1> QED BY <1>2, <1>3 DEF Moves

LEMMA WriterMoves ==
  ASSUME writer \in [Slots -> Handlers \cup {NONE}], NEW s \in Slots,
         NEW who \in Handlers \cup {NONE}, writer' = [writer EXCEPT ![s] = who]
  PROVE  writer' \in [Slots -> Handlers \cup {NONE}] /\ Hands(s, who)
BY DEF Hands

\* The fields of a registration.
LEMMA RegFields ==
  ASSUME BusTyped, NEW h \in Handlers
  PROVE  reg[h] \in RegRec /\ reg[h].pc \in RegPCs /\ reg[h].slot \in Slots \cup {NONE}
<1>1. reg[h] \in RegRec
  BY DEF BusTyped
<1> QED BY <1>1 DEF RegRec

\* EventBus::slot leaves the event with a slot, a new one if it had none.
LEMMA FindSlotEffect ==
  ASSUME BusTyped, NEW h \in Handlers, NEW pc \in RegPCs, FindSlot(h, pc)
  PROVE  \/ /\ slot # NONE /\ slot' = slot /\ created' = created
            /\ Moves(h, pc, slot)
         \/ /\ slot = NONE /\ created' = created + 1 /\ slot' = created + 1
            /\ created + 1 \in 1..MaxSlots /\ created' \in 0..MaxSlots
            /\ Moves(h, pc, created + 1)
<1>1. CASE slot # NONE
  <2>1. Goto(h, pc, slot) /\ slot' = slot /\ created' = created
    BY <1>1 DEF FindSlot
  <2>2. slot \in Slots \cup {NONE} /\ reg \in [Handlers -> RegRec]
    BY DEF BusTyped
  <2>3. Moves(h, pc, slot)
    BY <2>1, <2>2, GotoMoves
  <2> QED BY <1>1, <2>1, <2>3
<1>2. CASE slot = NONE
  <2>1. created < MaxSlots /\ created' = created + 1 /\ slot' = created + 1
        /\ Goto(h, pc, created + 1)
    BY <1>2 DEF FindSlot
  <2>2. created + 1 \in 1..MaxSlots /\ created' \in 0..MaxSlots
    BY <2>1, EventBusAssumption DEF BusTyped
  <2>3. Moves(h, pc, created + 1)
    BY <2>1, <2>2, GotoMoves DEF BusTyped, Slots
  <2> QED BY <1>2, <2>1, <2>2, <2>3
<1> QED BY <1>1, <1>2

\* The slot is found or created.
RegisterSlotDoes(h) ==
  /\ reg[h].pc \in {"new", "reg_slot"}
  /\ snapshot' = snapshot /\ writer' = writer /\ arena' = arena
  /\ gates' = gates /\ dis' = dis
  /\ \/ /\ slot # NONE /\ slot' = slot /\ created' = created
        /\ Moves(h, "reg_lock", slot)
     \/ /\ slot = NONE /\ created' = created + 1 /\ slot' = created + 1
        /\ created + 1 \in 1..MaxSlots /\ created' \in 0..MaxSlots
        /\ Moves(h, "reg_lock", created + 1)

LEMMA RegisterSlotEffect ==
  ASSUME BusTyped, NEW h \in Handlers, RegisterSlot(h)
  PROVE  RegisterSlotDoes(h)
<1>1. FindSlot(h, "reg_lock") /\ "reg_lock" \in RegPCs
  BY DEF RegisterSlot, RegPCs
<1>2. /\ reg[h].pc \in {"new", "reg_slot"}
      /\ snapshot' = snapshot /\ writer' = writer /\ arena' = arena
      /\ gates' = gates /\ dis' = dis
  BY DEF RegisterSlot, At
<1> QED BY <1>1, <1>2, FindSlotEffect DEF RegisterSlotDoes

\* The slot is there to be found.
RemoveSlotDoes(h) ==
  /\ reg[h].pc = "registered" /\ gate[GenOf[h]] = "drained"
  /\ snapshot' = snapshot /\ writer' = writer /\ arena' = arena
  /\ gates' = gates /\ dis' = dis
  /\ slot # NONE /\ slot' = slot /\ created' = created
  /\ Moves(h, "rem_lock", slot)

LEMMA RemoveSlotEffect ==
  ASSUME BusTyped, SlotInv, NEW h \in Handlers, RemoveSlot(h)
  PROVE  RemoveSlotDoes(h)
<1>1. FindSlot(h, "rem_lock") /\ "rem_lock" \in RegPCs
  BY DEF RemoveSlot, RegPCs
<1>2. /\ reg[h].pc = "registered" /\ gate[GenOf[h]] = "drained"
      /\ snapshot' = snapshot /\ writer' = writer /\ arena' = arena
      /\ gates' = gates /\ dis' = dis
  BY DEF RemoveSlot, At
<1>3. slot # NONE
  BY <1>2 DEF SlotInv, PointsRight, InArena
<1> QED BY <1>1, <1>2, <1>3, FindSlotEffect DEF RemoveSlotDoes

\* Taking the writer lock, for a registration and for a removal.
Locks(h, from, to) ==
  /\ reg[h].pc = from /\ reg[h].slot \in Slots /\ writer[reg[h].slot] = NONE
  /\ writer' \in [Slots -> Handlers \cup {NONE}] /\ Hands(reg[h].slot, h)
  /\ Moves(h, to, reg[h].slot)
  /\ slot' = slot /\ snapshot' = snapshot /\ arena' = arena /\ created' = created
  /\ gates' = gates /\ dis' = dis

LEMMA LockEffect ==
  ASSUME BusTyped, SlotInv, NEW h \in Handlers
  PROVE  /\ RegisterLock(h) => Locks(h, "reg_lock", "reg_check")
         /\ RemoveLock(h) => Locks(h, "rem_lock", "rem_arena")
<1>1. reg[h].slot \in Slots \cup {NONE} /\ (reg[h].pc \in Pointing => reg[h].slot \in Slots)
  BY RegFields DEF SlotInv, PointsRight
<1>2. "reg_check" \in RegPCs /\ "rem_arena" \in RegPCs
  BY DEF RegPCs
<1>3. ASSUME RegisterLock(h) PROVE Locks(h, "reg_lock", "reg_check")
  <2>1. reg[h].pc = "reg_lock" /\ reg[h].slot \in Slots
    BY <1>1, <1>3 DEF RegisterLock, At, Pointing
  <2>2. Goto(h, "reg_check", reg[h].slot) /\ writer' = [writer EXCEPT ![reg[h].slot] = h]
    BY <1>3 DEF RegisterLock
  <2>3. Moves(h, "reg_check", reg[h].slot)
    BY <1>1, <1>2, <2>2, GotoMoves DEF BusTyped
  <2>4. writer' \in [Slots -> Handlers \cup {NONE}] /\ Hands(reg[h].slot, h)
    BY <2>1, <2>2, WriterMoves DEF BusTyped
  <2>5. /\ slot' = slot /\ snapshot' = snapshot /\ arena' = arena /\ created' = created
        /\ gates' = gates /\ dis' = dis /\ writer[reg[h].slot] = NONE
    BY <1>3 DEF RegisterLock
  <2> QED BY <2>1, <2>3, <2>4, <2>5 DEF Locks
<1>4. ASSUME RemoveLock(h) PROVE Locks(h, "rem_lock", "rem_arena")
  <2>1. reg[h].pc = "rem_lock" /\ reg[h].slot \in Slots
    BY <1>1, <1>4 DEF RemoveLock, At, Pointing
  <2>2. Goto(h, "rem_arena", reg[h].slot) /\ writer' = [writer EXCEPT ![reg[h].slot] = h]
    BY <1>4 DEF RemoveLock
  <2>3. Moves(h, "rem_arena", reg[h].slot)
    BY <1>1, <1>2, <2>2, GotoMoves DEF BusTyped
  <2>4. writer' \in [Slots -> Handlers \cup {NONE}] /\ Hands(reg[h].slot, h)
    BY <2>1, <2>2, WriterMoves DEF BusTyped
  <2>5. /\ slot' = slot /\ snapshot' = snapshot /\ arena' = arena /\ created' = created
        /\ gates' = gates /\ dis' = dis /\ writer[reg[h].slot] = NONE
    BY <1>4 DEF RemoveLock
  <2> QED BY <2>1, <2>3, <2>4, <2>5 DEF Locks
<1> QED BY <1>3, <1>4

\* The lock is given back and the slot forgotten.
RegisterRetryDoes(h) ==
  /\ reg[h].pc = "reg_check" /\ reg[h].slot \in Slots /\ slot # reg[h].slot
  /\ writer' \in [Slots -> Handlers \cup {NONE}] /\ Hands(reg[h].slot, NONE)
  /\ Moves(h, "reg_slot", NONE)
  /\ slot' = slot /\ snapshot' = snapshot /\ arena' = arena /\ created' = created
  /\ gates' = gates /\ dis' = dis

LEMMA RegisterRetryEffect ==
  ASSUME BusTyped, SlotInv, NEW h \in Handlers, RegisterRetry(h)
  PROVE  RegisterRetryDoes(h)
<1>1. reg[h].pc = "reg_check" /\ slot # reg[h].slot
  BY DEF RegisterRetry, At, StillCurrent
<1>2. reg[h].slot \in Slots
  BY <1>1, RegFields DEF SlotInv, PointsRight, Pointing
<1>3. Goto(h, "reg_slot", NONE) /\ writer' = [writer EXCEPT ![reg[h].slot] = NONE]
  BY DEF RegisterRetry
<1>4. "reg_slot" \in RegPCs
  BY DEF RegPCs
<1>5. Moves(h, "reg_slot", NONE)
  BY <1>3, <1>4, GotoMoves DEF BusTyped
<1>6. writer' \in [Slots -> Handlers \cup {NONE}] /\ Hands(reg[h].slot, NONE)
  BY <1>2, <1>3, WriterMoves DEF BusTyped
<1>7. /\ slot' = slot /\ snapshot' = snapshot /\ arena' = arena /\ created' = created
      /\ gates' = gates /\ dis' = dis
  BY DEF RegisterRetry
<1> QED BY <1>1, <1>2, <1>5, <1>6, <1>7 DEF RegisterRetryDoes

\* The arena has the handler before the snapshot does.
RegisterInsertDoes(h) ==
  /\ reg[h].pc = "reg_check" /\ reg[h].slot \in Slots /\ slot = reg[h].slot
  /\ arena' = arena \cup {h}
  /\ Moves(h, "reg_store", slot)
  /\ slot' = slot /\ snapshot' = snapshot /\ writer' = writer /\ created' = created
  /\ gates' = gates /\ dis' = dis

LEMMA RegisterInsertEffect ==
  ASSUME BusTyped, SlotInv, NEW h \in Handlers, RegisterInsert(h)
  PROVE  RegisterInsertDoes(h)
<1>1. reg[h].pc = "reg_check" /\ slot = reg[h].slot
  BY DEF RegisterInsert, At, StillCurrent
<1>2. reg[h].slot \in Slots
  BY <1>1, RegFields DEF SlotInv, PointsRight, Pointing
<1>3. Goto(h, "reg_store", slot) /\ "reg_store" \in RegPCs
  BY <1>1 DEF RegisterInsert, RegPCs
<1>4. Moves(h, "reg_store", slot)
  BY <1>1, <1>2, <1>3, GotoMoves DEF BusTyped
<1>5. /\ slot' = slot /\ snapshot' = snapshot /\ writer' = writer /\ created' = created
      /\ gates' = gates /\ dis' = dis /\ arena' = arena \cup {h}
  BY DEF RegisterInsert
<1> QED BY <1>1, <1>2, <1>4, <1>5 DEF RegisterInsertDoes

\* The extended snapshot is published and the lock given back.
RegisterStoreDoes(h) ==
  /\ reg[h].pc = "reg_store" /\ reg[h].slot = slot /\ slot \in Slots
  /\ snapshot' \in [Slots -> Seq(Handlers)]
  /\ \A s \in Slots : snapshot'[s] = IF s = slot THEN Append(snapshot[s], h) ELSE snapshot[s]
  /\ writer' \in [Slots -> Handlers \cup {NONE}] /\ Hands(slot, NONE)
  /\ Moves(h, "registered", NONE)
  /\ slot' = slot /\ arena' = arena /\ created' = created
  /\ gates' = gates /\ dis' = dis

LEMMA RegisterStoreEffect ==
  ASSUME BusTyped, SlotInv, NEW h \in Handlers, RegisterStore(h)
  PROVE  RegisterStoreDoes(h)
<1>1. reg[h].pc = "reg_store"
  BY DEF RegisterStore, At
<1>2. reg[h].slot = slot /\ slot \in Slots
  BY <1>1, RegFields DEF SlotInv, PointsRight, InArena, Listed
<1>3. /\ Goto(h, "registered", NONE) /\ writer' = [writer EXCEPT ![slot] = NONE]
      /\ snapshot' = [snapshot EXCEPT ![slot] = Append(@, h)]
  BY <1>2 DEF RegisterStore
<1>4. "registered" \in RegPCs
  BY DEF RegPCs
<1>5. Moves(h, "registered", NONE)
  BY <1>3, <1>4, GotoMoves DEF BusTyped
<1>6. writer' \in [Slots -> Handlers \cup {NONE}] /\ Hands(slot, NONE)
  BY <1>2, <1>3, WriterMoves DEF BusTyped
<1>7. slot' = slot /\ arena' = arena /\ created' = created /\ gates' = gates /\ dis' = dis
  BY DEF RegisterStore
<1>8. /\ snapshot' \in [Slots -> Seq(Handlers)]
      /\ \A s \in Slots : snapshot'[s] = IF s = slot THEN Append(snapshot[s], h) ELSE snapshot[s]
  <2>1. snapshot \in [Slots -> Seq(Handlers)]
    BY DEF BusTyped
  <2>2. Append(snapshot[slot], h) \in Seq(Handlers)
    BY <1>2, <2>1
  <2> QED BY <1>2, <1>3, <2>1, <2>2
<1> QED BY <1>1, <1>2, <1>5, <1>6, <1>7, <1>8 DEF RegisterStoreDoes

\* The arena loses the handler; was it the last?
RemoveArenaDoes(h) ==
  /\ reg[h].pc = "rem_arena" /\ reg[h].slot = slot /\ slot \in Slots
  /\ arena' = arena \ {h}
  /\ Moves(h, IF arena = {h} THEN "rem_last" ELSE "rem_store", slot)
  /\ slot' = slot /\ snapshot' = snapshot /\ writer' = writer /\ created' = created
  /\ gates' = gates /\ dis' = dis

LEMMA RemoveArenaEffect ==
  ASSUME BusTyped, SlotInv, NEW h \in Handlers, RemoveArena(h)
  PROVE  RemoveArenaDoes(h)
<1>1. reg[h].pc = "rem_arena"
  BY DEF RemoveArena, At
<1>2. reg[h].slot = slot /\ slot \in Slots
  BY <1>1, RegFields DEF SlotInv, PointsRight, InArena, Listed
<1> DEFINE to == IF arena = {h} THEN "rem_last" ELSE "rem_store"
<1>3. Goto(h, to, slot) /\ to \in RegPCs
  BY <1>2 DEF RemoveArena, RegPCs
<1> HIDE DEF to
<1>4. Moves(h, to, slot)
  BY <1>2, <1>3, GotoMoves DEF BusTyped
<1>5. /\ slot' = slot /\ snapshot' = snapshot /\ writer' = writer /\ created' = created
      /\ gates' = gates /\ dis' = dis /\ arena' = arena \ {h}
  BY DEF RemoveArena
<1> QED BY <1>1, <1>2, <1>4, <1>5 DEF to, RemoveArenaDoes

\* The shortened snapshot is published, and the slot dropped if it was.
RemoveStoreDoes(h) ==
  /\ reg[h].pc \in {"rem_store", "rem_last"} /\ reg[h].slot = slot /\ slot \in Slots
  /\ snapshot' \in [Slots -> Seq(Handlers)]
  /\ \A s \in Slots : snapshot'[s] = IF s = slot THEN Without(snapshot[s], h) ELSE snapshot[s]
  /\ slot' = IF reg[h].pc = "rem_last" /\ Without(snapshot[slot], h) = <<>> THEN NONE ELSE slot
  /\ writer' \in [Slots -> Handlers \cup {NONE}] /\ Hands(slot, NONE)
  /\ Moves(h, "removed", NONE)
  /\ arena' = arena /\ created' = created /\ gates' = gates /\ dis' = dis

LEMMA RemoveStoreEffect ==
  ASSUME BusTyped, SlotInv, NEW h \in Handlers, RemoveStore(h)
  PROVE  RemoveStoreDoes(h)
<1>1. reg[h].pc \in {"rem_store", "rem_last"}
  BY DEF RemoveStore
<1>2. reg[h].slot = slot /\ slot \in Slots
  BY <1>1, RegFields DEF SlotInv, PointsRight, InArena, Listed
<1>3. /\ Goto(h, "removed", NONE) /\ writer' = [writer EXCEPT ![slot] = NONE]
      /\ snapshot' = [snapshot EXCEPT ![slot] = Without(snapshot[slot], h)]
      /\ slot' = IF reg[h].pc = "rem_last" /\ Without(snapshot[slot], h) = <<>> THEN NONE ELSE slot
  BY <1>2 DEF RemoveStore, At
<1>4. "removed" \in RegPCs
  BY DEF RegPCs
<1>5. Moves(h, "removed", NONE)
  BY <1>3, <1>4, GotoMoves DEF BusTyped
<1>6. writer' \in [Slots -> Handlers \cup {NONE}] /\ Hands(slot, NONE)
  BY <1>2, <1>3, WriterMoves DEF BusTyped
<1>7. arena' = arena /\ created' = created /\ gates' = gates /\ dis' = dis
  BY DEF RemoveStore
<1>8. /\ snapshot' \in [Slots -> Seq(Handlers)]
      /\ \A s \in Slots : snapshot'[s] = IF s = slot THEN Without(snapshot[s], h) ELSE snapshot[s]
  <2>1. snapshot \in [Slots -> Seq(Handlers)]
    BY DEF BusTyped
  <2>2. Without(snapshot[slot], h) \in Seq(Handlers)
    BY <1>2, <2>1, WithoutProperties
  <2> QED BY <1>2, <1>3, <2>1, <2>2
<1> QED BY <1>1, <1>2, <1>3, <1>5, <1>6, <1>7, <1>8 DEF RemoveStoreDoes

\* One step of a registration or removal.
BusDoes(h) ==
  \/ RegisterSlotDoes(h) \/ Locks(h, "reg_lock", "reg_check") \/ RegisterRetryDoes(h)
  \/ RegisterInsertDoes(h) \/ RegisterStoreDoes(h)
  \/ RemoveSlotDoes(h) \/ Locks(h, "rem_lock", "rem_arena") \/ RemoveArenaDoes(h)
  \/ RemoveStoreDoes(h)

LEMMA BusEffect ==
  ASSUME BusTyped, SlotInv, NEW h \in Handlers, RegisterSlot(h) \/ HandlerStep(h)
  PROVE  BusDoes(h)
BY RegisterSlotEffect, LockEffect, RegisterRetryEffect, RegisterInsertEffect,
   RegisterStoreEffect, RemoveSlotEffect, RemoveArenaEffect, RemoveStoreEffect
   DEF HandlerStep, BusDoes

\* NONE is no slot and no handler.
LEMMA NoneApart == NONE \notin Slots /\ NONE \notin Handlers /\ Slots = 1..MaxSlots
BY EventBusAssumption DEF Slots

\* The types.
LEMMA BusTypedStep ==
  ASSUME BusTyped, SlotInv,
         NEW h \in Handlers, BusDoes(h)
  PROVE  BusTyped'
<1>1. CASE RegisterSlotDoes(h)
  BY <1>1, NoneApart DEF BusTyped, Moves, RegisterSlotDoes
<1>2. CASE Locks(h, "reg_lock", "reg_check")
  BY <1>2, NoneApart DEF BusTyped, Moves, Locks
<1>3. CASE RegisterRetryDoes(h)
  BY <1>3, NoneApart DEF BusTyped, Moves, RegisterRetryDoes
<1>4. CASE RegisterInsertDoes(h)
  BY <1>4, NoneApart DEF BusTyped, Moves, RegisterInsertDoes
<1>5. CASE RegisterStoreDoes(h)
  BY <1>5, NoneApart DEF BusTyped, Moves, RegisterStoreDoes
<1>6. CASE RemoveSlotDoes(h)
  BY <1>6, NoneApart DEF BusTyped, Moves, RemoveSlotDoes
<1>7. CASE Locks(h, "rem_lock", "rem_arena")
  BY <1>7, NoneApart DEF BusTyped, Moves, Locks
<1>8. CASE RemoveArenaDoes(h)
  BY <1>8, NoneApart DEF BusTyped, Moves, RemoveArenaDoes
<1>9. CASE RemoveStoreDoes(h)
  BY <1>9, NoneApart DEF BusTyped, Moves, RemoveStoreDoes
<1> QED BY <1>1, <1>2, <1>3, <1>4, <1>5, <1>6, <1>7, <1>8, <1>9 DEF BusDoes

\* Slots and writer locks.
LEMMA SlotStep ==
  ASSUME BusTyped, SlotInv, ArenaInv,
         NEW h \in Handlers, BusDoes(h)
  PROVE  SlotInv'
<1>1. CASE RegisterSlotDoes(h)
  <2>1. slot' # NONE => slot' \in 1..created'
    BY <1>1, NoneApart DEF SlotInv, BusTyped, RegisterSlotDoes
  <2>2. ASSUME NEW k \in Handlers PROVE PointsRight(k)'
    <3>1. CASE k = h
      BY <1>1, <3>1, NoneApart DEF SlotInv, PointsRight, Moves, Pointing, InArena, Listed, BusTyped, RegisterSlotDoes
    <3>2. CASE k # h
      BY <1>1, <3>2, NoneApart DEF SlotInv, PointsRight, Moves, Pointing, InArena, Listed, BusTyped, RegisterSlotDoes
    <3> QED BY <3>1, <3>2
  <2>3. ASSUME NEW s \in Slots, NEW k \in Handlers PROVE OwnsLock(s, k)'
    <3>1. PointsRight(h) /\ PointsRight(k) /\ OwnsLock(s, h) /\ OwnsLock(s, k)
      BY DEF SlotInv
    <3>2. CASE k = h
      BY <1>1, <3>1, <3>2, NoneApart DEF PointsRight, OwnsLock, Locking, Pointing, Moves, Hands, InArena, Listed, RegisterSlotDoes
    <3>3. CASE k # h
      BY <1>1, <3>1, <3>3, NoneApart DEF OwnsLock, Locking, Moves, Hands, RegisterSlotDoes
    <3> QED BY <3>2, <3>3
  <2> QED BY <2>1, <2>2, <2>3 DEF SlotInv
<1>2. CASE Locks(h, "reg_lock", "reg_check")
  <2>1. slot' # NONE => slot' \in 1..created'
    BY <1>2, NoneApart DEF SlotInv, BusTyped, Locks
  <2>2. ASSUME NEW k \in Handlers PROVE PointsRight(k)'
    <3>1. CASE k = h
      BY <1>2, <3>1, NoneApart DEF SlotInv, PointsRight, Moves, Pointing, InArena, Listed, BusTyped, Locks
    <3>2. CASE k # h
      BY <1>2, <3>2, NoneApart DEF SlotInv, PointsRight, Moves, Pointing, InArena, Listed, BusTyped, Locks
    <3> QED BY <3>1, <3>2
  <2>3. ASSUME NEW s \in Slots, NEW k \in Handlers PROVE OwnsLock(s, k)'
    <3>1. PointsRight(h) /\ PointsRight(k) /\ OwnsLock(s, h) /\ OwnsLock(s, k)
      BY DEF SlotInv
    <3>2. CASE k = h
      BY <1>2, <3>1, <3>2, NoneApart DEF PointsRight, OwnsLock, Locking, Pointing, Moves, Hands, InArena, Listed, Locks
    <3>3. CASE k # h
      BY <1>2, <3>1, <3>3, NoneApart DEF OwnsLock, Locking, Moves, Hands, Locks
    <3> QED BY <3>2, <3>3
  <2> QED BY <2>1, <2>2, <2>3 DEF SlotInv
<1>3. CASE RegisterRetryDoes(h)
  <2>1. slot' # NONE => slot' \in 1..created'
    BY <1>3, NoneApart DEF SlotInv, BusTyped, RegisterRetryDoes
  <2>2. ASSUME NEW k \in Handlers PROVE PointsRight(k)'
    <3>1. CASE k = h
      BY <1>3, <3>1, NoneApart DEF SlotInv, PointsRight, Moves, Pointing, InArena, Listed, BusTyped, RegisterRetryDoes
    <3>2. CASE k # h
      BY <1>3, <3>2, NoneApart DEF SlotInv, PointsRight, Moves, Pointing, InArena, Listed, BusTyped, RegisterRetryDoes
    <3> QED BY <3>1, <3>2
  <2>3. ASSUME NEW s \in Slots, NEW k \in Handlers PROVE OwnsLock(s, k)'
    <3>1. PointsRight(h) /\ PointsRight(k) /\ OwnsLock(s, h) /\ OwnsLock(s, k)
      BY DEF SlotInv
    <3>2. CASE k = h
      BY <1>3, <3>1, <3>2, NoneApart DEF PointsRight, OwnsLock, Locking, Pointing, Moves, Hands, InArena, Listed, RegisterRetryDoes
    <3>3. CASE k # h
      BY <1>3, <3>1, <3>3, NoneApart DEF OwnsLock, Locking, Moves, Hands, RegisterRetryDoes
    <3> QED BY <3>2, <3>3
  <2> QED BY <2>1, <2>2, <2>3 DEF SlotInv
<1>4. CASE RegisterInsertDoes(h)
  <2>1. slot' # NONE => slot' \in 1..created'
    BY <1>4, NoneApart DEF SlotInv, BusTyped, RegisterInsertDoes
  <2>2. ASSUME NEW k \in Handlers PROVE PointsRight(k)'
    <3>1. CASE k = h
      BY <1>4, <3>1, NoneApart DEF SlotInv, PointsRight, Moves, Pointing, InArena, Listed, BusTyped, RegisterInsertDoes
    <3>2. CASE k # h
      BY <1>4, <3>2, NoneApart DEF SlotInv, PointsRight, Moves, Pointing, InArena, Listed, BusTyped, RegisterInsertDoes
    <3> QED BY <3>1, <3>2
  <2>3. ASSUME NEW s \in Slots, NEW k \in Handlers PROVE OwnsLock(s, k)'
    <3>1. PointsRight(h) /\ PointsRight(k) /\ OwnsLock(s, h) /\ OwnsLock(s, k)
      BY DEF SlotInv
    <3>2. CASE k = h
      BY <1>4, <3>1, <3>2, NoneApart DEF PointsRight, OwnsLock, Locking, Pointing, Moves, Hands, InArena, Listed, RegisterInsertDoes
    <3>3. CASE k # h
      BY <1>4, <3>1, <3>3, NoneApart DEF OwnsLock, Locking, Moves, Hands, RegisterInsertDoes
    <3> QED BY <3>2, <3>3
  <2> QED BY <2>1, <2>2, <2>3 DEF SlotInv
<1>5. CASE RegisterStoreDoes(h)
  <2>1. slot' # NONE => slot' \in 1..created'
    BY <1>5, NoneApart DEF SlotInv, BusTyped, RegisterStoreDoes
  <2>2. ASSUME NEW k \in Handlers PROVE PointsRight(k)'
    <3>1. CASE k = h
      BY <1>5, <3>1, NoneApart DEF SlotInv, PointsRight, Moves, Pointing, InArena, Listed, BusTyped, RegisterStoreDoes
    <3>2. CASE k # h
      BY <1>5, <3>2, NoneApart DEF SlotInv, PointsRight, Moves, Pointing, InArena, Listed, BusTyped, RegisterStoreDoes
    <3> QED BY <3>1, <3>2
  <2>3. ASSUME NEW s \in Slots, NEW k \in Handlers PROVE OwnsLock(s, k)'
    <3>1. PointsRight(h) /\ PointsRight(k) /\ OwnsLock(s, h) /\ OwnsLock(s, k)
      BY DEF SlotInv
    <3>2. CASE k = h
      BY <1>5, <3>1, <3>2, NoneApart DEF PointsRight, OwnsLock, Locking, Pointing, Moves, Hands, InArena, Listed, RegisterStoreDoes
    <3>3. CASE k # h
      BY <1>5, <3>1, <3>3, NoneApart DEF OwnsLock, Locking, Moves, Hands, RegisterStoreDoes
    <3> QED BY <3>2, <3>3
  <2> QED BY <2>1, <2>2, <2>3 DEF SlotInv
<1>6. CASE RemoveSlotDoes(h)
  <2>1. slot' # NONE => slot' \in 1..created'
    BY <1>6, NoneApart DEF SlotInv, BusTyped, RemoveSlotDoes
  <2>2. ASSUME NEW k \in Handlers PROVE PointsRight(k)'
    <3>1. CASE k = h
      BY <1>6, <3>1, NoneApart DEF SlotInv, PointsRight, Moves, Pointing, InArena, Listed, BusTyped, RemoveSlotDoes
    <3>2. CASE k # h
      BY <1>6, <3>2, NoneApart DEF SlotInv, PointsRight, Moves, Pointing, InArena, Listed, BusTyped, RemoveSlotDoes
    <3> QED BY <3>1, <3>2
  <2>3. ASSUME NEW s \in Slots, NEW k \in Handlers PROVE OwnsLock(s, k)'
    <3>1. PointsRight(h) /\ PointsRight(k) /\ OwnsLock(s, h) /\ OwnsLock(s, k)
      BY DEF SlotInv
    <3>2. CASE k = h
      BY <1>6, <3>1, <3>2, NoneApart DEF PointsRight, OwnsLock, Locking, Pointing, Moves, Hands, InArena, Listed, RemoveSlotDoes
    <3>3. CASE k # h
      BY <1>6, <3>1, <3>3, NoneApart DEF OwnsLock, Locking, Moves, Hands, RemoveSlotDoes
    <3> QED BY <3>2, <3>3
  <2> QED BY <2>1, <2>2, <2>3 DEF SlotInv
<1>7. CASE Locks(h, "rem_lock", "rem_arena")
  <2>1. slot' # NONE => slot' \in 1..created'
    BY <1>7, NoneApart DEF SlotInv, BusTyped, Locks
  <2>2. ASSUME NEW k \in Handlers PROVE PointsRight(k)'
    <3>1. CASE k = h
      BY <1>7, <3>1, NoneApart DEF SlotInv, PointsRight, Moves, Pointing, InArena, Listed, BusTyped, Locks
    <3>2. CASE k # h
      BY <1>7, <3>2, NoneApart DEF SlotInv, PointsRight, Moves, Pointing, InArena, Listed, BusTyped, Locks
    <3> QED BY <3>1, <3>2
  <2>3. ASSUME NEW s \in Slots, NEW k \in Handlers PROVE OwnsLock(s, k)'
    <3>1. PointsRight(h) /\ PointsRight(k) /\ OwnsLock(s, h) /\ OwnsLock(s, k)
      BY DEF SlotInv
    <3>2. CASE k = h
      BY <1>7, <3>1, <3>2, NoneApart DEF PointsRight, OwnsLock, Locking, Pointing, Moves, Hands, InArena, Listed, Locks
    <3>3. CASE k # h
      BY <1>7, <3>1, <3>3, NoneApart DEF OwnsLock, Locking, Moves, Hands, Locks
    <3> QED BY <3>2, <3>3
  <2> QED BY <2>1, <2>2, <2>3 DEF SlotInv
<1>8. CASE RemoveArenaDoes(h)
  <2>1. slot' # NONE => slot' \in 1..created'
    BY <1>8, NoneApart DEF SlotInv, BusTyped, RemoveArenaDoes
  <2>2. ASSUME NEW k \in Handlers PROVE PointsRight(k)'
    <3>1. CASE k = h
      BY <1>8, <3>1, NoneApart DEF SlotInv, PointsRight, Moves, Pointing, InArena, Listed, BusTyped, RemoveArenaDoes
    <3>2. CASE k # h
      BY <1>8, <3>2, NoneApart DEF SlotInv, PointsRight, Moves, Pointing, InArena, Listed, BusTyped, RemoveArenaDoes
    <3> QED BY <3>1, <3>2
  <2>3. ASSUME NEW s \in Slots, NEW k \in Handlers PROVE OwnsLock(s, k)'
    <3>1. PointsRight(h) /\ PointsRight(k) /\ OwnsLock(s, h) /\ OwnsLock(s, k)
      BY DEF SlotInv
    <3>2. CASE k = h
      BY <1>8, <3>1, <3>2, NoneApart DEF PointsRight, OwnsLock, Locking, Pointing, Moves, Hands, InArena, Listed, RemoveArenaDoes
    <3>3. CASE k # h
      BY <1>8, <3>1, <3>3, NoneApart DEF OwnsLock, Locking, Moves, Hands, RemoveArenaDoes
    <3> QED BY <3>2, <3>3
  <2> QED BY <2>1, <2>2, <2>3 DEF SlotInv
<1>9. CASE RemoveStoreDoes(h)
  <2>1. slot' # NONE => slot' \in 1..created'
    BY <1>9, NoneApart DEF SlotInv, BusTyped, RemoveStoreDoes
  <2>2. ASSUME NEW k \in Handlers PROVE PointsRight(k)'
    <3>1. CASE k = h
      BY <1>9, <3>1, NoneApart DEF SlotInv, PointsRight, Moves, Pointing, InArena, Listed, BusTyped, RemoveStoreDoes
    <3>2. CASE k # h
      BY <1>9, <3>2, NoneApart DEF SlotInv, PointsRight, Moves, Pointing, InArena, Listed, BusTyped, RemoveStoreDoes, ArenaInv, ArenaRight, OwnsLock, Locking
    <3> QED BY <3>1, <3>2
  <2>3. ASSUME NEW s \in Slots, NEW k \in Handlers PROVE OwnsLock(s, k)'
    <3>1. PointsRight(h) /\ PointsRight(k) /\ OwnsLock(s, h) /\ OwnsLock(s, k)
      BY DEF SlotInv
    <3>2. CASE k = h
      BY <1>9, <3>1, <3>2, NoneApart DEF PointsRight, OwnsLock, Locking, Pointing, Moves, Hands, InArena, Listed, RemoveStoreDoes
    <3>3. CASE k # h
      BY <1>9, <3>1, <3>3, NoneApart DEF OwnsLock, Locking, Moves, Hands, RemoveStoreDoes
    <3> QED BY <3>2, <3>3
  <2> QED BY <2>1, <2>2, <2>3 DEF SlotInv
<1> QED BY <1>1, <1>2, <1>3, <1>4, <1>5, <1>6, <1>7, <1>8, <1>9 DEF BusDoes

\* The arena, and the decision to drop the slot.
LEMMA ArenaStep ==
  ASSUME BusTyped, SlotInv, ArenaInv, SnapshotInv,
         NEW h \in Handlers, BusDoes(h)
  PROVE  ArenaInv'
<1>1. CASE RegisterSlotDoes(h)
  <2>1. ASSUME NEW k \in Handlers PROVE ArenaRight(k)'
    <3>1. PointsRight(h) /\ PointsRight(k) /\ ArenaRight(h) /\ ArenaRight(k)
      BY DEF SlotInv, ArenaInv
    <3>2. \A s \in Slots : OwnsLock(s, h) /\ OwnsLock(s, k)
      BY DEF SlotInv
    <3>3. CASE k = h
      BY <1>1, <3>1, <3>3 DEF ArenaRight, InArena, Moves, RegisterSlotDoes
    <3>4. CASE k # h
      BY <1>1, <3>1, <3>2, <3>4, NoneApart DEF ArenaRight, PointsRight, OwnsLock, Locking, InArena, Listed, Moves, RegisterSlotDoes
    <3> QED BY <3>3, <3>4
  <2>2. slot' # NONE /\ arena' = {} => \E k \in Handlers : reg'[k].slot = slot'
    BY <1>1, NoneApart DEF ArenaInv, ArenaRight, InArena, Moves, RegisterSlotDoes
  <2> QED BY <2>1, <2>2 DEF ArenaInv
<1>2. CASE Locks(h, "reg_lock", "reg_check")
  <2>1. ASSUME NEW k \in Handlers PROVE ArenaRight(k)'
    <3>1. PointsRight(h) /\ PointsRight(k) /\ ArenaRight(h) /\ ArenaRight(k)
      BY DEF SlotInv, ArenaInv
    <3>2. \A s \in Slots : OwnsLock(s, h) /\ OwnsLock(s, k)
      BY DEF SlotInv
    <3>3. CASE k = h
      BY <1>2, <3>1, <3>3 DEF ArenaRight, InArena, Moves, Locks
    <3>4. CASE k # h
      BY <1>2, <3>1, <3>2, <3>4, NoneApart DEF ArenaRight, PointsRight, OwnsLock, Locking, InArena, Listed, Moves, Locks
    <3> QED BY <3>3, <3>4
  <2>2. slot' # NONE /\ arena' = {} => \E k \in Handlers : reg'[k].slot = slot'
    BY <1>2, NoneApart DEF ArenaInv, ArenaRight, InArena, Moves, Locks
  <2> QED BY <2>1, <2>2 DEF ArenaInv
<1>3. CASE RegisterRetryDoes(h)
  <2>1. ASSUME NEW k \in Handlers PROVE ArenaRight(k)'
    <3>1. PointsRight(h) /\ PointsRight(k) /\ ArenaRight(h) /\ ArenaRight(k)
      BY DEF SlotInv, ArenaInv
    <3>2. \A s \in Slots : OwnsLock(s, h) /\ OwnsLock(s, k)
      BY DEF SlotInv
    <3>3. CASE k = h
      BY <1>3, <3>1, <3>3 DEF ArenaRight, InArena, Moves, RegisterRetryDoes
    <3>4. CASE k # h
      BY <1>3, <3>1, <3>2, <3>4, NoneApart DEF ArenaRight, PointsRight, OwnsLock, Locking, InArena, Listed, Moves, RegisterRetryDoes
    <3> QED BY <3>3, <3>4
  <2>2. slot' # NONE /\ arena' = {} => \E k \in Handlers : reg'[k].slot = slot'
    BY <1>3, NoneApart DEF ArenaInv, ArenaRight, InArena, Moves, RegisterRetryDoes
  <2> QED BY <2>1, <2>2 DEF ArenaInv
<1>4. CASE RegisterInsertDoes(h)
  <2>1. ASSUME NEW k \in Handlers PROVE ArenaRight(k)'
    <3>1. PointsRight(h) /\ PointsRight(k) /\ ArenaRight(h) /\ ArenaRight(k)
      BY DEF SlotInv, ArenaInv
    <3>2. \A s \in Slots : OwnsLock(s, h) /\ OwnsLock(s, k)
      BY DEF SlotInv
    <3>3. CASE k = h
      BY <1>4, <3>1, <3>3 DEF ArenaRight, InArena, Moves, RegisterInsertDoes
    <3>4. CASE k # h
      BY <1>4, <3>1, <3>2, <3>4, NoneApart DEF ArenaRight, PointsRight, OwnsLock, Locking, InArena, Listed, Moves, RegisterInsertDoes
    <3> QED BY <3>3, <3>4
  <2>2. slot' # NONE /\ arena' = {} => \E k \in Handlers : reg'[k].slot = slot'
    BY <1>4, NoneApart DEF ArenaInv, ArenaRight, InArena, Moves, RegisterInsertDoes
  <2> QED BY <2>1, <2>2 DEF ArenaInv
<1>5. CASE RegisterStoreDoes(h)
  <2>1. ASSUME NEW k \in Handlers PROVE ArenaRight(k)'
    <3>1. PointsRight(h) /\ PointsRight(k) /\ ArenaRight(h) /\ ArenaRight(k)
      BY DEF SlotInv, ArenaInv
    <3>2. \A s \in Slots : OwnsLock(s, h) /\ OwnsLock(s, k)
      BY DEF SlotInv
    <3>3. CASE k = h
      BY <1>5, <3>1, <3>3 DEF ArenaRight, InArena, Moves, RegisterStoreDoes
    <3>4. CASE k # h
      BY <1>5, <3>1, <3>2, <3>4, NoneApart DEF ArenaRight, PointsRight, OwnsLock, Locking, InArena, Listed, Moves, RegisterStoreDoes
    <3> QED BY <3>3, <3>4
  <2>2. slot' # NONE /\ arena' = {} => \E k \in Handlers : reg'[k].slot = slot'
    BY <1>5, NoneApart DEF ArenaInv, ArenaRight, InArena, Moves, RegisterStoreDoes
  <2> QED BY <2>1, <2>2 DEF ArenaInv
<1>6. CASE RemoveSlotDoes(h)
  <2>1. ASSUME NEW k \in Handlers PROVE ArenaRight(k)'
    <3>1. PointsRight(h) /\ PointsRight(k) /\ ArenaRight(h) /\ ArenaRight(k)
      BY DEF SlotInv, ArenaInv
    <3>2. \A s \in Slots : OwnsLock(s, h) /\ OwnsLock(s, k)
      BY DEF SlotInv
    <3>3. CASE k = h
      BY <1>6, <3>1, <3>3 DEF ArenaRight, InArena, Moves, RemoveSlotDoes
    <3>4. CASE k # h
      BY <1>6, <3>1, <3>2, <3>4, NoneApart DEF ArenaRight, PointsRight, OwnsLock, Locking, InArena, Listed, Moves, RemoveSlotDoes
    <3> QED BY <3>3, <3>4
  <2>2. slot' # NONE /\ arena' = {} => \E k \in Handlers : reg'[k].slot = slot'
    BY <1>6, NoneApart DEF ArenaInv, ArenaRight, InArena, Moves, RemoveSlotDoes
  <2> QED BY <2>1, <2>2 DEF ArenaInv
<1>7. CASE Locks(h, "rem_lock", "rem_arena")
  <2>1. ASSUME NEW k \in Handlers PROVE ArenaRight(k)'
    <3>1. PointsRight(h) /\ PointsRight(k) /\ ArenaRight(h) /\ ArenaRight(k)
      BY DEF SlotInv, ArenaInv
    <3>2. \A s \in Slots : OwnsLock(s, h) /\ OwnsLock(s, k)
      BY DEF SlotInv
    <3>3. CASE k = h
      BY <1>7, <3>1, <3>3 DEF ArenaRight, InArena, Moves, Locks
    <3>4. CASE k # h
      BY <1>7, <3>1, <3>2, <3>4, NoneApart DEF ArenaRight, PointsRight, OwnsLock, Locking, InArena, Listed, Moves, Locks
    <3> QED BY <3>3, <3>4
  <2>2. slot' # NONE /\ arena' = {} => \E k \in Handlers : reg'[k].slot = slot'
    BY <1>7, NoneApart DEF ArenaInv, ArenaRight, InArena, Moves, Locks
  <2> QED BY <2>1, <2>2 DEF ArenaInv
<1>8. CASE RemoveArenaDoes(h)
  <2>1. ASSUME NEW k \in Handlers PROVE ArenaRight(k)'
    <3>1. PointsRight(h) /\ PointsRight(k) /\ ArenaRight(h) /\ ArenaRight(k)
      BY DEF SlotInv, ArenaInv
    <3>2. \A s \in Slots : OwnsLock(s, h) /\ OwnsLock(s, k)
      BY DEF SlotInv
    <3>3. CASE k = h
      BY <1>8, <3>1, <3>3 DEF ArenaRight, InArena, Moves, RemoveArenaDoes
    <3>4. CASE k # h
      BY <1>8, <3>1, <3>2, <3>4, NoneApart DEF ArenaRight, PointsRight, OwnsLock, Locking, InArena, Listed, Moves, RemoveArenaDoes
    <3> QED BY <3>3, <3>4
  <2>2. slot' # NONE /\ arena' = {} => \E k \in Handlers : reg'[k].slot = slot'
    BY <1>8, NoneApart DEF ArenaInv, ArenaRight, InArena, Moves, RemoveArenaDoes
  <2> QED BY <2>1, <2>2 DEF ArenaInv
<1>9. CASE RemoveStoreDoes(h)
  <2>1. ASSUME NEW k \in Handlers PROVE ArenaRight(k)'
    <3>1. PointsRight(h) /\ PointsRight(k) /\ ArenaRight(h) /\ ArenaRight(k)
      BY DEF SlotInv, ArenaInv
    <3>2. \A s \in Slots : OwnsLock(s, h) /\ OwnsLock(s, k)
      BY DEF SlotInv
    <3>3. CASE k = h
      BY <1>9, <3>1, <3>3 DEF ArenaRight, InArena, Moves, RemoveStoreDoes
    <3>4. CASE k # h
      BY <1>9, <3>1, <3>2, <3>4, NoneApart DEF ArenaRight, PointsRight, OwnsLock, Locking, InArena, Listed, Moves, RemoveStoreDoes
    <3> QED BY <3>3, <3>4
  <2>2. slot' # NONE /\ arena' = {} => \E k \in Handlers : reg'[k].slot = slot'
    <3> SUFFICES ASSUME slot' # NONE, arena' = {} PROVE FALSE
      OBVIOUS
    <3>1. reg[h].pc = "rem_last" /\ reg[h].slot = slot /\ slot \in Slots /\ arena = {}
      BY <1>9 DEF ArenaInv, ArenaRight, RemoveStoreDoes
    <3>2. snapshot[slot] \in Seq(Handlers)
      BY <3>1 DEF BusTyped
    <3>3. ASSUME NEW k \in Handlers, Lists(snapshot[slot], k) PROVE k = h
      <4>1. reg[k].pc \in Listed /\ k \notin arena
        BY <3>1, <3>3, NoneApart DEF SnapshotInv
      <4>2. reg[k].pc \in {"rem_store", "rem_last"} /\ reg[k].slot = slot
        BY <4>1 DEF ArenaInv, ArenaRight, SlotInv, PointsRight, InArena, Listed
      <4>3. OwnsLock(slot, k) /\ OwnsLock(slot, h)
        BY <3>1 DEF SlotInv
      <4> QED BY <3>1, <4>2, <4>3 DEF OwnsLock, Locking
    <3>4. \A x : ~Lists(Without(snapshot[slot], h), x)
      <4>1. \A x : Lists(snapshot[slot], x) => x \in Handlers
        BY <3>2 DEF Lists
      <4> QED BY <3>2, <3>3, <4>1, WithoutProperties
    <3>5. Without(snapshot[slot], h) \in Seq(Handlers)
      BY <3>2, WithoutProperties
    <3>6. Without(snapshot[slot], h) = <<>>
      BY <3>4, <3>5 DEF Lists
    <3> QED BY <1>9, <3>1, <3>6 DEF RemoveStoreDoes
  <2> QED BY <2>1, <2>2 DEF ArenaInv
<1> QED BY <1>1, <1>2, <1>3, <1>4, <1>5, <1>6, <1>7, <1>8, <1>9 DEF BusDoes

\* The snapshots.
LEMMA SnapshotStep ==
  ASSUME BusTyped, SlotInv, ArenaInv, SnapshotInv,
         NEW h \in Handlers, BusDoes(h)
  PROVE  SnapshotInv'
<1>1. CASE RegisterSlotDoes(h)
  <2>1. snapshot' = snapshot
    BY <1>1 DEF RegisterSlotDoes
  <2>2. ASSUME NEW k \in Handlers PROVE reg'[k].pc \in Listed <=> reg[k].pc \in Listed
    BY <1>1 DEF Listed, Moves, RegisterSlotDoes
  <2>3. CASE slot' = slot
    BY <2>1, <2>2, <2>3 DEF SnapshotInv
  <2>4. CASE slot' # slot
    <3>1. slot = NONE /\ slot' \in Slots
      BY <1>1, <2>4, NoneApart DEF RegisterSlotDoes
    <3>2. \A s \in Slots : snapshot[s] = <<>>
      BY <3>1, NoneApart DEF SnapshotInv
    <3>3. \A k \in Handlers : reg[k].pc \notin Listed
      BY <3>1 DEF SlotInv, PointsRight
    <3> QED BY <2>1, <2>2, <3>1, <3>2, <3>3 DEF SnapshotInv, Lists, Once
  <2> QED BY <2>3, <2>4
<1>2. CASE Locks(h, "reg_lock", "reg_check")
  <2>1. snapshot' = snapshot /\ slot' = slot
    BY <1>2 DEF Locks
  <2>2. ASSUME NEW k \in Handlers PROVE reg'[k].pc \in Listed <=> reg[k].pc \in Listed
    BY <1>2 DEF Listed, Moves, Locks
  <2> QED BY <2>1, <2>2 DEF SnapshotInv
<1>3. CASE RegisterRetryDoes(h)
  <2>1. snapshot' = snapshot /\ slot' = slot
    BY <1>3 DEF RegisterRetryDoes
  <2>2. ASSUME NEW k \in Handlers PROVE reg'[k].pc \in Listed <=> reg[k].pc \in Listed
    BY <1>3 DEF Listed, Moves, RegisterRetryDoes
  <2> QED BY <2>1, <2>2 DEF SnapshotInv
<1>4. CASE RegisterInsertDoes(h)
  <2>1. snapshot' = snapshot /\ slot' = slot
    BY <1>4 DEF RegisterInsertDoes
  <2>2. ASSUME NEW k \in Handlers PROVE reg'[k].pc \in Listed <=> reg[k].pc \in Listed
    BY <1>4 DEF Listed, Moves, RegisterInsertDoes
  <2> QED BY <2>1, <2>2 DEF SnapshotInv
<1>5. CASE RegisterStoreDoes(h)
  <2>1. /\ slot' = slot /\ slot \in Slots /\ slot # NONE /\ reg[h].pc = "reg_store"
        /\ \A s \in Slots : snapshot'[s] = IF s = slot THEN Append(snapshot[s], h) ELSE snapshot[s]
        /\ Moves(h, "registered", NONE)
    BY <1>5, NoneApart DEF RegisterStoreDoes
  <2> DEFINE list == snapshot[slot]
  <2>2. list \in Seq(Handlers) /\ Append(list, h) = snapshot'[slot]
    BY <2>1 DEF BusTyped
  <2>3. \A k \in Handlers : Lists(list, k) <=> reg[k].pc \in Listed
    BY <2>1 DEF SnapshotInv
  <2>4. Once(list) /\ ~Lists(list, h)
    BY <2>1, <2>3 DEF SnapshotInv, Listed
  <2> HIDE DEF list
  <2>5. \A k \in Handlers : Lists(Append(list, h), k) <=> Lists(list, k) \/ k = h
    BY <2>2 DEF Lists
  <2>6. Once(Append(list, h))
    <3>1. /\ DOMAIN Append(list, h) = 1..(Len(list) + 1) /\ DOMAIN list = 1..Len(list)
          /\ Append(list, h)[Len(list) + 1] = h
          /\ \A i \in 1..Len(list) : Append(list, h)[i] = list[i] /\ list[i] # h
      BY <2>2, <2>4 DEF Lists
    <3>2. Len(list) \in Nat /\ Once(list)
      BY <2>2, <2>4
    <3> QED BY <3>1, <3>2 DEF Once
  <2>7. ASSUME NEW k \in Handlers PROVE Lists(Append(list, h), k) <=> reg'[k].pc \in Listed
    BY <2>1, <2>3, <2>5 DEF Moves, Listed
  <2>8. \A s \in Slots : s # slot' => snapshot'[s] = <<>>
    BY <2>1 DEF SnapshotInv
  <2> QED BY <2>1, <2>2, <2>6, <2>7, <2>8 DEF SnapshotInv
<1>6. CASE RemoveSlotDoes(h)
  <2>1. snapshot' = snapshot /\ slot' = slot
    BY <1>6 DEF RemoveSlotDoes
  <2>2. ASSUME NEW k \in Handlers PROVE reg'[k].pc \in Listed <=> reg[k].pc \in Listed
    BY <1>6 DEF Listed, Moves, RemoveSlotDoes
  <2> QED BY <2>1, <2>2 DEF SnapshotInv
<1>7. CASE Locks(h, "rem_lock", "rem_arena")
  <2>1. snapshot' = snapshot /\ slot' = slot
    BY <1>7 DEF Locks
  <2>2. ASSUME NEW k \in Handlers PROVE reg'[k].pc \in Listed <=> reg[k].pc \in Listed
    BY <1>7 DEF Listed, Moves, Locks
  <2> QED BY <2>1, <2>2 DEF SnapshotInv
<1>8. CASE RemoveArenaDoes(h)
  <2>1. snapshot' = snapshot /\ slot' = slot
    BY <1>8 DEF RemoveArenaDoes
  <2>2. ASSUME NEW k \in Handlers PROVE reg'[k].pc \in Listed <=> reg[k].pc \in Listed
    BY <1>8 DEF Listed, Moves, RemoveArenaDoes
  <2> QED BY <2>1, <2>2 DEF SnapshotInv
<1>9. CASE RemoveStoreDoes(h)
  <2> DEFINE list == snapshot[slot]
             rest == Without(list, h)
  <2>1. /\ slot \in Slots /\ slot # NONE /\ reg[h].pc \in {"rem_store", "rem_last"}
        /\ \A s \in Slots : snapshot'[s] = IF s = slot THEN rest ELSE snapshot[s]
        /\ Moves(h, "removed", NONE)
        /\ slot' = slot \/ (slot' = NONE /\ rest = <<>>)
    BY <1>9, NoneApart DEF RemoveStoreDoes
  <2>2. list \in Seq(Handlers)
    BY <2>1 DEF BusTyped
  <2>3. \A k \in Handlers : Lists(list, k) <=> reg[k].pc \in Listed
    BY <2>1 DEF SnapshotInv
  <2>4. Once(list)
    BY <2>1 DEF SnapshotInv
  <2> HIDE DEF list
  <2>5. Once(rest) /\ \A k \in Handlers : Lists(rest, k) <=> Lists(list, k) /\ k # h
    BY <2>2, <2>4, WithoutProperties
  <2> HIDE DEF rest
  <2>6. ASSUME NEW k \in Handlers PROVE Lists(rest, k) <=> reg'[k].pc \in Listed
    BY <2>1, <2>3, <2>5 DEF Moves, Listed
  <2>7. \A s \in Slots : s # slot => snapshot'[s] = <<>>
    BY <2>1 DEF SnapshotInv
  <2>8. \A s \in Slots : s # slot' => snapshot'[s] = <<>>
    BY <2>1, <2>7
  <2> QED BY <2>1, <2>5, <2>6, <2>8 DEF SnapshotInv
<1> QED BY <1>1, <1>2, <1>3, <1>4, <1>5, <1>6, <1>7, <1>8, <1>9 DEF BusDoes

-----------------------------------------------------------------------------
(***************************************************************************)
(* The gates.  A generation that stopped admitting never admits again, a   *)
(* visible one becomes invisible only as it stops admitting, and one that  *)
(* drains has no lease.                                                    *)
(***************************************************************************)
GatesDo ==
  /\ bus' = bus /\ reg' = reg /\ dis' = dis
  /\ \A g \in Gens : gate[g] # "accepting" => gate'[g] # "accepting"
  /\ \A g \in Gens : gate'[g] = "drained" /\ gate[g] # "drained" => Leases(g) = {}
  /\ \A g \in Gens : gate[g] = "drained" => gate'[g] = "drained"
  /\ \A g \in Gens, p \in Plugins :
       active[p] = g => active'[p] = g \/ gate'[g] # "accepting"
  /\ \A g \in Gens, p \in Plugins :
       active'[p] = g => gate'[g] = "accepting" /\ PluginOf[g] = p

LEMMA PluginOfGen == \A g \in Gens : PluginOf[g] \in Plugins
BY DEF Plugins

\* The place of a handler's generation in the selector and the caches.
LEMMA HandlerFacts ==
  ASSUME NEW h \in Handlers
  PROVE  GenOf[h] \in Gens /\ PluginOf[GenOf[h]] \in Plugins /\ GenOf[h] # Unread
BY EventBusAssumption, PluginOfGen DEF Unread

LEMMA GatesEffect ==
  ASSUME GatesTyped, GateInv,
         \/ \E g \in Gens : PublishGen(g) \/ CloseGen(g) \/ DrainGen(g)
         \/ \E old, new \in Gens : CutoverSwitch(old, new)
  PROVE  GatesTyped' /\ GatesDo
<1> USE PluginOfGen, EventBusAssumption
<1>0. /\ active \in [Plugins -> Gens \cup {NONE}] /\ gate \in [Gens -> GateStates]
      /\ \A g \in Gens, p \in Plugins : active[p] = g => gate[g] = "accepting" /\ PluginOf[g] = p
  BY DEF GatesTyped, GateInv
<1>1. ASSUME NEW g \in Gens, PublishGen(g) PROVE GatesTyped' /\ GatesDo
  <2>1. /\ active[PluginOf[g]] = NONE /\ gate[g] = "accepting"
        /\ active' = [active EXCEPT ![PluginOf[g]] = g] /\ gate' = gate
        /\ bus' = bus /\ reg' = reg /\ dis' = dis
    BY <1>1 DEF PublishGen
  <2> QED BY <1>0, <2>1 DEF GatesTyped, GatesDo, GateStates
<1>2. ASSUME NEW g \in Gens, CloseGen(g) PROVE GatesTyped' /\ GatesDo
  <2>1. /\ gate[g] \in {"accepting", "superseded"}
        /\ active' = [active EXCEPT ![PluginOf[g]] = IF active[PluginOf[g]] = g THEN NONE ELSE active[PluginOf[g]]]
        /\ gate' = [gate EXCEPT ![g] = "draining"]
        /\ bus' = bus /\ reg' = reg /\ dis' = dis
    BY <1>2 DEF CloseGen
  <2> QED BY <1>0, <2>1 DEF GatesTyped, GatesDo, GateStates
<1>3. ASSUME NEW g \in Gens, DrainGen(g) PROVE GatesTyped' /\ GatesDo
  <2>1. /\ gate[g] = "draining" /\ Leases(g) = {} /\ active' = active
        /\ gate' = [gate EXCEPT ![g] = "drained"]
        /\ bus' = bus /\ reg' = reg /\ dis' = dis
    BY <1>3 DEF DrainGen
  <2> QED BY <1>0, <2>1 DEF GatesTyped, GatesDo, GateStates
<1>4. ASSUME NEW old \in Gens, NEW new \in Gens, CutoverSwitch(old, new)
      PROVE  GatesTyped' /\ GatesDo
  <2>1. /\ old # new /\ PluginOf[old] = PluginOf[new]
        /\ active[PluginOf[old]] = old /\ gate[new] = "accepting"
        /\ active' = [active EXCEPT ![PluginOf[old]] = new]
        /\ gate' = [gate EXCEPT ![old] = "superseded"]
        /\ bus' = bus /\ reg' = reg /\ dis' = dis
    BY <1>4 DEF CutoverSwitch
  <2> QED BY <1>0, <2>1 DEF GatesTyped, GatesDo, GateStates
<1> QED BY <1>1, <1>2, <1>3, <1>4

\* A gate step keeps the bus and what the dispatches owe and hold.
LEMMA GatesStep ==
  ASSUME EventBusInv, GatesTyped', GatesDo
  PROVE  EventBusInv'
<1>1. BusTyped' /\ DisTyped' /\ SlotInv' /\ ArenaInv' /\ SnapshotInv'
  <2>1. /\ slot' = slot /\ snapshot' = snapshot /\ writer' = writer /\ arena' = arena
        /\ created' = created /\ reg' = reg /\ dis' = dis
    BY DEF GatesDo, bus
  <2> QED BY <2>1 DEF EventBusInv, Typed, BusInv, BusTyped, DisTyped, SlotInv, PointsRight,
              OwnsLock, ArenaInv, ArenaRight, SnapshotInv
<1>2. GateInv'
  <2>1. GenOf \in [Handlers -> Gens] /\ GateInv /\ reg' = reg
    BY EventBusAssumption DEF EventBusInv, GatesDo
  <2> QED BY <2>1 DEF GateInv, GatesDo
<1>3. ASSUME NEW d \in Dispatchers PROVE DispatchOK(dis[d])'
  <2>1. dis' = dis /\ reg' = reg /\ slot' = slot /\ DispatchOK(dis[d]) /\ dis[d] \in DisRec
    BY DEF GatesDo, bus, EventBusInv, DispatchInv, Typed, DisTyped
  <2>2. dis[d].held \subseteq Handlers /\ dis[d].due \subseteq Handlers
    BY <2>1 DEF DisRec
  <2>3. \A h \in dis[d].held : gate[GenOf[h]] # "drained" => gate'[GenOf[h]] # "drained"
    BY <2>2, EventBusAssumption DEF GatesDo, Leases
  <2>4. LeaseInv(dis[d])'
    BY <2>1, <2>3 DEF DispatchOK, LeaseInv
  <2>5. ASSUME NEW h \in dis[d].due
        PROVE  /\ Visible(h)' \/ gate'[GenOf[h]] # "accepting"
               /\ Visible(h)' => Visible(h)
    <3>1. h \in Handlers /\ GenOf[h] \in Gens /\ PluginOf[GenOf[h]] \in Plugins
      BY <2>2, EventBusAssumption, PluginOfGen
    <3>2. Visible(h) \/ gate[GenOf[h]] # "accepting"
      BY <2>1 DEF DispatchOK, DueInv
    <3> QED BY <3>1, <3>2 DEF Visible, GatesDo
  <2>6. \A h : Owed(dis[d], h)' <=> Owed(dis[d], h)
    BY <2>1 DEF Owed, Passed
  <2>7. DueInv(dis[d])'
    BY <2>1, <2>5, <2>6 DEF DispatchOK, DueInv
  <2>8. Shape(dis[d])' /\ CacheInv(dis[d])' /\ OrderInv(dis[d])'
    <3>1. Shape(dis[d])'
      <4>1. Shape(dis[d])
        BY <2>1 DEF DispatchOK
      <4> QED BY <2>1, <4>1 DEF Shape
    <3>2. CacheInv(dis[d])'
      BY <2>1 DEF DispatchOK, CacheInv, Chosen
    <3>3. OrderInv(dis[d])'
      BY <2>1 DEF DispatchOK, OrderInv
    <3> QED BY <3>1, <3>2, <3>3
  <2> QED BY <2>4, <2>7, <2>8 DEF DispatchOK
<1> QED BY <1>1, <1>2, <1>3 DEF EventBusInv, Typed, BusInv, DispatchInv

\* A step of the bus keeps them as well.
LEMMA BusKeepsDispatches ==
  ASSUME EventBusInv, NEW h \in Handlers, BusDoes(h)
  PROVE  GatesTyped' /\ DisTyped' /\ GateInv' /\ DispatchInv'
<1>1. gates' = gates /\ dis' = dis
  BY DEF BusDoes, RegisterSlotDoes, Locks, RegisterRetryDoes, RegisterInsertDoes,
         RegisterStoreDoes, RemoveSlotDoes, RemoveArenaDoes, RemoveStoreDoes
<1>2. active' = active /\ gate' = gate
  BY <1>1 DEF gates
<1>3. GatesTyped' /\ DisTyped'
  BY <1>1, <1>2 DEF EventBusInv, Typed, GatesTyped, DisTyped
<1>4. ASSUME NEW k \in Handlers
      PROVE  /\ reg[k].pc \in Listed \cup {"removed"} => reg'[k].pc \in Listed \cup {"removed"}
             /\ reg'[k].pc \in Leaving => reg[k].pc \in Leaving \/ gate[GenOf[k]] = "drained"
             /\ reg[k].pc = "registered" /\ gate[GenOf[k]] # "drained" => reg'[k].pc = "registered"
  BY DEF BusDoes, RegisterSlotDoes, Locks, RegisterRetryDoes, RegisterInsertDoes,
         RegisterStoreDoes, RemoveSlotDoes, RemoveArenaDoes, RemoveStoreDoes, Moves,
         Listed, Leaving
<1>5. ASSUME NEW k \in Handlers, reg[k].pc = "registered" PROVE slot' = slot
  <2>1. slot # NONE /\ arena # {}
    BY <1>5 DEF EventBusInv, BusInv, SlotInv, PointsRight, ArenaInv, ArenaRight, InArena
  <2>2. CASE RemoveStoreDoes(h)
    BY <2>1, <2>2 DEF RemoveStoreDoes, EventBusInv, BusInv, ArenaInv, ArenaRight
  <2>3. CASE ~RemoveStoreDoes(h)
    BY <2>1, <2>3 DEF BusDoes, RegisterSlotDoes, Locks, RegisterRetryDoes, RegisterInsertDoes,
         RegisterStoreDoes, RemoveSlotDoes, RemoveArenaDoes
  <2> QED BY <2>2, <2>3
<1>6. GateInv'
  BY <1>2, <1>4 DEF EventBusInv, GateInv
<1>7. ASSUME NEW d \in Dispatchers PROVE DispatchOK(dis[d])'
  <2>1. DispatchOK(dis[d]) /\ dis[d] \in DisRec
    BY DEF EventBusInv, DispatchInv, Typed, DisTyped
  <2>2. dis[d].held \subseteq Handlers /\ dis[d].due \subseteq Handlers /\ dis[d].list \in Seq(Handlers)
    BY <2>1 DEF DisRec
  <2>3. LeaseInv(dis[d])'
    <3>1. LeaseInv(dis[d])
      BY <2>1 DEF DispatchOK
    <3> QED BY <1>1, <1>2, <1>4, <2>2, <3>1 DEF LeaseInv
  <2>4. ASSUME NEW k \in dis[d].due, Visible(k) PROVE Owed(dis[d], k)'
    <3>1. Owed(dis[d], k) /\ k \in Handlers
      BY <2>1, <2>2, <2>4 DEF DispatchOK, DueInv
    <3>2. gate[GenOf[k]] # "drained"
      BY <2>4, <3>1, EventBusAssumption, PluginOfGen DEF Visible, EventBusInv, GateInv
    <3> QED BY <1>1, <1>4, <1>5, <3>1, <3>2 DEF Owed, Passed
  <2>5. DueInv(dis[d])'
    BY <1>1, <1>2, <2>1, <2>4 DEF DispatchOK, DueInv, Visible
  <2>6. Shape(dis[d])' /\ CacheInv(dis[d])' /\ OrderInv(dis[d])'
    <3>1. Shape(dis[d])'
      <4>1. Shape(dis[d])
        BY <2>1 DEF DispatchOK
      <4> QED BY <1>1, <4>1 DEF Shape
    <3>2. CacheInv(dis[d])'
      BY <1>1, <2>1 DEF DispatchOK, CacheInv, Chosen
    <3>3. OrderInv(dis[d])'
      BY <1>1, <2>1 DEF DispatchOK, OrderInv
    <3> QED BY <3>1, <3>2, <3>3
  <2> QED BY <2>3, <2>5, <2>6 DEF DispatchOK
<1> QED BY <1>3, <1>6, <1>7 DEF DispatchInv

-----------------------------------------------------------------------------
(***************************************************************************)
(* Dispatches.  A step of dispatch d replaces its record; what it does is  *)
(* said by the fields of the record before and after it.                   *)
(***************************************************************************)
OthersStay(d) ==
  /\ dis' \in [Dispatchers -> DisRec]
  /\ \A e \in Dispatchers : e # d => dis'[e] = dis[e]

\* From r to q, which keeps its kind and what is due.
Goes(r, q, pc, list, at, cache, held, ran, cut) ==
  /\ q.kind = r.kind /\ q.due = r.due
  /\ q.pc = pc /\ q.list = list /\ q.at = at /\ q.cache = cache
  /\ q.held = held /\ q.ran = ran /\ q.cut = cut

\* The types of the fields of a dispatch.
Fields(r) ==
  /\ r.pc \in DisPCs /\ r.kind \in Kinds \cup {"none"} /\ r.slot \in Slots \cup {NONE}
  /\ r.list \in Seq(Handlers) /\ r.at \in Nat /\ r.cache \in Caches
  /\ r.held \in SUBSET Handlers /\ r.ran \in Seq(Handlers) /\ r.cut \in BOOLEAN
  /\ r.due \in SUBSET Handlers

LEMMA DisFields == ASSUME NEW r \in DisRec PROVE Fields(r)
BY DEF DisRec, Fields

LEMMA IdleFields ==
  /\ Idle \in DisRec /\ Idle.cache \in Caches
  /\ \A p \in Plugins : Idle.cache[p] = Unread
  /\ Idle.pc = "idle" /\ Idle.kind = "none" /\ Idle.slot = NONE /\ Idle.list = <<>>
  /\ Idle.at = 1 /\ Idle.held = {} /\ Idle.ran = <<>> /\ ~Idle.cut /\ Idle.due = {}
<1> DEFINE c == [p \in Plugins |-> Unread]
<1>1. c \in Caches /\ \A p \in Plugins : c[p] = Unread
  BY DEF Caches
<1>2. Idle = [pc |-> "idle", kind |-> "none", slot |-> NONE, list |-> <<>>, at |-> 1,
              cache |-> c, held |-> {}, ran |-> <<>>, cut |-> FALSE, due |-> {}]
  BY DEF Idle
<1> HIDE DEF c
<1>3. Idle \in DisRec
  BY <1>1, <1>2 DEF DisRec, DisPCs
<1> QED BY <1>1, <1>2, <1>3

\* Update: a dispatch that goes on becomes r, one that ends keeps its outcome.
LEMMA UpdateGoesOn ==
  ASSUME DisTyped, NEW d \in Dispatchers, NEW r \in DisRec, r.pc # "done", Update(d, r)
  PROVE  OthersStay(d) /\ dis'[d] = r
<1>1. r.pc # "dropped"
  BY DEF DisRec, DisPCs
<1>2. dis' = [dis EXCEPT ![d] = r]
  BY <1>1 DEF Update
<1> QED BY <1>2 DEF OthersStay, DisTyped

LEMMA UpdateEnds ==
  ASSUME DisTyped, NEW d \in Dispatchers, NEW r \in DisRec, r.pc = "done", Update(d, r)
  PROVE  /\ OthersStay(d)
         /\ Goes(r, dis'[d], "done", r.list, 1, Idle.cache, r.held, r.ran, r.cut)
<1> DEFINE q == [r EXCEPT !.cache = Idle.cache, !.at = 1]
<1>1. dis' = [dis EXCEPT ![d] = q]
  BY DEF Update
<1>2. q \in DisRec /\ Goes(r, q, "done", r.list, 1, Idle.cache, r.held, r.ran, r.cut)
  <2>1. Idle.cache \in Caches
    BY IdleFields
  <2> QED BY <2>1 DEF DisRec, Goes
<1> HIDE DEF q
<1>3. OthersStay(d) /\ dis'[d] = q
  BY <1>1, <1>2 DEF OthersStay, DisTyped
<1> QED BY <1>2, <1>3

\* A dispatch begins without a slot, and is over, or with the slot it loads.
DispatchBeginDoes(d, k) ==
  /\ dis'[d].kind = k /\ dis'[d].list = <<>> /\ dis'[d].at = 1
  /\ dis'[d].cache = Idle.cache /\ dis'[d].held = {} /\ dis'[d].ran = <<>> /\ ~dis'[d].cut
  /\ dis'[d].due = {h \in Handlers : Registered(h) /\ Visible(h)}
  /\ \/ slot = NONE /\ dis'[d].pc = "done"
     \/ slot # NONE /\ dis'[d].pc = "load" /\ dis'[d].slot = slot

LEMMA DispatchBeginEffect ==
  ASSUME DisTyped, BusTyped, NEW d \in Dispatchers, NEW k \in Kinds, DispatchBegin(d, k)
  PROVE  OthersStay(d) /\ DispatchBeginDoes(d, k)
<1> DEFINE due == {h \in Handlers : Registered(h) /\ Visible(h)}
           pc == IF slot = NONE THEN "done" ELSE "load"
           q == [Idle EXCEPT !.kind = k, !.slot = slot, !.pc = pc, !.due = due]
<1>1. Update(d, q)
  BY DEF DispatchBegin
<1>2. due \in SUBSET Handlers /\ pc \in DisPCs /\ slot \in Slots \cup {NONE}
  BY DEF DisPCs, BusTyped
<1> HIDE DEF due, pc
<1>3. q \in DisRec
  BY <1>2, IdleFields DEF DisRec
<1>4. /\ q.kind = k /\ q.slot = slot /\ q.pc = pc /\ q.due = due
      /\ q.list = <<>> /\ q.at = 1 /\ q.cache = Idle.cache /\ q.held = {} /\ q.ran = <<>> /\ ~q.cut
  BY <1>2, IdleFields DEF DisRec
<1> HIDE DEF q
<1>5. CASE slot = NONE
  <2>1. q.pc = "done"
    BY <1>4, <1>5 DEF pc
  <2> QED BY <1>1, <1>3, <1>4, <1>5, <2>1, UpdateEnds DEF Goes, DispatchBeginDoes, due
<1>6. CASE slot # NONE
  <2>1. q.pc = "load"
    BY <1>4, <1>6 DEF pc
  <2> QED BY <1>1, <1>3, <1>4, <1>6, <2>1, UpdateGoesOn DEF DispatchBeginDoes, due
<1> QED BY <1>5, <1>6

\* The snapshot is loaded once.
DispatchLoadDoes(r, q) ==
  /\ r.pc = "load"
  /\ Goes(r, q, "look", snapshot[r.slot], r.at, r.cache, r.held, r.ran, r.cut)

LEMMA DispatchLoadEffect ==
  ASSUME DisTyped, BusTyped, NEW d \in Dispatchers, DispatchOK(dis[d]), DispatchLoad(d)
  PROVE  OthersStay(d) /\ DispatchLoadDoes(dis[d], dis'[d])
<1> DEFINE r == dis[d]
<1>1. r \in DisRec /\ Fields(r)
  BY DisFields DEF DisTyped
<1>2. r.pc = "load"
  BY DEF DispatchLoad, Dispatching
<1>3. snapshot[r.slot] \in Seq(Handlers)
  <2>1. r.slot \in Slots
    BY <1>1, <1>2 DEF DispatchOK, Shape, Fields
  <2> QED BY <2>1 DEF BusTyped
<1>4. OthersStay(d) /\ DispatchLoadDoes(r, dis'[d])
  <2> DEFINE q == [r EXCEPT !.list = snapshot[r.slot], !.pc = "look", !.slot = NONE]
  <2>1. Update(d, q)
    BY <1>2, <1>1 DEF DispatchLoad, Dispatching
  <2>2. q \in DisRec /\ Goes(r, q, "look", snapshot[r.slot], r.at, r.cache, r.held, r.ran, r.cut)
    BY <1>1, <1>3 DEF DisRec, Goes, DisPCs
  <2> HIDE DEF q
  <2>5. q.pc # "done"
    BY <2>2 DEF Goes
  <2>6. OthersStay(d) /\ dis'[d] = q
    BY <2>1, <2>2, <2>5, UpdateGoesOn
  <2> QED BY <1>2, <2>2, <2>6 DEF DispatchLoadDoes
<1> QED BY <1>4

\* The end of the snapshot.
DispatchEndDoes(r, q) ==
  /\ r.pc = "look" /\ r.at > Len(r.list)
  /\ \/ r.kind = "waterfall" /\ Goes(r, q, "acquire", r.list, 1, r.cache, r.held, r.ran, r.cut)
     \/ r.kind = "parallel" /\ r.held # {} /\ Goes(r, q, "running", r.list, r.at, r.cache, r.held, r.ran, r.cut)
     \/ r.kind # "waterfall" /\ ~(r.kind = "parallel" /\ r.held # {}) /\ Goes(r, q, "done", r.list, 1, Idle.cache, r.held, r.ran, r.cut)

LEMMA DispatchEndEffect ==
  ASSUME DisTyped, BusTyped, NEW d \in Dispatchers, DispatchOK(dis[d]), DispatchEnd(d)
  PROVE  OthersStay(d) /\ DispatchEndDoes(dis[d], dis'[d])
<1> DEFINE r == dis[d]
<1>1. r \in DisRec /\ Fields(r)
  BY DisFields DEF DisTyped
<1>2. r.pc = "look" /\ r.at > Len(r.list)
  BY DEF DispatchEnd, Dispatching, Exhausted
<1>4. CASE r.kind = "waterfall"
  <2> DEFINE q == [r EXCEPT !.pc = "acquire", !.at = 1]
  <2>1. Update(d, q)
    BY <1>2, <1>4, <1>1 DEF DispatchEnd, Dispatching, Exhausted
  <2>2. q \in DisRec /\ Goes(r, q, "acquire", r.list, 1, r.cache, r.held, r.ran, r.cut)
    BY <1>1 DEF DisRec, Goes, DisPCs
  <2> HIDE DEF q
  <2>5. q.pc # "done"
    BY <2>2 DEF Goes
  <2>6. OthersStay(d) /\ dis'[d] = q
    BY <2>1, <2>2, <2>5, UpdateGoesOn
  <2> QED BY <1>2, <1>4, <2>2, <2>6 DEF DispatchEndDoes
<1>5. CASE r.kind = "parallel" /\ r.held # {}
  <2> DEFINE q == [r EXCEPT !.pc = "running"]
  <2>1. Update(d, q)
    BY <1>2, <1>5, <1>1 DEF DispatchEnd, Dispatching, Exhausted
  <2>2. q \in DisRec /\ Goes(r, q, "running", r.list, r.at, r.cache, r.held, r.ran, r.cut)
    BY <1>1 DEF DisRec, Goes, DisPCs
  <2> HIDE DEF q
  <2>5. q.pc # "done"
    BY <2>2 DEF Goes
  <2>6. OthersStay(d) /\ dis'[d] = q
    BY <2>1, <2>2, <2>5, UpdateGoesOn
  <2> QED BY <1>2, <1>5, <2>2, <2>6 DEF DispatchEndDoes
<1>6. CASE r.kind # "waterfall" /\ ~(r.kind = "parallel" /\ r.held # {})
  <2> DEFINE q == [r EXCEPT !.pc = "done"]
  <2>1. Update(d, q)
    BY <1>2, <1>6, <1>1 DEF DispatchEnd, Dispatching, Exhausted
  <2>2. q \in DisRec /\ Goes(r, q, "done", r.list, r.at, r.cache, r.held, r.ran, r.cut)
    BY <1>1 DEF DisRec, Goes, DisPCs
  <2> HIDE DEF q
  <2>5. q.pc = "done"
    BY <2>2 DEF Goes
  <2>6. OthersStay(d) /\ Goes(q, dis'[d], "done", q.list, 1, Idle.cache, q.held, q.ran, q.cut)
    BY <2>1, <2>2, <2>5, UpdateEnds
  <2> QED BY <1>2, <1>6, <2>2, <2>6 DEF Goes, DispatchEndDoes
<1> QED BY <1>2, <1>4, <1>5, <1>6

\* The gate is asked for a lease.
DispatchAcquireDoes(r, q) ==
  /\ r.pc = "acquire" /\ ~(r.at > Len(r.list))
  /\ \/ Admits(r.list[r.at]) /\ r.kind = "parallel" /\ Goes(r, q, "look", r.list, r.at + 1, r.cache, r.held \cup {r.list[r.at]}, Append(r.ran, r.list[r.at]), r.cut)
     \/ Admits(r.list[r.at]) /\ r.kind # "parallel" /\ Goes(r, q, "running", r.list, r.at + 1, r.cache, r.held \cup {r.list[r.at]}, Append(r.ran, r.list[r.at]), r.cut)
     \/ ~Admits(r.list[r.at]) /\ r.kind = "waterfall" /\ Goes(r, q, "acquire", r.list, r.at + 1, r.cache, r.held, r.ran, r.cut)
     \/ ~Admits(r.list[r.at]) /\ r.kind # "waterfall" /\ Goes(r, q, "look", r.list, r.at + 1, r.cache, r.held, r.ran, r.cut)

LEMMA DispatchAcquireEffect ==
  ASSUME DisTyped, BusTyped, NEW d \in Dispatchers, DispatchOK(dis[d]), DispatchAcquire(d)
  PROVE  OthersStay(d) /\ DispatchAcquireDoes(dis[d], dis'[d])
<1> DEFINE r == dis[d]
<1>1. r \in DisRec /\ Fields(r)
  BY DisFields DEF DisTyped
<1>2. r.pc = "acquire" /\ ~(r.at > Len(r.list))
  BY DEF DispatchAcquire, Dispatching, Exhausted, Current
<1>3. r.at \in Nat /\ r.held \in SUBSET Handlers /\ r.list[r.at] \in Handlers /\ Append(r.ran, r.list[r.at]) \in Seq(Handlers)
  <2>1. r.at \in Nat /\ r.list \in Seq(Handlers) /\ r.ran \in Seq(Handlers) /\ r.held \in SUBSET Handlers
    BY <1>1 DEF Fields
  <2>2. r.at \in 1..Len(r.list)
    BY <1>2, <2>1 DEF DispatchOK, Shape
  <2>3. r.list[r.at] \in Handlers
    BY <2>1, <2>2
  <2> QED BY <2>1, <2>3
<1>4. CASE Admits(r.list[r.at]) /\ r.kind = "parallel"
  <2> DEFINE q == [[r EXCEPT !.held = @ \cup {r.list[r.at]}, !.ran = Append(@, r.list[r.at]), !.at = @ + 1] EXCEPT !.pc = "look"]
  <2>1. Update(d, q)
    BY <1>2, <1>4, <1>1 DEF DispatchAcquire, Dispatching, Exhausted, Current
  <2> DEFINE q0 == [r EXCEPT !.held = @ \cup {r.list[r.at]}, !.ran = Append(@, r.list[r.at]), !.at = @ + 1]
  <2>2. q0 \in DisRec /\ Goes(r, q0, r.pc, r.list, r.at + 1, r.cache, r.held \cup {r.list[r.at]}, Append(r.ran, r.list[r.at]), r.cut)
    <3> DEFINE n == r.at + 1
               held == r.held \cup {r.list[r.at]}
               ran == Append(r.ran, r.list[r.at])
    <3>1. n \in Nat /\ held \in SUBSET Handlers /\ ran \in Seq(Handlers)
      BY <1>3
    <3>2. q0 = [r EXCEPT !.held = held, !.ran = ran, !.at = n]
      OBVIOUS
    <3> HIDE DEF n, held, ran, q0
    <3>3. q0 \in DisRec /\ Goes(r, q0, r.pc, r.list, n, r.cache, held, ran, r.cut)
      BY <1>1, <3>1, <3>2 DEF DisRec, Goes
    <3> QED BY <3>3 DEF n, held, ran
  <2> HIDE DEF q0
  <2>3. q = [q0 EXCEPT !.pc = "look"]
    BY DEF q0
  <2>4. q \in DisRec /\ Goes(r, q, "look", r.list, r.at + 1, r.cache, r.held \cup {r.list[r.at]}, Append(r.ran, r.list[r.at]), r.cut)
    BY <2>2, <2>3 DEF DisRec, Goes, DisPCs
  <2> HIDE DEF q
  <2>5. q.pc # "done"
    BY <2>4 DEF Goes
  <2>6. OthersStay(d) /\ dis'[d] = q
    BY <2>1, <2>4, <2>5, UpdateGoesOn
  <2> QED BY <1>2, <1>4, <2>4, <2>6 DEF DispatchAcquireDoes
<1>5. CASE Admits(r.list[r.at]) /\ r.kind # "parallel"
  <2> DEFINE q == [[r EXCEPT !.held = @ \cup {r.list[r.at]}, !.ran = Append(@, r.list[r.at]), !.at = @ + 1] EXCEPT !.pc = "running"]
  <2>1. Update(d, q)
    BY <1>2, <1>5, <1>1 DEF DispatchAcquire, Dispatching, Exhausted, Current
  <2> DEFINE q0 == [r EXCEPT !.held = @ \cup {r.list[r.at]}, !.ran = Append(@, r.list[r.at]), !.at = @ + 1]
  <2>2. q0 \in DisRec /\ Goes(r, q0, r.pc, r.list, r.at + 1, r.cache, r.held \cup {r.list[r.at]}, Append(r.ran, r.list[r.at]), r.cut)
    <3> DEFINE n == r.at + 1
               held == r.held \cup {r.list[r.at]}
               ran == Append(r.ran, r.list[r.at])
    <3>1. n \in Nat /\ held \in SUBSET Handlers /\ ran \in Seq(Handlers)
      BY <1>3
    <3>2. q0 = [r EXCEPT !.held = held, !.ran = ran, !.at = n]
      OBVIOUS
    <3> HIDE DEF n, held, ran, q0
    <3>3. q0 \in DisRec /\ Goes(r, q0, r.pc, r.list, n, r.cache, held, ran, r.cut)
      BY <1>1, <3>1, <3>2 DEF DisRec, Goes
    <3> QED BY <3>3 DEF n, held, ran
  <2> HIDE DEF q0
  <2>3. q = [q0 EXCEPT !.pc = "running"]
    BY DEF q0
  <2>4. q \in DisRec /\ Goes(r, q, "running", r.list, r.at + 1, r.cache, r.held \cup {r.list[r.at]}, Append(r.ran, r.list[r.at]), r.cut)
    BY <2>2, <2>3 DEF DisRec, Goes, DisPCs
  <2> HIDE DEF q
  <2>5. q.pc # "done"
    BY <2>4 DEF Goes
  <2>6. OthersStay(d) /\ dis'[d] = q
    BY <2>1, <2>4, <2>5, UpdateGoesOn
  <2> QED BY <1>2, <1>5, <2>4, <2>6 DEF DispatchAcquireDoes
<1>6. CASE ~Admits(r.list[r.at]) /\ r.kind = "waterfall"
  <2> DEFINE q == [[r EXCEPT !.at = @ + 1] EXCEPT !.pc = "acquire"]
  <2>1. Update(d, q)
    BY <1>2, <1>6, <1>1 DEF DispatchAcquire, Dispatching, Exhausted, Current
  <2> DEFINE q0 == [r EXCEPT !.at = @ + 1]
  <2>2. q0 \in DisRec /\ Goes(r, q0, r.pc, r.list, r.at + 1, r.cache, r.held, r.ran, r.cut)
    <3> DEFINE n == r.at + 1
    <3>1. n \in Nat
      BY <1>3
    <3>2. q0 = [r EXCEPT !.at = n]
      OBVIOUS
    <3> HIDE DEF n, q0
    <3>3. q0 \in DisRec /\ Goes(r, q0, r.pc, r.list, n, r.cache, r.held, r.ran, r.cut)
      BY <1>1, <3>1, <3>2 DEF DisRec, Goes
    <3> QED BY <3>3 DEF n
  <2> HIDE DEF q0
  <2>3. q = [q0 EXCEPT !.pc = "acquire"]
    BY DEF q0
  <2>4. q \in DisRec /\ Goes(r, q, "acquire", r.list, r.at + 1, r.cache, r.held, r.ran, r.cut)
    BY <2>2, <2>3 DEF DisRec, Goes, DisPCs
  <2> HIDE DEF q
  <2>5. q.pc # "done"
    BY <2>4 DEF Goes
  <2>6. OthersStay(d) /\ dis'[d] = q
    BY <2>1, <2>4, <2>5, UpdateGoesOn
  <2> QED BY <1>2, <1>6, <2>4, <2>6 DEF DispatchAcquireDoes
<1>7. CASE ~Admits(r.list[r.at]) /\ r.kind # "waterfall"
  <2> DEFINE q == [[r EXCEPT !.at = @ + 1] EXCEPT !.pc = "look"]
  <2>1. Update(d, q)
    BY <1>2, <1>7, <1>1 DEF DispatchAcquire, Dispatching, Exhausted, Current
  <2> DEFINE q0 == [r EXCEPT !.at = @ + 1]
  <2>2. q0 \in DisRec /\ Goes(r, q0, r.pc, r.list, r.at + 1, r.cache, r.held, r.ran, r.cut)
    <3> DEFINE n == r.at + 1
    <3>1. n \in Nat
      BY <1>3
    <3>2. q0 = [r EXCEPT !.at = n]
      OBVIOUS
    <3> HIDE DEF n, q0
    <3>3. q0 \in DisRec /\ Goes(r, q0, r.pc, r.list, n, r.cache, r.held, r.ran, r.cut)
      BY <1>1, <3>1, <3>2 DEF DisRec, Goes
    <3> QED BY <3>3 DEF n
  <2> HIDE DEF q0
  <2>3. q = [q0 EXCEPT !.pc = "look"]
    BY DEF q0
  <2>4. q \in DisRec /\ Goes(r, q, "look", r.list, r.at + 1, r.cache, r.held, r.ran, r.cut)
    BY <2>2, <2>3 DEF DisRec, Goes, DisPCs
  <2> HIDE DEF q
  <2>5. q.pc # "done"
    BY <2>4 DEF Goes
  <2>6. OthersStay(d) /\ dis'[d] = q
    BY <2>1, <2>4, <2>5, UpdateGoesOn
  <2> QED BY <1>2, <1>7, <2>4, <2>6 DEF DispatchAcquireDoes
<1> QED BY <1>2, <1>4, <1>5, <1>6, <1>7

\* Past the last handler of a waterfall.
WaterfallEndDoes(r, q) ==
  /\ r.pc = "acquire" /\ r.at > Len(r.list)
  /\ \/ r.held = {} /\ Goes(r, q, "done", r.list, 1, Idle.cache, r.held, r.ran, r.cut)
     \/ r.held # {} /\ Goes(r, q, "returning", r.list, r.at, r.cache, r.held, r.ran, r.cut)

LEMMA WaterfallEndEffect ==
  ASSUME DisTyped, BusTyped, NEW d \in Dispatchers, DispatchOK(dis[d]), WaterfallEnd(d)
  PROVE  OthersStay(d) /\ WaterfallEndDoes(dis[d], dis'[d])
<1> DEFINE r == dis[d]
<1>1. r \in DisRec /\ Fields(r)
  BY DisFields DEF DisTyped
<1>2. r.pc = "acquire" /\ r.at > Len(r.list)
  BY DEF WaterfallEnd, Dispatching, Exhausted
<1>4. CASE r.held = {}
  <2> DEFINE q == [r EXCEPT !.pc = "done"]
  <2>1. Update(d, q)
    BY <1>2, <1>4, <1>1 DEF WaterfallEnd, Dispatching, Exhausted
  <2>2. q \in DisRec /\ Goes(r, q, "done", r.list, r.at, r.cache, r.held, r.ran, r.cut)
    BY <1>1 DEF DisRec, Goes, DisPCs
  <2> HIDE DEF q
  <2>5. q.pc = "done"
    BY <2>2 DEF Goes
  <2>6. OthersStay(d) /\ Goes(q, dis'[d], "done", q.list, 1, Idle.cache, q.held, q.ran, q.cut)
    BY <2>1, <2>2, <2>5, UpdateEnds
  <2> QED BY <1>2, <1>4, <2>2, <2>6 DEF Goes, WaterfallEndDoes
<1>5. CASE r.held # {}
  <2> DEFINE q == [r EXCEPT !.pc = "returning"]
  <2>1. Update(d, q)
    BY <1>2, <1>5, <1>1 DEF WaterfallEnd, Dispatching, Exhausted
  <2>2. q \in DisRec /\ Goes(r, q, "returning", r.list, r.at, r.cache, r.held, r.ran, r.cut)
    BY <1>1 DEF DisRec, Goes, DisPCs
  <2> HIDE DEF q
  <2>5. q.pc # "done"
    BY <2>2 DEF Goes
  <2>6. OthersStay(d) /\ dis'[d] = q
    BY <2>1, <2>2, <2>5, UpdateGoesOn
  <2> QED BY <1>2, <1>5, <2>2, <2>6 DEF WaterfallEndDoes
<1> QED BY <1>2, <1>4, <1>5

\* A waterfall handler calls its continuation.
CallNextDoes(r, q) ==
  /\ r.pc = "running" /\ r.kind = "waterfall"
  /\ Goes(r, q, "acquire", r.list, r.at, r.cache, r.held, r.ran, r.cut)

LEMMA CallNextEffect ==
  ASSUME DisTyped, BusTyped, NEW d \in Dispatchers, DispatchOK(dis[d]), CallNext(d)
  PROVE  OthersStay(d) /\ CallNextDoes(dis[d], dis'[d])
<1> DEFINE r == dis[d]
<1>1. r \in DisRec /\ Fields(r)
  BY DisFields DEF DisTyped
<1>2. r.pc = "running" /\ r.kind = "waterfall"
  BY DEF CallNext, Dispatching
<1>4. OthersStay(d) /\ CallNextDoes(r, dis'[d])
  <2> DEFINE q == [r EXCEPT !.pc = "acquire"]
  <2>1. Update(d, q)
    BY <1>2, <1>1 DEF CallNext, Dispatching
  <2>2. q \in DisRec /\ Goes(r, q, "acquire", r.list, r.at, r.cache, r.held, r.ran, r.cut)
    BY <1>1 DEF DisRec, Goes, DisPCs
  <2> HIDE DEF q
  <2>5. q.pc # "done"
    BY <2>2 DEF Goes
  <2>6. OthersStay(d) /\ dis'[d] = q
    BY <2>1, <2>2, <2>5, UpdateGoesOn
  <2> QED BY <1>2, <2>2, <2>6 DEF CallNextDoes
<1> QED BY <1>4

\* A handler of emit, serial or bail returns.
HandlerReturnsDoes(r, q, x) ==
  /\ r.pc = "running" /\ r.kind \in {"emit", "serial", "bail"}
  /\ \/ Stops(r.kind, x) /\ Goes(r, q, "done", r.list, 1, Idle.cache, {}, r.ran, Stops(r.kind, x))
     \/ ~Stops(r.kind, x) /\ Goes(r, q, "look", r.list, r.at, r.cache, {}, r.ran, Stops(r.kind, x))

LEMMA HandlerReturnsEffect ==
  ASSUME DisTyped, BusTyped, NEW d \in Dispatchers, NEW x \in Results, DispatchOK(dis[d]), HandlerReturns(d, x)
  PROVE  OthersStay(d) /\ HandlerReturnsDoes(dis[d], dis'[d], x)
<1> DEFINE r == dis[d]
<1>1. r \in DisRec /\ Fields(r)
  BY DisFields DEF DisTyped
<1>2. r.pc = "running" /\ r.kind \in {"emit", "serial", "bail"}
  BY DEF HandlerReturns, Dispatching
<1>3. Stops(r.kind, x) \in BOOLEAN
  BY <1>1 DEF Fields, Stops
<1>4. CASE Stops(r.kind, x)
  <2> DEFINE q == [r EXCEPT !.held = {}, !.cut = Stops(r.kind, x), !.pc = "done"]
  <2>1. Update(d, q)
    BY <1>2, <1>4, <1>1 DEF HandlerReturns, Dispatching
  <2>2. q \in DisRec /\ Goes(r, q, "done", r.list, r.at, r.cache, {}, r.ran, Stops(r.kind, x))
    BY <1>4, <1>1, <1>3 DEF DisRec, Goes, DisPCs
  <2> HIDE DEF q
  <2>5. q.pc = "done"
    BY <2>2 DEF Goes
  <2>6. OthersStay(d) /\ Goes(q, dis'[d], "done", q.list, 1, Idle.cache, q.held, q.ran, q.cut)
    BY <2>1, <2>2, <2>5, UpdateEnds
  <2> QED BY <1>2, <1>4, <2>2, <2>6 DEF Goes, HandlerReturnsDoes
<1>5. CASE ~Stops(r.kind, x)
  <2> DEFINE q == [r EXCEPT !.held = {}, !.cut = Stops(r.kind, x), !.pc = "look"]
  <2>1. Update(d, q)
    BY <1>2, <1>5, <1>1 DEF HandlerReturns, Dispatching
  <2>2. q \in DisRec /\ Goes(r, q, "look", r.list, r.at, r.cache, {}, r.ran, Stops(r.kind, x))
    BY <1>5, <1>1, <1>3 DEF DisRec, Goes, DisPCs
  <2> HIDE DEF q
  <2>5. q.pc # "done"
    BY <2>2 DEF Goes
  <2>6. OthersStay(d) /\ dis'[d] = q
    BY <2>1, <2>2, <2>5, UpdateGoesOn
  <2> QED BY <1>2, <1>5, <2>2, <2>6 DEF HandlerReturnsDoes
<1> QED BY <1>2, <1>4, <1>5

\* A future of a parallel dispatch drops its lease.
ParallelReturnsDoes(r, q, x) ==
  /\ r.pc = "running" /\ r.kind = "parallel"
  /\ \/ r.held = {x} /\ Goes(r, q, "done", r.list, 1, Idle.cache, {}, r.ran, r.cut)
     \/ r.held # {x} /\ Goes(r, q, "running", r.list, r.at, r.cache, r.held \ {x}, r.ran, r.cut)

LEMMA ParallelReturnsEffect ==
  ASSUME DisTyped, BusTyped, NEW d \in Dispatchers, NEW x \in Handlers, DispatchOK(dis[d]), ParallelReturns(d, x)
  PROVE  OthersStay(d) /\ ParallelReturnsDoes(dis[d], dis'[d], x)
<1> DEFINE r == dis[d]
<1>1. r \in DisRec /\ Fields(r)
  BY DisFields DEF DisTyped
<1>2. r.pc = "running" /\ r.kind = "parallel"
  BY DEF ParallelReturns, Dispatching
<1>3. r.held \in SUBSET Handlers
  BY <1>1 DEF Fields, Stops
<1>4. CASE r.held = {x}
  <2> DEFINE q == [r EXCEPT !.held = @ \ {x}, !.pc = "done"]
  <2>1. Update(d, q)
    BY <1>2, <1>4, <1>1 DEF ParallelReturns, Dispatching
  <2>2. q \in DisRec /\ Goes(r, q, "done", r.list, r.at, r.cache, {}, r.ran, r.cut)
    BY <1>4, <1>1, <1>3, <1>2 DEF DisRec, Goes, DisPCs
  <2> HIDE DEF q
  <2>5. q.pc = "done"
    BY <2>2 DEF Goes
  <2>6. OthersStay(d) /\ Goes(q, dis'[d], "done", q.list, 1, Idle.cache, q.held, q.ran, q.cut)
    BY <2>1, <2>2, <2>5, UpdateEnds
  <2> QED BY <1>2, <1>4, <2>2, <2>6 DEF Goes, ParallelReturnsDoes
<1>5. CASE r.held # {x}
  <2> DEFINE q == [r EXCEPT !.held = @ \ {x}, !.pc = r.pc]
  <2>1. Update(d, q)
    BY <1>2, <1>5, <1>1 DEF ParallelReturns, Dispatching
  <2>2. q \in DisRec /\ Goes(r, q, "running", r.list, r.at, r.cache, r.held \ {x}, r.ran, r.cut)
    BY <1>5, <1>1, <1>3, <1>2 DEF DisRec, Goes, DisPCs
  <2> HIDE DEF q
  <2>5. q.pc # "done"
    BY <2>2 DEF Goes
  <2>6. OthersStay(d) /\ dis'[d] = q
    BY <2>1, <2>2, <2>5, UpdateGoesOn
  <2> QED BY <1>2, <1>5, <2>2, <2>6 DEF ParallelReturnsDoes
<1> QED BY <1>2, <1>4, <1>5

\* The innermost handler of a waterfall returns.
WaterfallReturnsDoes(r, q) ==
  /\ r.pc \in {"running", "returning"} /\ r.kind = "waterfall"
  /\ \E held \in SUBSET r.held :
       \/ held = {} /\ Goes(r, q, "done", r.list, 1, Idle.cache, {}, r.ran, r.cut \/ r.pc = "running")
       \/ Goes(r, q, "returning", r.list, r.at, r.cache, held, r.ran, r.cut \/ r.pc = "running")

LEMMA WaterfallReturnsEffect ==
  ASSUME DisTyped, NEW d \in Dispatchers, WaterfallReturns(d)
  PROVE  OthersStay(d) /\ WaterfallReturnsDoes(dis[d], dis'[d])
<1> DEFINE r == dis[d]
           top == CHOOSE i \in DOMAIN r.ran :
                    /\ r.ran[i] \in r.held
                    /\ \A j \in DOMAIN r.ran : j > i => r.ran[j] \notin r.held
           rest == r.held \ {r.ran[top]}
           cut == r.cut \/ r.pc = "running"
           q == [r EXCEPT !.held = rest, !.cut = cut,
                          !.pc = IF rest = {} THEN "done" ELSE "returning"]
<1>1. r \in DisRec /\ Fields(r)
  BY DisFields DEF DisTyped
<1>2. r.pc \in {"running", "returning"} /\ r.kind = "waterfall"
  BY DEF WaterfallReturns
<1>3. Update(d, q)
  BY DEF WaterfallReturns, Dispatching
<1>4. rest \in SUBSET r.held /\ rest \in SUBSET Handlers /\ cut \in BOOLEAN
  BY <1>1 DEF Fields
<1> HIDE DEF top, rest, cut
<1>5. CASE rest = {}
  <2>1. q \in DisRec /\ Goes(r, q, "done", r.list, r.at, r.cache, {}, r.ran, cut)
    BY <1>1, <1>4, <1>5 DEF DisRec, Goes, DisPCs
  <2> HIDE DEF q
  <2>2. q.pc = "done"
    BY <2>1 DEF Goes
  <2>3. OthersStay(d) /\ Goes(q, dis'[d], "done", q.list, 1, Idle.cache, q.held, q.ran, q.cut)
    BY <1>3, <2>1, <2>2, UpdateEnds
  <2>4. Goes(r, dis'[d], "done", r.list, 1, Idle.cache, {}, r.ran, cut)
    BY <2>1, <2>3 DEF Goes
  <2> QED BY <1>2, <1>4, <1>5, <2>3, <2>4 DEF WaterfallReturnsDoes, cut
<1>6. CASE rest # {}
  <2>1. q \in DisRec /\ Goes(r, q, "returning", r.list, r.at, r.cache, rest, r.ran, cut)
    BY <1>1, <1>4, <1>6 DEF DisRec, Goes, DisPCs
  <2> HIDE DEF q
  <2>2. q.pc # "done"
    BY <2>1 DEF Goes
  <2>3. OthersStay(d) /\ dis'[d] = q
    BY <1>3, <2>1, <2>2, UpdateGoesOn
  <2> QED BY <1>2, <1>4, <2>1, <2>3 DEF WaterfallReturnsDoes, cut
<1> QED BY <1>5, <1>6

LEMMA DispatchDroppedEffect ==
  ASSUME DisTyped, NEW d \in Dispatchers, DispatchDropped(d)
  PROVE  OthersStay(d) /\ dis'[d] = Idle
<1> DEFINE q == [dis[d] EXCEPT !.held = {}, !.pc = "dropped"]
<1>1. q.pc = "dropped"
  BY DEF DisTyped, DisRec
<1>2. Update(d, q)
  BY DEF DispatchDropped
<1> HIDE DEF q
<1>3. dis' = [dis EXCEPT ![d] = Idle]
  BY <1>1, <1>2 DEF Update
<1> QED BY <1>3, IdleFields DEF DisTyped, OthersStay

\* A handler is looked at through the cache: seen is the generation the
\* dispatch chose for its plugin.  A waterfall drops what it does not choose.
Cached(r, h, seen) == [r.cache EXCEPT ![PluginOf[GenOf[h]]] = seen]

DispatchLookDoes(r, q) ==
  LET h == r.list[r.at]
  IN /\ r.pc = "look" /\ r.at <= Len(r.list)
     /\ \E seen \in Gens \cup {NONE} :
          /\ seen = IF r.cache[PluginOf[GenOf[h]]] = Unread THEN active[PluginOf[GenOf[h]]]
                    ELSE r.cache[PluginOf[GenOf[h]]]
          /\ \/ /\ seen = GenOf[h] /\ r.kind = "waterfall"
                /\ Goes(r, q, "look", r.list, r.at + 1, Cached(r, h, seen), r.held, r.ran, r.cut)
             \/ /\ seen = GenOf[h] /\ r.kind # "waterfall"
                /\ Goes(r, q, "acquire", r.list, r.at, Cached(r, h, seen), r.held, r.ran, r.cut)
             \/ /\ seen # GenOf[h] /\ r.kind = "waterfall"
                /\ Goes(r, q, "look", RemoveAt(r.list, r.at), r.at, Cached(r, h, seen), r.held, r.ran, r.cut)
             \/ /\ seen # GenOf[h] /\ r.kind # "waterfall"
                /\ Goes(r, q, "look", r.list, r.at + 1, Cached(r, h, seen), r.held, r.ran, r.cut)

LEMMA DispatchLookEffect ==
  ASSUME DisTyped, GatesTyped, NEW d \in Dispatchers, DispatchOK(dis[d]), DispatchLook(d)
  PROVE  OthersStay(d) /\ DispatchLookDoes(dis[d], dis'[d])
<1> DEFINE r == dis[d]
           h == r.list[r.at]
           p == PluginOf[GenOf[h]]
           seen == Look(d, h)
           cache == Cached(r, h, seen)
           read == [r EXCEPT !.cache = cache]
<1>1. r \in DisRec /\ Fields(r)
  BY DisFields DEF DisTyped
<1>2. r.pc = "look" /\ ~(r.at > Len(r.list))
  BY DEF DispatchLook, Dispatching, Exhausted
<1>3. r.at \in 1..Len(r.list) /\ r.list \in Seq(Handlers) /\ r.at \in Nat
  BY <1>1, <1>2 DEF DispatchOK, Shape, Fields
<1>4. h \in Handlers /\ GenOf[h] \in Gens /\ p \in Plugins
  <2>1. h \in Handlers
    BY <1>3
  <2> HIDE DEF h
  <2> QED BY <2>1, HandlerFacts
<1>5. seen = IF r.cache[p] = Unread THEN active[p] ELSE r.cache[p]
  BY DEF Look
<1>6. seen \in Gens \cup {NONE}
  <2>1. r.cache[p] \in Gens \cup {NONE, Unread} /\ active[p] \in Gens \cup {NONE}
    BY <1>1, <1>4 DEF Fields, Caches, GatesTyped
  <2> HIDE DEF seen, p, r
  <2> QED BY <1>5, <2>1
<1>7. cache \in Caches
  BY <1>1, <1>6 DEF Cached, Caches, Fields
<1>8. LET rd == [r EXCEPT !.cache[p] = seen]
      IN IF seen = GenOf[h]
         THEN IF r.kind = "waterfall" THEN Update(d, [rd EXCEPT !.at = @ + 1])
              ELSE Update(d, [rd EXCEPT !.pc = "acquire"])
         ELSE IF r.kind = "waterfall" THEN Update(d, FilterOut(rd))
              ELSE Update(d, [rd EXCEPT !.at = @ + 1])
  BY Zenon DEF DispatchLook, Current
<1>9. [r EXCEPT !.cache[p] = seen] = read
  BY <1>1 DEF Cached, DisRec
<1>10. IF seen = GenOf[h]
       THEN IF r.kind = "waterfall" THEN Update(d, [read EXCEPT !.at = @ + 1])
            ELSE Update(d, [read EXCEPT !.pc = "acquire"])
       ELSE IF r.kind = "waterfall" THEN Update(d, FilterOut(read))
            ELSE Update(d, [read EXCEPT !.at = @ + 1])
  BY <1>8, <1>9, Zenon
<1> HIDE DEF seen, cache
<1>11. read \in DisRec /\ Goes(r, read, r.pc, r.list, r.at, cache, r.held, r.ran, r.cut)
  BY <1>1, <1>7 DEF DisRec, Goes
<1> HIDE DEF read
<1>12. read.at \in Nat /\ read.list \in Seq(Handlers) /\ read.at \in 1..Len(read.list)
  BY <1>3, <1>11 DEF Goes
<1> DEFINE q1 == [read EXCEPT !.at = @ + 1]
           q2 == [read EXCEPT !.pc = "acquire"]
           q3 == FilterOut(read)
<1>13. q1 \in DisRec /\ Goes(r, q1, "look", r.list, r.at + 1, cache, r.held, r.ran, r.cut)
  <2> DEFINE n == r.at + 1
  <2>1. n \in Nat /\ read.at + 1 = n
    BY <1>3, <1>11 DEF Goes
  <2>2. q1 = [read EXCEPT !.at = n]
    BY <2>1
  <2> HIDE DEF n, q1
  <2>3. q1 \in DisRec /\ Goes(r, q1, "look", r.list, n, cache, r.held, r.ran, r.cut)
    BY <1>2, <1>11, <2>1, <2>2 DEF DisRec, Goes
  <2> QED BY <2>3 DEF n
<1>14. q2 \in DisRec /\ Goes(r, q2, "acquire", r.list, r.at, cache, r.held, r.ran, r.cut)
  BY <1>11 DEF DisRec, Goes, DisPCs
<1>15. q3 \in DisRec /\ Goes(r, q3, "look", RemoveAt(r.list, r.at), r.at, cache, r.held, r.ran, r.cut)
  <2>1. RemoveAt(read.list, read.at) \in Seq(Handlers)
    BY <1>12, RemoveAtProperties
  <2>2. q3 = [read EXCEPT !.list = RemoveAt(read.list, read.at)]
    BY DEF FilterOut
  <2> QED BY <1>2, <1>11, <2>1, <2>2 DEF DisRec, Goes
<1> HIDE DEF q1, q2, q3
<1>16. q1.pc # "done" /\ q2.pc # "done" /\ q3.pc # "done"
  BY <1>13, <1>14, <1>15 DEF Goes
<1>17. /\ Update(d, q1) => OthersStay(d) /\ dis'[d] = q1
       /\ Update(d, q2) => OthersStay(d) /\ dis'[d] = q2
       /\ Update(d, q3) => OthersStay(d) /\ dis'[d] = q3
  BY <1>13, <1>14, <1>15, <1>16, UpdateGoesOn
<1>18. \/ seen = GenOf[h] /\ r.kind = "waterfall" /\ Update(d, q1)
       \/ seen = GenOf[h] /\ r.kind # "waterfall" /\ Update(d, q2)
       \/ seen # GenOf[h] /\ r.kind = "waterfall" /\ Update(d, q3)
       \/ seen # GenOf[h] /\ r.kind # "waterfall" /\ Update(d, q1)
  BY <1>10 DEF q1, q2, q3
<1>19. r.at <= Len(r.list)
  BY <1>3
<1> QED BY <1>2, <1>5, <1>6, <1>13, <1>14, <1>15, <1>17, <1>18, <1>19, Zenon DEF DispatchLookDoes, cache


-----------------------------------------------------------------------------
(***************************************************************************)
(* What the invariant says of a record is kept by the ways in which it     *)
(* changes: it ends, it goes on where it is, it starts to walk, it runs or *)
(* skips a handler, it looks at one.                                       *)
(***************************************************************************)
\* What a visible handler's gate says.
LEMMA VisibleAdmits ==
  ASSUME GateInv, NEW h \in Handlers, Visible(h)
  PROVE  gate[GenOf[h]] = "accepting" /\ Admits(h)
BY EventBusAssumption, PluginOfGen DEF GateInv, Visible, Admits

\* The dispatch returns to its caller, cut short or at its end.
LEMMA EndsOK ==
  ASSUME GateInv, NEW r \in DisRec, NEW q \in DisRec, DispatchOK(r),
         r.pc \in Walking, NEW cut \in BOOLEAN,
         Goes(r, q, "done", r.list, 1, Idle.cache, {}, r.ran, cut),
         cut => r.kind \notin {"emit", "parallel"},
         ~cut => r.at > Len(r.list) /\ ~(r.pc = "look" /\ r.kind = "waterfall")
  PROVE  DispatchOK(q)
<1>0. Fields(r) /\ Fields(q) /\ Shape(r) /\ LeaseInv(r) /\ CacheInv(r) /\ OrderInv(r) /\ DueInv(r)
  BY DisFields DEF DispatchOK
<1>g. /\ q.pc = "done" /\ q.list = r.list /\ q.ran = r.ran /\ q.at = 1 /\ q.held = {}
      /\ q.cut = cut /\ q.kind = r.kind
  BY DEF Goes
<1>1. Shape(q)
  <2>1. Len(r.list) \in Nat
    BY <1>0 DEF Fields
  <2> QED BY <1>g, <2>1 DEF Shape
<1>2. LeaseInv(q)
  BY <1>0, <1>g DEF LeaseInv
<1>3. CacheInv(q)
  BY <1>0, <1>g DEF CacheInv, Walking
<1>4. OrderInv(q)
  BY <1>0, <1>g DEF OrderInv
<1>5. ASSUME NEW k \in r.due, Visible(k) PROVE Owed(q, k)
  <2>1. Owed(r, k) /\ k \in Handlers
    BY <1>0, <1>5 DEF DueInv, Fields
  <2>2. ASSUME ~cut PROVE Lists(r.ran, k)
    <3>1. PICK i \in DOMAIN r.list : r.list[i] = k /\ (Passed(r, i) => Lists(r.ran, k))
      BY <2>1 DEF Owed
    <3>2. i \in 1..Len(r.list) /\ r.at \in Nat /\ Len(r.list) \in Nat
      BY <1>0 DEF Fields
    <3> QED BY <2>2, <3>1, <3>2 DEF Passed
  <2> QED BY <1>g, <2>2 DEF Owed, Walking
<1>6. DueInv(q)
  <2>1. q.due = r.due
    BY DEF Goes
  <2> QED BY <1>0, <1>5, <2>1 DEF DueInv
<1> QED BY <1>1, <1>2, <1>3, <1>4, <1>6 DEF DispatchOK

\* The dispatch stays at its handler: a lease is dropped, a continuation called.
LEMMA StaysOK ==
  ASSUME GateInv, NEW r \in DisRec, NEW q \in DisRec, DispatchOK(r),
         r.pc \in Walking, NEW pc \in Walking, NEW held \in SUBSET r.held, NEW cut,
         Goes(r, q, pc, r.list, r.at, r.cache, held, r.ran, cut), Shape(q),
         ~(r.pc = "look" /\ r.kind = "waterfall"), ~(pc = "look" /\ r.kind = "waterfall"),
         pc = "acquire" => r.kind = "waterfall"
  PROVE  DispatchOK(q)
<1>0. Fields(r) /\ Fields(q) /\ Shape(r) /\ LeaseInv(r) /\ CacheInv(r) /\ OrderInv(r) /\ DueInv(r)
  BY DisFields DEF DispatchOK
<1>g. /\ q.pc = pc /\ q.list = r.list /\ q.ran = r.ran /\ q.at = r.at /\ q.held \subseteq r.held
      /\ q.cache = r.cache /\ q.kind = r.kind
  BY DEF Goes
<1>1. Shape(q)
  OBVIOUS
<1>2. LeaseInv(q)
  BY <1>0, <1>g DEF LeaseInv
<1>3. CacheInv(q)
  <2>1. \A k : Chosen(q, k) <=> Chosen(r, k)
    BY <1>g DEF Chosen
  <2>2. \A i \in DOMAIN r.ran : Chosen(q, r.ran[i])
    BY <1>0, <2>1 DEF CacheInv, Walking
  <2>3. r.kind = "waterfall" => \A i \in DOMAIN r.list : Chosen(q, r.list[i])
    BY <1>0, <2>1 DEF CacheInv, Walking
  <2>4. \A i, j \in DOMAIN r.ran :
          SamePlugin(r.ran[i], r.ran[j]) => GenOf[r.ran[i]] = GenOf[r.ran[j]]
    BY <1>0 DEF CacheInv
  <2> QED BY <1>g, <2>2, <2>3, <2>4 DEF CacheInv
<1>4. OrderInv(q)
  BY <1>0, <1>g DEF OrderInv, Walking
<1>5. ASSUME NEW k \in r.due, Visible(k) PROVE Owed(q, k)
  <2>1. Owed(r, k) /\ k \in Handlers
    BY <1>0, <1>5 DEF DueInv, Fields
  <2> QED BY <1>g, <2>1 DEF Owed, Walking, Passed
<1>6. DueInv(q)
  <2>1. q.due = r.due
    BY DEF Goes
  <2> QED BY <1>0, <1>5, <2>1 DEF DueInv
<1> QED BY <1>1, <1>2, <1>3, <1>4, <1>6 DEF DispatchOK

\* The snapshot is loaded: it lists every handler that is due and visible.
LEMMA LoadOK ==
  ASSUME GateInv, NEW r \in DisRec, NEW q \in DisRec, DispatchOK(r),
         BusTyped, SlotInv, SnapshotInv, r.pc = "load",
         Goes(r, q, "look", snapshot[r.slot], r.at, r.cache, r.held, r.ran, r.cut)
  PROVE  DispatchOK(q)
<1>0. Fields(r) /\ Fields(q) /\ Shape(r) /\ LeaseInv(r) /\ CacheInv(r) /\ OrderInv(r) /\ DueInv(r)
  BY DisFields DEF DispatchOK
<1>g. /\ q.pc = "look" /\ q.list = snapshot[r.slot] /\ q.ran = <<>> /\ q.at = 1 /\ q.held = {}
      /\ q.cache = Idle.cache /\ q.kind = r.kind /\ ~q.cut /\ r.slot # NONE /\ q.kind \in Kinds
  BY <1>0 DEF Goes, Shape
<1>s. r.slot \in Slots /\ snapshot[r.slot] \in Seq(Handlers)
  BY <1>0, <1>g DEF Fields, BusTyped
<1>1. Shape(q)
  BY <1>g, <1>s DEF Shape
<1>2. LeaseInv(q)
  <2>1. CASE slot = r.slot
    <3>1. ASSUME NEW i \in DOMAIN q.list PROVE reg[q.list[i]].pc \in Listed
      BY <1>g, <1>s, <2>1, <3>1 DEF SnapshotInv, Lists
    <3> QED BY <1>g, <3>1 DEF LeaseInv
  <2>2. CASE slot # r.slot
    <3>1. q.list = <<>>
      BY <1>g, <1>s, <2>2 DEF SnapshotInv
    <3> QED BY <1>g, <3>1 DEF LeaseInv
  <2> QED BY <2>1, <2>2
<1>3. CacheInv(q)
  BY <1>g, <1>s DEF CacheInv
<1>4. OrderInv(q)
  BY <1>g DEF OrderInv
<1>5. ASSUME NEW k \in r.due, Visible(k) PROVE Owed(q, k)
  <2>1. Owed(r, k) /\ k \in Handlers
    BY <1>0, <1>5 DEF DueInv, Fields
  <2>2. r.slot = slot /\ reg[k].pc = "registered" /\ slot # NONE
    BY <1>g, <2>1 DEF Owed
  <2>3. Lists(q.list, k)
    BY <1>g, <2>1, <2>2 DEF SnapshotInv, Listed
  <2>4. q.cache[PluginOf[GenOf[k]]] = Unread
    BY <1>g, <2>1, IdleFields, HandlerFacts
  <2>5. \E i \in DOMAIN q.list : q.list[i] = k /\ (Passed(q, i) => Lists(q.ran, k))
    BY <1>g, <1>s, <2>3 DEF Lists, Passed
  <2> QED BY <1>g, <2>4, <2>5 DEF Owed
<1>6. DueInv(q)
  <2>1. q.due = r.due
    BY DEF Goes
  <2> QED BY <1>0, <1>5, <2>1 DEF DueInv
<1> QED BY <1>1, <1>2, <1>3, <1>4, <1>6 DEF DispatchOK

\* A filtered waterfall starts with its first handler.
LEMMA StartsOK ==
  ASSUME GateInv, NEW r \in DisRec, NEW q \in DisRec, DispatchOK(r),
         r.pc = "look", r.kind = "waterfall", r.at > Len(r.list),
         Goes(r, q, "acquire", r.list, 1, r.cache, r.held, r.ran, r.cut)
  PROVE  DispatchOK(q)
<1>0. Fields(r) /\ Fields(q) /\ Shape(r) /\ LeaseInv(r) /\ CacheInv(r) /\ OrderInv(r) /\ DueInv(r)
  BY DisFields DEF DispatchOK
<1>g. /\ q.pc = "acquire" /\ q.list = r.list /\ q.ran = <<>> /\ q.at = 1 /\ q.held = r.held
      /\ q.cache = r.cache /\ q.kind = "waterfall" /\ q.cut = r.cut /\ ~r.cut
  BY <1>0 DEF Goes, Shape
<1>s. Len(r.list) \in Nat /\ DOMAIN r.list = 1..Len(r.list) /\ r.at \in Nat
  BY <1>0 DEF Fields
<1>1. Shape(q)
  BY <1>g, <1>s DEF Shape, Kinds
<1>2. LeaseInv(q)
  BY <1>0, <1>g DEF LeaseInv
<1>3. CacheInv(q)
  BY <1>0, <1>g, <1>s DEF CacheInv, Chosen, Walking
<1>4. OrderInv(q)
  BY <1>g DEF OrderInv
<1>5. ASSUME NEW k \in r.due, Visible(k) PROVE Owed(q, k)
  <2>1. Owed(r, k) /\ k \in Handlers
    BY <1>0, <1>5 DEF DueInv, Fields
  <2>2. r.cache[PluginOf[GenOf[k]]] \in {Unread, GenOf[k]} /\ \E i \in DOMAIN r.list : r.list[i] = k
    BY <2>1 DEF Owed, Walking
  <2>3. \A i \in DOMAIN r.list : ~Passed(q, i)
    BY <1>g, <1>s DEF Passed
  <2> QED BY <1>g, <2>2, <2>3 DEF Owed
<1>6. DueInv(q)
  <2>1. q.due = r.due
    BY DEF Goes
  <2> QED BY <1>0, <1>5, <2>1 DEF DueInv
<1> QED BY <1>1, <1>2, <1>3, <1>4, <1>6 DEF DispatchOK

\* The lease is granted and the handler runs, or is collected to run.
LEMMA RunsOK ==
  ASSUME GateInv, NEW r \in DisRec, NEW q \in DisRec, DispatchOK(r),
         r.pc = "acquire", r.at <= Len(r.list), Admits(r.list[r.at]),
         NEW pc \in {"look", "running"}, pc = "look" <=> r.kind = "parallel",
         Goes(r, q, pc, r.list, r.at + 1, r.cache, r.held \cup {r.list[r.at]},
              Append(r.ran, r.list[r.at]), r.cut)
  PROVE  DispatchOK(q)
<1>0. Fields(r) /\ Fields(q) /\ Shape(r) /\ LeaseInv(r) /\ CacheInv(r) /\ OrderInv(r) /\ DueInv(r)
  BY DisFields DEF DispatchOK
<1> DEFINE h == r.list[r.at]
<1>g. /\ q.pc = pc /\ q.list = r.list /\ q.ran = Append(r.ran, h) /\ q.at = r.at + 1
      /\ q.held = r.held \cup {h} /\ q.cache = r.cache /\ q.kind = r.kind /\ q.cut = r.cut
  BY DEF Goes
<1>s. /\ r.at \in 1..Len(r.list) /\ r.list \in Seq(Handlers) /\ h \in Handlers
      /\ DOMAIN r.list = 1..Len(r.list) /\ r.ran \in Seq(Handlers)
  BY <1>0 DEF Shape, Fields
<1>c. Chosen(r, h)
  BY <1>0, <1>s DEF CacheInv
<1>a. gate[GenOf[h]] # "drained" /\ reg[h].pc \in Listed \cup {"removed"} /\ Admits(h)
  BY <1>0, <1>s DEF Admits, LeaseInv
<1>r. reg[h].pc = "registered"
  BY <1>a, <1>s DEF GateInv, Leaving, Listed
<1>n. /\ DOMAIN q.ran = 1..(Len(r.ran) + 1) /\ q.ran[Len(r.ran) + 1] = h /\ Len(r.ran) \in Nat
      /\ DOMAIN r.ran = 1..Len(r.ran) /\ \A i \in 1..Len(r.ran) : q.ran[i] = r.ran[i]
  BY <1>g, <1>s
<1> HIDE DEF h
<1>1. Shape(q)
  BY <1>0, <1>g, <1>s DEF Shape
<1>2. LeaseInv(q)
  BY <1>0, <1>g, <1>a, <1>r DEF LeaseInv
<1>3. CacheInv(q)
  <2>1. ASSUME NEW i \in DOMAIN q.ran PROVE Chosen(r, q.ran[i])
    BY <1>0, <1>c, <1>n DEF CacheInv, Walking
  <2>2. \A k : Chosen(q, k) <=> Chosen(r, k)
    BY <1>g DEF Chosen
  <2>3. ASSUME NEW i \in DOMAIN q.ran, NEW j \in DOMAIN q.ran, SamePlugin(q.ran[i], q.ran[j])
        PROVE  GenOf[q.ran[i]] = GenOf[q.ran[j]]
    BY <2>1, <2>3 DEF Chosen, SamePlugin
  <2>4. r.kind = "waterfall" => \A i \in DOMAIN r.list : Chosen(r, r.list[i])
    BY <1>0 DEF CacheInv
  <2> QED BY <1>g, <2>1, <2>2, <2>3, <2>4 DEF CacheInv
<1>4. OrderInv(q)
  <2>1. \A i \in DOMAIN r.ran : \E m \in DOMAIN r.list : r.list[m] = r.ran[i] /\ m < r.at
    BY <1>0 DEF OrderInv
  <2>2. r.list[r.at] = h /\ r.at \in DOMAIN r.list
    BY <1>s DEF h
  <2>3. ASSUME NEW i \in DOMAIN q.ran
        PROVE  \E m \in DOMAIN q.list : q.list[m] = q.ran[i] /\ m < q.at
    <3>1. CASE i \in DOMAIN r.ran
      <4>1. PICK m \in DOMAIN r.list : r.list[m] = r.ran[i] /\ m < r.at
        BY <2>1, <3>1
      <4> QED BY <1>g, <1>n, <1>s, <3>1, <4>1
    <3>2. CASE i = Len(r.ran) + 1
      BY <1>g, <1>n, <1>s, <2>2, <3>2
    <3> QED BY <1>n, <3>1, <3>2
  <2>4. ASSUME NEW i \in DOMAIN q.ran, NEW j \in DOMAIN q.ran, i < j
        PROVE  \E m, n \in DOMAIN q.list : m < n /\ q.list[m] = q.ran[i] /\ q.list[n] = q.ran[j]
    <3>1. i \in DOMAIN r.ran /\ q.ran[i] = r.ran[i]
      BY <1>n, <2>4
    <3>2. CASE j \in DOMAIN r.ran
      <4>1. q.ran[j] = r.ran[j]
        BY <1>n, <3>2
      <4> QED BY <1>0, <1>g, <2>4, <3>1, <3>2, <4>1 DEF OrderInv
    <3>3. CASE j = Len(r.ran) + 1
      <4>1. PICK m \in DOMAIN r.list : r.list[m] = r.ran[i] /\ m < r.at
        BY <2>1, <3>1
      <4> QED BY <1>g, <1>n, <2>2, <3>1, <3>3, <4>1
    <3> QED BY <1>n, <3>2, <3>3
  <2> QED BY <1>g, <2>3, <2>4 DEF OrderInv
<1>5. ASSUME NEW k \in r.due, Visible(k) PROVE Owed(q, k)
  <2>1. Owed(r, k) /\ k \in Handlers
    BY <1>0, <1>5 DEF DueInv, Fields
  <2>2. /\ r.cache[PluginOf[GenOf[k]]] \in {Unread, GenOf[k]}
        /\ \E i \in DOMAIN r.list : r.list[i] = k /\ (Passed(r, i) => Lists(r.ran, k))
    BY <2>1 DEF Owed, Walking
  <2>3. PICK i \in DOMAIN r.list : r.list[i] = k /\ (Passed(r, i) => Lists(r.ran, k))
    BY <2>2
  <2>4. Lists(r.ran, k) => Lists(q.ran, k)
    BY <1>n DEF Lists
  <2>5. i = r.at => Lists(q.ran, k)
    <3>1. i = r.at => k = h
      BY <2>3 DEF h
    <3>2. Len(r.ran) + 1 \in DOMAIN q.ran
      BY <1>n
    <3> QED BY <1>n, <3>1, <3>2 DEF Lists
  <2>6. Passed(q, i) => Lists(q.ran, k)
    <3>1. Passed(q, i) => i < r.at \/ i = r.at
      BY <1>g, <1>s DEF Passed
    <3>2. i < r.at => Passed(r, i)
      BY DEF Passed
    <3> QED BY <2>3, <2>4, <2>5, <3>1, <3>2
  <2> QED BY <1>g, <2>2, <2>3, <2>6 DEF Owed
<1>6. DueInv(q)
  <2>1. q.due = r.due
    BY DEF Goes
  <2> QED BY <1>0, <1>5, <2>1 DEF DueInv
<1> QED BY <1>1, <1>2, <1>3, <1>4, <1>6 DEF DispatchOK

\* The lease is refused: no handler that is visible is skipped.
LEMMA SkipsOK ==
  ASSUME GateInv, NEW r \in DisRec, NEW q \in DisRec, DispatchOK(r),
         r.pc = "acquire", r.at <= Len(r.list), ~Admits(r.list[r.at]),
         NEW pc \in {"look", "acquire"}, pc = "acquire" <=> r.kind = "waterfall",
         Goes(r, q, pc, r.list, r.at + 1, r.cache, r.held, r.ran, r.cut)
  PROVE  DispatchOK(q)
<1>0. Fields(r) /\ Fields(q) /\ Shape(r) /\ LeaseInv(r) /\ CacheInv(r) /\ OrderInv(r) /\ DueInv(r)
  BY DisFields DEF DispatchOK
<1>g. /\ q.pc = pc /\ q.list = r.list /\ q.ran = r.ran /\ q.at = r.at + 1
      /\ q.held = r.held /\ q.cache = r.cache /\ q.kind = r.kind /\ q.cut = r.cut
  BY DEF Goes
<1>s. /\ r.at \in 1..Len(r.list) /\ r.list \in Seq(Handlers)
      /\ DOMAIN r.list = 1..Len(r.list) /\ Len(r.list) \in Nat
  BY <1>0 DEF Shape, Fields
<1>1. Shape(q)
  BY <1>0, <1>g, <1>s DEF Shape
<1>2. LeaseInv(q)
  BY <1>0, <1>g DEF LeaseInv
<1>3. CacheInv(q)
  <2>1. \A k : Chosen(q, k) <=> Chosen(r, k)
    BY <1>g DEF Chosen
  <2>2. \A i \in DOMAIN r.ran : Chosen(q, r.ran[i])
    BY <1>0, <2>1 DEF CacheInv, Walking
  <2>3. r.kind = "waterfall" => \A i \in DOMAIN r.list : Chosen(q, r.list[i])
    BY <1>0, <2>1 DEF CacheInv, Walking
  <2>4. \A i, j \in DOMAIN r.ran :
          SamePlugin(r.ran[i], r.ran[j]) => GenOf[r.ran[i]] = GenOf[r.ran[j]]
    BY <1>0 DEF CacheInv
  <2> QED BY <1>g, <2>2, <2>3, <2>4 DEF CacheInv
<1>4. OrderInv(q)
  BY <1>0, <1>g, <1>s DEF OrderInv
<1>5. ASSUME NEW k \in r.due, Visible(k) PROVE Owed(q, k)
  <2>1. Owed(r, k) /\ k \in Handlers
    BY <1>0, <1>5 DEF DueInv, Fields
  <2>2. /\ r.cache[PluginOf[GenOf[k]]] \in {Unread, GenOf[k]}
        /\ \E i \in DOMAIN r.list : r.list[i] = k /\ (Passed(r, i) => Lists(r.ran, k))
    BY <2>1 DEF Owed, Walking
  <2>3. PICK i \in DOMAIN r.list : r.list[i] = k /\ (Passed(r, i) => Lists(r.ran, k))
    BY <2>2
  <2>4. i # r.at
    BY <1>5, <2>1, <2>3, VisibleAdmits
  <2>5. Passed(q, i) => Passed(r, i)
    BY <1>g, <1>s, <2>4 DEF Passed
  <2> QED BY <1>g, <2>2, <2>3, <2>5 DEF Owed
<1>6. DueInv(q)
  <2>1. q.due = r.due
    BY DEF Goes
  <2> QED BY <1>0, <1>5, <2>1 DEF DueInv
<1> QED BY <1>1, <1>2, <1>3, <1>4, <1>6 DEF DispatchOK


-----------------------------------------------------------------------------
\* A look keeps every choice the cache has made, and leaves a visible
\* generation either unread or chosen.
CacheKept(r, q) ==
  \A k \in Handlers :
    /\ Chosen(r, k) => Chosen(q, k)
    /\ Visible(k) /\ r.cache[PluginOf[GenOf[k]]] \in {Unread, GenOf[k]}
         => q.cache[PluginOf[GenOf[k]]] \in {Unread, GenOf[k]}

\* The handler is of a visible generation the cache has not decided against.
Awaited(r, h) == Visible(h) /\ r.cache[PluginOf[GenOf[h]]] \in {Unread, GenOf[h]}

LEMMA LookCache ==
  ASSUME GatesTyped, NEW r, NEW q, r.cache \in Caches, NEW h \in Handlers,
         NEW seen \in Gens \cup {NONE},
         seen = IF r.cache[PluginOf[GenOf[h]]] = Unread THEN active[PluginOf[GenOf[h]]]
                ELSE r.cache[PluginOf[GenOf[h]]],
         q.cache = Cached(r, h, seen)
  PROVE  /\ CacheKept(r, q)
         /\ Chosen(q, h) <=> seen = GenOf[h]
         /\ Awaited(r, h) => seen = GenOf[h]
<1> DEFINE p == PluginOf[GenOf[h]]
<1>1. p \in Plugins /\ GenOf[h] \in Gens /\ GenOf[h] # Unread
  BY HandlerFacts
<1>2. q.cache[p] = seen /\ \A o \in Plugins : o # p => q.cache[o] = r.cache[o]
  BY <1>1 DEF Cached, Caches
<1>3. seen # Unread
  BY EventBusAssumption DEF Unread
<1>4. ASSUME NEW k \in Handlers
      PROVE  /\ Chosen(r, k) => Chosen(q, k)
             /\ Visible(k) /\ r.cache[PluginOf[GenOf[k]]] \in {Unread, GenOf[k]}
                  => q.cache[PluginOf[GenOf[k]]] \in {Unread, GenOf[k]}
  <2>1. PluginOf[GenOf[k]] \in Plugins /\ GenOf[k] # Unread
    BY HandlerFacts
  <2>2. CASE PluginOf[GenOf[k]] = p
    BY <1>2, <2>1, <2>2 DEF Chosen, Visible
  <2>3. CASE PluginOf[GenOf[k]] # p
    BY <1>2, <2>1, <2>3 DEF Chosen
  <2> QED BY <2>2, <2>3
<1>5. Chosen(q, h) <=> seen = GenOf[h]
  BY <1>2 DEF Chosen
<1>6. Awaited(r, h) => seen = GenOf[h]
  BY <1>1 DEF Awaited, Visible
<1> QED BY <1>4, <1>5, <1>6 DEF CacheKept

\* A waterfall keeps the handler it chose.
LEMMA LookKeepsOK ==
  ASSUME GateInv, NEW r \in DisRec, NEW q \in DisRec, DispatchOK(r),
         r.pc = "look", r.at <= Len(r.list), CacheKept(r, q),
         r.kind = "waterfall", Chosen(q, r.list[r.at]),
         Goes(r, q, "look", r.list, r.at + 1, q.cache, r.held, r.ran, r.cut)
  PROVE  DispatchOK(q)
<1>0. Fields(r) /\ Fields(q) /\ Shape(r) /\ LeaseInv(r) /\ CacheInv(r) /\ OrderInv(r) /\ DueInv(r)
  BY DisFields DEF DispatchOK
<1> DEFINE h == r.list[r.at]
<1>g. /\ q.pc = "look" /\ q.list = r.list /\ q.ran = r.ran /\ q.at = r.at + 1
      /\ q.held = r.held /\ q.kind = r.kind /\ q.cut = r.cut
  BY DEF Goes
<1>s. /\ r.at \in 1..Len(r.list) /\ r.list \in Seq(Handlers) /\ h \in Handlers
      /\ DOMAIN r.list = 1..Len(r.list) /\ Len(r.list) \in Nat
      /\ r.ran \in Seq(Handlers) /\ \A i \in DOMAIN r.ran : r.ran[i] \in Handlers
  BY <1>0 DEF Shape, Fields
<1>c. \A i \in DOMAIN r.ran : Chosen(q, r.ran[i])
  BY <1>0, <1>s DEF CacheInv, Walking, CacheKept
<1>e. \A i, j \in DOMAIN r.ran :
        SamePlugin(r.ran[i], r.ran[j]) => GenOf[r.ran[i]] = GenOf[r.ran[j]]
  BY <1>0 DEF CacheInv
<1> HIDE DEF h
<1>1. Shape(q)
  BY <1>0, <1>g, <1>s DEF Shape
<1>2. LeaseInv(q)
  BY <1>0, <1>g DEF LeaseInv
<1>3. CacheInv(q)
  <2>1. ASSUME NEW i \in DOMAIN r.list, i < r.at + 1 PROVE Chosen(q, r.list[i])
    <3>1. CASE i = r.at
      BY <3>1
    <3>2. CASE i < r.at
      BY <1>0, <1>s, <3>2 DEF CacheInv, CacheKept
    <3> QED BY <1>s, <2>1, <3>1, <3>2
  <2> QED BY <1>g, <1>c, <1>e, <2>1 DEF CacheInv
<1>4. OrderInv(q)
  <2>1. r.ran = <<>>
    BY <1>0 DEF Shape
  <2> QED BY <1>g, <2>1 DEF OrderInv
<1>5. ASSUME NEW k \in r.due, Visible(k) PROVE Owed(q, k)
  <2>1. Owed(r, k) /\ k \in Handlers
    BY <1>0, <1>5 DEF DueInv, Fields
  <2>2. /\ r.cache[PluginOf[GenOf[k]]] \in {Unread, GenOf[k]}
        /\ \E i \in DOMAIN r.list : r.list[i] = k /\ (Passed(r, i) => Lists(r.ran, k))
    BY <2>1 DEF Owed, Walking
  <2>3. PICK i \in DOMAIN r.list : r.list[i] = k /\ (Passed(r, i) => Lists(r.ran, k))
    BY <2>2
  <2>4. q.cache[PluginOf[GenOf[k]]] \in {Unread, GenOf[k]}
    BY <1>5, <2>1, <2>2 DEF CacheKept
  <2>5. ~Passed(q, i)
    BY <1>g DEF Passed
  <2> QED BY <1>g, <2>3, <2>4, <2>5 DEF Owed
<1>6. DueInv(q)
  <2>1. q.due = r.due
    BY DEF Goes
  <2> QED BY <1>0, <1>5, <2>1 DEF DueInv
<1> QED BY <1>1, <1>2, <1>3, <1>4, <1>6 DEF DispatchOK

\* The others ask for the lease of the handler they chose.
LEMMA LookFindsOK ==
  ASSUME GateInv, NEW r \in DisRec, NEW q \in DisRec, DispatchOK(r),
         r.pc = "look", r.at <= Len(r.list), CacheKept(r, q),
         r.kind # "waterfall", Chosen(q, r.list[r.at]),
         Goes(r, q, "acquire", r.list, r.at, q.cache, r.held, r.ran, r.cut)
  PROVE  DispatchOK(q)
<1>0. Fields(r) /\ Fields(q) /\ Shape(r) /\ LeaseInv(r) /\ CacheInv(r) /\ OrderInv(r) /\ DueInv(r)
  BY DisFields DEF DispatchOK
<1> DEFINE h == r.list[r.at]
<1>g. /\ q.pc = "acquire" /\ q.list = r.list /\ q.ran = r.ran /\ q.at = r.at
      /\ q.held = r.held /\ q.kind = r.kind /\ q.cut = r.cut
  BY DEF Goes
<1>s. /\ r.at \in 1..Len(r.list) /\ r.list \in Seq(Handlers) /\ h \in Handlers
      /\ DOMAIN r.list = 1..Len(r.list) /\ Len(r.list) \in Nat
      /\ r.ran \in Seq(Handlers) /\ \A i \in DOMAIN r.ran : r.ran[i] \in Handlers
  BY <1>0 DEF Shape, Fields
<1>c. \A i \in DOMAIN r.ran : Chosen(q, r.ran[i])
  BY <1>0, <1>s DEF CacheInv, Walking, CacheKept
<1>e. \A i, j \in DOMAIN r.ran :
        SamePlugin(r.ran[i], r.ran[j]) => GenOf[r.ran[i]] = GenOf[r.ran[j]]
  BY <1>0 DEF CacheInv
<1> HIDE DEF h
<1>1. Shape(q)
  BY <1>0, <1>g, <1>s DEF Shape
<1>2. LeaseInv(q)
  BY <1>0, <1>g DEF LeaseInv
<1>3. CacheInv(q)
  BY <1>g, <1>c, <1>e DEF CacheInv
<1>4. OrderInv(q)
  BY <1>0, <1>g DEF OrderInv
<1>5. ASSUME NEW k \in r.due, Visible(k) PROVE Owed(q, k)
  <2>1. Owed(r, k) /\ k \in Handlers
    BY <1>0, <1>5 DEF DueInv, Fields
  <2>2. /\ r.cache[PluginOf[GenOf[k]]] \in {Unread, GenOf[k]}
        /\ \E i \in DOMAIN r.list : r.list[i] = k /\ (Passed(r, i) => Lists(r.ran, k))
    BY <2>1 DEF Owed, Walking
  <2>3. PICK i \in DOMAIN r.list : r.list[i] = k /\ (Passed(r, i) => Lists(r.ran, k))
    BY <2>2
  <2>4. q.cache[PluginOf[GenOf[k]]] \in {Unread, GenOf[k]}
    BY <1>5, <2>1, <2>2 DEF CacheKept
  <2>5. Passed(q, i) => Passed(r, i)
    BY <1>g DEF Passed
  <2> QED BY <1>g, <2>3, <2>4, <2>5 DEF Owed
<1>6. DueInv(q)
  <2>1. q.due = r.due
    BY DEF Goes
  <2> QED BY <1>0, <1>5, <2>1 DEF DueInv
<1> QED BY <1>1, <1>2, <1>3, <1>4, <1>6 DEF DispatchOK

\* The others pass by a handler they did not choose, which is not awaited.
LEMMA LookPassesOK ==
  ASSUME GateInv, NEW r \in DisRec, NEW q \in DisRec, DispatchOK(r),
         r.pc = "look", r.at <= Len(r.list), CacheKept(r, q),
         r.kind # "waterfall", ~Awaited(r, r.list[r.at]),
         Goes(r, q, "look", r.list, r.at + 1, q.cache, r.held, r.ran, r.cut)
  PROVE  DispatchOK(q)
<1>0. Fields(r) /\ Fields(q) /\ Shape(r) /\ LeaseInv(r) /\ CacheInv(r) /\ OrderInv(r) /\ DueInv(r)
  BY DisFields DEF DispatchOK
<1> DEFINE h == r.list[r.at]
<1>g. /\ q.pc = "look" /\ q.list = r.list /\ q.ran = r.ran /\ q.at = r.at + 1
      /\ q.held = r.held /\ q.kind = r.kind /\ q.cut = r.cut
  BY DEF Goes
<1>s. /\ r.at \in 1..Len(r.list) /\ r.list \in Seq(Handlers) /\ h \in Handlers
      /\ DOMAIN r.list = 1..Len(r.list) /\ Len(r.list) \in Nat
      /\ r.ran \in Seq(Handlers) /\ \A i \in DOMAIN r.ran : r.ran[i] \in Handlers
  BY <1>0 DEF Shape, Fields
<1>c. \A i \in DOMAIN r.ran : Chosen(q, r.ran[i])
  BY <1>0, <1>s DEF CacheInv, Walking, CacheKept
<1>e. \A i, j \in DOMAIN r.ran :
        SamePlugin(r.ran[i], r.ran[j]) => GenOf[r.ran[i]] = GenOf[r.ran[j]]
  BY <1>0 DEF CacheInv
<1> HIDE DEF h
<1>1. Shape(q)
  BY <1>0, <1>g, <1>s DEF Shape
<1>2. LeaseInv(q)
  BY <1>0, <1>g DEF LeaseInv
<1>3. CacheInv(q)
  BY <1>g, <1>c, <1>e DEF CacheInv
<1>4. OrderInv(q)
  BY <1>0, <1>g, <1>s DEF OrderInv
<1>5. ASSUME NEW k \in r.due, Visible(k) PROVE Owed(q, k)
  <2>1. Owed(r, k) /\ k \in Handlers
    BY <1>0, <1>5 DEF DueInv, Fields
  <2>2. /\ r.cache[PluginOf[GenOf[k]]] \in {Unread, GenOf[k]}
        /\ \E i \in DOMAIN r.list : r.list[i] = k /\ (Passed(r, i) => Lists(r.ran, k))
    BY <2>1 DEF Owed, Walking
  <2>3. PICK i \in DOMAIN r.list : r.list[i] = k /\ (Passed(r, i) => Lists(r.ran, k))
    BY <2>2
  <2>4. q.cache[PluginOf[GenOf[k]]] \in {Unread, GenOf[k]}
    BY <1>5, <2>1, <2>2 DEF CacheKept
  <2>5. i # r.at
    BY <1>5, <2>2, <2>3 DEF Awaited
  <2>6. Passed(q, i) => Passed(r, i)
    BY <1>g, <1>s, <2>5 DEF Passed
  <2> QED BY <1>g, <2>3, <2>4, <2>6 DEF Owed
<1>6. DueInv(q)
  <2>1. q.due = r.due
    BY DEF Goes
  <2> QED BY <1>0, <1>5, <2>1 DEF DueInv
<1> QED BY <1>1, <1>2, <1>3, <1>4, <1>6 DEF DispatchOK

\* A waterfall drops a handler it did not choose from its list.
LEMMA LookFiltersOK ==
  ASSUME GateInv, NEW r \in DisRec, NEW q \in DisRec, DispatchOK(r),
         r.pc = "look", r.at <= Len(r.list), CacheKept(r, q),
         r.kind = "waterfall", ~Awaited(r, r.list[r.at]),
         Goes(r, q, "look", RemoveAt(r.list, r.at), r.at, q.cache, r.held, r.ran, r.cut)
  PROVE  DispatchOK(q)
<1>0. Fields(r) /\ Fields(q) /\ Shape(r) /\ LeaseInv(r) /\ CacheInv(r) /\ OrderInv(r) /\ DueInv(r)
  BY DisFields DEF DispatchOK
<1> DEFINE h == r.list[r.at]
<1>g. /\ q.pc = "look" /\ q.list = RemoveAt(r.list, r.at) /\ q.ran = r.ran /\ q.at = r.at
      /\ q.held = r.held /\ q.kind = r.kind /\ q.cut = r.cut
  BY DEF Goes
<1>s. /\ r.at \in 1..Len(r.list) /\ r.list \in Seq(Handlers) /\ h \in Handlers
      /\ DOMAIN r.list = 1..Len(r.list) /\ Len(r.list) \in Nat
      /\ r.ran \in Seq(Handlers) /\ \A i \in DOMAIN r.ran : r.ran[i] \in Handlers
  BY <1>0 DEF Shape, Fields
<1>c. \A i \in DOMAIN r.ran : Chosen(q, r.ran[i])
  BY <1>0, <1>s DEF CacheInv, Walking, CacheKept
<1>e. \A i, j \in DOMAIN r.ran :
        SamePlugin(r.ran[i], r.ran[j]) => GenOf[r.ran[i]] = GenOf[r.ran[j]]
  BY <1>0 DEF CacheInv
<1>l. /\ q.list \in Seq(Handlers) /\ Len(q.list) = Len(r.list) - 1
      /\ DOMAIN q.list = 1..(Len(r.list) - 1)
      /\ \A j \in 1..(Len(r.list) - 1) : q.list[j] = IF j < r.at THEN r.list[j] ELSE r.list[j + 1]
  <2> DEFINE l == RemoveAt(r.list, r.at)
  <2>1. /\ l \in Seq(Handlers) /\ Len(l) = Len(r.list) - 1
        /\ \A j \in 1..(Len(r.list) - 1) : l[j] = IF j < r.at THEN r.list[j] ELSE r.list[j + 1]
    BY <1>s, RemoveAtProperties
  <2>2. q.list = l
    BY <1>g
  <2> HIDE DEF l
  <2>3. DOMAIN l = 1..(Len(r.list) - 1)
    BY <2>1
  <2> QED BY <2>1, <2>2, <2>3
<1> HIDE DEF h
<1>1. Shape(q)
  <2>1. q.at \in 1..(Len(q.list) + 1)
    BY <1>g, <1>l, <1>s
  <2> QED BY <1>0, <1>g, <2>1 DEF Shape
<1>2. LeaseInv(q)
  <2>1. ASSUME NEW j \in DOMAIN q.list PROVE \E i \in DOMAIN r.list : q.list[j] = r.list[i]
    <3>1. CASE j < r.at
      BY <1>l, <1>s, <3>1
    <3>2. CASE ~(j < r.at)
      <4>1. j + 1 \in DOMAIN r.list /\ q.list[j] = r.list[j + 1]
        BY <1>l, <1>s, <3>2
      <4> QED BY <4>1
    <3> QED BY <3>1, <3>2
  <2> QED BY <1>0, <1>g, <2>1 DEF LeaseInv
<1>3. CacheInv(q)
  <2>1. ASSUME NEW i \in DOMAIN q.list, i < q.at PROVE Chosen(q, q.list[i])
    <3>1. q.list[i] = r.list[i] /\ i \in DOMAIN r.list /\ r.list[i] \in Handlers /\ i < r.at
      BY <1>g, <1>l, <1>s, <2>1
    <3> QED BY <1>0, <3>1 DEF CacheInv, CacheKept
  <2> QED BY <1>g, <1>c, <1>e, <2>1 DEF CacheInv
<1>4. OrderInv(q)
  <2>1. r.ran = <<>>
    BY <1>0 DEF Shape
  <2> QED BY <1>g, <2>1 DEF OrderInv
<1>5. ASSUME NEW k \in r.due, Visible(k) PROVE Owed(q, k)
  <2>1. Owed(r, k) /\ k \in Handlers
    BY <1>0, <1>5 DEF DueInv, Fields
  <2>2. /\ r.cache[PluginOf[GenOf[k]]] \in {Unread, GenOf[k]}
        /\ \E i \in DOMAIN r.list : r.list[i] = k /\ (Passed(r, i) => Lists(r.ran, k))
    BY <2>1 DEF Owed, Walking
  <2>3. PICK i \in DOMAIN r.list : r.list[i] = k /\ (Passed(r, i) => Lists(r.ran, k))
    BY <2>2
  <2>4. q.cache[PluginOf[GenOf[k]]] \in {Unread, GenOf[k]}
    BY <1>5, <2>1, <2>2 DEF CacheKept
  <2>5. i # r.at
    BY <1>5, <2>2, <2>3 DEF Awaited
  <2>6. \E j \in DOMAIN q.list : q.list[j] = k
    <3>1. CASE i < r.at
      <4>1. i \in 1..(Len(r.list) - 1)
        BY <1>s, <3>1
      <4> QED BY <1>l, <2>3, <3>1, <4>1
    <3>2. CASE i > r.at
      <4>1. i - 1 \in 1..(Len(r.list) - 1) /\ ~(i - 1 < r.at) /\ (i - 1) + 1 = i
        BY <1>s, <3>2
      <4> QED BY <1>l, <2>3, <4>1
    <3> QED BY <1>s, <2>5, <3>1, <3>2
  <2>7. \A j : ~Passed(q, j)
    BY <1>g DEF Passed
  <2> QED BY <1>g, <2>4, <2>6, <2>7 DEF Owed
<1>6. DueInv(q)
  <2>1. q.due = r.due
    BY DEF Goes
  <2> QED BY <1>0, <1>5, <2>1 DEF DueInv
<1> QED BY <1>1, <1>2, <1>3, <1>4, <1>6 DEF DispatchOK

LEMMA LookOK ==
  ASSUME GateInv, GatesTyped, NEW r \in DisRec, NEW q \in DisRec, DispatchOK(r),
         DispatchLookDoes(r, q)
  PROVE  DispatchOK(q)
<1> DEFINE h == r.list[r.at]
<1>1. PICK seen \in Gens \cup {NONE} :
        /\ seen = IF r.cache[PluginOf[GenOf[h]]] = Unread THEN active[PluginOf[GenOf[h]]]
                  ELSE r.cache[PluginOf[GenOf[h]]]
        /\ \/ /\ seen = GenOf[h] /\ r.kind = "waterfall"
              /\ Goes(r, q, "look", r.list, r.at + 1, Cached(r, h, seen), r.held, r.ran, r.cut)
           \/ /\ seen = GenOf[h] /\ r.kind # "waterfall"
              /\ Goes(r, q, "acquire", r.list, r.at, Cached(r, h, seen), r.held, r.ran, r.cut)
           \/ /\ seen # GenOf[h] /\ r.kind = "waterfall"
              /\ Goes(r, q, "look", RemoveAt(r.list, r.at), r.at, Cached(r, h, seen), r.held, r.ran, r.cut)
           \/ /\ seen # GenOf[h] /\ r.kind # "waterfall"
              /\ Goes(r, q, "look", r.list, r.at + 1, Cached(r, h, seen), r.held, r.ran, r.cut)
  BY Zenon DEF DispatchLookDoes
<1>2. r.pc = "look" /\ r.at <= Len(r.list)
  BY Zenon DEF DispatchLookDoes
<1>3. r.cache \in Caches /\ h \in Handlers
  <2>1. Fields(r) /\ Shape(r)
    BY DisFields DEF DispatchOK
  <2> QED BY <1>2, <2>1 DEF Fields, Shape
<1>4. q.cache = Cached(r, h, seen)
  BY <1>1, Zenon DEF Goes
<1>5. /\ CacheKept(r, q)
      /\ Chosen(q, h) <=> seen = GenOf[h]
      /\ Awaited(r, h) => seen = GenOf[h]
  <2> HIDE DEF h
  <2> QED BY <1>1, <1>3, <1>4, LookCache
<1>6. CASE seen = GenOf[h] /\ r.kind = "waterfall"
  <2>1. Goes(r, q, "look", r.list, r.at + 1, q.cache, r.held, r.ran, r.cut)
    BY <1>1, <1>4, <1>6, Zenon
  <2> QED BY <1>2, <1>5, <1>6, <2>1, LookKeepsOK
<1>7. CASE seen = GenOf[h] /\ r.kind # "waterfall"
  <2>1. Goes(r, q, "acquire", r.list, r.at, q.cache, r.held, r.ran, r.cut)
    BY <1>1, <1>4, <1>7, Zenon
  <2> QED BY <1>2, <1>5, <1>7, <2>1, LookFindsOK
<1>8. CASE seen # GenOf[h] /\ r.kind = "waterfall"
  <2>1. Goes(r, q, "look", RemoveAt(r.list, r.at), r.at, q.cache, r.held, r.ran, r.cut)
    BY <1>1, <1>4, <1>8, Zenon
  <2> QED BY <1>2, <1>5, <1>8, <2>1, LookFiltersOK
<1>9. CASE seen # GenOf[h] /\ r.kind # "waterfall"
  <2>1. Goes(r, q, "look", r.list, r.at + 1, q.cache, r.held, r.ran, r.cut)
    BY <1>1, <1>4, <1>9, Zenon
  <2> QED BY <1>2, <1>5, <1>9, <2>1, LookPassesOK
<1> QED BY <1>6, <1>7, <1>8, <1>9

-----------------------------------------------------------------------------
(***************************************************************************)
(* One step of one dispatch keeps the invariant of its record.             *)
(***************************************************************************)
LEMMA IdleOK == DispatchOK(Idle)
<1>1. Shape(Idle)
  BY IdleFields DEF Shape
<1>2. LeaseInv(Idle) /\ OrderInv(Idle)
  BY IdleFields DEF LeaseInv, OrderInv
<1>3. CacheInv(Idle)
  BY IdleFields DEF CacheInv, Walking
<1>4. DueInv(Idle)
  BY IdleFields DEF DueInv
<1> QED BY <1>1, <1>2, <1>3, <1>4 DEF DispatchOK

\* What is due at the beginning is in the slot the dispatch will load.
LEMMA BeginOK ==
  ASSUME SlotInv, NEW d \in Dispatchers, NEW k \in Kinds, DispatchBeginDoes(d, k)
  PROVE  DispatchOK(dis'[d])
<1> DEFINE q == dis'[d]
<1>1. /\ q.kind = k /\ q.list = <<>> /\ q.at = 1 /\ q.cache = Idle.cache /\ q.held = {}
      /\ q.ran = <<>> /\ ~q.cut /\ q.due = {h \in Handlers : Registered(h) /\ Visible(h)}
      /\ \/ slot = NONE /\ q.pc = "done"
         \/ slot # NONE /\ q.pc = "load" /\ q.slot = slot
  BY DEF DispatchBeginDoes
<1> HIDE DEF q
<1>2. Shape(q)
  BY <1>1 DEF Shape
<1>3. LeaseInv(q) /\ OrderInv(q)
  BY <1>1 DEF LeaseInv, OrderInv
<1>4. CacheInv(q)
  BY <1>1 DEF CacheInv, Walking
<1>5. ASSUME NEW h \in q.due PROVE Visible(h) /\ Owed(q, h)
  <2>1. h \in Handlers /\ reg[h].pc = "registered" /\ Visible(h)
    BY <1>1 DEF Registered, At
  <2>2. slot # NONE
    BY <2>1 DEF SlotInv, PointsRight, Listed
  <2> QED BY <1>1, <2>1, <2>2 DEF Owed, Walking
<1>6. DueInv(q)
  BY <1>5 DEF DueInv
<1> QED BY <1>2, <1>3, <1>4, <1>6 DEF DispatchOK, q

\* The end of the snapshot.
LEMMA EndOK ==
  ASSUME GateInv, NEW r \in DisRec, NEW q \in DisRec, DispatchOK(r), DispatchEndDoes(r, q)
  PROVE  DispatchOK(q)
<1>1. r.pc = "look" /\ r.at > Len(r.list) /\ Shape(r) /\ r.pc \in Walking /\ ~r.cut
  BY DEF DispatchEndDoes, DispatchOK, Walking, Shape
<1>2. CASE r.kind = "waterfall"
  <2>1. Goes(r, q, "acquire", r.list, 1, r.cache, r.held, r.ran, r.cut)
    BY <1>2 DEF DispatchEndDoes
  <2> QED BY <1>1, <1>2, <2>1, StartsOK
<1>3. CASE r.kind = "parallel" /\ r.held # {}
  <2>1. Goes(r, q, "running", r.list, r.at, r.cache, r.held, r.ran, r.cut)
    BY <1>3 DEF DispatchEndDoes
  <2>2. Shape(q)
    BY <1>1, <1>3, <2>1 DEF Shape, Goes
  <2>3. "running" \in Walking /\ r.held \in SUBSET r.held
    BY DEF Walking
  <2> QED BY <1>1, <1>3, <2>1, <2>2, <2>3, StaysOK
<1>4. CASE r.kind # "waterfall" /\ ~(r.kind = "parallel" /\ r.held # {})
  <2>1. Goes(r, q, "done", r.list, 1, Idle.cache, r.held, r.ran, r.cut)
    BY <1>4 DEF DispatchEndDoes
  <2>2. r.held = {}
    BY <1>1, <1>4 DEF Shape
  <2>3. Goes(r, q, "done", r.list, 1, Idle.cache, {}, r.ran, r.cut) /\ r.cut \in BOOLEAN
    BY <2>1, <2>2, DisFields DEF Fields
  <2> QED BY <1>1, <1>4, <2>3, EndsOK
<1> QED BY <1>2, <1>3, <1>4

\* The answer of the gate.
LEMMA AcquireOK ==
  ASSUME GateInv, NEW r \in DisRec, NEW q \in DisRec, DispatchOK(r), DispatchAcquireDoes(r, q)
  PROVE  DispatchOK(q)
<1>1. r.pc = "acquire" /\ r.at <= Len(r.list)
  <2>1. r.pc = "acquire" /\ ~(r.at > Len(r.list))
    BY DEF DispatchAcquireDoes
  <2>2. r.at \in Nat /\ Len(r.list) \in Nat
    BY DisFields DEF Fields
  <2> QED BY <2>1, <2>2
<1>2. CASE Admits(r.list[r.at])
  <2>1. PICK pc \in {"look", "running"} :
          /\ pc = "look" <=> r.kind = "parallel"
          /\ Goes(r, q, pc, r.list, r.at + 1, r.cache, r.held \cup {r.list[r.at]},
                  Append(r.ran, r.list[r.at]), r.cut)
    <3>1. CASE r.kind = "parallel"
      BY <1>2, <3>1 DEF DispatchAcquireDoes
    <3>2. CASE r.kind # "parallel"
      BY <1>2, <3>2 DEF DispatchAcquireDoes
    <3> QED BY <3>1, <3>2
  <2> QED BY <1>1, <1>2, <2>1, RunsOK
<1>3. CASE ~Admits(r.list[r.at])
  <2>1. PICK pc \in {"look", "acquire"} :
          /\ pc = "acquire" <=> r.kind = "waterfall"
          /\ Goes(r, q, pc, r.list, r.at + 1, r.cache, r.held, r.ran, r.cut)
    <3>1. CASE r.kind = "waterfall"
      BY <1>3, <3>1 DEF DispatchAcquireDoes
    <3>2. CASE r.kind # "waterfall"
      BY <1>3, <3>2 DEF DispatchAcquireDoes
    <3> QED BY <3>1, <3>2
  <2> QED BY <1>1, <1>3, <2>1, SkipsOK
<1> QED BY <1>2, <1>3

\* The waterfall is past its last handler, or goes on to the next.
LEMMA WaterfallOK ==
  ASSUME GateInv, NEW r \in DisRec, NEW q \in DisRec, DispatchOK(r),
         WaterfallEndDoes(r, q) \/ CallNextDoes(r, q)
  PROVE  DispatchOK(q)
<1>0. Shape(r) /\ r.cut \in BOOLEAN /\ r.at \in Nat /\ Len(r.list) \in Nat
  BY DisFields DEF DispatchOK, Fields
<1>1. CASE WaterfallEndDoes(r, q)
  <2>1. r.pc = "acquire" /\ r.at > Len(r.list) /\ r.pc \in Walking
    BY <1>1 DEF WaterfallEndDoes, Walking
  <2>2. r.kind = "waterfall" /\ ~r.cut
    BY <1>0, <2>1 DEF Shape
  <2>3. CASE r.held = {}
    <3>1. Goes(r, q, "done", r.list, 1, Idle.cache, {}, r.ran, r.cut)
      BY <1>1, <2>3 DEF WaterfallEndDoes
    <3> QED BY <1>0, <2>1, <2>2, <3>1, EndsOK
  <2>4. CASE r.held # {}
    <3>1. Goes(r, q, "returning", r.list, r.at, r.cache, r.held, r.ran, r.cut)
      BY <1>1, <2>4 DEF WaterfallEndDoes
    <3>2. Shape(q)
      BY <1>0, <2>1, <2>2, <3>1 DEF Shape, Goes
    <3>3. "returning" \in Walking /\ r.held \in SUBSET r.held
      BY DEF Walking
    <3> QED BY <2>1, <2>2, <3>1, <3>2, <3>3, StaysOK
  <2> QED BY <2>3, <2>4
<1>2. CASE CallNextDoes(r, q)
  <2>1. /\ r.pc = "running" /\ r.kind = "waterfall" /\ r.pc \in Walking /\ "acquire" \in Walking
        /\ Goes(r, q, "acquire", r.list, r.at, r.cache, r.held, r.ran, r.cut)
    BY <1>2 DEF CallNextDoes, Walking
  <2>2. Shape(q)
    BY <1>0, <2>1 DEF Shape, Goes
  <2>3. r.held \in SUBSET r.held
    OBVIOUS
  <2> QED BY <2>1, <2>2, <2>3, StaysOK
<1> QED BY <1>1, <1>2

\* A handler of an emit, serial or bail returns.
LEMMA HandlerReturnsOK ==
  ASSUME GateInv, NEW r \in DisRec, NEW q \in DisRec, DispatchOK(r), NEW x \in Results,
         HandlerReturnsDoes(r, q, x)
  PROVE  DispatchOK(q)
<1>0. Shape(r) /\ r.at \in Nat /\ Len(r.list) \in Nat
  BY DisFields DEF DispatchOK, Fields
<1> DEFINE stop == Stops(r.kind, x)
<1>1. stop \in BOOLEAN /\ (stop => r.kind \notin {"emit", "parallel"})
  BY DEF Stops
<1>2. r.pc = "running" /\ r.kind \in {"emit", "serial", "bail"} /\ r.pc \in Walking
  BY DEF HandlerReturnsDoes, Walking
<1>3. \/ stop /\ Goes(r, q, "done", r.list, 1, Idle.cache, {}, r.ran, stop)
      \/ ~stop /\ Goes(r, q, "look", r.list, r.at, r.cache, {}, r.ran, stop)
  BY DEF HandlerReturnsDoes
<1> HIDE DEF stop
<1>4. CASE stop
  BY <1>1, <1>2, <1>3, <1>4, EndsOK
<1>5. CASE ~stop
  <2>1. Goes(r, q, "look", r.list, r.at, r.cache, {}, r.ran, stop)
    BY <1>3, <1>5
  <2>2. Shape(q)
    BY <1>0, <1>2, <1>5, <2>1 DEF Shape, Goes
  <2>3. "look" \in Walking /\ {} \in SUBSET r.held /\ r.kind # "waterfall"
    BY <1>2 DEF Walking
  <2> QED BY <1>2, <2>1, <2>2, <2>3, StaysOK
<1> QED BY <1>4, <1>5

\* One of the parallel handlers returns.
LEMMA ParallelReturnsOK ==
  ASSUME GateInv, NEW r \in DisRec, NEW q \in DisRec, DispatchOK(r), NEW x \in Handlers,
         ParallelReturnsDoes(r, q, x)
  PROVE  DispatchOK(q)
<1>0. Shape(r) /\ r.at \in Nat /\ Len(r.list) \in Nat /\ r.cut \in BOOLEAN
  BY DisFields DEF DispatchOK, Fields
<1>1. r.pc = "running" /\ r.kind = "parallel" /\ r.pc \in Walking
  BY DEF ParallelReturnsDoes, Walking
<1>2. ~r.cut /\ r.at > Len(r.list)
  BY <1>0, <1>1 DEF Shape
<1>3. CASE r.held = {x}
  <2>1. Goes(r, q, "done", r.list, 1, Idle.cache, {}, r.ran, r.cut)
    BY <1>3 DEF ParallelReturnsDoes
  <2> QED BY <1>0, <1>1, <1>2, <2>1, EndsOK
<1>4. CASE r.held # {x}
  <2>1. Goes(r, q, "running", r.list, r.at, r.cache, r.held \ {x}, r.ran, r.cut)
    BY <1>4 DEF ParallelReturnsDoes
  <2>2. Shape(q)
    BY <1>0, <1>1, <1>2, <2>1 DEF Shape, Goes
  <2>3. r.held \ {x} \in SUBSET r.held
    OBVIOUS
  <2> QED BY <1>1, <2>1, <2>2, <2>3, StaysOK
<1> QED BY <1>3, <1>4

\* The innermost waterfall handler returns.
LEMMA WaterfallReturnsOK ==
  ASSUME GateInv, NEW r \in DisRec, NEW q \in DisRec, DispatchOK(r), WaterfallReturnsDoes(r, q)
  PROVE  DispatchOK(q)
<1>0. Shape(r) /\ r.at \in Nat /\ Len(r.list) \in Nat /\ r.cut \in BOOLEAN
  BY DisFields DEF DispatchOK, Fields
<1> DEFINE cut == r.cut \/ r.pc = "running"
<1>1. r.pc \in {"running", "returning"} /\ r.kind = "waterfall" /\ r.pc \in Walking
  BY DEF WaterfallReturnsDoes, Walking
<1>2. PICK held \in SUBSET r.held :
        \/ held = {} /\ Goes(r, q, "done", r.list, 1, Idle.cache, {}, r.ran, cut)
        \/ Goes(r, q, "returning", r.list, r.at, r.cache, held, r.ran, cut)
  BY DEF WaterfallReturnsDoes
<1>3. cut \in BOOLEAN /\ (~cut => r.at > Len(r.list))
  BY <1>0, <1>1 DEF Shape
<1>4. r.at > Len(r.list) \/ cut
  BY <1>3
<1> HIDE DEF cut
<1>5. CASE Goes(r, q, "done", r.list, 1, Idle.cache, {}, r.ran, cut)
  BY <1>1, <1>3, <1>5, EndsOK
<1>6. CASE Goes(r, q, "returning", r.list, r.at, r.cache, held, r.ran, cut)
  <2>1. Shape(q)
    BY <1>0, <1>1, <1>4, <1>6 DEF Shape, Goes
  <2>2. "returning" \in Walking
    BY DEF Walking
  <2> QED BY <1>1, <1>6, <2>1, <2>2, StaysOK
<1> QED BY <1>2, <1>5, <1>6

\* The other dispatches, the bus and the gates are as they were.
LEMMA OneDispatch ==
  ASSUME EventBusInv, NEW d \in Dispatchers, UNCHANGED <<bus, gates, reg>>, OthersStay(d),
         DispatchOK(dis'[d])
  PROVE  EventBusInv'
<1>1. /\ slot' = slot /\ snapshot' = snapshot /\ writer' = writer /\ arena' = arena
      /\ created' = created /\ active' = active /\ gate' = gate /\ reg' = reg
  BY DEF bus, gates
<1>2. BusTyped' /\ GatesTyped' /\ BusInv' /\ GateInv'
  BY <1>1 DEF EventBusInv, Typed, BusTyped, GatesTyped, BusInv, SlotInv, PointsRight,
              OwnsLock, ArenaInv, ArenaRight, SnapshotInv, GateInv
<1>3. DisTyped'
  BY DEF OthersStay, DisTyped
<1>4. ASSUME NEW e \in Dispatchers PROVE DispatchOK(dis[e])'
  <2>1. DispatchOK(dis'[e])
    BY DEF OthersStay, EventBusInv, DispatchInv
  <2> DEFINE q == dis'[e]
  <2>2. Shape(q) /\ LeaseInv(q) /\ CacheInv(q) /\ OrderInv(q) /\ DueInv(q)
    BY <2>1 DEF DispatchOK
  <2>3. Shape(dis[e])'
    BY <2>2 DEF Shape
  <2>4. LeaseInv(dis[e])'
    <3>1. LeaseInv(q)
      BY <2>2
    <3> QED BY <1>1, <3>1 DEF LeaseInv
  <2>5. CacheInv(dis[e])'
    BY <2>2 DEF CacheInv, Chosen
  <2>6. OrderInv(dis[e])'
    BY <2>2 DEF OrderInv
  <2>7. DueInv(dis[e])'
    BY <1>1, <2>2 DEF DueInv, Owed, Passed, Visible
  <2> QED BY <2>3, <2>4, <2>5, <2>6, <2>7 DEF DispatchOK
<1> QED BY <1>2, <1>3, <1>4 DEF EventBusInv, Typed, DispatchInv

\* A step of a dispatch.
LEMMA DispatchEffect ==
  ASSUME EventBusInv, NEW d \in Dispatchers,
         \/ \E k \in Kinds : DispatchBegin(d, k)
         \/ DispatchStep(d) \/ CallNext(d) \/ Returns(d) \/ DispatchDropped(d)
  PROVE  EventBusInv'
<1>0. /\ DisTyped /\ BusTyped /\ GatesTyped /\ SlotInv /\ SnapshotInv /\ GateInv
      /\ DispatchOK(dis[d]) /\ dis[d] \in DisRec
  <2>1. DisTyped /\ BusTyped /\ GatesTyped /\ SlotInv /\ SnapshotInv /\ GateInv /\ DispatchInv
    BY DEF EventBusInv, Typed, BusInv
  <2> QED BY <2>1 DEF DispatchInv, DisTyped
<1>1. UNCHANGED <<bus, gates, reg>>
  BY Zenon DEF DispatchBegin, DispatchStep, DispatchLoad, DispatchLook, DispatchEnd, DispatchAcquire,
         WaterfallEnd, CallNext, Returns, HandlerReturns, ParallelReturns, WaterfallReturns,
         DispatchDropped
<1>2. ASSUME NEW k \in Kinds, DispatchBegin(d, k) PROVE OthersStay(d) /\ DispatchOK(dis'[d])
  BY <1>0, <1>2, DispatchBeginEffect, BeginOK
<1>3. OthersStay(d) => dis'[d] \in DisRec
  BY DEF OthersStay
<1>4. CASE DispatchLoad(d)
  <2>1. OthersStay(d) /\ DispatchLoadDoes(dis[d], dis'[d])
    BY <1>0, <1>4, DispatchLoadEffect
  <2> QED BY <1>0, <1>1, <1>3, <2>1, LoadOK, OneDispatch DEF DispatchLoadDoes
<1>5. CASE DispatchLook(d)
  BY <1>0, <1>1, <1>3, <1>5, DispatchLookEffect, LookOK, OneDispatch
<1>6. CASE DispatchEnd(d)
  BY <1>0, <1>1, <1>3, <1>6, DispatchEndEffect, EndOK, OneDispatch
<1>7. CASE DispatchAcquire(d)
  BY <1>0, <1>1, <1>3, <1>7, DispatchAcquireEffect, AcquireOK, OneDispatch
<1>8. CASE WaterfallEnd(d)
  BY <1>0, <1>1, <1>3, <1>8, WaterfallEndEffect, WaterfallOK, OneDispatch
<1>9. CASE CallNext(d)
  BY <1>0, <1>1, <1>3, <1>9, CallNextEffect, WaterfallOK, OneDispatch
<1>10. CASE Returns(d)
  <2>1. ASSUME NEW x \in Results, HandlerReturns(d, x) PROVE EventBusInv'
    BY <1>0, <1>1, <1>3, <2>1, HandlerReturnsEffect, HandlerReturnsOK, OneDispatch
  <2>2. ASSUME NEW h \in Handlers, ParallelReturns(d, h) PROVE EventBusInv'
    BY <1>0, <1>1, <1>3, <2>2, ParallelReturnsEffect, ParallelReturnsOK, OneDispatch
  <2>3. CASE WaterfallReturns(d)
    BY <1>0, <1>1, <1>3, <2>3, WaterfallReturnsEffect, WaterfallReturnsOK, OneDispatch
  <2> QED BY <1>10, <2>1, <2>2, <2>3 DEF Returns
<1>11. CASE DispatchDropped(d)
  BY <1>0, <1>1, <1>11, DispatchDroppedEffect, IdleOK, OneDispatch
<1> QED BY <1>1, <1>2, <1>4, <1>5, <1>6, <1>7, <1>8, <1>9, <1>10, <1>11, OneDispatch
        DEF DispatchStep

-----------------------------------------------------------------------------
\* An empty bus, accepting generations that are not published, idle dispatches.
LEMMA InitInvariant == Init => EventBusInv
<1> SUFFICES ASSUME Init PROVE EventBusInv
  OBVIOUS
<1>1. /\ slot = NONE /\ created = 0 /\ arena = {}
      /\ \A s \in Slots : snapshot[s] = <<>> /\ writer[s] = NONE
      /\ \A p \in Plugins : active[p] = NONE
      /\ \A h \in Handlers : reg[h].pc = "new" /\ reg[h].slot = NONE
      /\ \A d \in Dispatchers : dis[d] = Idle
  BY DEF Init
<1>2. BusTyped
  <2>1. 0 \in 0..MaxSlots
    BY EventBusAssumption
  <2>2. reg \in [Handlers -> RegRec]
    BY DEF Init, RegRec, RegPCs
  <2> QED BY <2>1, <2>2 DEF Init, BusTyped
<1>3. GatesTyped
  BY DEF Init, GatesTyped, GateStates
<1>4. DisTyped
  BY IdleFields DEF Init, DisTyped
<1>5. SlotInv
  BY <1>1, NoneApart DEF SlotInv, PointsRight, OwnsLock, Pointing, Locking, InArena, Listed
<1>6. ArenaInv /\ SnapshotInv
  BY <1>1 DEF ArenaInv, ArenaRight, SnapshotInv, InArena
<1>7. GateInv
  BY <1>1, EventBusAssumption DEF GateInv, Leaving
<1>8. DispatchInv
  BY <1>1, IdleOK DEF DispatchInv
<1> QED BY <1>2, <1>3, <1>4, <1>5, <1>6, <1>7, <1>8 DEF EventBusInv, Typed, BusInv

LEMMA NextInvariant == EventBusInv /\ [Next]_vars => EventBusInv'
<1> SUFFICES ASSUME EventBusInv, [Next]_vars PROVE EventBusInv'
  OBVIOUS
<1>1. CASE \/ \E g \in Gens : PublishGen(g) \/ CloseGen(g) \/ DrainGen(g)
           \/ \E old, new \in Gens : CutoverSwitch(old, new)
  <2>1. GatesTyped /\ GateInv
    BY DEF EventBusInv, Typed
  <2> QED BY <1>1, <2>1, GatesEffect, GatesStep
<1>2. ASSUME NEW h \in Handlers, RegisterSlot(h) \/ HandlerStep(h) PROVE EventBusInv'
  <2>1. BusTyped /\ SlotInv /\ ArenaInv /\ SnapshotInv
    BY DEF EventBusInv, Typed, BusInv
  <2>2. BusDoes(h)
    BY <1>2, <2>1, BusEffect
  <2>3. BusTyped' /\ SlotInv' /\ ArenaInv' /\ SnapshotInv'
    BY <2>1, <2>2, BusTypedStep, SlotStep, ArenaStep, SnapshotStep
  <2>4. GatesTyped' /\ DisTyped' /\ GateInv' /\ DispatchInv'
    BY <2>2, BusKeepsDispatches
  <2> QED BY <2>3, <2>4 DEF EventBusInv, Typed, BusInv
<1>3. ASSUME NEW d \in Dispatchers,
             \/ \E k \in Kinds : DispatchBegin(d, k)
             \/ DispatchStep(d) \/ CallNext(d) \/ Returns(d) \/ DispatchDropped(d)
      PROVE  EventBusInv'
  BY <1>3, DispatchEffect
<1>4. CASE UNCHANGED vars
  <2>1. /\ slot' = slot /\ snapshot' = snapshot /\ writer' = writer /\ arena' = arena
        /\ created' = created /\ active' = active /\ gate' = gate /\ reg' = reg /\ dis' = dis
    BY <1>4 DEF vars, bus, gates
  <2>2. BusTyped' /\ GatesTyped' /\ DisTyped' /\ BusInv' /\ GateInv'
    BY <2>1 DEF EventBusInv, Typed, BusTyped, GatesTyped, DisTyped, BusInv, SlotInv, PointsRight,
                OwnsLock, ArenaInv, ArenaRight, SnapshotInv, GateInv
  <2>3. GatesTyped' /\ GatesDo
    <3>1. GatesTyped /\ GateInv
      BY DEF EventBusInv, Typed
    <3> QED BY <2>1, <2>2, <3>1 DEF GatesDo, bus, GateInv
  <2> QED BY <2>3, GatesStep
<1> QED BY <1>1, <1>2, <1>3, <1>4 DEF Next

(***************************************************************************)
(* Every reachable state of the bus, for any number of handlers,           *)
(* generations, dispatches and slots, satisfies the invariant.             *)
(***************************************************************************)
THEOREM EventBusInvariant == Spec => []EventBusInv
BY InitInvariant, NextInvariant, PTL DEF Spec

(***************************************************************************)
(* The types of EventBus hold in every reachable state; in particular no   *)
(* dispatch ever walks past its handler list.                              *)
(***************************************************************************)
THEOREM EventBusTypes == Spec => []TypeOK
<1>1. EventBusInv => TypeOK
  <2> SUFFICES ASSUME EventBusInv PROVE TypeOK
    OBVIOUS
  <2>1. BusTyped /\ GatesTyped
    BY DEF EventBusInv, Typed
  <2>2. \A h \in Handlers : reg[h].slot \in Slots \cup {NONE}
    BY <2>1 DEF BusTyped, RegRec
  <2>3. ASSUME NEW d \in Dispatchers
        PROVE  /\ dis[d].held \subseteq Handlers /\ dis[d].at \in 1..(Len(dis[d].list) + 1)
               /\ dis[d].ran \in Seq(Handlers)
    <3>1. dis[d] \in DisRec /\ Shape(dis[d])
      BY DEF EventBusInv, Typed, DisTyped, DispatchInv, DispatchOK
    <3> QED BY <3>1, DisFields DEF Fields, Shape
  <2> QED BY <2>1, <2>2, <2>3 DEF TypeOK, BusTyped, GatesTyped, GateStates
<1> QED BY <1>1, EventBusInvariant, PTL

(***************************************************************************)
(* A registration that Context::on has returned for is in the arena and    *)
(* exactly once in the event's snapshot until its removal begins, and a    *)
(* slot nobody writes to lists exactly what the arena holds: the check of  *)
(* the slot under its writer lock is enough against slots that other       *)
(* removals dropped meanwhile.                                             *)
(***************************************************************************)
THEOREM RegistrationsSurvive == Spec => []NoLostRegistration
<1>1. EventBusInv => NoLostRegistration
  <2> SUFFICES ASSUME EventBusInv PROVE NoLostRegistration
    OBVIOUS
  <2>0. BusTyped /\ SlotInv /\ ArenaInv /\ SnapshotInv
    BY DEF EventBusInv, Typed, BusInv
  <2>1. ASSUME NEW h \in Handlers, Registered(h)
        PROVE  /\ slot # NONE /\ h \in arena
               /\ Cardinality({i \in DOMAIN snapshot[slot] : snapshot[slot][i] = h}) = 1
    <3>1. reg[h].pc = "registered"
      BY <2>1 DEF Registered, At
    <3>2. slot # NONE /\ h \in arena
      BY <2>0, <3>1 DEF SlotInv, PointsRight, Listed, ArenaInv, ArenaRight, InArena
    <3>3. Lists(snapshot[slot], h) /\ Once(snapshot[slot])
      BY <2>0, <3>1, <3>2 DEF SnapshotInv, Listed
    <3>4. PICK i \in DOMAIN snapshot[slot] : snapshot[slot][i] = h
      BY <3>3 DEF Lists
    <3>5. {j \in DOMAIN snapshot[slot] : snapshot[slot][j] = h} = {i}
      BY <3>3, <3>4 DEF Once
    <3> QED BY <3>2, <3>5, FS_Singleton
  <2>2. ASSUME NEW s \in Slots, writer[s] = NONE
        PROVE  /\ ToSet(snapshot[s]) = IF slot = s THEN arena ELSE {}
               /\ slot = s /\ arena = {} => \E h \in Handlers : reg[h].slot = s
    <3>0. ToSet(snapshot[s]) = {snapshot[s][i] : i \in DOMAIN snapshot[s]}
      BY DEF ToSet
    <3>1. CASE slot = s
      <4>1. ASSUME NEW h \in Handlers PROVE Lists(snapshot[s], h) <=> h \in arena
        <5>1. s # NONE
          BY NoneApart
        <5>2. ~(reg[h].pc \in Locking /\ reg[h].slot = s)
          BY <2>2, EventBusAssumption, <2>0 DEF SlotInv, OwnsLock
        <5>3. reg[h].pc \in Locking /\ reg[h].pc \in InArena \cup Listed => reg[h].slot = s
          BY <2>0, <3>1 DEF SlotInv, PointsRight, Locking
        <5>4. Lists(snapshot[s], h) <=> reg[h].pc \in Listed
          BY <2>0, <3>1, <5>1 DEF SnapshotInv
        <5>5. h \in arena <=> reg[h].pc \in InArena
          BY <2>0 DEF ArenaInv, ArenaRight
        <5> QED BY <5>2, <5>3, <5>4, <5>5 DEF Locking, InArena, Listed
      <4>2. \A i \in DOMAIN snapshot[s] : snapshot[s][i] \in Handlers
        BY <2>0 DEF BusTyped
      <4>3. ToSet(snapshot[s]) = arena
        BY <2>0, <3>0, <4>1, <4>2 DEF Lists, BusTyped
      <4>4. arena = {} => \E h \in Handlers : reg[h].slot = s
        BY <2>0, <3>1, NoneApart DEF ArenaInv
      <4> QED BY <3>1, <4>3, <4>4
    <3>2. CASE slot # s
      BY <2>0, <3>0, <3>2 DEF SnapshotInv
    <3> QED BY <3>1, <3>2
  <2> QED BY <2>1, <2>2 DEF NoLostRegistration
<1> QED BY <1>1, EventBusInvariant, PTL

(***************************************************************************)
(* The visibility cache makes one dispatch run handlers of one generation  *)
(* of each plugin, however often a reload switches the selector.           *)
(***************************************************************************)
THEOREM OneGenerationPerDispatch == Spec => []OneGeneration
<1>1. EventBusInv => OneGeneration
  <2> SUFFICES ASSUME EventBusInv, NEW d \in Dispatchers,
                      NEW h \in ToSet(dis[d].ran), NEW k \in ToSet(dis[d].ran),
                      PluginOf[GenOf[h]] = PluginOf[GenOf[k]]
               PROVE  GenOf[h] = GenOf[k]
    BY DEF OneGeneration
  <2>1. CacheInv(dis[d])
    BY DEF EventBusInv, DispatchInv, DispatchOK
  <2>2. PICK i \in DOMAIN dis[d].ran, j \in DOMAIN dis[d].ran : h = dis[d].ran[i] /\ k = dis[d].ran[j]
    BY DEF ToSet
  <2> QED BY <2>1, <2>2 DEF CacheInv, SamePlugin
<1> QED BY <1>1, EventBusInvariant, PTL

(***************************************************************************)
(* A handler runs only while it is registered and its generation has not   *)
(* drained: the removal and the cleanup wait for the lease.                *)
(***************************************************************************)
THEOREM RunningIsRegistered == Spec => []RemovedNotRunning
<1>1. EventBusInv => RemovedNotRunning
  BY DEF EventBusInv, DispatchInv, DispatchOK, LeaseInv, RemovedNotRunning, Registered, At
<1> QED BY <1>1, EventBusInvariant, PTL

(***************************************************************************)
(* A dispatch that is not cut short by a result has run every handler that *)
(* was registered and visible when it began and whose generation is still  *)
(* visible, in registration order.                                         *)
(***************************************************************************)
THEOREM DispatchDelivers == Spec => []Delivered
<1>1. EventBusInv => Delivered
  <2> SUFFICES ASSUME EventBusInv, NEW d \in Dispatchers
               PROVE  /\ \A i, j \in DOMAIN dis[d].ran :
                           i < j => \E a, b \in DOMAIN dis[d].list :
                                      /\ a < b /\ dis[d].list[a] = dis[d].ran[i]
                                      /\ dis[d].list[b] = dis[d].ran[j]
                      /\ dis[d].pc = "done" /\ (dis[d].cut => dis[d].kind \in {"emit", "parallel"})
                         => \A h \in dis[d].due : Visible(h) => h \in ToSet(dis[d].ran)
    BY DEF Delivered
  <2>1. Shape(dis[d]) /\ OrderInv(dis[d]) /\ DueInv(dis[d])
    BY DEF EventBusInv, DispatchInv, DispatchOK
  <2>2. ASSUME NEW i \in DOMAIN dis[d].ran, NEW j \in DOMAIN dis[d].ran, i < j
        PROVE  \E a, b \in DOMAIN dis[d].list :
                 a < b /\ dis[d].list[a] = dis[d].ran[i] /\ dis[d].list[b] = dis[d].ran[j]
    BY <2>1, <2>2 DEF OrderInv
  <2>3. ASSUME dis[d].pc = "done", dis[d].cut => dis[d].kind \in {"emit", "parallel"},
               NEW h \in dis[d].due, Visible(h)
        PROVE  h \in ToSet(dis[d].ran)
    <3>1. ~dis[d].cut
      BY <2>1, <2>3 DEF Shape
    <3>2. Lists(dis[d].ran, h)
      BY <2>1, <2>3, <3>1 DEF DueInv, Owed
    <3> QED BY <3>2 DEF Lists, ToSet
  <2> QED BY <2>2, <2>3
<1> QED BY <1>1, EventBusInvariant, PTL
=============================================================================
