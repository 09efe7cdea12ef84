-------------------------- MODULE CopyValidationProofs --------------------------
(***************************************************************************)
(* Theorems about CopyExecutor and CopyValidation, for any number of       *)
(* experts, slots and components and any trace.                            *)
(***************************************************************************)
EXTENDS CopyValidation, ExpertBytesProofs, SequenceTheorems

USE ComponentsAssumption, EventsAssumption DEF residents

(***************************************************************************)
(* Part 1: types and slots.                                                *)
(*                                                                         *)
(* That what is resident is complete needs to know, while a load is under  *)
(* way, which components of its slot already hold the new expert.          *)
(***************************************************************************)
LoadInv ==
  ~ Idle => \E k \in Experts \ residents :
              /\ load.experts = {k}
              /\ \A c \in 1 .. load.copied : slots[load.slot][c] = {k}

SlotInv == ExecutorTypeOK /\ SlotsHoldResidents /\ LoadInv

Counts == [hits : Nat, misses : Nat, evictions : Nat, loads : Nat,
           bytes : Nat, copies : Nat]

\* However the counters move, they stay natural numbers.
LEMMA CountsGrow ==
  ASSUME NEW c \in Counts, NEW n \in Nat
  PROVE  /\ [c EXCEPT !.hits = @ + 1] \in Counts
         /\ [c EXCEPT !.misses = @ + 1] \in Counts
         /\ [c EXCEPT !.misses = @ + 1, !.evictions = @ + 1] \in Counts
         /\ [c EXCEPT !.copies = @ + 1] \in Counts
         /\ [c EXCEPT !.loads = @ + 1, !.bytes = @ + n] \in Counts
<1>1. /\ c.hits + 1 \in Nat /\ c.misses + 1 \in Nat /\ c.evictions + 1 \in Nat
      /\ c.loads + 1 \in Nat /\ c.bytes + n \in Nat /\ c.copies + 1 \in Nat
  BY DEF Counts
<1>2. [c EXCEPT !.hits = @ + 1] \in Counts
  BY <1>1 DEF Counts
<1>3. [c EXCEPT !.misses = @ + 1] \in Counts
  BY <1>1 DEF Counts
<1>4. [c EXCEPT !.misses = @ + 1, !.evictions = @ + 1] \in Counts
  BY <1>1 DEF Counts
<1>5. [c EXCEPT !.copies = @ + 1] \in Counts
  BY <1>1 DEF Counts
<1>6. [c EXCEPT !.loads = @ + 1, !.bytes = @ + n] \in Counts
  BY <1>1 DEF Counts
<1> QED
  BY <1>2, <1>3, <1>4, <1>5, <1>6

LEMMA CountsType == ExecutorTypeOK => counts \in Counts
BY DEF ExecutorTypeOK, Counts

\* The next event changes nothing but the clocks.
LEMMA RequireTypes ==
  ASSUME NEW k \in Experts, ExecutorTypeOK, Require(k)
  PROVE  /\ clock' \in Nat
         /\ passed' \in Nat
         /\ touched' \in [Experts -> Nat]
BY SMTT(30) DEF Require, NextEvent, ExecutorTypeOK

LEMMA ExecutorInitSlots == ExecutorInit => SlotInv
<1> SUFFICES ASSUME ExecutorInit PROVE SlotInv
  OBVIOUS
<1>1. residents = {} /\ Idle
  BY DEF ExecutorInit, NoLoad, Idle
<1>2. freeSlots \in Seq(Slots) /\ DOMAIN freeSlots = 1 .. SlotCount
  BY SlotsAssumption DEF ExecutorInit, FirstFreeSlots, Slots
<1>3. ExecutorTypeOK
  BY <1>1, <1>2, SlotsAssumption DEF ExecutorInit, NoLoad, ExecutorTypeOK, Slots
<1>4. SlotsHoldResidents
  BY <1>1, SlotsAssumption
     DEF ExecutorInit, FirstFreeSlots, SlotsHoldResidents, LoadingSlots
<1> QED
  BY <1>1, <1>3, <1>4 DEF SlotInv, LoadInv

LEMMA HitSlots ==
  ASSUME NEW k \in Experts, SlotInv, Hit(k)
  PROVE  SlotInv'
<1>1. /\ UNCHANGED <<slots, slotOf, freeSlots, load>>
      /\ residents' = residents
      /\ k \in residents
      /\ ExecutorTypeOK
  BY DEF Hit, SlotInv
<1>2. lastTouch' \in [residents' -> Nat]
  BY <1>1, SMTT(30) DEF Hit, Renewed, Require, ExecutorTypeOK
<1>3. counts' \in Counts
  BY <1>1, CountsType, CountsGrow DEF Hit
<1>4. ExecutorTypeOK'
  BY <1>1, <1>2, <1>3, RequireTypes DEF Hit, ExecutorTypeOK, Counts
<1> QED
  BY <1>1, <1>4
     DEF SlotInv, SlotsHoldResidents, LoadInv, FreeSlots, LoadingSlots, Idle

LEMMA TakeFreeSlotSlots ==
  ASSUME NEW k \in Experts, SlotInv, TakeFreeSlot(k)
  PROVE  SlotInv'
<1>1. /\ UNCHANGED <<slots, slotOf, lastTouch>>
      /\ residents' = residents
      /\ k \notin residents
      /\ Idle
      /\ ExecutorTypeOK
  BY DEF TakeFreeSlot, Require, NextEvent, SlotInv
<1>2. /\ Head(freeSlots) = freeSlots[1]
      /\ Head(freeSlots) \in Slots
      /\ freeSlots \in Seq(Slots)
      /\ freeSlots' \in Seq(Slots)
      /\ freeSlots' = Tail(freeSlots)
      /\ Len(freeSlots') = Len(freeSlots) - 1
      /\ \A i \in 1 .. Len(freeSlots') : freeSlots'[i] = freeSlots[i + 1]
      /\ DOMAIN freeSlots = 1 .. Len(freeSlots)
      /\ DOMAIN freeSlots' = 1 .. Len(freeSlots')
      /\ Len(freeSlots) \in Nat \ {0}
  BY <1>1, HeadTailProperties DEF TakeFreeSlot, RemainingSlots, ExecutorTypeOK
<1>3. /\ load' = [experts |-> {k}, slot |-> freeSlots[1], copied |-> 0]
      /\ LoadingSlots' = {freeSlots[1]}
      /\ ~ Idle'
  BY <1>2 DEF TakeFreeSlot, LoadingSlots, Idle
<1>4. ExecutorTypeOK'
  <2>1. counts' \in Counts
    BY <1>1, CountsType, CountsGrow DEF TakeFreeSlot
  <2>2. load' \in [experts : SUBSET Experts, slot : Slots, copied : 0 .. Components]
    BY <1>2, <1>3
  <2> QED
    BY <1>1, <1>2, <2>1, <2>2, RequireTypes DEF TakeFreeSlot, ExecutorTypeOK, Counts
<1>5. \A i \in DOMAIN freeSlots' : i + 1 \in DOMAIN freeSlots /\ i + 1 # 1
  BY <1>2
<1>6. SlotsHoldResidents
  BY DEF SlotInv
<1>7. /\ \A i, j \in DOMAIN freeSlots' : freeSlots'[i] = freeSlots'[j] => i = j
      /\ freeSlots[1] \notin FreeSlots'
  BY <1>2, <1>5, <1>6 DEF SlotsHoldResidents, FreeSlots
<1>8. FreeSlots' \subseteq FreeSlots /\ freeSlots[1] \in FreeSlots
  BY <1>2, <1>5 DEF FreeSlots
<1>9. SlotsHoldResidents'
  BY <1>1, <1>3, <1>6, <1>7, <1>8 DEF SlotsHoldResidents
<1>10. LoadInv'
  BY <1>1, <1>3 DEF LoadInv
<1> QED
  BY <1>4, <1>9, <1>10 DEF SlotInv

LEMMA TakeVictimSlotSlots ==
  ASSUME NEW k \in Experts, NEW victim \in Experts, SlotInv,
         TakeVictimSlot(k, victim)
  PROVE  SlotInv'
<1>1. /\ UNCHANGED <<slots, freeSlots>>
      /\ freeSlots = << >>
      /\ slotOf' = [j \in residents \ {victim} |-> slotOf[j]]
      /\ lastTouch' = [j \in residents \ {victim} |-> lastTouch[j]]
      /\ residents' = residents \ {victim}
      /\ victim \in residents
      /\ k \notin residents
      /\ load' = [experts |-> {k}, slot |-> slotOf[victim], copied |-> 0]
      /\ ExecutorTypeOK
      /\ SlotsHoldResidents
  BY DEF TakeVictimSlot, SlotsWithout, SlotInv
<1>2. /\ FreeSlots = {} /\ FreeSlots' = {}
      /\ LoadingSlots' = {slotOf[victim]}
      /\ ~ Idle'
  BY <1>1 DEF FreeSlots, LoadingSlots, Idle
<1>3. ExecutorTypeOK'
  <2>1. counts' \in Counts
    BY <1>1, CountsType, CountsGrow DEF TakeVictimSlot
  <2>2. load' \in [experts : SUBSET Experts, slot : Slots, copied : 0 .. Components]
    BY <1>1 DEF ExecutorTypeOK
  <2>3. /\ residents' \subseteq Experts
        /\ slotOf' \in [residents' -> Slots]
        /\ lastTouch' \in [residents' -> Nat]
    BY <1>1 DEF ExecutorTypeOK
  <2> QED
    BY <1>1, <2>1, <2>2, <2>3, RequireTypes DEF TakeVictimSlot, ExecutorTypeOK, Counts
<1>4. \A j \in residents' : slotOf'[j] = slotOf[j] /\ slotOf[j] # slotOf[victim]
  BY <1>1 DEF SlotsHoldResidents
<1>5. SlotsHoldResidents'
  BY <1>1, <1>2, <1>4 DEF SlotsHoldResidents
<1>6. LoadInv'
  BY <1>1, <1>2 DEF LoadInv
<1> QED
  BY <1>3, <1>5, <1>6 DEF SlotInv

LEMMA CopyComponentSlots ==
  ASSUME SlotInv, CopyComponent
  PROVE  SlotInv'
<1>1. /\ UNCHANGED <<slotOf, lastTouch, freeSlots, clock, passed, touched>>
      /\ residents' = residents
      /\ ~ Idle
      /\ load.copied < Components
      /\ ExecutorTypeOK
      /\ SlotsHoldResidents
  BY DEF CopyComponent, SlotInv
<1>2. /\ load \in [experts : SUBSET Experts, slot : Slots, copied : 0 .. Components]
      /\ load'.experts = load.experts
      /\ load'.slot = load.slot
      /\ load'.copied = load.copied + 1
      /\ load' \in [experts : SUBSET Experts, slot : Slots, copied : 0 .. Components]
  <2>1. load \in [experts : SUBSET Experts, slot : Slots, copied : 0 .. Components]
    BY <1>1 DEF ExecutorTypeOK
  <2>2. load' = [load EXCEPT !.copied = @ + 1]
    BY DEF CopyComponent
  <2>3. load.copied + 1 \in 0 .. Components
    BY <1>1, <2>1
  <2> QED
    BY <2>1, <2>2, <2>3
<1>3. load.copied + 1 \in 1 .. Components
  BY <1>1, <1>2
<1>4. /\ slots' \in [Slots -> [1 .. Components -> SUBSET Experts]]
      /\ \A i \in Slots \ {load.slot} : slots'[i] = slots[i]
      /\ \A c \in 1 .. Components :
           slots'[load.slot][c] =
             IF c = load.copied + 1 THEN load.experts ELSE slots[load.slot][c]
  BY <1>1, <1>2, <1>3 DEF CopyComponent, ExecutorTypeOK
<1>5. counts' \in Counts
  BY <1>1, CountsType, CountsGrow DEF CopyComponent
<1>6. ExecutorTypeOK'
  BY <1>1, <1>2, <1>4, <1>5 DEF ExecutorTypeOK, Counts
<1>7. /\ ~ Idle'
      /\ LoadingSlots = {load.slot} /\ LoadingSlots' = {load.slot}
      /\ FreeSlots' = FreeSlots
  BY <1>1, <1>2 DEF Idle, LoadingSlots, FreeSlots
<1>8. \A k \in residents : slotOf[k] \in Slots \ {load.slot}
  BY <1>1, <1>7 DEF SlotsHoldResidents, ExecutorTypeOK
<1>9. SlotsHoldResidents'
  BY <1>1, <1>4, <1>7, <1>8 DEF SlotsHoldResidents
<1>10. LoadInv'
  <2>1. PICK k \in Experts \ residents :
          /\ load.experts = {k}
          /\ \A c \in 1 .. load.copied : slots[load.slot][c] = {k}
    BY <1>1 DEF SlotInv, LoadInv
  <2>2. \A c \in 1 .. load'.copied : slots'[load'.slot][c] = {k}
    <3> SUFFICES ASSUME NEW c \in 1 .. load'.copied
                 PROVE  slots'[load'.slot][c] = {k}
      OBVIOUS
    <3>1. c \in 1 .. Components /\ (c # load.copied + 1 => c \in 1 .. load.copied)
      BY <1>2, <1>3
    <3>2. slots'[load.slot][c] =
            IF c = load.copied + 1 THEN load.experts ELSE slots[load.slot][c]
      BY <1>4, <3>1
    <3> QED
      BY <1>2, <2>1, <3>1, <3>2
  <2> QED
    BY <1>1, <1>2, <2>1, <2>2 DEF LoadInv
<1> QED
  BY <1>6, <1>9, <1>10 DEF SlotInv

LEMMA InstallSlots ==
  ASSUME SlotInv, Install
  PROVE  SlotInv'
<1>1. PICK k \in Experts \ residents :
        /\ load.experts = {k}
        /\ \A c \in 1 .. load.copied : slots[load.slot][c] = {k}
  BY DEF Install, SlotInv, LoadInv
<1>2. /\ UNCHANGED <<slots, freeSlots, clock, passed, touched>>
      /\ ~ Idle
      /\ load.copied = Components
      /\ load' = NoLoad
      /\ residents' = residents \cup {k}
      /\ slotOf' = [j \in residents \cup {k} |-> IF j = k THEN load.slot ELSE slotOf[j]]
      /\ lastTouch' = [j \in residents \cup {k} |-> IF j = k THEN clock ELSE lastTouch[j]]
      /\ ExecutorTypeOK
      /\ SlotsHoldResidents
  BY <1>1 DEF Install, SlotInv
<1>3. /\ load.slot \in Slots
      /\ LoadingSlots = {load.slot} /\ LoadingSlots' = {}
      /\ FreeSlots' = FreeSlots
      /\ Idle'
  BY <1>2 DEF ExecutorTypeOK, LoadingSlots, FreeSlots, Idle, NoLoad
<1>4. ExecutorTypeOK'
  <2>1. Bytes(load.experts) \in Nat
    BY <1>2, CellsFinite DEF ExecutorTypeOK
  <2>2. counts' \in Counts
    BY <1>2, <2>1, CountsType, CountsGrow DEF Install
  <2>3. load' \in [experts : SUBSET Experts, slot : Slots, copied : 0 .. Components]
    BY <1>2, SlotsAssumption DEF NoLoad, Slots
  <2>4. /\ slotOf' \in [residents' -> Slots]
        /\ lastTouch' \in [residents' -> Nat]
        /\ residents' \subseteq Experts
    BY <1>2, <1>3 DEF ExecutorTypeOK
  <2> QED
    BY <1>2, <2>2, <2>3, <2>4 DEF ExecutorTypeOK, Counts
<1>5. SlotsHoldResidents'
  <2>1. \A j \in residents : slotOf'[j] = slotOf[j] /\ slotOf[j] # load.slot
    BY <1>1, <1>2, <1>3 DEF SlotsHoldResidents
  <2>2. slotOf'[k] = load.slot
    BY <1>2
  <2>3. \A i, j \in residents' : slotOf'[i] = slotOf'[j] => i = j
    BY <1>2, <2>1, <2>2 DEF SlotsHoldResidents
  <2>4. \A j \in residents' : slotOf'[j] \notin FreeSlots'
    BY <1>2, <1>3, <2>1, <2>2 DEF SlotsHoldResidents
  <2>5. \A j \in residents' : \A c \in 1 .. Components : slots'[slotOf'[j]][c] = {j}
    BY <1>1, <1>2, <2>1, <2>2 DEF SlotsHoldResidents
  <2> QED
    BY <1>2, <1>3, <2>3, <2>4, <2>5 DEF SlotsHoldResidents
<1> QED
  BY <1>3, <1>4, <1>5 DEF SlotInv, LoadInv

\* A step that moves only the event counter keeps the slots.
LEMMA SlotsKept ==
  ASSUME SlotInv, passed' \in Nat,
         UNCHANGED <<slots, slotOf, lastTouch, freeSlots, clock, load, counts, touched>>
  PROVE  SlotInv'
<1>1. residents' = residents /\ (Idle' <=> Idle)
  BY DEF Idle
<1>2. FreeSlots' = FreeSlots /\ LoadingSlots' = LoadingSlots
  BY DEF FreeSlots, LoadingSlots, Idle
<1>3. ExecutorTypeOK'
  BY DEF SlotInv, ExecutorTypeOK
<1>4. SlotsHoldResidents'
  BY <1>1, <1>2 DEF SlotInv, SlotsHoldResidents
<1>5. LoadInv'
  BY <1>1 DEF SlotInv, LoadInv
<1> QED
  BY <1>3, <1>4, <1>5 DEF SlotInv

LEMMA ExecutorNextSlots == SlotInv /\ [ExecutorNext]_executorVars => SlotInv'
<1> SUFFICES ASSUME SlotInv, [ExecutorNext]_executorVars PROVE SlotInv'
  OBVIOUS
<1>0. passed \in Nat
  BY DEF SlotInv, ExecutorTypeOK
<1>1. CASE SkipUnassigned
  <2>1. passed' \in Nat
    BY <1>0, <1>1 DEF SkipUnassigned, NextEvent
  <2> QED
    BY <1>1, <2>1, SlotsKept DEF SkipUnassigned
<1>2. ASSUME NEW k \in Experts, AssignedEvent(k) PROVE SlotInv'
  BY <1>2, HitSlots, TakeFreeSlotSlots, TakeVictimSlotSlots DEF AssignedEvent
<1>3. CASE CopyComponent
  BY <1>3, CopyComponentSlots
<1>4. CASE Install
  BY <1>4, InstallSlots
<1>5. CASE UNCHANGED executorVars
  BY <1>0, <1>5, SlotsKept DEF executorVars
<1> QED
  BY <1>1, <1>2, <1>3, <1>4, <1>5 DEF ExecutorNext

LEMMA SlotInvariant == ExecutorSpec => []SlotInv
<1> QED
  BY ExecutorInitSlots, ExecutorNextSlots, PTL DEF ExecutorSpec

\* The copy executor keeps its types, the slots of the free list included.
THEOREM CopyExecutorTypeOK == ExecutorSpec => []ExecutorTypeOK
<1>1. SlotInv => ExecutorTypeOK
  BY DEF SlotInv
<1> QED
  BY <1>1, SlotInvariant, PTL

(***************************************************************************)
(* No slot of the copy executor ever has two uses, and what the executor   *)
(* calls resident has been copied completely and not been overwritten.     *)
(***************************************************************************)
THEOREM CopyExecutorSlotsHoldResidents == ExecutorSpec => []SlotsHoldResidents
<1>1. SlotInv => SlotsHoldResidents
  BY DEF SlotInv
<1> QED
  BY <1>1, SlotInvariant, PTL

-----------------------------------------------------------------------------
(***************************************************************************)
(* Part 2: the executor implements the recency stack.                      *)
(*                                                                         *)
(* The executor knows slots and no capacity, the stack a capacity and no   *)
(* slots.  What joins them: what is resident or being loaded is the top of *)
(* the stack, it has one slot each, and a slot stays free only while       *)
(* nothing has been given up.                                              *)
(***************************************************************************)
cached == residents \cup load.experts

TouchInv ==
  /\ \A k \in residents : lastTouch[k] = touched[k] /\ touched[k] # 0
  /\ \A k \in load.experts : touched[k] = clock /\ touched[k] # 0
  /\ \A k \in Experts : touched[k] <= clock
  /\ \A j, k \in Experts : touched[j] = touched[k] /\ touched[j] # 0 => j = k

TopInv ==
  \A j \in cached : \A k \in Experts : touched[j] < touched[k] => k \in cached

RoomInv ==
  /\ Cardinality(cached) + Len(freeSlots) = SlotCount
  /\ freeSlots # << >> => Touched(touched) \subseteq cached

StackInv == SlotInv /\ TouchInv /\ TopInv /\ RoomInv

\* The types the steps below calculate with.
LEMMA StackTypes ==
  ASSUME StackInv
  PROVE  /\ residents \in SUBSET Experts
         /\ load.experts \in SUBSET Experts
         /\ cached \in SUBSET Experts
         /\ IsFiniteSet(cached)
         /\ Cardinality(cached) \in Nat
         /\ freeSlots \in Seq(Slots)
         /\ Len(freeSlots) \in Nat
         /\ SlotCount \in Nat
         /\ clock \in Nat
         /\ touched \in [Experts -> Nat]
         /\ Idle => cached = residents
<1>1. /\ residents \in SUBSET Experts
      /\ load.experts \in SUBSET Experts
      /\ freeSlots \in Seq(Slots)
      /\ clock \in Nat
      /\ touched \in [Experts -> Nat]
  BY DEF StackInv, SlotInv, ExecutorTypeOK
<1>2. cached \in SUBSET Experts /\ (Idle => cached = residents)
  BY <1>1 DEF cached, Idle
<1>3. IsFiniteSet(cached)
  BY <1>2, CellsFinite
<1>4. Cardinality(cached) \in Nat
  BY <1>3, FS_CardinalityType
<1>5. Len(freeSlots) \in Nat
  BY <1>1, LenProperties
<1> QED
  BY <1>1, <1>2, <1>3, <1>4, <1>5, SlotsAssumption

LEMMA ExecutorInitStack == ExecutorInit => StackInv
<1> SUFFICES ASSUME ExecutorInit PROVE StackInv
  OBVIOUS
<1>1. /\ residents = {} /\ load.experts = {} /\ cached = {}
      /\ touched = [k \in Experts |-> 0]
      /\ clock = 0
  BY DEF ExecutorInit, NoLoad, cached
<1>2. Len(freeSlots) = SlotCount
  BY SlotsAssumption DEF ExecutorInit, FirstFreeSlots
<1>3. Cardinality(cached) = 0
  BY <1>1, FS_EmptySet
<1>4. Touched(touched) = {}
  BY <1>1 DEF Touched
<1>5. RoomInv
  BY <1>2, <1>3, <1>4, SlotsAssumption DEF RoomInv
<1>6. TouchInv /\ TopInv
  BY <1>1 DEF TouchInv, TopInv
<1> QED
  BY <1>5, <1>6, ExecutorInitSlots DEF StackInv

\* The expert an event requires comes to the top, alone.
LEMMA RequireTouches ==
  ASSUME NEW k \in Experts, StackInv, Require(k)
  PROVE  /\ touched' \in [Experts -> Nat]
         /\ clock' = clock + 1
         /\ touched'[k] = clock + 1
         /\ \A j \in Experts \ {k} : touched'[j] = touched[j]
         /\ \A j \in Experts : touched'[j] <= clock'
         /\ \A i, j \in Experts :
              touched'[i] = touched'[j] /\ touched'[i] # 0 => i = j
         /\ Touched(touched') = Touched(touched) \cup {k}
<1>1. /\ clock' = clock + 1
      /\ touched' = [touched EXCEPT ![k] = clock + 1]
      /\ clock \in Nat
      /\ touched \in [Experts -> Nat]
  BY StackTypes DEF Require
<1>2. /\ touched' \in [Experts -> Nat]
      /\ touched'[k] = clock + 1
      /\ \A j \in Experts \ {k} : touched'[j] = touched[j]
  BY <1>1
<1>3. \A j \in Experts : touched[j] <= clock /\ touched[j] \in Nat
  BY <1>1 DEF StackInv, TouchInv
<1>4. \A j \in Experts : touched'[j] <= clock'
  BY <1>1, <1>2, <1>3
<1>5. \A i, j \in Experts : touched'[i] = touched'[j] /\ touched'[i] # 0 => i = j
  BY <1>1, <1>2, <1>3 DEF StackInv, TouchInv
<1>6. Touched(touched') = Touched(touched) \cup {k}
  BY <1>1, <1>2 DEF Touched
<1> QED
  BY <1>1, <1>2, <1>4, <1>5, <1>6

LEMMA HitStack ==
  ASSUME NEW k \in Experts, StackInv, Hit(k)
  PROVE  TouchInv' /\ TopInv' /\ RoomInv'
<1>1. /\ Require(k) /\ Idle /\ k \in residents
      /\ lastTouch' = [lastTouch EXCEPT ![k] = clock + 1]
      /\ UNCHANGED <<slotOf, freeSlots, load>>
      /\ residents' = residents
      /\ cached' = cached
      /\ cached = residents
      /\ lastTouch \in [residents -> Nat]
  BY StackTypes
     DEF Hit, Renewed, Require, NextEvent, cached, StackInv, SlotInv, ExecutorTypeOK
<1>2. TouchInv'
  <2>1. \A j \in residents : lastTouch'[j] = touched'[j] /\ touched'[j] # 0
    BY <1>1, RequireTouches, StackTypes DEF StackInv, TouchInv
  <2>2. load'.experts = {}
    BY <1>1 DEF Idle
  <2> QED
    BY <1>1, <2>1, <2>2, RequireTouches DEF TouchInv
<1>3. TopInv'
  <2> SUFFICES ASSUME NEW j \in cached, NEW m \in Experts, touched'[j] < touched'[m],
                      m # k
               PROVE  m \in cached
    BY <1>1 DEF TopInv
  <2>1. j \in Experts /\ j # k
    BY <1>1, RequireTouches, StackTypes DEF StackInv, TouchInv
  <2>2. touched[j] < touched[m]
    BY <1>1, <2>1, RequireTouches
  <2> QED
    BY <2>2 DEF StackInv, TopInv
<1>4. RoomInv'
  BY <1>1, RequireTouches DEF StackInv, RoomInv
<1> QED
  BY <1>2, <1>3, <1>4

LEMMA TakeFreeSlotStack ==
  ASSUME NEW k \in Experts, StackInv, TakeFreeSlot(k)
  PROVE  TouchInv' /\ TopInv' /\ RoomInv'
<1>1. /\ Require(k) /\ Idle /\ k \notin residents
      /\ UNCHANGED <<slotOf, lastTouch>>
      /\ residents' = residents
      /\ load'.experts = {k}
      /\ cached = residents
      /\ cached' = cached \cup {k}
      /\ freeSlots # << >>
      /\ freeSlots' = Tail(freeSlots)
  BY StackTypes DEF TakeFreeSlot, RemainingSlots, Require, NextEvent, cached
<1>2. Touched(touched) \subseteq cached
  BY <1>1 DEF StackInv, RoomInv
<1>3. TouchInv'
  <2>1. \A j \in residents : lastTouch'[j] = touched'[j] /\ touched'[j] # 0
    BY <1>1, RequireTouches, StackTypes, SMTT(30) DEF StackInv, TouchInv
  <2>2. touched'[k] = clock' /\ touched'[k] # 0
    BY <1>1, RequireTouches, StackTypes
  <2> QED
    BY <1>1, <2>1, <2>2, RequireTouches DEF TouchInv
<1>4. TopInv'
  <2> SUFFICES ASSUME NEW j \in cached \cup {k}, NEW m \in Experts,
                      touched'[j] < touched'[m], m # k
               PROVE  m \in cached
    BY <1>1 DEF TopInv
  <2>1. j \in Experts /\ touched'[j] \in Nat /\ touched'[m] = touched[m]
    BY <1>1, RequireTouches, StackTypes
  <2>2. touched[m] # 0
    BY <2>1, StackTypes
  <2> QED
    BY <1>2, <2>2 DEF Touched
<1>5. RoomInv'
  <2>1. Cardinality(cached') = Cardinality(cached) + 1
    BY <1>1, StackTypes, FS_AddElement
  <2>2. Len(freeSlots') = Len(freeSlots) - 1
    BY <1>1, StackTypes, HeadTailProperties
  <2>3. Cardinality(cached) + Len(freeSlots) = SlotCount
    BY DEF StackInv, RoomInv
  <2>4. Cardinality(cached') + Len(freeSlots') = SlotCount
    BY <2>1, <2>2, <2>3, StackTypes
  <2>5. Touched(touched') \subseteq cached'
    BY <1>1, <1>2, RequireTouches
  <2>6. Touched(touched)' = Touched(touched')
    BY DEF Touched
  <2> QED
    BY <2>4, <2>5, <2>6 DEF RoomInv
<1> QED
  BY <1>3, <1>4, <1>5

LEMMA TakeVictimSlotStack ==
  ASSUME NEW k \in Experts, NEW victim \in Experts, StackInv,
         TakeVictimSlot(k, victim)
  PROVE  TouchInv' /\ TopInv' /\ RoomInv'
<1>1. /\ Require(k) /\ Idle /\ k \notin residents /\ victim \in residents
      /\ residents' = residents \ {victim}
      /\ lastTouch' = [j \in residents \ {victim} |-> lastTouch[j]]
      /\ load'.experts = {k}
      /\ cached = residents
      /\ cached' = (cached \ {victim}) \cup {k}
      /\ freeSlots = << >> /\ freeSlots' = freeSlots
  BY StackTypes
     DEF TakeVictimSlot, SlotsWithout, Require, NextEvent, cached
<1>2. \A j \in residents : lastTouch[j] = touched[j] /\ touched[j] # 0 /\ j \in Experts
  BY StackTypes DEF StackInv, TouchInv
<1>3. TouchInv'
  <2>1. \A j \in residents' : lastTouch'[j] = touched'[j] /\ touched'[j] # 0
    BY <1>1, <1>2, RequireTouches
  <2>2. touched'[k] = clock' /\ touched'[k] # 0
    BY <1>1, RequireTouches, StackTypes
  <2> QED
    BY <1>1, <2>1, <2>2, RequireTouches DEF TouchInv
<1>4. TopInv'
  <2> SUFFICES ASSUME NEW j \in (cached \ {victim}) \cup {k}, NEW m \in Experts,
                      touched'[j] < touched'[m], m # k
               PROVE  m \in cached \ {victim}
    BY <1>1 DEF TopInv
  <2>1. touched'[m] = touched[m] /\ touched[m] <= clock
    BY <1>1, RequireTouches DEF StackInv, TouchInv
  <2>2. j # k
    BY <1>1, <2>1, RequireTouches, StackTypes
  <2>3. j \in cached \ {victim} /\ j \in Experts
    BY <2>2, StackTypes
  <2>4. touched[j] < touched[m]
    BY <1>1, <2>1, <2>2, <2>3, RequireTouches
  <2>5. m \in cached
    BY <2>3, <2>4 DEF StackInv, TopInv
  <2>6. touched[victim] <= touched[j]
    BY <1>1, <1>2, <2>3, StackTypes DEF TakeVictimSlot, IsVictim
  <2>7. m # victim
    BY <2>3, <2>4, <2>6, StackTypes
  <2> QED
    BY <2>5, <2>7
<1>5. RoomInv'
  <2>1. Cardinality(cached \ {victim}) = Cardinality(cached) - 1
    BY <1>1, StackTypes, FS_RemoveElement
  <2>2. IsFiniteSet(cached \ {victim}) /\ k \notin cached \ {victim}
    BY <1>1, StackTypes, FS_RemoveElement
  <2>3. Cardinality(cached') = Cardinality(cached \ {victim}) + 1
    BY <1>1, <2>2, FS_AddElement
  <2>4. Cardinality(cached') = Cardinality(cached)
    BY <2>1, <2>3, StackTypes
  <2> QED
    BY <1>1, <2>4 DEF StackInv, RoomInv
<1> QED
  BY <1>3, <1>4, <1>5

LEMMA InstallStack ==
  ASSUME StackInv, Install
  PROVE  TouchInv' /\ TopInv' /\ RoomInv'
<1>1. /\ UNCHANGED <<freeSlots, clock, touched>>
      /\ residents' = residents \cup load.experts
      /\ lastTouch' = [j \in residents \cup load.experts |->
                         IF j \in load.experts THEN clock ELSE lastTouch[j]]
      /\ load'.experts = {}
      /\ cached' = cached
  BY DEF Install, NoLoad, cached
<1>2. TouchInv'
  BY <1>1, StackTypes DEF StackInv, TouchInv
<1>3. TopInv' /\ RoomInv'
  BY <1>1 DEF StackInv, TopInv, RoomInv, Touched
<1> QED
  BY <1>2, <1>3

\* A step that neither touches nor moves an expert keeps the stack.
LEMMA StackKept ==
  ASSUME StackInv,
         UNCHANGED <<slotOf, lastTouch, freeSlots, clock, touched>>,
         load'.experts = load.experts
  PROVE  TouchInv' /\ TopInv' /\ RoomInv'
<1>1. residents' = residents /\ cached' = cached
  BY DEF cached
<1> QED
  BY <1>1 DEF StackInv, TouchInv, TopInv, RoomInv, Touched

LEMMA ExecutorNextStack == StackInv /\ [ExecutorNext]_executorVars => StackInv'
<1> SUFFICES ASSUME StackInv, [ExecutorNext]_executorVars PROVE StackInv'
  OBVIOUS
<1>1. SlotInv'
  BY ExecutorNextSlots DEF StackInv
<1>2. CASE SkipUnassigned
  BY <1>1, <1>2, StackKept DEF SkipUnassigned, StackInv
<1>3. ASSUME NEW k \in Experts, AssignedEvent(k) PROVE StackInv'
  BY <1>1, <1>3, HitStack, TakeFreeSlotStack, TakeVictimSlotStack
     DEF AssignedEvent, StackInv
<1>4. CASE CopyComponent
  <2>1. load'.experts = load.experts
    BY <1>4 DEF CopyComponent, StackInv, SlotInv, ExecutorTypeOK
  <2> QED
    BY <1>1, <1>4, <2>1, StackKept DEF CopyComponent, StackInv
<1>5. CASE Install
  BY <1>1, <1>5, InstallStack DEF StackInv
<1>6. CASE UNCHANGED executorVars
  BY <1>1, <1>6, StackKept DEF executorVars, StackInv
<1> QED
  BY <1>2, <1>3, <1>4, <1>5, <1>6 DEF ExecutorNext

LEMMA StackInvariant == ExecutorSpec => []StackInv
<1> QED
  BY ExecutorInitStack, ExecutorNextStack, PTL DEF ExecutorSpec

-----------------------------------------------------------------------------
\* With one layout for all, the bytes of a set are its experts' times the payload.
LEMMA BytesOfLayout ==
  ASSUME NEW S \in SUBSET Experts, NEW k \in Experts
  PROVE  /\ Bytes(S) = Cardinality(S) * Size[k]
         /\ Cardinality(S) \in Nat
         /\ Size[k] \in Nat \ {0}
<1>1. \A j \in Experts : Size[j] = Size[k] /\ Size[j] \in 1 .. MaxSize
  BY SizeAssumption, LayoutAssumption
<1>2. Cells(S) = S \X (1 .. Size[k])
  BY <1>1, SizeAssumption DEF Cells
<1>3. /\ IsFiniteSet(S) /\ IsFiniteSet(1 .. Size[k])
      /\ Cardinality(1 .. Size[k]) = Size[k]
      /\ Size[k] \in Nat \ {0}
  <2>1. Size[k] \in Nat \ {0}
    BY <1>1, SizeAssumption
  <2>2. IsFiniteSet(1 .. Size[k]) /\ Cardinality(1 .. Size[k]) = Size[k]
    BY <2>1, FS_Interval
  <2> QED
    BY <2>1, <2>2, CellsFinite
<1>4. Cardinality(S \X (1 .. Size[k])) = Cardinality(S) * Cardinality(1 .. Size[k])
  BY <1>3, FS_Product
<1>5. Cardinality(S) \in Nat
  BY <1>3, FS_CardinalityType
<1> QED
  BY <1>2, <1>3, <1>4, <1>5 DEF Bytes

LEMMA Products ==
  ASSUME NEW p \in Nat \ {0}, NEW m \in Nat, NEW n \in Nat
  PROVE  m <= n => m * p <= n * p
<1> SUFFICES ASSUME m <= n PROVE m * p <= n * p
  OBVIOUS
<1>1. n - m \in Nat
  OBVIOUS
<1>2. (n - m) * p >= 0
  BY <1>1
<1>3. (n - m) * p = n * p - m * p
  OBVIOUS
<1>4. m * p \in Nat /\ n * p \in Nat
  OBVIOUS
<1> QED
  BY <1>2, <1>3, <1>4

\* A set of experts fits the bytes of the slots, or a capacity with no room for
\* one slot more, if and only if there is a slot for each.
LEMMA SlotsMeasure ==
  ASSUME NEW S \in SUBSET Experts, S # {}, NEW capacity \in Nat,
         \A k \in Experts : /\ SlotCount * Size[k] <= capacity
                            /\ capacity < (SlotCount + 1) * Size[k]
  PROVE  Bytes(S) <= capacity <=> Cardinality(S) <= SlotCount
<1> PICK k \in Experts : k \in S
  OBVIOUS
<1>1. /\ Bytes(S) = Cardinality(S) * Size[k]
      /\ Cardinality(S) \in Nat
      /\ Size[k] \in Nat \ {0}
  BY BytesOfLayout
<1>2. /\ SlotCount * Size[k] <= capacity
      /\ capacity < (SlotCount + 1) * Size[k]
      /\ SlotCount \in Nat
      /\ capacity \in Nat
  BY SlotsAssumption
<1>3. /\ SlotCount * Size[k] \in Nat /\ (SlotCount + 1) * Size[k] \in Nat
      /\ Cardinality(S) * Size[k] \in Nat
  BY <1>1, <1>2
<1>4. CASE Cardinality(S) <= SlotCount
  <2>1. Cardinality(S) * Size[k] <= SlotCount * Size[k]
    BY <1>1, <1>2, <1>4, Products
  <2> QED
    BY <1>1, <1>2, <1>3, <1>4, <2>1
<1>5. CASE ~ (Cardinality(S) <= SlotCount)
  <2>1. SlotCount + 1 <= Cardinality(S) /\ SlotCount + 1 \in Nat
    BY <1>1, <1>2, <1>5
  <2>2. (SlotCount + 1) * Size[k] <= Cardinality(S) * Size[k]
    BY <1>1, <2>1, Products
  <2> QED
    BY <1>1, <1>2, <1>3, <1>5, <2>2
<1> QED
  BY <1>4, <1>5

LEMMA SlotsMeasureSlotBytes ==
  ASSUME NEW S \in SUBSET Experts, S # {}
  PROVE  Bytes(S) <= slotBytes <=> Cardinality(S) <= SlotCount
<1>1. PICK k \in Experts : slotBytes = SlotCount * Size[k]
  <2>1. \E k \in Experts : TRUE
    OBVIOUS
  <2> QED
    BY <2>1 DEF slotBytes
<1>2. \A j \in Experts : Size[j] = Size[k] /\ Size[j] \in Nat \ {0}
  BY SizeAssumption, LayoutAssumption
<1>3. slotBytes \in Nat /\ slotBytes < (SlotCount + 1) * Size[k]
  BY <1>1, <1>2, SlotsAssumption
<1>4. \A j \in Experts : /\ SlotCount * Size[j] <= slotBytes
                         /\ slotBytes < (SlotCount + 1) * Size[j]
  BY <1>1, <1>2, <1>3
<1> QED
  BY <1>3, <1>4, SlotsMeasure

(***************************************************************************)
(* What is resident or being loaded is what the recency stack would hold   *)
(* in the bytes of the slots.                                              *)
(***************************************************************************)
LEMMA CachedIsFitting == StackInv => cached = Fitting(touched, slotBytes)
<1> SUFFICES ASSUME StackInv PROVE cached = Fitting(touched, slotBytes)
  OBVIOUS
<1>1. /\ \A k \in Experts : touched[k] \in Nat /\ k \in Nat
      /\ Touched(touched) \in SUBSET Experts
      /\ cached \in SUBSET Experts
      /\ cached \subseteq Touched(touched)
  BY StackTypes, ExpertsAssumption DEF StackInv, TouchInv, cached, Touched
<1>2. ASSUME NEW k \in Touched(touched)
      PROVE  /\ Stack(touched, k) \in SUBSET Experts
             /\ k \in Stack(touched, k)
             /\ \A j \in Stack(touched, k) : j = k \/ touched[k] < touched[j]
             /\ IsFiniteSet(Stack(touched, k))
             /\ Cardinality(Stack(touched, k)) \in Nat
             /\ Bytes(Stack(touched, k)) <= slotBytes <=>
                  Cardinality(Stack(touched, k)) <= SlotCount
  <2>1. Stack(touched, k) \in SUBSET Experts
    BY <1>1 DEF Stack
  <2>2. k \in Stack(touched, k)
    BY <1>1 DEF Stack, Older
  <2>3. ASSUME NEW j \in Stack(touched, k), j # k
        PROVE  touched[k] < touched[j]
    <3>1. /\ j \in Experts /\ k \in Experts
          /\ touched[j] # 0
          /\ ~ (touched[j] < touched[k])
      BY <1>1 DEF Stack, Older, Touched
    <3>2. touched[j] # touched[k]
      BY <2>3, <3>1 DEF StackInv, TouchInv
    <3> QED
      BY <1>1, <3>1, <3>2
  <2>4. IsFiniteSet(Stack(touched, k))
    BY <2>1, CellsFinite
  <2>5. Cardinality(Stack(touched, k)) \in Nat
    BY <2>4, FS_CardinalityType
  <2> QED
    BY <2>1, <2>2, <2>3, <2>4, <2>5, SlotsMeasureSlotBytes
<1>3. ASSUME NEW k \in cached
      PROVE  k \in Fitting(touched, slotBytes)
  <2>1. Stack(touched, k) \in SUBSET cached
    BY <1>1, <1>2 DEF StackInv, TopInv
  <2>2. Cardinality(Stack(touched, k)) <= Cardinality(cached)
    BY <2>1, StackTypes, FS_Subset
  <2>3. Cardinality(cached) <= SlotCount
    BY StackTypes DEF StackInv, RoomInv
  <2>4. Cardinality(Stack(touched, k)) <= SlotCount
    BY <1>1, <1>2, <2>2, <2>3, StackTypes
  <2> QED
    BY <1>1, <1>2, <2>4 DEF Fitting
<1>4. ASSUME NEW k \in Touched(touched), k \notin cached
      PROVE  k \notin Fitting(touched, slotBytes)
  <2>1. freeSlots = << >>
    BY <1>4 DEF StackInv, RoomInv
  <2>2. Cardinality(cached) = SlotCount
    BY <2>1, StackTypes DEF StackInv, RoomInv
  <2>3. cached \cup {k} \in SUBSET Stack(touched, k)
    <3> SUFFICES ASSUME NEW j \in cached PROVE j \in Stack(touched, k)
      BY <1>2
    <3>1. ~ (touched[j] < touched[k]) /\ touched[j] # 0
      BY <1>1, <1>4 DEF StackInv, TopInv, Touched
    <3>2. touched[j] # touched[k]
      BY <1>1, <1>4, <3>1 DEF StackInv, TouchInv
    <3> QED
      BY <1>1, <3>1, <3>2 DEF Stack, Older
  <2>4. Cardinality(cached \cup {k}) = SlotCount + 1
    BY <1>4, <2>2, StackTypes, FS_AddElement
  <2>5. Cardinality(cached \cup {k}) <= Cardinality(Stack(touched, k))
    BY <1>2, <2>3, FS_Subset
  <2>6. ~ (Cardinality(Stack(touched, k)) <= SlotCount)
    BY <1>2, <2>4, <2>5, StackTypes
  <2> QED
    BY <1>2, <2>6 DEF Fitting
<1> QED
  BY <1>1, <1>3, <1>4 DEF Fitting

-----------------------------------------------------------------------------
\* The abstract stack's operators are the executor's own.
LEMMA RecencyCardinality == \A S : Recency!Cardinality(S) = Cardinality(S)
BY DEF Recency!Cardinality, Cardinality

LEMMA RecencyOperators ==
  \A S, last, capacity :
    /\ Recency!Bytes(S) = Bytes(S)
    /\ Recency!Fitting(last, capacity) = Fitting(last, capacity)
BY RecencyCardinality
   DEF Recency!Bytes, Recency!Cells, Recency!Fitting, Recency!Touched,
       Recency!Stack, Recency!Older, Bytes, Cells, Fitting, Touched, Stack, Older

\* An event that requires one expert is an access of the stack.
LEMMA EventImplementsAccess ==
  ASSUME NEW k \in Experts, StackInv, Require(k),
         k \in residents => /\ counts'.hits = counts.hits + 1
                            /\ counts'.misses = counts.misses,
         k \notin residents => /\ counts'.hits = counts.hits
                               /\ counts'.misses = counts.misses + 1
  PROVE  Recency!Access({k})
<1>1. residents = Fitting(touched, slotBytes)
  BY CachedIsFitting, StackTypes DEF Require, NextEvent
<1>2. /\ Cardinality({k}) = 1 /\ Cardinality({}) = 0
      /\ {k} \in SUBSET Experts
  BY FS_Singleton, FS_EmptySet
<1>3. Bytes({k}) <= slotBytes
  BY <1>2, SlotsMeasureSlotBytes, SlotsAssumption
<1>4. counts.hits \in Nat /\ counts.misses \in Nat
  BY DEF StackInv, SlotInv, ExecutorTypeOK
<1>5. /\ clock' = clock + 1
      /\ touched' = [j \in Experts |-> IF j \in {k} THEN clock + 1 ELSE touched[j]]
  BY StackTypes DEF Require
<1>6. /\ counts'.hits = counts.hits + Cardinality({k} \cap residents)
      /\ counts'.misses = counts.misses + Cardinality({k} \ residents)
  <2>1. CASE k \in residents
    <3>1. {k} \cap residents = {k} /\ {k} \ residents = {}
      BY <2>1
    <3> QED
      BY <1>2, <1>4, <2>1, <3>1
  <2>2. CASE k \notin residents
    <3>1. {k} \cap residents = {} /\ {k} \ residents = {k}
      BY <2>2
    <3> QED
      BY <1>2, <1>4, <2>2, <3>1
  <2> QED
    BY <2>1, <2>2
<1> QED
  BY <1>1, <1>3, <1>5, <1>6, RecencyOperators, RecencyCardinality
     DEF Recency!Access

LEMMA StutterIsInvisible ==
  ASSUME UNCHANGED <<touched, clock, counts.hits, counts.misses>>
  PROVE  UNCHANGED Recency!recencyVars
BY DEF Recency!recencyVars

LEMMA AssignedEventImplementsNext ==
  ASSUME NEW k \in Experts, StackInv, AssignedEvent(k)
  PROVE  Recency!Next
<1>1. counts \in Counts
  BY CountsType DEF StackInv, SlotInv
<1>2. Require(k)
  BY DEF AssignedEvent, Hit, TakeFreeSlot, TakeVictimSlot
<1>3. CASE Hit(k)
  <2>1. /\ counts'.hits = counts.hits + 1
        /\ counts'.misses = counts.misses
        /\ k \in residents
    BY <1>1, <1>3 DEF Hit, Counts
  <2>2. Recency!Access({k})
    BY <1>2, <2>1, EventImplementsAccess
  <2> QED
    BY <2>2 DEF Recency!Next
<1>4. CASE ~ Hit(k)
  <2>1. /\ counts'.hits = counts.hits
        /\ counts'.misses = counts.misses + 1
        /\ k \notin residents
    BY <1>1, <1>4 DEF AssignedEvent, TakeFreeSlot, TakeVictimSlot, Counts
  <2>2. Recency!Access({k})
    BY <1>2, <2>1, EventImplementsAccess
  <2> QED
    BY <2>2 DEF Recency!Next
<1> QED
  BY <1>3, <1>4

(***************************************************************************)
(* The copy executor, which counts slots, hits and misses exactly when an  *)
(* LRU cache that counts bytes does, event by event and for any number of  *)
(* experts and slots, also for fewer slots than the byte capacity has room *)
(* for: the slots are the capacity, and no copy is seen.                   *)
(***************************************************************************)
THEOREM CopyExecutorImplementsRecencyCache ==
  ExecutorSpec => ExecutorImplementsRecencyCache
<1>1. ExecutorInit => Recency!Init
  BY DEF ExecutorInit, Recency!Init
<1>2. StackInv /\ [ExecutorNext]_executorVars
        => [Recency!Next]_(Recency!recencyVars)
  <2> SUFFICES ASSUME StackInv, [ExecutorNext]_executorVars
               PROVE  [Recency!Next]_(Recency!recencyVars)
    OBVIOUS
  <2>1. counts \in Counts
    BY CountsType DEF StackInv, SlotInv
  <2>2. CASE SkipUnassigned
    BY <2>2, StutterIsInvisible DEF SkipUnassigned
  <2>3. ASSUME NEW k \in Experts, AssignedEvent(k)
        PROVE  [Recency!Next]_(Recency!recencyVars)
    BY <2>3, AssignedEventImplementsNext
  <2>4. CASE CopyComponent
    <3>1. counts'.hits = counts.hits /\ counts'.misses = counts.misses
      BY <2>1, <2>4 DEF CopyComponent, Counts
    <3> QED
      BY <2>4, <3>1, StutterIsInvisible DEF CopyComponent
  <2>5. CASE Install
    <3>1. counts'.hits = counts.hits /\ counts'.misses = counts.misses
      BY <2>1, <2>5 DEF Install, Counts
    <3> QED
      BY <2>5, <3>1, StutterIsInvisible DEF Install
  <2>6. CASE UNCHANGED executorVars
    BY <2>6, StutterIsInvisible DEF executorVars
  <2> QED
    BY <2>2, <2>3, <2>4, <2>5, <2>6 DEF ExecutorNext
<1> QED
  BY <1>1, <1>2, StackInvariant, PTL
     DEF ExecutorSpec, ExecutorImplementsRecencyCache, Recency!Spec
-----------------------------------------------------------------------------
(***************************************************************************)
(* Part 3: the executor and the predictor agree.                           *)
(*                                                                         *)
(* Neither is compared with the other step by step: they evict at times of *)
(* their own.  Both are the recency stack of one history, so it is enough  *)
(* that they have seen the same events, which they have when both are      *)
(* between two; what has been counted of an event that is under way is     *)
(* what the other will count.                                              *)
(***************************************************************************)

\* By the protocol, the slots are all that fits the capacity.
LEMMA SlotsMeasureCapacity ==
  ASSUME NEW S \in SUBSET Experts, S # {}
  PROVE  Bytes(S) <= Capacity <=> Cardinality(S) <= SlotCount
BY SlotsMeasure, SlotsAssumption, ProtocolAssumption

LEMMA ProtocolFitting ==
  ASSUME touched \in [Experts -> Nat]
  PROVE  Fitting(touched, slotBytes) = Fitting(touched, Capacity)
<1>1. ASSUME NEW k \in Touched(touched)
      PROVE  Bytes(Stack(touched, k)) <= slotBytes <=> Bytes(Stack(touched, k)) <= Capacity
  <2>1. Stack(touched, k) \in SUBSET Experts
    BY DEF Touched, Stack
  <2>2. touched[k] \in Nat /\ k \in Nat
    BY <1>1, ExpertsAssumption DEF Touched
  <2>3. k \in Stack(touched, k)
    BY <1>1, <2>2 DEF Stack, Older
  <2> QED
    BY <2>1, <2>3, SlotsMeasureSlotBytes, SlotsMeasureCapacity
<1> QED
  BY <1>1 DEF Fitting

\* The proofs about ByteCache, for the predictor.
Replay == INSTANCE ByteCacheProofs WITH
  Policy <- "lru",
  Lifecycle <- "cold_per_workload",
  MaxWorkloads <- 1,
  clock <- ticks,
  touched <- latest

\* What the proofs about ByteCache assume of its constants.
LEMMA PredictorConstants ==
  /\ Capacity \in Nat \ {0}
  /\ "lru" \in {"lru", "lfu"}
  /\ "cold_per_workload" \in {"cold_per_workload", "persistent_sequence"}
  /\ MaxEvents \in Nat /\ 1 \in Nat
  /\ Experts \subseteq Nat /\ Replay!IsFiniteSet(Experts)
  /\ MaxSize \in Nat /\ Size \in [Experts -> 1 .. MaxSize]
<1>1. Replay!IsFiniteSet(Experts)
  BY ExpertsAssumption DEF IsFiniteSet, Replay!IsFiniteSet
<1> QED
  BY <1>1, SlotsAssumption, ExpertsAssumption, SizeAssumption

LEMMA PredictorFacts ==
  /\ Replay!Spec => []Replay!TypeOK
  /\ Replay!Spec => []Replay!ResidencyIsRecencyPrefix
  /\ Replay!Spec => []Replay!LedgerBalances
<1>1. Replay!Spec => []Replay!TypeOK
  BY PredictorConstants, Replay!ByteCacheTypeOK
<1>2. Replay!Spec => []Replay!ResidencyIsRecencyPrefix
  BY PredictorConstants, Replay!LRUResidencyIsRecencyPrefix
<1>3. Replay!Spec => []Replay!LedgerBalances
  BY PredictorConstants, Replay!ByteCacheLedgerBalances
<1> QED
  BY <1>1, <1>2, <1>3

LEMMA CardinalityAnywhere ==
  \A S : /\ Predictor!Cardinality(S) = Cardinality(S)
         /\ Replay!Cardinality(S) = Cardinality(S)
BY DEF Predictor!Cardinality, Replay!Cardinality, Cardinality

\* The operators of the executor, the predictor and the proofs are the same.
LEMMA ReplayOperators ==
  \A S, last, capacity, j, k :
    /\ Predictor!Bytes(S) = Bytes(S)
    /\ Replay!Bytes(S) = Bytes(S)
    /\ Replay!Fitting(last, capacity) = Fitting(last, capacity)
    /\ Predictor!Older(last, j, k) <=> Replay!Older(last, j, k)
BY CardinalityAnywhere
   DEF Predictor!Bytes, Predictor!Cells, Predictor!Older,
       Replay!Bytes, Replay!Cells, Replay!Fitting, Replay!Touched, Replay!Stack,
       Replay!Older, Bytes, Cells, Fitting, Touched, Stack, Older

-----------------------------------------------------------------------------
\* Predictor and proofs have the same initial state.
LEMMA InitIsReplay == Predictor!Init <=> Replay!Init
BY DEF Predictor!Init, Replay!Init, Predictor!NoAccess, Replay!NoAccess,
       Predictor!NoCounts, Replay!NoCounts

\* They have the same actions.
LEMMA StartIsReplay == Predictor!StartWorkload <=> Replay!StartWorkload
BY ReplayOperators
   DEF Predictor!StartWorkload, Replay!StartWorkload, Predictor!cacheVars,
       Replay!cacheVars, Predictor!StartingCounts, Replay!StartingCounts,
       Predictor!NoCounts, Replay!NoCounts

LEMMA SkipIsReplay == Predictor!SkipEvent <=> Replay!SkipEvent
BY DEF Predictor!SkipEvent, Replay!SkipEvent, Predictor!Overall, Replay!Overall,
       Predictor!Merge, Replay!Merge, Predictor!MaxOf, Replay!MaxOf,
       Predictor!cacheVars, Replay!cacheVars

LEMMA AccessIsReplay ==
  \A required : Predictor!StartAccess(required) <=> Replay!StartAccess(required)
BY ReplayOperators, CardinalityAnywhere
   DEF Predictor!StartAccess, Replay!StartAccess, Predictor!Overall, Replay!Overall,
       Predictor!Merge, Replay!Merge, Predictor!MaxOf, Replay!MaxOf,
       Predictor!resident, Replay!resident

LEMMA DemandIsReplay == Predictor!demandLoadBytes = Replay!demandLoadBytes
BY ReplayOperators DEF Predictor!demandLoadBytes, Replay!demandLoadBytes

LEMMA EvictIsReplay ==
  \A victim : Predictor!Evict(victim) <=> Replay!Evict(victim)
<1>1. \A j, k : Predictor!EvictedBefore(j, k) <=> Replay!EvictedBefore(j, k)
  BY DEF Predictor!EvictedBefore, Replay!EvictedBefore, Predictor!Older,
         Replay!Older, Predictor!resident, Replay!resident
<1> QED
  BY <1>1, DemandIsReplay
     DEF Predictor!Evict, Replay!Evict, Predictor!candidates, Replay!candidates,
         Predictor!AfterEviction, Replay!AfterEviction, Predictor!resident,
         Replay!resident

LEMMA FinishIsReplay == Predictor!FinishAccess <=> Replay!FinishAccess
BY DemandIsReplay, CardinalityAnywhere
   DEF Predictor!FinishAccess, Replay!FinishAccess, Predictor!TouchedEntry,
       Replay!TouchedEntry, Predictor!NoAccess, Replay!NoAccess,
       Predictor!MaxOf, Replay!MaxOf, Predictor!resident, Replay!resident

\* A validation runs the executor.
LEMMA ValidationRunsExecutor ==
  /\ ValidationInit => ExecutorInit
  /\ [ValidationNext]_validationVars => [ExecutorNext]_executorVars
BY DEF ValidationInit, ValidationNext, BeginReplay, UnassignedEvent, RoutedEvent,
       PredictorWorks, ExecutorWorks, ExecutorNext, validationVars

\* It runs the predictor.
LEMMA ValidationRunsReplay ==
  /\ ValidationInit => Replay!Init
  /\ [ValidationNext]_validationVars => [Replay!Next]_(Replay!vars)
<1>1. ValidationInit => Replay!Init
  BY InitIsReplay DEF ValidationInit
<1>2. UNCHANGED predictorVars => UNCHANGED Replay!vars
  BY DEF predictorVars, Replay!vars, Replay!cacheVars
<1> SUFFICES ASSUME [ValidationNext]_validationVars
             PROVE  [Replay!Next]_(Replay!vars)
  BY <1>1
<1>3. CASE BeginReplay
  BY <1>3, StartIsReplay DEF BeginReplay, Replay!Next
<1>4. CASE UnassignedEvent
  BY <1>4, SkipIsReplay DEF UnassignedEvent, Replay!Next
<1>5. ASSUME NEW k \in Experts, RoutedEvent(k) PROVE Replay!Next
  <2>1. Replay!StartAccess({k}) /\ {k} \in SUBSET Experts
    BY <1>5, AccessIsReplay DEF RoutedEvent
  <2> QED
    BY <2>1 DEF Replay!Next
<1>6. CASE PredictorWorks
  BY <1>6, EvictIsReplay, FinishIsReplay DEF PredictorWorks, Replay!Next
<1>7. CASE ExecutorWorks \/ UNCHANGED validationVars
  BY <1>2, <1>7 DEF ExecutorWorks, validationVars
<1> QED
  BY <1>3, <1>4, <1>5, <1>6, <1>7 DEF ValidationNext

\* What each of the two was proved to keep, it keeps in a validation.
LEMMA BothInvariant ==
  ValidationSpec => /\ []StackInv
                    /\ []Replay!TypeOK
                    /\ []Replay!ResidencyIsRecencyPrefix
                    /\ []Replay!LedgerBalances
<1>1. ValidationSpec => ExecutorSpec
  BY ValidationRunsExecutor, PTL DEF ValidationSpec, ExecutorSpec
<1>2. ValidationSpec => Replay!Spec
  BY ValidationRunsReplay, PTL DEF ValidationSpec, Replay!Spec
<1> QED
  BY <1>1, <1>2, StackInvariant, PredictorFacts, PTL

-----------------------------------------------------------------------------
\* The executor's counters account for what is resident or being loaded.
AccountInv ==
  /\ counts.misses - counts.evictions = Cardinality(cached)
  /\ counts.misses = counts.loads + Cardinality(load.experts)
  /\ counts.copies = Components * counts.loads + load.copied
  /\ Idle => load.copied = 0

\* What the counters of the executor are made of.
LEMMA CountsNumbers ==
  ASSUME StackInv
  PROVE  /\ counts \in Counts
         /\ counts.hits \in Nat /\ counts.misses \in Nat /\ counts.evictions \in Nat
         /\ counts.loads \in Nat /\ counts.bytes \in Nat /\ counts.copies \in Nat
         /\ load \in [experts : SUBSET Experts, slot : Slots, copied : 0 .. Components]
         /\ load.copied \in Nat
         /\ passed \in Nat
<1>1. ExecutorTypeOK
  BY DEF StackInv, SlotInv
<1> QED
  BY <1>1, CountsType DEF ExecutorTypeOK, Counts

\* What an event counts depends only on whether its expert is resident.
LEMMA AssignedEventCounts ==
  ASSUME NEW k \in Experts, StackInv, AssignedEvent(k)
  PROVE  /\ Require(k)
         /\ Idle
         /\ counts'.loads = counts.loads
         /\ counts'.bytes = counts.bytes
         /\ counts'.copies = counts.copies
         /\ k \in residents =>
              /\ counts'.hits = counts.hits + 1
              /\ counts'.misses = counts.misses
              /\ counts'.evictions = counts.evictions
              /\ load' = load
              /\ cached' = cached
         /\ k \notin residents =>
              /\ counts'.hits = counts.hits
              /\ counts'.misses = counts.misses + 1
              /\ load'.experts = {k}
              /\ load'.copied = 0
              /\ Cardinality(cached') + counts'.evictions =
                   Cardinality(cached) + counts.evictions + 1
<1>1. counts \in Counts
  BY CountsNumbers
<1>2. CASE Hit(k)
  <2>1. cached' = cached
    BY <1>2 DEF Hit, cached
  <2> QED
    BY <1>1, <1>2, <2>1 DEF Hit, Require, NextEvent, Counts
<1>3. CASE TakeFreeSlot(k)
  <2>1. /\ Require(k) /\ Idle /\ k \notin residents
        /\ load' = [experts |-> {k}, slot |-> Head(freeSlots), copied |-> 0]
        /\ counts' = [counts EXCEPT !.misses = @ + 1]
        /\ residents' = residents
    BY <1>3 DEF TakeFreeSlot, Require, NextEvent
  <2>2. cached' = cached \cup {k} /\ k \notin cached
    BY <2>1, StackTypes DEF cached
  <2>3. Cardinality(cached') = Cardinality(cached) + 1
    BY <2>2, StackTypes, FS_AddElement
  <2> QED
    BY <1>1, <2>1, <2>3, StackTypes DEF Counts
<1>4. ASSUME NEW victim \in Experts, TakeVictimSlot(k, victim)
      PROVE  /\ Require(k) /\ Idle /\ k \notin residents
             /\ counts' = [counts EXCEPT !.misses = @ + 1, !.evictions = @ + 1]
             /\ load'.experts = {k} /\ load'.copied = 0
             /\ Cardinality(cached') = Cardinality(cached)
  <2>1. /\ Require(k) /\ Idle /\ k \notin residents /\ victim \in residents
        /\ load' = [experts |-> {k}, slot |-> slotOf[victim], copied |-> 0]
        /\ counts' = [counts EXCEPT !.misses = @ + 1, !.evictions = @ + 1]
        /\ residents' = residents \ {victim}
    BY <1>4 DEF TakeVictimSlot, SlotsWithout, Require, NextEvent
  <2>2. /\ cached' = (cached \ {victim}) \cup {k}
        /\ k \notin cached \ {victim}
        /\ victim \in cached
    BY <2>1, StackTypes DEF cached
  <2>3. /\ Cardinality(cached \ {victim}) = Cardinality(cached) - 1
        /\ IsFiniteSet(cached \ {victim})
    BY <2>2, StackTypes, FS_RemoveElement
  <2>4. Cardinality(cached') = Cardinality(cached \ {victim}) + 1
    BY <2>2, <2>3, FS_AddElement
  <2> QED
    BY <2>1, <2>3, <2>4, StackTypes
<1>5. CASE \E victim \in Experts : TakeVictimSlot(k, victim)
  <2>1. /\ Require(k) /\ Idle /\ k \notin residents
        /\ counts' = [counts EXCEPT !.misses = @ + 1, !.evictions = @ + 1]
        /\ load'.experts = {k} /\ load'.copied = 0
        /\ Cardinality(cached') = Cardinality(cached)
    BY <1>4, <1>5
  <2> QED
    BY <1>1, <2>1, StackTypes DEF Counts
<1> QED
  BY <1>2, <1>3, <1>5 DEF AssignedEvent

\* A load puts as many bytes on the bill as its expert has.
LEMMA InstallCounts ==
  ASSUME StackInv, Install
  PROVE  /\ \E k \in Experts : load.experts = {k}
         /\ Cardinality(load.experts) = 1
         /\ Bytes(load.experts) \in Nat
         /\ load.copied = Components
         /\ load'.experts = {} /\ load'.copied = 0
         /\ cached' = cached
         /\ counts' = [counts EXCEPT !.loads = @ + 1,
                                     !.bytes = @ + Bytes(load.experts)]
<1>1. PICK k \in Experts \ residents : load.experts = {k}
  BY DEF Install, StackInv, SlotInv, LoadInv
<1>2. Cardinality(load.experts) = 1
  BY <1>1, FS_Singleton
<1>3. Bytes(load.experts) \in Nat
  BY StackTypes, CellsFinite
<1>4. cached' = cached
  BY DEF Install, NoLoad, cached
<1> QED
  BY <1>1, <1>2, <1>3, <1>4 DEF Install, NoLoad

LEMMA ExecutorNextAccounts ==
  StackInv /\ AccountInv /\ [ExecutorNext]_executorVars => AccountInv'
<1> SUFFICES ASSUME StackInv, AccountInv, [ExecutorNext]_executorVars
             PROVE  AccountInv'
  OBVIOUS
<1>1. CASE SkipUnassigned \/ UNCHANGED executorVars
  <2>1. /\ UNCHANGED <<load, counts>>
        /\ cached' = cached
        /\ Idle' <=> Idle
    BY <1>1 DEF SkipUnassigned, executorVars, cached, Idle
  <2> QED
    BY <2>1 DEF AccountInv
<1>2. ASSUME NEW k \in Experts, AssignedEvent(k) PROVE AccountInv'
  <2>0. Cardinality({}) = 0 /\ Cardinality({k}) = 1
    BY FS_EmptySet, FS_Singleton
  <2>1. /\ load.experts = {} /\ load.copied = 0
        /\ counts.misses = counts.loads
        /\ counts.copies = Components * counts.loads
        /\ Components * counts.loads \in Nat
    <3>1. load.experts = {} /\ Idle
      BY <1>2, AssignedEventCounts DEF Idle
    <3>2. /\ load.copied = 0
          /\ counts.misses = counts.loads + 0
          /\ counts.copies = Components * counts.loads + 0
      BY <2>0, <3>1 DEF AccountInv
    <3>3. Components * counts.loads \in Nat
      BY CountsNumbers
    <3> QED
      BY <3>1, <3>2, <3>3, CountsNumbers
  <2>2. CASE k \in residents
    BY <1>2, <2>0, <2>1, <2>2, AssignedEventCounts DEF AccountInv, Idle
  <2>3. CASE k \notin residents
    <3>1. /\ counts'.misses = counts'.loads + 1
          /\ load'.experts = {k} /\ load'.copied = 0
          /\ counts'.copies = Components * counts'.loads + 0
          /\ counts'.misses = counts.misses + 1
      BY <1>2, <2>1, <2>3, AssignedEventCounts
    <3>2. /\ Cardinality(cached') + counts'.evictions =
               Cardinality(cached) + counts.evictions + 1
          /\ counts.misses - counts.evictions = Cardinality(cached)
      BY <1>2, <2>3, AssignedEventCounts DEF AccountInv
    <3>3. ExecutorTypeOK'
      BY <1>2, ExecutorNextStack DEF ExecutorNext, StackInv, SlotInv
    <3>4. counts'.evictions \in Nat /\ Cardinality(cached') \in Nat
      <4>1. counts'.evictions \in Nat /\ cached' \in SUBSET Experts
        BY <3>3 DEF ExecutorTypeOK, cached
      <4>2. IsFiniteSet(cached')
        BY <4>1, CellsFinite
      <4> QED
        BY <4>1, <4>2, FS_CardinalityType
    <3>5. counts'.misses - counts'.evictions = Cardinality(cached')
      <4> DEFINE m == counts.misses
                 e == counts.evictions
                 c == Cardinality(cached)
                 d == counts'.evictions
                 n == Cardinality(cached')
      <4>1. m \in Nat /\ e \in Nat /\ c \in Nat /\ d \in Nat /\ n \in Nat
        BY <3>4, CountsNumbers, StackTypes
      <4>2. n + d = c + e + 1 /\ m - e = c
        BY <3>2
      <4>3. counts'.misses = m + 1
        BY <3>1
      <4> HIDE DEF m, e, c, d, n
      <4>4. (m + 1) - d = n
        BY <4>1, <4>2
      <4> QED
        BY <4>3, <4>4 DEF d, n
    <3> QED
      BY <2>0, <3>1, <3>5 DEF AccountInv
  <2> QED
    BY <2>2, <2>3
<1>3. CASE CopyComponent
  <2>1. /\ counts' = [counts EXCEPT !.copies = @ + 1]
        /\ load' = [load EXCEPT !.copied = @ + 1]
        /\ residents' = residents
        /\ ~ Idle
    BY <1>3 DEF CopyComponent
  <2>2. /\ counts'.misses = counts.misses /\ counts'.evictions = counts.evictions
        /\ counts'.loads = counts.loads /\ counts'.copies = counts.copies + 1
        /\ load'.experts = load.experts /\ load'.copied = load.copied + 1
    BY <2>1, CountsNumbers DEF Counts
  <2>3. cached' = cached /\ ~ Idle'
    BY <2>1, <2>2 DEF cached, Idle
  <2>4. Components * counts.loads \in Nat
    BY CountsNumbers
  <2> QED
    BY <2>2, <2>3, <2>4, CountsNumbers DEF AccountInv
<1>4. CASE Install
  <2>1. /\ counts'.misses = counts.misses /\ counts'.evictions = counts.evictions
        /\ counts'.loads = counts.loads + 1 /\ counts'.copies = counts.copies
    BY <1>4, InstallCounts, CountsNumbers DEF Counts
  <2>2. /\ Cardinality(load'.experts) = 0
        /\ load'.copied = 0
        /\ cached' = cached
        /\ Cardinality(load.experts) = 1
        /\ load.copied = Components
    BY <1>4, InstallCounts, FS_EmptySet
  <2>3. Components * (counts.loads + 1) = Components * counts.loads + Components
    BY CountsNumbers
  <2>4. Components * counts.loads \in Nat /\ Components \in Nat
    BY CountsNumbers
  <2> QED
    BY <2>1, <2>2, <2>3, <2>4, CountsNumbers DEF AccountInv
<1> QED
  BY <1>1, <1>2, <1>3, <1>4 DEF ExecutorNext

LEMMA ExecutorInitAccounts == ExecutorInit => AccountInv
<1> SUFFICES ASSUME ExecutorInit PROVE AccountInv
  OBVIOUS
<1>1. cached = {} /\ load.experts = {} /\ load.copied = 0
  BY DEF ExecutorInit, NoLoad, cached
<1>2. Cardinality({}) = 0
  BY FS_EmptySet
<1> QED
  BY <1>1, <1>2 DEF ExecutorInit, AccountInv

-----------------------------------------------------------------------------
(***************************************************************************)
(* The two have seen the same events, and have counted the same of them    *)
(* but for the access and the load that are under way.                     *)
(***************************************************************************)
NothingSeen ==
  /\ clock = 0
  /\ touched = [k \in Experts |-> 0]
  /\ passed = 0
  /\ load.experts = {}
  /\ counts.hits = 0 /\ counts.misses = 0 /\ counts.bytes = 0

SameEvents ==
  /\ counters.events = passed
  /\ counters.hits = counts.hits
  /\ counters.misses = counts.misses
  /\ counters.loaded = counts.bytes + Bytes(load.experts)
  /\ ticks = clock
  /\ latest = touched

AccessAhead ==
  /\ counters.events + 1 = passed
  /\ counters.hits + access.hits = counts.hits
  /\ counters.misses + Cardinality(access.missing) = counts.misses
  /\ counters.loaded + Bytes(access.missing) = counts.bytes + Bytes(load.experts)
  /\ ticks = clock
  /\ touched = [k \in Experts |-> IF k \in access.required THEN ticks ELSE latest[k]]

SameHistory ==
  /\ phase = "idle" => NothingSeen
  /\ phase = "ready" => SameEvents
  /\ phase = "evicting" => AccessAhead

\* The types of the predictor that the steps below calculate with.
LEMMA PredictorTypes ==
  ASSUME Replay!TypeOK
  PROVE  /\ access \in [required : SUBSET Experts, missing : SUBSET Experts,
                        hits : Nat, running : 0 .. Capacity,
                        evictions : Nat, evicted : Nat]
         /\ counters \in [events : Nat, requests : Nat, hits : Nat, misses : Nat,
                          loaded : Nat, evictions : Nat, evicted : Nat, peak : Nat]
         /\ latest \in [Experts -> Nat]
         /\ DOMAIN entries \in SUBSET Experts
         /\ phase \in {"idle", "ready", "evicting"}
BY DEF Replay!TypeOK, Replay!resident

LEMMA BeginReplayHistory ==
  ASSUME StackInv, SameHistory, BeginReplay
  PROVE  SameHistory'
<1>1. /\ UNCHANGED executorVars
      /\ phase = "idle" /\ phase' = "ready"
      /\ ticks' = 0
      /\ latest' = [k \in Experts |-> 0]
      /\ counters'.events = 0 /\ counters'.hits = 0 /\ counters'.misses = 0
      /\ counters'.loaded = 0
  BY StartIsReplay
     DEF BeginReplay, Replay!StartWorkload, Replay!StartingCounts, Replay!NoCounts
<1>2. NothingSeen
  BY <1>1 DEF SameHistory
<1>3. Bytes(load.experts) = 0
  BY <1>2, BytesOfNone DEF NothingSeen
<1>4. SameEvents'
  BY <1>1, <1>2, <1>3 DEF executorVars, NothingSeen, SameEvents
<1> QED
  BY <1>1, <1>4 DEF SameHistory

LEMMA UnassignedEventHistory ==
  ASSUME StackInv, Replay!TypeOK, SameHistory, UnassignedEvent
  PROVE  SameHistory'
<1>1. /\ UNCHANGED <<clock, load, counts, touched>>
      /\ passed' = passed + 1
      /\ phase = "ready" /\ phase' = "ready"
      /\ UNCHANGED <<ticks, latest>>
      /\ counters' = [counters EXCEPT !.events = @ + 1]
  BY SkipIsReplay
     DEF UnassignedEvent, SkipUnassigned, NextEvent, Replay!SkipEvent,
         Replay!cacheVars
<1>2. SameEvents
  BY <1>1 DEF SameHistory
<1>3. SameEvents'
  BY <1>1, <1>2, PredictorTypes DEF SameEvents
<1> QED
  BY <1>1, <1>3 DEF SameHistory

(***************************************************************************)
(* Both take the next event while neither is in the middle of one: what    *)
(* they hold is then the same prefix of the same stack, so one of them     *)
(* hits if and only if the other does.                                     *)
(***************************************************************************)
LEMMA RoutedEventHistory ==
  ASSUME NEW k \in Experts, StackInv, Replay!TypeOK,
         Replay!ResidencyIsRecencyPrefix, SameHistory, RoutedEvent(k)
  PROVE  SameHistory'
<1>1. AssignedEvent(k) /\ Replay!StartAccess({k})
  BY AccessIsReplay DEF RoutedEvent
<1>2. /\ phase = "ready" /\ phase' = "evicting"
      /\ ticks' = ticks + 1
      /\ UNCHANGED <<latest, counters>>
      /\ access'.required = {k}
      /\ access'.missing = {k} \ DOMAIN entries
      /\ access'.hits = Cardinality({k} \cap DOMAIN entries)
  BY <1>1, CardinalityAnywhere DEF Replay!StartAccess, Replay!resident
<1>3. SameEvents
  BY <1>2 DEF SameHistory
<1>4. /\ Require(k) /\ Idle
      /\ clock' = clock + 1
      /\ passed' = passed + 1
      /\ touched' = [touched EXCEPT ![k] = clock + 1]
      /\ touched \in [Experts -> Nat]
  BY <1>1, AssignedEventCounts, StackTypes DEF Require, NextEvent
<1>5. DOMAIN entries = residents
  <2>1. DOMAIN entries = Fitting(latest, Capacity)
    BY <1>2, ReplayOperators DEF Replay!ResidencyIsRecencyPrefix, Replay!resident
  <2> QED
    BY <1>3, <1>4, <2>1, CachedIsFitting, ProtocolFitting, StackTypes DEF SameEvents
<1>6. touched' = [j \in Experts |-> IF j \in {k} THEN clock + 1 ELSE touched[j]]
  BY <1>4
<1>7. /\ counters.events + 1 = passed'
      /\ ticks' = clock'
      /\ touched' = [j \in Experts |->
                       IF j \in access'.required THEN ticks' ELSE latest'[j]]
  BY <1>2, <1>3, <1>4, <1>6 DEF SameEvents
<1>8. /\ Cardinality({}) = 0 /\ Cardinality({k}) = 1
      /\ load.experts = {} /\ Bytes({}) = 0
      /\ counts.hits \in Nat /\ counts.misses \in Nat /\ counts.bytes \in Nat
      /\ Bytes({k}) \in Nat
  BY <1>4, FS_EmptySet, FS_Singleton, BytesOfNone, CountsNumbers, CellsFinite DEF Idle
<1>9. CASE k \in residents
  <2>1. access'.missing = {} /\ access'.hits = 1
    <3>1. {k} \cap residents = {k} /\ {k} \ residents = {}
      BY <1>9
    <3> QED
      BY <1>2, <1>5, <1>8, <3>1
  <2>2. /\ counts'.hits = counts.hits + 1 /\ counts'.misses = counts.misses
        /\ counts'.bytes = counts.bytes
        /\ load' = load
    BY <1>1, <1>9, AssignedEventCounts
  <2>3. /\ Cardinality(access'.missing) = 0
        /\ Bytes(access'.missing) = Bytes({})
        /\ Bytes(load'.experts) = Bytes({})
    BY <1>8, <2>1, <2>2
  <2>4. /\ counters'.hits + access'.hits = counts'.hits
        /\ counters'.misses + Cardinality(access'.missing) = counts'.misses
    BY <1>2, <1>3, <1>8, <2>1, <2>2, <2>3 DEF SameEvents
  <2>5. counters'.loaded + Bytes(access'.missing) =
          counts'.bytes + Bytes(load'.experts)
    BY <1>2, <1>3, <1>8, <2>2, <2>3 DEF SameEvents
  <2>6. AccessAhead'
    BY <1>2, <1>7, <2>4, <2>5 DEF AccessAhead
  <2> QED
    BY <1>2, <2>6 DEF SameHistory
<1>10. CASE k \notin residents
  <2>1. access'.missing = {k} /\ access'.hits = 0
    <3>1. {k} \cap residents = {} /\ {k} \ residents = {k}
      BY <1>10
    <3> QED
      BY <1>2, <1>5, <1>8, <3>1
  <2>2. /\ counts'.hits = counts.hits /\ counts'.misses = counts.misses + 1
        /\ counts'.bytes = counts.bytes
        /\ load'.experts = {k}
    BY <1>1, <1>10, AssignedEventCounts
  <2>3. /\ Cardinality(access'.missing) = 1
        /\ Bytes(access'.missing) = Bytes({k})
        /\ Bytes(load'.experts) = Bytes({k})
    BY <1>8, <2>1, <2>2
  <2>4. /\ counters'.hits + access'.hits = counts'.hits
        /\ counters'.misses + Cardinality(access'.missing) = counts'.misses
    BY <1>2, <1>3, <1>8, <2>1, <2>2, <2>3 DEF SameEvents
  <2>5. counters'.loaded + Bytes(access'.missing) =
          counts'.bytes + Bytes(load'.experts)
    BY <1>2, <1>3, <1>8, <2>2, <2>3 DEF SameEvents
  <2>6. AccessAhead'
    BY <1>2, <1>7, <2>4, <2>5 DEF AccessAhead
  <2> QED
    BY <1>2, <2>6 DEF SameHistory
<1> QED
  BY <1>9, <1>10

\* Evictions change neither what was required nor what is to be loaded.
LEMMA PredictorWorksHistory ==
  ASSUME Replay!TypeOK, SameHistory, PredictorWorks
  PROVE  SameHistory'
<1>1. ASSUME NEW victim \in Experts, Replay!Evict(victim), UNCHANGED executorVars
      PROVE  SameHistory'
  <2>1. /\ phase = "evicting" /\ phase' = "evicting"
        /\ UNCHANGED <<ticks, latest, counters>>
        /\ access' = Replay!AfterEviction(victim)
    BY <1>1 DEF Replay!Evict
  <2>2. access'.required = access.required /\ access'.missing = access.missing
          /\ access'.hits = access.hits
    BY <2>1, PredictorTypes DEF Replay!AfterEviction
  <2>3. AccessAhead
    BY <2>1 DEF SameHistory
  <2>4. AccessAhead'
    BY <1>1, <2>1, <2>2, <2>3 DEF AccessAhead, executorVars
  <2> QED
    BY <2>1, <2>4 DEF SameHistory
<1>2. CASE Replay!FinishAccess /\ UNCHANGED executorVars
  <2>1. /\ phase = "evicting" /\ phase' = "ready"
        /\ ticks' = ticks
        /\ latest' = [k \in Experts |->
                        IF k \in access.required THEN ticks ELSE latest[k]]
        /\ counters'.events = counters.events + 1
        /\ counters'.hits = counters.hits + access.hits
        /\ counters'.misses = counters.misses + Cardinality(access.missing)
        /\ counters'.loaded = counters.loaded + Bytes(access.missing)
    BY <1>2, ReplayOperators, CardinalityAnywhere
       DEF Replay!FinishAccess, Replay!demandLoadBytes
  <2>2. AccessAhead
    BY <2>1 DEF SameHistory
  <2>3. SameEvents'
    BY <1>2, <2>1, <2>2 DEF AccessAhead, SameEvents, executorVars
  <2> QED
    BY <2>1, <2>3 DEF SameHistory
<1> QED
  BY <1>1, <1>2, EvictIsReplay, FinishIsReplay DEF PredictorWorks

\* A load becomes a bill: what is under way moves to what is done.
LEMMA ExecutorWorksHistory ==
  ASSUME StackInv, SameHistory, ExecutorWorks
  PROVE  SameHistory'
<1>1. /\ UNCHANGED <<clock, touched, passed>>
      /\ UNCHANGED predictorVars
      /\ ~ Idle
  BY DEF ExecutorWorks, CopyComponent, Install
<1>2. /\ counts'.hits = counts.hits
      /\ counts'.misses = counts.misses
      /\ counts'.bytes + Bytes(load'.experts) = counts.bytes + Bytes(load.experts)
  <2>1. CASE CopyComponent
    BY <2>1, CountsNumbers DEF CopyComponent, Counts
  <2>2. CASE Install
    <3>1. /\ counts'.hits = counts.hits
          /\ counts'.misses = counts.misses
          /\ counts'.bytes = counts.bytes + Bytes(load.experts)
      BY <2>2, InstallCounts, CountsNumbers DEF Counts
    <3>2. Bytes(load'.experts) = 0 /\ Bytes(load.experts) \in Nat
      BY <2>2, InstallCounts, BytesOfNone
    <3> QED
      BY <3>1, <3>2, CountsNumbers
  <2> QED
    BY <2>1, <2>2 DEF ExecutorWorks
<1>3. phase # "idle"
  BY <1>1 DEF SameHistory, NothingSeen, Idle
<1>4. SameEvents => SameEvents'
  BY <1>1, <1>2 DEF SameEvents, predictorVars
<1>5. AccessAhead => AccessAhead'
  BY <1>1, <1>2 DEF AccessAhead, predictorVars
<1> QED
  BY <1>1, <1>3, <1>4, <1>5 DEF SameHistory, predictorVars

LEMMA ValidationNextHistory ==
  /\ StackInv /\ Replay!TypeOK /\ Replay!ResidencyIsRecencyPrefix /\ SameHistory
  /\ [ValidationNext]_validationVars
  => SameHistory'
<1> SUFFICES ASSUME StackInv, Replay!TypeOK, Replay!ResidencyIsRecencyPrefix,
                    SameHistory, [ValidationNext]_validationVars
             PROVE  SameHistory'
  OBVIOUS
<1>1. CASE BeginReplay
  BY <1>1, BeginReplayHistory
<1>2. CASE UnassignedEvent
  BY <1>2, UnassignedEventHistory
<1>3. ASSUME NEW k \in Experts, RoutedEvent(k) PROVE SameHistory'
  BY <1>3, RoutedEventHistory
<1>4. CASE PredictorWorks
  BY <1>4, PredictorWorksHistory
<1>5. CASE ExecutorWorks
  BY <1>5, ExecutorWorksHistory
<1>6. CASE UNCHANGED validationVars
  BY <1>6
     DEF validationVars, executorVars, predictorVars, SameHistory, NothingSeen,
         SameEvents, AccessAhead
<1> QED
  BY <1>1, <1>2, <1>3, <1>4, <1>5, <1>6 DEF ValidationNext

LEMMA ValidationInitHistory == ValidationInit => SameHistory
BY InitIsReplay
   DEF ValidationInit, ExecutorInit, NoLoad, Replay!Init, SameHistory, NothingSeen

\* What the invariants say of the states in which the two are compared.
LEMMA HistoryComparison ==
  ASSUME StackInv, AccountInv, SameHistory, Replay!TypeOK,
         Replay!ResidencyIsRecencyPrefix, Replay!LedgerBalances
  PROVE  ComparisonAgrees
<1> SUFFICES ASSUME Idle, phase = "ready"
             PROVE  /\ counters.events = passed
                    /\ counters.hits = counts.hits
                    /\ counters.misses = counts.misses
                    /\ counters.evictions = counts.evictions
                    /\ DOMAIN entries = residents
                    /\ counters.misses = counts.loads
                    /\ counters.loaded = counts.bytes
                    /\ counts.copies = Components * counts.loads
  BY DEF ComparisonAgrees
<1>1. SameEvents
  BY DEF SameHistory
<1>2. cached = residents /\ load.experts = {} /\ load.copied = 0
  BY StackTypes DEF Idle, AccountInv
<1>3. DOMAIN entries = residents
  <2>1. DOMAIN entries = Fitting(latest, Capacity)
    BY ReplayOperators DEF Replay!ResidencyIsRecencyPrefix, Replay!resident
  <2> QED
    BY <1>1, <1>2, <2>1, CachedIsFitting, ProtocolFitting, StackTypes DEF SameEvents
<1>4. counters.misses - counters.evictions = Cardinality(residents)
  BY <1>3, CardinalityAnywhere
     DEF Replay!LedgerBalances, Replay!CacheLife, Replay!resident
<1>5. counts.misses - counts.evictions = Cardinality(residents)
  BY <1>2 DEF AccountInv
<1>6. counters.evictions = counts.evictions
  BY <1>1, <1>4, <1>5, PredictorTypes, CountsNumbers DEF SameEvents
<1>7. counts.misses = counts.loads
  BY <1>2, FS_EmptySet, CountsNumbers DEF AccountInv
<1>8. counters.loaded = counts.bytes
  BY <1>1, <1>2, BytesOfNone, CountsNumbers DEF SameEvents
<1>9. counts.copies = Components * counts.loads
  <2>1. Components * counts.loads \in Nat
    BY CountsNumbers
  <2> QED
    BY <1>2, <2>1 DEF AccountInv
<1> QED
  BY <1>1, <1>3, <1>6, <1>7, <1>8, <1>9 DEF SameEvents

(***************************************************************************)
(* _comparison_checks never reports a difference: after every event the    *)
(* executor, which counts slots and copies component by component, and the *)
(* byte-capacity LRU replay hold the same experts and have counted the     *)
(* same hits, misses, evictions and bytes, for any trace and any number of *)
(* experts, slots and components, at whatever pace the two run.            *)
(***************************************************************************)
THEOREM CopyValidationAgrees == ValidationSpec => []ComparisonAgrees
<1>1. ValidationInit => AccountInv /\ SameHistory
  BY ValidationRunsExecutor, ExecutorInitAccounts, ValidationInitHistory
<1>2. StackInv /\ AccountInv /\ [ValidationNext]_validationVars => AccountInv'
  BY ValidationRunsExecutor, ExecutorNextAccounts
<1> QED
  BY <1>1, <1>2, BothInvariant, ValidationNextHistory, HistoryComparison, PTL
     DEF ValidationSpec

=============================================================================
