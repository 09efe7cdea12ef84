----------------------------- MODULE CopyExecutor -----------------------------
(***************************************************************************)
(* The independent copy executor of runtime_copy_executor.py: a second LRU *)
(* over the events of a format 2 trace, written with staging slots instead *)
(* of bytes, that copies the parameter components of an expert into a slot *)
(* whenever it is not resident.                                            *)
(*                                                                         *)
(* A component of a slot holds {} before its first copy (torch.empty_like) *)
(* and {k} when the component of expert k has been copied into it.         *)
(***************************************************************************)
EXTENDS ExpertBytes, Sequences

CONSTANTS
  Capacity,    \* capacity_bytes
  SlotCount,   \* slot_count
  Components,  \* parameter components of an expert
  MaxEvents    \* bound: events of the trace

\* The slots fit the capacity.  There may be fewer of them than would fit.
ASSUME SlotsAssumption ==
  /\ SlotCount \in Nat \ {0}
  /\ Capacity \in Nat \ {0}
  /\ \A k \in Experts : SlotCount * Size[k] <= Capacity

\* One staging-slot layout for all payloads.
ASSUME LayoutAssumption == \A j, k \in Experts : Size[j] = Size[k]

ASSUME ComponentsAssumption == Components \in Nat \ {0}
ASSUME EventsAssumption == MaxEvents \in Nat

Slots == 0 .. SlotCount - 1

\* The bytes of all slots, each laid out for the payload of a template.
slotBytes ==
  LET template == CHOOSE k \in Experts : TRUE
  IN  SlotCount * Size[template]

VARIABLES
  slots,      \* the tensors of each slot
  slotOf,     \* resident_to_slot
  lastTouch,  \* last_touch
  freeSlots,  \* free_slots
  clock,
  load,       \* the load in progress: its expert, slot and copied components
  counts,     \* hits, misses, evictions, completed_loads, operand bytes, copies
  passed,     \* events passed
  touched     \* history: the clock when each expert was required last

executorVars ==
  <<slots, slotOf, lastTouch, freeSlots, clock, load, counts, passed, touched>>

residents == DOMAIN slotOf

NoLoad == [experts |-> {}, slot |-> 0, copied |-> 0]

Idle == load.experts = {}

\* Slip: the slots are counted from one.
FirstFreeSlotsFromOne == [i \in 1 .. SlotCount |-> i]

FirstFreeSlots == [i \in 1 .. SlotCount |-> i - 1]

ExecutorInit ==
  /\ slots = [i \in Slots |-> [c \in 1 .. Components |-> {}]]
  /\ slotOf = << >>
  /\ lastTouch = << >>
  /\ freeSlots = FirstFreeSlots
  /\ clock = 0
  /\ load = NoLoad
  /\ counts = [hits |-> 0, misses |-> 0, evictions |-> 0, loads |-> 0,
               bytes |-> 0, copies |-> 0]
  /\ passed = 0
  /\ touched = [k \in Experts |-> 0]

NextEvent == Idle /\ passed < MaxEvents /\ passed' = passed + 1

\* An unassigned event does not advance the clock.
SkipUnassigned ==
  /\ NextEvent
  /\ UNCHANGED <<slots, slotOf, lastTouch, freeSlots, clock, load, counts, touched>>

\* The clock moves for every assigned event.
Require(k) ==
  /\ NextEvent
  /\ clock' = clock + 1
  /\ touched' = [touched EXCEPT ![k] = clock + 1]

\* Slip: a hit is counted and does not renew the expert.
RenewedOnLoadOnly(k) == lastTouch

Renewed(k) == [lastTouch EXCEPT ![k] = clock + 1]

Hit(k) ==
  /\ Require(k)
  /\ k \in residents
  /\ lastTouch' = Renewed(k)
  /\ counts' = [counts EXCEPT !.hits = @ + 1]
  /\ UNCHANGED <<slots, slotOf, freeSlots, load>>

\* Slip: the slot is read and stays on the free list.
RemainingSlotsUnpopped == freeSlots

RemainingSlots == Tail(freeSlots)

(***************************************************************************)
(* A miss takes a free slot, or else that of the expert touched longest    *)
(* ago, which loses it before the first component is copied.               *)
(***************************************************************************)
TakeFreeSlot(k) ==
  /\ Require(k)
  /\ k \notin residents
  /\ freeSlots # << >>
  /\ load' = [experts |-> {k}, slot |-> Head(freeSlots), copied |-> 0]
  /\ freeSlots' = RemainingSlots
  /\ counts' = [counts EXCEPT !.misses = @ + 1]
  /\ UNCHANGED <<slots, slotOf, lastTouch>>

SlotsWithout(victim) == [k \in residents \ {victim} |-> slotOf[k]]

\* Slip: the victim is the expert touched last.
IsVictimOfMRU(k) == \A j \in residents \ {k} : lastTouch[j] < lastTouch[k]

IsVictim(k) ==
  \A j \in residents \ {k} :
    \/ lastTouch[k] < lastTouch[j]
    \/ lastTouch[k] = lastTouch[j] /\ k < j

TakeVictimSlot(k, victim) ==
  /\ Require(k)
  /\ k \notin residents
  /\ freeSlots = << >>
  /\ victim \in residents
  /\ IsVictim(victim)
  /\ load' = [experts |-> {k}, slot |-> slotOf[victim], copied |-> 0]
  /\ slotOf' = SlotsWithout(victim)
  /\ lastTouch' = [j \in residents \ {victim} |-> lastTouch[j]]
  /\ counts' = [counts EXCEPT !.misses = @ + 1, !.evictions = @ + 1]
  /\ UNCHANGED <<slots, freeSlots>>

CopyComponent ==
  /\ ~ Idle
  /\ load.copied < Components
  /\ slots' = [slots EXCEPT ![load.slot][load.copied + 1] = load.experts]
  /\ load' = [load EXCEPT !.copied = @ + 1]
  /\ counts' = [counts EXCEPT !.copies = @ + 1]
  /\ UNCHANGED <<slotOf, lastTouch, freeSlots, clock, passed, touched>>

\* The payload has been copied completely: the expert becomes resident.
Install ==
  /\ ~ Idle
  /\ load.copied = Components
  /\ slotOf' = [k \in residents \cup load.experts |->
                  IF k \in load.experts THEN load.slot ELSE slotOf[k]]
  /\ lastTouch' = [k \in residents \cup load.experts |->
                     IF k \in load.experts THEN clock ELSE lastTouch[k]]
  /\ counts' = [counts EXCEPT !.loads = @ + 1, !.bytes = @ + Bytes(load.experts)]
  /\ load' = NoLoad
  /\ UNCHANGED <<slots, freeSlots, clock, passed, touched>>

AssignedEvent(k) ==
  \/ Hit(k)
  \/ TakeFreeSlot(k)
  \/ \E victim \in Experts : TakeVictimSlot(k, victim)

ExecutorNext ==
  \/ SkipUnassigned
  \/ \E k \in Experts : AssignedEvent(k)
  \/ CopyComponent
  \/ Install

ExecutorSpec == ExecutorInit /\ [][ExecutorNext]_executorVars

-----------------------------------------------------------------------------
(***************************************************************************)
(* Properties.                                                             *)
(***************************************************************************)

\* Every variable of the executor keeps its type.
ExecutorTypeOK ==
  /\ slots \in [Slots -> [1 .. Components -> SUBSET Experts]]
  /\ residents \subseteq Experts
  /\ slotOf \in [residents -> Slots]
  /\ lastTouch \in [residents -> Nat]
  /\ freeSlots \in Seq(Slots)
  /\ clock \in Nat
  /\ load \in [experts : SUBSET Experts, slot : Slots, copied : 0 .. Components]
  /\ counts \in [hits : Nat, misses : Nat, evictions : Nat, loads : Nat,
                 bytes : Nat, copies : Nat]
  /\ passed \in Nat
  /\ touched \in [Experts -> Nat]

FreeSlots == {freeSlots[i] : i \in DOMAIN freeSlots}

LoadingSlots == IF Idle THEN {} ELSE {load.slot}

(***************************************************************************)
(* Every slot has one use: it is free, or being loaded, or the slot of one *)
(* resident expert.  What is resident is complete: its slot holds all its  *)
(* components and nothing of an earlier expert, also while another expert  *)
(* is being copied.                                                        *)
(***************************************************************************)
SlotsHoldResidents ==
  /\ \A j, k \in residents : slotOf[j] = slotOf[k] => j = k
  /\ \A i, j \in DOMAIN freeSlots : freeSlots[i] = freeSlots[j] => i = j
  /\ \A k \in residents : slotOf[k] \notin FreeSlots \cup LoadingSlots
  /\ FreeSlots \cap LoadingSlots = {}
  /\ \A k \in residents : \A c \in 1 .. Components : slots[slotOf[k]][c] = {k}

(***************************************************************************)
(* The executor implements the recency stack, with a capacity in bytes and *)
(* no slots: hits and misses are those of the stack, event by event.  Its  *)
(* capacity is that of the slots, however few, not that of the predictor.  *)
(* Copies are invisible.                                                   *)
(***************************************************************************)
Recency == INSTANCE RecencyCache WITH
  Capacity   <- slotBytes,
  last       <- touched,
  events     <- clock,
  hits       <- counts.hits,
  misses     <- counts.misses,
  StartsCold <- FALSE

ExecutorImplementsRecencyCache == Recency!Spec

=============================================================================
