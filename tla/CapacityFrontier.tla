--------------------------- MODULE CapacityFrontier ---------------------------
(***************************************************************************)
(* The exact capacity frontier of capacity_frontier.py: one pass over the  *)
(* events of a trace that records, for every request after the first, the  *)
(* least LRU capacity at which it would have hit, and derives from those   *)
(* records the hits at every capacity, the breakpoints, the first capacity *)
(* with a hit and the capacities that reach the target hit fractions.      *)
(*                                                                         *)
(* Size is the byte map of byte mode; count mode is Size[k] = 1.           *)
(***************************************************************************)
EXTENDS ExpertBytes, FiniteSetsExt

VARIABLES
  lastTouch,  \* last_touch_event: 1 + the index of the event, 0 if none
  reuses,     \* threshold_counts, kept as the requests it counts
  requests,   \* expert_request_count
  firstUses,  \* first_use_count
  floor,      \* feasibility_floor
  events      \* events passed

frontierVars == <<lastTouch, reuses, requests, firstUses, floor, events>>

Init ==
  /\ lastTouch = [k \in Experts |-> 0]
  /\ reuses = {}
  /\ requests = 0
  /\ firstUses = 0
  /\ floor = 0
  /\ events = 0

\* Slips: experts of one event are not ranked by their key, or an expert is
\* still among those touched after it.
RequiredCapacityUnranked(k) ==
  Bytes({j \in Touched(lastTouch) \ {k} : lastTouch[j] > lastTouch[k]}) + Size[k]

RequiredCapacityCountedTwice(k) ==
  Bytes({j \in Touched(lastTouch) : ~ Older(lastTouch, j, k)}) + Size[k]

\* The least capacity that still holds k: the bytes of all that was touched
\* after it, in the order of (event, key), and its own.
RequiredCapacity(k) ==
  Bytes({j \in Touched(lastTouch) \ {k} : Older(lastTouch, k, j)}) + Size[k]

\* Slip: a request is a reuse only if the event before required it too.
ReusedOfLatestEvent(required) == {k \in required : lastTouch[k] = events}

Reused(required) == required \cap Touched(lastTouch)

(***************************************************************************)
(* One event.  Every request sees the recency state before the event.      *)
(***************************************************************************)
Event(required) ==
  /\ events' = events + 1
  /\ requests' = requests + Cardinality(required)
  /\ floor' = IF Bytes(required) > floor THEN Bytes(required) ELSE floor
  /\ firstUses' = firstUses + Cardinality(required \ Touched(lastTouch))
  /\ reuses' = reuses \cup
       {[event |-> events + 1, key |-> k, capacity |-> RequiredCapacity(k)] :
          k \in Reused(required)}
  /\ lastTouch' = [k \in Experts |->
                     IF k \in required THEN events + 1 ELSE lastTouch[k]]

Next == \E required \in SUBSET Experts : Event(required)

Spec == Init /\ [][Next]_frontierVars

-----------------------------------------------------------------------------
(***************************************************************************)
(* What is derived from the histogram when the trace ends.                 *)
(***************************************************************************)
referencedWorkingSet == Bytes(Touched(lastTouch))

\* exact_hits_at is defined for feasible capacities only.
IsFeasible(capacity) == capacity >= floor

ExactHitsAt(capacity) == Cardinality({r \in reuses : r.capacity <= capacity})

\* The floor, and every required capacity above it; with each of them the hits
\* accumulated so far, which is ExactHitsAt.
Breakpoints == {floor} \cup {r.capacity : r \in {s \in reuses : s.capacity > floor}}

\* first_feasible_capacity_with_observed_hit, if there is a reuse.
FirstHitCapacity == Max({floor, Min({r.capacity : r \in reuses})})

\* TARGET_HIT_FRACTIONS: 25%, 50%, 75%, 90%.
TargetFractions == {<<1, 4>>, <<1, 2>>, <<3, 4>>, <<9, 10>>}

\* Slip: the required hits are rounded down.
RequiredHitsRoundedDown(fraction) == (fraction[1] * requests) \div fraction[2]

\* The required hits of a target, rounded up.
RequiredHits(fraction) ==
  (fraction[1] * requests + fraction[2] - 1) \div fraction[2]

\* The targets with status "reached".
ReachedTargets ==
  {f \in TargetFractions : requests > 0 /\ RequiredHits(f) <= Cardinality(reuses)}

TargetCapacity(fraction) ==
  Min({c \in Breakpoints : ExactHitsAt(c) >= RequiredHits(fraction)})

-----------------------------------------------------------------------------
(***************************************************************************)
(* Properties.                                                             *)
(***************************************************************************)

\* Every variable of the derivation keeps its type.
TypeOK ==
  /\ lastTouch \in [Experts -> 0 .. events]
  /\ reuses \subseteq [event : 1 .. events, key : Experts, capacity : Nat]
  /\ requests \in Nat
  /\ firstUses \in Nat
  /\ floor \in Nat
  /\ events \in Nat

(***************************************************************************)
(* The assertions of _derive_mode: every request is a first use or a       *)
(* reuse, and there are as many first uses as experts referenced.          *)
(***************************************************************************)
AccountingReconciles ==
  /\ firstUses + Cardinality(reuses) = requests
  /\ firstUses = Cardinality(Touched(lastTouch))

(***************************************************************************)
(* A capacity of the referenced working set is feasible and makes every    *)
(* reuse a hit.  The analysis reports reuses / requests as the maximum     *)
(* reachable hit fraction, and target capacities as fractions of the       *)
(* working set, on the strength of this.                                   *)
(***************************************************************************)
WorkingSetReachesEveryReuse ==
  /\ floor <= referencedWorkingSet
  /\ \A r \in reuses : r.capacity <= referencedWorkingSet

=============================================================================
