---------------------------- MODULE FrontierOfCache ----------------------------
(***************************************************************************)
(* The capacity frontier beside the cache it speaks of: one trace goes     *)
(* through the analysis of CapacityFrontier and, from a cold start, through*)
(* the LRU replay of ByteCache at one capacity.  The two run separately in *)
(* the code; here they take the same event in the same step, so that what  *)
(* the frontier claims of the trace so far can be compared with what the   *)
(* replay has counted.                                                     *)
(***************************************************************************)
EXTENDS ByteCache

VARIABLES lastTouch, reuses, requests, firstUses, floor, events

Frontier == INSTANCE CapacityFrontier

frontierVars == <<lastTouch, reuses, requests, firstUses, floor, events>>
allVars == <<vars, frontierVars>>

FrontierInit == Init /\ Frontier!Init

\* simulate_versioned_byte_cache replays one trace through a new cache.
Begin == workloads = 0 /\ StartWorkload /\ UNCHANGED frontierVars

UnassignedEvent == SkipEvent /\ Frontier!Event({})

RoutingEvent(required) == StartAccess(required) /\ Frontier!Event(required)

\* The replay's own work within an event, and its end.
CacheWork ==
  /\ UNCHANGED frontierVars
  /\ \/ \E victim \in Experts : Evict(victim)
     \/ FinishAccess
     \/ EndWorkload

FrontierNext ==
  \/ Begin
  \/ UnassignedEvent
  \/ \E required \in SUBSET Experts : RoutingEvent(required)
  \/ CacheWork

FrontierSpec == FrontierInit /\ [][FrontierNext]_allVars

-----------------------------------------------------------------------------
(***************************************************************************)
(* Properties.                                                             *)
(***************************************************************************)

\* Requests of the replay that hit, those of the access in progress included.
ReplayedHits == Overall.hits + access.hits

(***************************************************************************)
(* The hits the frontier derives for the capacity of the replay without    *)
(* running it are the hits of the replay, which evicts one victim at a     *)
(* time, after every event; and it does derive them, since whatever the    *)
(* replay accepts is feasible in its capacity.                             *)
(***************************************************************************)
FrontierPredictsCache ==
  /\ Frontier!IsFeasible(Capacity)
  /\ ReplayedHits = Frontier!ExactHitsAt(Capacity)

\* The assertions of _derive_mode, for the frontier beside the cache.
FrontierAccounting == Frontier!AccountingReconciles

(***************************************************************************)
(* The capacities the frontier names mark the line exactly: the replay at  *)
(* this capacity reaches a target's hit fraction if and only if the        *)
(* capacity is at least the target's, and it has a hit if and only if the  *)
(* capacity is at least the first one with a hit.                          *)
(***************************************************************************)
NamedCapacitiesMarkTheLine ==
  /\ \A f \in Frontier!ReachedTargets :
       Capacity >= Frontier!TargetCapacity(f) <=>
         f[2] * ReplayedHits >= f[1] * requests
  /\ reuses # {} =>
       (Capacity >= Frontier!FirstHitCapacity <=> ReplayedHits > 0)

\* A capacity of the referenced working set is enough for every reuse.
WorkingSetIsEnough == Frontier!WorkingSetReachesEveryReuse

=============================================================================
