------------------------------ MODULE EntryCache ------------------------------
(***************************************************************************)
(* The entry-capacity cache replay of cache.py: LRU and LFU caches that    *)
(* start empty, and two fixed-frequency caches that are warmed with the    *)
(* most frequent experts of a selection and restored to them after every   *)
(* bundle.  The selection is another set of bundles (calibrated) or the    *)
(* bundles to be replayed (oracle).                                        *)
(***************************************************************************)
EXTENDS ExpertBytes, Sequences

CONSTANTS
  Capacity,     \* capacity, in experts
  Layer,        \* Layer[k]: the layer of expert k
  MaxBundles,   \* bound: bundles replayed
  MaxSelected   \* bound: bundles of a selection

ASSUME EntryCapacityAssumption == Capacity \in Nat \ {0}
ASSUME LayerAssumption == Layer \in [Experts -> Nat]
ASSUME BundleBoundsAssumption == MaxBundles \in Nat /\ MaxSelected \in Nat

Dynamic == {"lru", "lfu"}
Fixed == {"calibrated_static_frequency", "offline_oracle_frequency"}

\* The rows of a result, and the phases a bundle can have.
Phases == {"prompt", "generated"}
Rows == Phases \cup {"combined"}

VARIABLES
  policy,     \* policy_name
  selection,  \* the bundles targets are selected from
  targets,    \* target_entries
  entries,    \* resident expert -> its frequency and last touch
  clock,      \* the clock of a dynamic policy
  stage,      \* "selecting", "ready", or inside access_bundle
  access,     \* the locals of access_bundle
  rows,       \* the counters of each row
  replayed    \* bundles replayed

cacheVars == <<entries, clock, access>>
vars == <<policy, selection, targets, cacheVars, stage, rows, replayed>>

resident == DOMAIN entries

NoCounts == [samples |-> 0, requests |-> 0, hits |-> 0, misses |-> 0,
             prewarm |-> 0, demand |-> 0, evictions |-> 0]

NoAccess == [required |-> {}, phase |-> "prompt", hits |-> 0, misses |-> 0,
             missing |-> {}, displaced |-> {}, evictions |-> 0]

\* A fixed-frequency cache is a set of experts without stamps.
Held(S) == [k \in S |-> [frequency |-> 0, last |-> 0]]

\* A bundle requires experts of one layer.
IsBundle(required) ==
  /\ required # {}
  /\ \A j, k \in required : Layer[j] = Layer[k]

-----------------------------------------------------------------------------
Init ==
  /\ policy \in Dynamic \cup Fixed
  /\ selection = << >>
  /\ targets = {}
  /\ entries = << >>
  /\ clock = 0
  /\ stage = "selecting"
  /\ access = NoAccess
  /\ rows = [r \in Rows |-> NoCounts]
  /\ replayed = 0

(***************************************************************************)
(* The selection is given one bundle at a time.  The oracle selects from   *)
(* what it replays, which has passed the capacity check.                   *)
(***************************************************************************)
Select(required) ==
  /\ stage = "selecting"
  /\ policy \in Fixed
  /\ Len(selection) < MaxSelected
  /\ IsBundle(required)
  /\ policy = "offline_oracle_frequency" => Cardinality(required) <= Capacity
  /\ selection' = Append(selection, required)
  /\ UNCHANGED <<policy, targets, cacheVars, stage, rows, replayed>>

\* An expert counts once for every bundle that requires it.
Frequency(k) == Cardinality({i \in DOMAIN selection : k \in selection[i]})

\* Slip: the counts are sorted upwards.
RankedBeforeUpwards(j, k) ==
  \/ Frequency(j) < Frequency(k)
  \/ Frequency(j) = Frequency(k) /\ j < k

RankedBefore(j, k) ==
  \/ Frequency(j) > Frequency(k)
  \/ Frequency(j) = Frequency(k) /\ j < k

\* The first Capacity experts of that ranking.
FrequencyTargets ==
  LET counted == {k \in Experts : Frequency(k) > 0}
  IN  {k \in counted :
         Cardinality({j \in counted : RankedBefore(j, k)}) < Capacity}

(***************************************************************************)
(* The policy is made: a fixed one is warmed with its targets, which is    *)
(* charged to the combined row only.  Calibration bundles are not needed   *)
(* any more, but the oracle's are what it replays.                         *)
(***************************************************************************)
BeginReplay ==
  /\ stage = "selecting"
  /\ targets' = FrequencyTargets
  /\ entries' = Held(FrequencyTargets)
  /\ rows' = [rows EXCEPT !["combined"].prewarm = Cardinality(FrequencyTargets)]
  /\ selection' = IF policy = "calibrated_static_frequency" THEN << >> ELSE selection
  /\ stage' = "ready"
  /\ UNCHANGED <<policy, clock, access, replayed>>

\* The oracle replays its selection, the others any bundles that fit: each
\* bundle may open a prompt of its own, in either phase.
MayReplay(required) ==
  /\ IsBundle(required)
  /\ Cardinality(required) <= Capacity
  /\ replayed < MaxBundles
  /\ policy = "offline_oracle_frequency" =>
       replayed < Len(selection) /\ required = selection[replayed + 1]

\* access_bundle starts: hits are what is resident now.
StartBundle(required, phase) ==
  /\ stage = "ready"
  /\ MayReplay(required)
  /\ clock' = IF policy \in Dynamic THEN clock + 1 ELSE clock
  /\ access' = [NoAccess EXCEPT
                  !.required = required,
                  !.phase = phase,
                  !.hits = Cardinality(required \cap resident),
                  !.misses = Cardinality(required \ resident),
                  !.missing = required \ resident]
  /\ stage' = IF policy \in Dynamic THEN "evicting" ELSE "displacing"
  /\ UNCHANGED <<policy, selection, targets, entries, rows, replayed>>

-----------------------------------------------------------------------------
(***************************************************************************)
(* LRU and LFU: victims leave one by one until the misses fit.             *)
(***************************************************************************)
\* Slip: an LFU tie goes to the key, whatever was used last.
EvictedBeforeWithoutAge(j, k) ==
  \/ entries[j].frequency < entries[k].frequency
  \/ entries[j].frequency = entries[k].frequency /\ j < k

EvictedBefore(j, k) ==
  \/ entries[j].frequency < entries[k].frequency
  \/ /\ entries[j].frequency = entries[k].frequency
     /\ \/ entries[j].last < entries[k].last
        \/ entries[j].last = entries[k].last /\ j < k

Evict(victim) ==
  /\ stage = "evicting"
  /\ Cardinality(resident) + access.misses > Capacity
  /\ victim \in resident \ access.required
  /\ \A k \in resident \ (access.required \cup {victim}) : EvictedBefore(victim, k)
  /\ entries' = [k \in resident \ {victim} |-> entries[k]]
  /\ access' = [access EXCEPT !.evictions = @ + 1]
  /\ UNCHANGED <<policy, selection, targets, clock, stage, rows, replayed>>

\* LFU frequencies count the uses of one stay in the cache.
TouchedEntry(k) ==
  [frequency |-> IF policy = "lru" THEN 0
                 ELSE IF k \in resident THEN entries[k].frequency + 1
                 ELSE 1,
   last      |-> clock]

\* The counters of one row after the access.
Counted(row, demandLoads, evictions) ==
  [row EXCEPT !.samples = @ + 1,
              !.requests = @ + Cardinality(access.required),
              !.hits = @ + access.hits,
              !.misses = @ + access.misses,
              !.demand = @ + demandLoads,
              !.evictions = @ + evictions]

\* access_bundle returns: the combined row and that of the phase are counted.
Return(demandLoads, evictions) ==
  /\ rows' = [r \in Rows |->
                IF r \in {"combined", access.phase}
                  THEN Counted(rows[r], demandLoads, evictions)
                  ELSE rows[r]]
  /\ replayed' = replayed + 1
  /\ stage' = "ready"
  /\ access' = NoAccess
  /\ UNCHANGED <<policy, selection, targets, clock>>

Touch ==
  /\ stage = "evicting"
  /\ Cardinality(resident) + access.misses <= Capacity
  /\ entries' = [k \in resident \cup access.required |->
                   IF k \in access.required THEN TouchedEntry(k) ELSE entries[k]]
  /\ Return(access.misses, access.evictions)

-----------------------------------------------------------------------------
(***************************************************************************)
(* Fixed frequencies: make room, run the bundle, restore the targets.      *)
(***************************************************************************)
\* Slip: the room that is free already is counted as one more.
DisplacementCountOffByOne ==
  LET excess == Cardinality(resident) + access.misses - (Capacity + 1)
  IN  IF excess > 0 THEN excess ELSE 0

DisplacementCount ==
  LET excess == Cardinality(resident) + access.misses - Capacity
  IN  IF excess > 0 THEN excess ELSE 0

\* The first experts, by key, of those that are not required.
Displaced ==
  LET others == resident \ access.required
  IN  {k \in others : Cardinality({j \in others : j < k}) < DisplacementCount}

Displace ==
  /\ stage = "displacing"
  /\ entries' = Held((resident \ Displaced) \cup access.missing)
  /\ access' = [access EXCEPT !.displaced = Displaced]
  /\ stage' = "restoring"
  /\ UNCHANGED <<policy, selection, targets, clock, rows, replayed>>

\* Slips: the displaced targets are not loaded again, or loading them is free.
RestoredWithoutDisplaced == resident \ access.missing

Restored == (resident \ access.missing) \cup access.displaced

DemandLoadsWithoutRestoration == access.misses

DemandLoads == access.misses + Cardinality(access.displaced)

\* What was missing leaves again, and what was displaced is loaded again.
Restore ==
  /\ stage = "restoring"
  /\ entries' = Held(Restored)
  /\ Return(DemandLoads, access.misses + Cardinality(access.displaced))

Next ==
  \/ \E required \in SUBSET Experts : Select(required)
  \/ BeginReplay
  \/ \E required \in SUBSET Experts, phase \in Phases : StartBundle(required, phase)
  \/ \E victim \in Experts : Evict(victim)
  \/ Touch
  \/ Displace
  \/ Restore

Spec == Init /\ [][Next]_vars

-----------------------------------------------------------------------------
(***************************************************************************)
(* Properties.                                                             *)
(***************************************************************************)

\* Every variable keeps its type, and no step exceeds the capacity.
EntryTypeOK ==
  /\ policy \in Dynamic \cup Fixed
  /\ selection \in Seq(SUBSET Experts)
  /\ targets \subseteq Experts
  /\ resident \subseteq Experts
  /\ Cardinality(resident) <= Capacity
  /\ entries \in [resident -> [frequency : Nat, last : Nat]]
  /\ clock \in Nat
  /\ stage \in {"selecting", "ready", "evicting", "displacing", "restoring"}
  /\ access \in [required : SUBSET Experts, phase : Phases, hits : Nat,
                 misses : Nat, missing : SUBSET Experts,
                 displaced : SUBSET Experts, evictions : Nat]
  /\ rows \in [Rows -> [samples : Nat, requests : Nat, hits : Nat, misses : Nat,
                        prewarm : Nat, demand : Nat, evictions : Nat]]
  /\ replayed \in Nat

(***************************************************************************)
(* A fixed-frequency cache holds exactly its targets between bundles: no   *)
(* sequence of bundles that mix targets and others, with or without room   *)
(* to spare, lets the cache drift from what was selected.  In the middle   *)
(* of a bundle all that it requires is resident at once.                   *)
(***************************************************************************)
TargetsRestored ==
  policy \in Fixed =>
    /\ stage = "ready" => resident = targets
    /\ stage = "restoring" => access.required \subseteq resident

(***************************************************************************)
(* The rows account for each other and for the cache: the phases add up to *)
(* the combined row, which alone has the prewarm; loads that are not       *)
(* evictions are what is resident; and each request hits or misses.        *)
(***************************************************************************)
RowsReconcile ==
  stage = "ready" =>
    LET all == rows["combined"]
        adds(field) ==
          all[field] = rows["prompt"][field] + rows["generated"][field]
    IN  /\ \A field \in (DOMAIN NoCounts) \ {"prewarm"} : adds(field)
        /\ \A r \in Phases : rows[r].prewarm = 0
        /\ all.prewarm + all.demand - all.evictions = Cardinality(resident)
        /\ \A r \in Rows : rows[r].hits + rows[r].misses = rows[r].requests
        /\ all.samples = replayed

\* The hits of a cache that always holds T, over the whole selection.
HitsOfFixed(T) ==
  Cardinality({h \in (DOMAIN selection) \X T : h[2] \in selection[h[1]]})

(***************************************************************************)
(* The oracle is one: having replayed what it selected from, it has as     *)
(* many hits as any fixed set of experts within the capacity could have.   *)
(***************************************************************************)
OracleIsBestFixed ==
  policy = "offline_oracle_frequency" /\ stage = "ready"
    /\ replayed = Len(selection) =>
      \A T \in SUBSET Experts :
        Cardinality(T) <= Capacity => HitsOfFixed(T) <= rows["combined"].hits

=============================================================================
