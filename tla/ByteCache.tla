------------------------------ MODULE ByteCache ------------------------------
(***************************************************************************)
(* The byte-capacity cache simulation of byte_cache.py: the LRU and LFU    *)
(* policies, the access of one routing event that pins its required        *)
(* experts and evicts one victim at a time until the missing ones fit, the *)
(* replay that counts hits, loads and evictions, and the lifecycle that    *)
(* replays several workloads through one cache or through a new cache each.*)
(*                                                                         *)
(* One step is one iteration of the code: the start of an access, one      *)
(* eviction, the touch that ends it, a skipped event, a workload boundary. *)
(***************************************************************************)
EXTENDS ExpertBytes, Sequences

CONSTANTS
  Capacity,      \* capacity_bytes
  Policy,        \* policy_name
  Lifecycle,     \* lifecycle_mode
  MaxEvents,     \* bound: events replayed over all workloads
  MaxWorkloads   \* bound: workloads declared

\* _validate_capacity_bytes, _validate_policy_name, CACHE_LIFECYCLE_MODES
ASSUME CapacityAssumption == Capacity \in Nat \ {0}
ASSUME PolicyAssumption == Policy \in {"lru", "lfu"}
ASSUME LifecycleAssumption ==
  Lifecycle \in {"cold_per_workload", "persistent_sequence"}
ASSUME BoundsAssumption == MaxEvents \in Nat /\ MaxWorkloads \in Nat

VARIABLES
  entries,    \* resident expert -> its frequency (LFU) and last touch
  clock,      \* the policy's clock: accesses in this cache's life
  phase,      \* between workloads, between events, or inside an access
  access,     \* the locals of access_bundle
  counters,   \* the locals of _replay_byte_cache for this workload
  totals,     \* the sums over the workloads already finished
  starting,   \* starting_resident_bytes of this workload
  workloads,  \* workloads started
  touched,    \* history: latest access that required each expert, 0 if none
  log         \* history: the accesses of this cache's life

cacheVars == <<entries, clock, touched, log>>
vars == <<cacheVars, phase, access, counters, totals, starting, workloads>>

resident == DOMAIN entries

NoCounts == [events |-> 0, requests |-> 0, hits |-> 0, misses |-> 0,
             loaded |-> 0, evictions |-> 0, evicted |-> 0, peak |-> 0]

NoAccess == [required |-> {}, missing |-> {}, hits |-> 0, running |-> 0,
             evictions |-> 0, evicted |-> 0]

MaxOf(a, b) == IF a >= b THEN a ELSE b

\* The aggregates of ByteCacheLifecycleSimulation: sums, but a maximal peak.
Merge(c, d) ==
  [events    |-> c.events + d.events,
   requests  |-> c.requests + d.requests,
   hits      |-> c.hits + d.hits,
   misses    |-> c.misses + d.misses,
   loaded    |-> c.loaded + d.loaded,
   evictions |-> c.evictions + d.evictions,
   evicted   |-> c.evicted + d.evicted,
   peak      |-> MaxOf(c.peak, d.peak)]

Overall == Merge(totals, counters)

-----------------------------------------------------------------------------
Init ==
  /\ entries = << >>
  /\ clock = 0
  /\ phase = "idle"
  /\ access = NoAccess
  /\ counters = NoCounts
  /\ totals = NoCounts
  /\ starting = 0
  /\ workloads = 0
  /\ touched = [k \in Experts |-> 0]
  /\ log = << >>

\* Slip: the peak of a replay starts from zero whatever is resident.
StartingCountsForgetResidency(keys) == NoCounts

\* The counters of a replay that starts with these experts resident.
StartingCounts(keys) == [NoCounts EXCEPT !.peak = Bytes(keys)]

(***************************************************************************)
(* The next workload gets the shared policy or a new one, and its peak     *)
(* starts from what is resident already.                                   *)
(***************************************************************************)
StartWorkload ==
  /\ phase = "idle"
  /\ workloads < MaxWorkloads
  /\ workloads' = workloads + 1
  /\ phase' = "ready"
  /\ IF Lifecycle = "cold_per_workload"
       THEN /\ entries' = << >>
            /\ clock' = 0
            /\ touched' = [k \in Experts |-> 0]
            /\ log' = << >>
       ELSE UNCHANGED cacheVars
  /\ starting' = Bytes(DOMAIN entries')
  /\ counters' = StartingCounts(DOMAIN entries')
  /\ UNCHANGED <<access, totals>>

(***************************************************************************)
(* An event without an assigned expert counts as an event and nothing else.*)
(***************************************************************************)
SkipEvent ==
  /\ phase = "ready"
  /\ Overall.events < MaxEvents
  /\ counters' = [counters EXCEPT !.events = @ + 1]
  /\ UNCHANGED <<cacheVars, phase, access, totals, starting, workloads>>

(***************************************************************************)
(* The top of access_bundle.  The replay has checked that the required     *)
(* experts fit the capacity on their own.                                  *)
(***************************************************************************)
StartAccess(required) ==
  /\ phase = "ready"
  /\ Overall.events < MaxEvents
  /\ required # {}
  /\ Bytes(required) <= Capacity
  /\ clock' = clock + 1
  /\ access' = [required  |-> required,
                missing   |-> required \ resident,
                hits      |-> Cardinality(required \cap resident),
                running   |-> Bytes(resident),
                evictions |-> 0,
                evicted   |-> 0]
  /\ phase' = "evicting"
  /\ UNCHANGED <<entries, touched, log, counters, totals, starting, workloads>>

-----------------------------------------------------------------------------
demandLoadBytes == Bytes(access.missing)

\* Slips: an access does not pin what it requires, or also pins what the
\* previous access touched.
candidatesUnpinned == resident

candidatesOverPinned ==
  {k \in resident \ access.required : entries[k].last # clock - 1}

candidates == resident \ access.required

\* Slips: the victim ignores the key on a tie, or ignores the frequency.
EvictedBeforeByHighestKey(j, k) ==
  \/ entries[j].last < entries[k].last
  \/ entries[j].last = entries[k].last /\ j > k

EvictedBeforeByRecency(j, k) ==
  \/ entries[j].last < entries[k].last
  \/ entries[j].last = entries[k].last /\ j < k

\* The order in which _evict_one takes candidates.
EvictedBefore(j, k) ==
  LET touches == [x \in resident |-> entries[x].last]
  IN  \/ /\ Policy = "lfu"
         /\ entries[j].frequency < entries[k].frequency
      \/ /\ Policy = "lfu" => entries[j].frequency = entries[k].frequency
         /\ Older(touches, j, k)

\* Slip: the running total drops by what is needed, not by what was freed.
AfterEvictionByNeed(victim) ==
  [access EXCEPT !.running = @ - demandLoadBytes,
                 !.evictions = @ + 1,
                 !.evicted = @ + Size[victim]]

\* The locals of access_bundle after one eviction.
AfterEviction(victim) ==
  [access EXCEPT !.running = @ - Size[victim],
                 !.evictions = @ + 1,
                 !.evicted = @ + Size[victim]]

(***************************************************************************)
(* One iteration of the eviction loop.                                     *)
(***************************************************************************)
Evict(victim) ==
  /\ phase = "evicting"
  /\ access.running + demandLoadBytes > Capacity
  /\ victim \in candidates
  /\ \A k \in candidates \ {victim} : EvictedBefore(victim, k)
  /\ entries' = [k \in resident \ {victim} |-> entries[k]]
  /\ access' = AfterEviction(victim)
  /\ UNCHANGED <<clock, phase, touched, log, counters, totals, starting,
                 workloads>>

\* Slips: a hit does not renew an entry, or the frequency outlives an eviction.
TouchedEntryOnLoadOnly(k) ==
  [frequency |-> 0, last |-> IF k \in resident THEN entries[k].last ELSE clock]

TouchedEntryWithGhostFrequency(k) ==
  [frequency |-> 1 + Cardinality({i \in DOMAIN log : k \in log[i].required}),
   last      |-> clock]

\* _touch_required: LRU stamps the clock, LFU also counts uses while resident.
TouchedEntry(k) ==
  [frequency |-> IF Policy = "lru" THEN 0
                 ELSE IF k \in resident THEN entries[k].frequency + 1
                 ELSE 1,
   last      |-> clock]

(***************************************************************************)
(* The missing experts fit: touch the required ones, and let the replay    *)
(* add what the access returns to its counters.                            *)
(***************************************************************************)
FinishAccess ==
  /\ phase = "evicting"
  /\ access.running + demandLoadBytes <= Capacity
  /\ entries' = [k \in resident \cup access.required |->
                   IF k \in access.required THEN TouchedEntry(k) ELSE entries[k]]
  /\ counters' =
       [events    |-> counters.events + 1,
        requests  |-> counters.requests + Cardinality(access.required),
        hits      |-> counters.hits + access.hits,
        misses    |-> counters.misses + Cardinality(access.missing),
        loaded    |-> counters.loaded + demandLoadBytes,
        evictions |-> counters.evictions + access.evictions,
        evicted   |-> counters.evicted + access.evicted,
        peak      |-> MaxOf(counters.peak, access.running + demandLoadBytes)]
  /\ touched' = [k \in Experts |->
                   IF k \in access.required THEN clock ELSE touched[k]]
  /\ log' = Append(log, [required |-> access.required, loaded |-> access.missing])
  /\ phase' = "ready"
  /\ access' = NoAccess
  /\ UNCHANGED <<clock, totals, starting, workloads>>

\* The workload's result joins the lifecycle's aggregates.
EndWorkload ==
  /\ phase = "ready"
  /\ totals' = Overall
  /\ counters' = NoCounts
  /\ phase' = "idle"
  /\ UNCHANGED <<cacheVars, access, starting, workloads>>

Next ==
  \/ StartWorkload
  \/ SkipEvent
  \/ \E required \in SUBSET Experts : StartAccess(required)
  \/ \E victim \in Experts : Evict(victim)
  \/ FinishAccess
  \/ EndWorkload

Spec == Init /\ [][Next]_vars

(***************************************************************************)
(* The replay is a loop in one thread: an access that was started is run   *)
(* to its end.                                                             *)
(***************************************************************************)
FairSpec ==
  Spec /\ WF_vars(FinishAccess \/ \E victim \in Experts : Evict(victim))

-----------------------------------------------------------------------------
(***************************************************************************)
(* Properties.                                                             *)
(***************************************************************************)

\* Every variable of the replay keeps its type.
TypeOK ==
  /\ resident \subseteq Experts
  /\ entries \in [resident -> [frequency : Nat, last : Nat]]
  /\ clock \in Nat
  /\ phase \in {"idle", "ready", "evicting"}
  /\ access \in [required : SUBSET Experts, missing : SUBSET Experts,
                 hits : Nat, running : 0 .. Capacity,
                 evictions : Nat, evicted : Nat]
  /\ counters \in [events : Nat, requests : Nat, hits : Nat, misses : Nat,
                   loaded : Nat, evictions : Nat, evicted : Nat, peak : Nat]
  /\ totals \in [events : Nat, requests : Nat, hits : Nat, misses : Nat,
                 loaded : Nat, evictions : Nat, evicted : Nat, peak : Nat]
  /\ starting \in Nat
  /\ workloads \in Nat
  /\ touched \in [Experts -> Nat]

(***************************************************************************)
(* The three assertions of access_bundle never fail: while an access still *)
(* lacks room there is a victim it has not pinned, the running byte count  *)
(* follows the residency through every eviction, and no access ends above  *)
(* the capacity.                                                           *)
(***************************************************************************)
AccessAssertionsHold ==
  /\ phase = "evicting" =>
       /\ access.running = Bytes(resident)
       /\ access.running + demandLoadBytes > Capacity => candidates # {}
       /\ access.running + demandLoadBytes =
            Bytes(resident \cup access.required)
  /\ Bytes(resident) <= Capacity

\* What this cache has counted since it was empty.
CacheLife == IF Lifecycle = "cold_per_workload" THEN counters ELSE Overall

(***************************************************************************)
(* Between accesses the counters of a replay account for the residency:    *)
(* bytes loaded minus bytes evicted is what the workload added to the      *)
(* bytes it started from, loads minus evictions is how many experts are    *)
(* resident, every request is a hit or a miss, and the peak covers both    *)
(* the start and the present.  In a persistent sequence the aggregates do  *)
(* so over all workloads.                                                  *)
(***************************************************************************)
LedgerBalances ==
  phase = "ready" =>
    /\ starting + counters.loaded - counters.evicted = Bytes(resident)
    /\ CacheLife.loaded - CacheLife.evicted = Bytes(resident)
    /\ CacheLife.misses - CacheLife.evictions = Cardinality(resident)
    /\ Overall.hits + Overall.misses = Overall.requests
    /\ MaxOf(starting, Bytes(resident)) <= counters.peak
    /\ counters.peak <= Capacity

(***************************************************************************)
(* Whatever was evicted in whatever order, an LRU cache holds the longest  *)
(* prefix of the recency stack that fits: the fact the capacity frontier   *)
(* rests on, for experts of different sizes and events that need several.  *)
(***************************************************************************)
ResidencyIsRecencyPrefix ==
  Policy = "lru" /\ phase # "evicting" => resident = Fitting(touched, Capacity)

\* The evicting cache implements the stack that never evicts: a step of an
\* access is invisible until the access ends.
Recency == INSTANCE RecencyCache WITH
  last       <- touched,
  events     <- IF phase = "evicting" THEN clock - 1 ELSE clock,
  hits       <- totals.hits + counters.hits,
  misses     <- totals.misses + counters.misses,
  StartsCold <- Lifecycle = "cold_per_workload"

\* LRU hits and misses are those of the recency stack, event by event.
ImplementsRecencyCache == Recency!Spec

\* Reference definition of an LFU frequency, from the log of the accesses: how
\* often k was required since it was last loaded.
LoadsOf(k) == {i \in DOMAIN log : k \in log[i].loaded}

LifetimeUses(k) ==
  Cardinality({i \in DOMAIN log :
                 k \in log[i].required /\ \A j \in LoadsOf(k) : j <= i})

(***************************************************************************)
(* An LFU frequency counts the current residency only: a load starts at    *)
(* one, and nothing of an earlier stay in the cache survives an eviction.  *)
(***************************************************************************)
FrequencyIsResidentLifetime ==
  Policy = "lfu" /\ phase # "evicting" =>
    \A k \in resident : entries[k].frequency = LifetimeUses(k)

(***************************************************************************)
(* What LFU evicts was used no more often in its stay than anything it     *)
(* keeps instead, unless the access has pinned that, and among equals it   *)
(* was used longest ago.                                                   *)
(***************************************************************************)
LeastUsedGoesFirst ==
  [][Policy = "lfu" /\ phase = "evicting" =>
       \A k \in resident \ DOMAIN entries' :
         \A j \in DOMAIN entries' \ access.required :
           \/ LifetimeUses(k) < LifetimeUses(j)
           \/ LifetimeUses(k) = LifetimeUses(j) /\ Older(touched, k, j)]_vars

\* An access that starts ends: evicting always makes room.
EveryAccessCompletes == (phase = "evicting") ~> (phase = "ready")

=============================================================================
