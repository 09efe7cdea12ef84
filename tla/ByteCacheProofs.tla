--------------------------- MODULE ByteCacheProofs ---------------------------
(***************************************************************************)
(* Theorems about ByteCache, for every set of experts, every size, every   *)
(* capacity and any number of events and workloads.                        *)
(***************************************************************************)
EXTENDS ByteCache, ExpertBytesProofs

(***************************************************************************)
(* Part 1: types, and the assertions of access_bundle.                     *)
(*                                                                         *)
(* TypeOK alone is not inductive: that the running total stays a number of *)
(* bytes needs the locals of an access tied to the residency.              *)
(***************************************************************************)

\* What the locals of an access say of the residency until it ends.
AccessInv ==
  phase = "evicting" =>
    /\ access.required # {}
    /\ Bytes(access.required) <= Capacity
    /\ access.missing = access.required \ resident
    /\ access.hits = Cardinality(access.required \cap resident)
    /\ access.running = Bytes(resident)

Fits == Bytes(resident) <= Capacity

SafetyInv == TypeOK /\ AccessInv /\ Fits

USE CapacityAssumption, LifecycleAssumption, PolicyAssumption DEF resident

\* Counters of any replay are natural numbers, and so are merged ones.
LEMMA CountsType ==
  LET Counts == [events : Nat, requests : Nat, hits : Nat, misses : Nat,
                 loaded : Nat, evictions : Nat, evicted : Nat, peak : Nat]
  IN  /\ NoCounts \in Counts
      /\ \A c, d \in Counts : Merge(c, d) \in Counts
      /\ \A keys \in SUBSET Experts : StartingCounts(keys) \in Counts
<1>1. \A keys \in SUBSET Experts : Bytes(keys) \in Nat
  BY CellsFinite
<1> QED
  BY <1>1 DEF NoCounts, Merge, MaxOf, StartingCounts

\* During an access the running total plus the demand is what the cache would
\* hold with every required expert in it.
LEMMA DemandMeetsResidency ==
  ASSUME SafetyInv, phase = "evicting"
  PROVE  /\ access.required \in SUBSET Experts
         /\ access.missing \in SUBSET Experts
         /\ resident \in SUBSET Experts
         /\ demandLoadBytes \in Nat
         /\ access.running \in Nat
         /\ access.running + demandLoadBytes = Bytes(resident \cup access.required)
<1>1. /\ access.required \in SUBSET Experts
      /\ access.missing \in SUBSET Experts
      /\ resident \in SUBSET Experts
      /\ access.running \in Nat
  BY DEF SafetyInv, TypeOK
<1>2. /\ access.missing = access.required \ resident
      /\ access.running = Bytes(resident)
  BY DEF SafetyInv, AccessInv
<1>3. resident \cap access.missing = {}
  BY <1>2
<1>4. resident \cup access.required = resident \cup access.missing
  BY <1>2
<1>5. Bytes(resident \cup access.missing) = Bytes(resident) + Bytes(access.missing)
  BY <1>1, <1>3, BytesOfUnion
<1>6. demandLoadBytes \in Nat
  BY <1>1, CellsFinite DEF demandLoadBytes
<1> QED
  BY <1>1, <1>2, <1>4, <1>5, <1>6 DEF demandLoadBytes

\* While an access lacks room, something it has not pinned is resident.
LEMMA EvictionIsNeverStuck ==
  ASSUME SafetyInv, phase = "evicting",
         access.running + demandLoadBytes > Capacity
  PROVE  candidates # {}
<1>1. ASSUME candidates = {} PROVE FALSE
  <2>1. resident \cup access.required = access.required
    BY <1>1 DEF candidates
  <2>2. Bytes(access.required) <= Capacity /\ Bytes(access.required) \in Nat
    BY DemandMeetsResidency, CellsFinite DEF SafetyInv, AccessInv
  <2>3. access.running + demandLoadBytes = Bytes(access.required)
    BY <2>1, DemandMeetsResidency
  <2> QED
    BY <2>2, <2>3
<1> QED
  BY <1>1

LEMMA SafetyInvImpliesAssertions == SafetyInv => AccessAssertionsHold
BY EvictionIsNeverStuck, DemandMeetsResidency
   DEF AccessAssertionsHold, SafetyInv, AccessInv, Fits

-----------------------------------------------------------------------------
LEMMA InitSafety == Init => SafetyInv
<1> SUFFICES ASSUME Init PROVE SafetyInv
  OBVIOUS
<1>1. resident = {} /\ entries \in [{} -> [frequency : Nat, last : Nat]]
  BY DEF Init
<1>2. Bytes(resident) = 0
  BY <1>1, BytesOfNone
<1>3. TypeOK
  BY <1>1, CountsType DEF Init, TypeOK, NoAccess
<1> QED
  BY <1>2, <1>3 DEF Init, SafetyInv, AccessInv, Fits

LEMMA StartWorkloadSafety == SafetyInv /\ StartWorkload => SafetyInv'
<1> SUFFICES ASSUME SafetyInv, StartWorkload PROVE SafetyInv'
  OBVIOUS
<1>1. /\ resident' \in SUBSET Experts
      /\ entries' \in [resident' -> [frequency : Nat, last : Nat]]
      /\ clock' \in Nat
      /\ touched' \in [Experts -> Nat]
      /\ Bytes(resident') <= Capacity
  <2>1. CASE Lifecycle = "cold_per_workload"
    <3>1. entries' = << >> /\ resident' = {}
      BY <2>1 DEF StartWorkload
    <3> QED
      BY <2>1, <3>1, BytesOfNone DEF StartWorkload
  <2>2. CASE Lifecycle # "cold_per_workload"
    BY <2>2 DEF StartWorkload, cacheVars, SafetyInv, TypeOK, Fits
  <2> QED
    BY <2>1, <2>2
<1>2. Bytes(resident') \in Nat
  BY <1>1, CellsFinite
<1>3. counters' = StartingCounts(resident') /\ starting' = Bytes(resident')
  BY DEF StartWorkload
<1>4. counters' \in [events : Nat, requests : Nat, hits : Nat, misses : Nat,
                     loaded : Nat, evictions : Nat, evicted : Nat, peak : Nat]
  BY <1>1, <1>3, CountsType
<1>5. /\ phase' = "ready"
      /\ workloads' = workloads + 1
      /\ UNCHANGED <<access, totals>>
  BY DEF StartWorkload
<1>6. TypeOK'
  BY <1>1, <1>2, <1>3, <1>4, <1>5 DEF SafetyInv, TypeOK
<1> QED
  BY <1>1, <1>5, <1>6 DEF SafetyInv, AccessInv, Fits

LEMMA StartAccessSafety ==
  ASSUME NEW required \in SUBSET Experts, SafetyInv, StartAccess(required)
  PROVE  SafetyInv'
<1>1. resident \in SUBSET Experts /\ Bytes(resident) <= Capacity /\ Bytes(resident) \in Nat
  BY CellsFinite DEF SafetyInv, TypeOK, Fits
<1>2. Cardinality(required \cap resident) \in Nat
  <2>1. IsFiniteSet(required \cap resident)
    BY <1>1, CellsFinite
  <2> QED
    BY <2>1, FS_CardinalityType
<1>3. resident' = resident
  BY DEF StartAccess
<1>4. access' \in [required : SUBSET Experts, missing : SUBSET Experts,
                   hits : Nat, running : 0 .. Capacity,
                   evictions : Nat, evicted : Nat]
  BY <1>1, <1>2 DEF StartAccess
<1>5. TypeOK'
  BY <1>3, <1>4 DEF StartAccess, SafetyInv, TypeOK
<1>6. AccessInv'
  BY <1>3 DEF StartAccess, AccessInv
<1> QED
  BY <1>1, <1>3, <1>5, <1>6 DEF SafetyInv, Fits

LEMMA EvictSafety ==
  ASSUME NEW victim \in Experts, SafetyInv, Evict(victim)
  PROVE  SafetyInv'
<1>1. /\ resident \in SUBSET Experts
      /\ victim \in resident \ access.required
      /\ resident' = resident \ {victim}
  BY DEF Evict, candidates, SafetyInv, TypeOK
<1>2. Bytes(resident') = Bytes(resident) - Size[victim]
  BY <1>1, BytesOfRemoval
<1>3. /\ Bytes(resident) \in Nat /\ Bytes(resident') \in Nat
      /\ Size[victim] \in Nat
      /\ Bytes(resident) <= Capacity
      /\ Bytes(resident') <= Capacity
  BY <1>1, <1>2, CellsFinite, SizeAssumption DEF SafetyInv, Fits
<1>4. access.running = Bytes(resident) /\ phase = "evicting"
  BY DEF Evict, SafetyInv, AccessInv
<1>5. /\ access'.required = access.required
      /\ access'.missing = access.missing
      /\ access'.hits = access.hits
      /\ access'.running = access.running - Size[victim]
  BY DEF Evict, AfterEviction, SafetyInv, TypeOK
<1>6. access' \in [required : SUBSET Experts, missing : SUBSET Experts,
                   hits : Nat, running : 0 .. Capacity,
                   evictions : Nat, evicted : Nat]
  <2>1. access.running - Size[victim] \in 0 .. Capacity
    BY <1>2, <1>3, <1>4
  <2>2. access.evictions + 1 \in Nat /\ access.evicted + Size[victim] \in Nat
    BY <1>3 DEF SafetyInv, TypeOK
  <2> QED
    BY <2>1, <2>2 DEF Evict, AfterEviction, SafetyInv, TypeOK
<1>7. entries' \in [resident' -> [frequency : Nat, last : Nat]]
  BY <1>1 DEF Evict, SafetyInv, TypeOK
<1>8. TypeOK'
  BY <1>1, <1>6, <1>7 DEF Evict, SafetyInv, TypeOK
<1>9. AccessInv'
  <2>1. access.required \ resident = access.required \ resident'
    BY <1>1
  <2>2. access.required \cap resident = access.required \cap resident'
    BY <1>1
  <2> QED
    BY <1>2, <1>4, <1>5, <2>1, <2>2 DEF Evict, SafetyInv, AccessInv
<1> QED
  BY <1>3, <1>8, <1>9 DEF SafetyInv, Fits

LEMMA FinishAccessSafety == SafetyInv /\ FinishAccess => SafetyInv'
<1> SUFFICES ASSUME SafetyInv, FinishAccess PROVE SafetyInv'
  OBVIOUS
<1>1. phase = "evicting" /\ access.running + demandLoadBytes <= Capacity
  BY DEF FinishAccess
<1>2. resident' = resident \cup access.required
  BY DEF FinishAccess
<1>3. Bytes(resident') <= Capacity
  BY <1>1, <1>2, DemandMeetsResidency
<1>4. \A k \in access.required : TouchedEntry(k) \in [frequency : Nat, last : Nat]
  BY DEF TouchedEntry, SafetyInv, TypeOK
<1>5. entries' \in [resident' -> [frequency : Nat, last : Nat]]
  BY <1>2, <1>4 DEF FinishAccess, SafetyInv, TypeOK
<1>6. resident' \in SUBSET Experts
  BY <1>1, <1>2, DemandMeetsResidency
<1>7. /\ Cardinality(access.required) \in Nat
      /\ Cardinality(access.missing) \in Nat
  BY <1>1, DemandMeetsResidency, CellsFinite, FS_CardinalityType
<1>8. counters' \in [events : Nat, requests : Nat, hits : Nat, misses : Nat,
                     loaded : Nat, evictions : Nat, evicted : Nat, peak : Nat]
  <2>1. demandLoadBytes \in Nat /\ access.running + demandLoadBytes \in Nat
    BY <1>1, DemandMeetsResidency
  <2>2. MaxOf(counters.peak, access.running + demandLoadBytes) \in Nat
    BY <2>1 DEF MaxOf, SafetyInv, TypeOK
  <2>3. /\ access.hits \in Nat
        /\ access.evictions \in Nat
        /\ access.evicted \in Nat
    BY DEF SafetyInv, TypeOK
  <2>4. /\ counters.events + 1 \in Nat
        /\ counters.requests + Cardinality(access.required) \in Nat
        /\ counters.hits + access.hits \in Nat
        /\ counters.misses + Cardinality(access.missing) \in Nat
        /\ counters.loaded + demandLoadBytes \in Nat
        /\ counters.evictions + access.evictions \in Nat
        /\ counters.evicted + access.evicted \in Nat
    BY <1>7, <2>1, <2>3 DEF SafetyInv, TypeOK
  <2> QED
    BY <2>2, <2>4 DEF FinishAccess
<1>9. TypeOK'
  <2>1. touched' \in [Experts -> Nat]
    BY DEF FinishAccess, SafetyInv, TypeOK
  <2>2. access' \in [required : SUBSET Experts, missing : SUBSET Experts,
                     hits : Nat, running : 0 .. Capacity,
                     evictions : Nat, evicted : Nat]
    BY DEF FinishAccess, NoAccess
  <2>3. /\ phase' = "ready"
        /\ UNCHANGED <<clock, totals, starting, workloads>>
    BY DEF FinishAccess
  <2> QED
    BY <1>5, <1>6, <1>8, <2>1, <2>2, <2>3 DEF SafetyInv, TypeOK
<1> QED
  BY <1>3, <1>9 DEF FinishAccess, SafetyInv, AccessInv, Fits

LEMMA NextSafety == SafetyInv /\ [Next]_vars => SafetyInv'
<1> SUFFICES ASSUME SafetyInv, [Next]_vars PROVE SafetyInv'
  OBVIOUS
<1>1. CASE StartWorkload
  BY <1>1, StartWorkloadSafety
<1>2. CASE SkipEvent
  BY <1>2 DEF SkipEvent, cacheVars, SafetyInv, TypeOK, AccessInv, Fits
<1>3. ASSUME NEW required \in SUBSET Experts, StartAccess(required)
      PROVE  SafetyInv'
  BY <1>3, StartAccessSafety
<1>4. ASSUME NEW victim \in Experts, Evict(victim)
      PROVE  SafetyInv'
  BY <1>4, EvictSafety
<1>5. CASE FinishAccess
  BY <1>5, FinishAccessSafety
<1>6. CASE EndWorkload
  BY <1>6, CountsType
     DEF EndWorkload, cacheVars, Overall, SafetyInv, TypeOK, AccessInv, Fits
<1>7. CASE UNCHANGED vars
  BY <1>7 DEF vars, cacheVars, SafetyInv, TypeOK, AccessInv, Fits
<1> QED
  BY <1>1, <1>2, <1>3, <1>4, <1>5, <1>6, <1>7 DEF Next

LEMMA SafetyInvariant == Spec => []SafetyInv
<1> QED
  BY InitSafety, NextSafety, PTL DEF Spec

(***************************************************************************)
(* Type correctness of the byte replay, running total included: it never   *)
(* goes below zero or above the capacity.                                  *)
(***************************************************************************)
THEOREM ByteCacheTypeOK == Spec => []TypeOK
<1>1. SafetyInv => TypeOK
  BY DEF SafetyInv
<1> QED
  BY <1>1, SafetyInvariant, PTL

(***************************************************************************)
(* The assertions in access_bundle never fire: for any sizes and capacity, *)
(* once an event passed the working-set check of the replay its access     *)
(* finds room without touching what it pinned.                             *)
(***************************************************************************)
THEOREM ByteCacheAssertionsHold == Spec => []AccessAssertionsHold
<1> QED
  BY SafetyInvariant, SafetyInvImpliesAssertions, PTL

-----------------------------------------------------------------------------
(***************************************************************************)
(* Part 2: LRU residency is the longest fitting prefix of the recency      *)
(* stack.                                                                  *)
(*                                                                         *)
(* The property speaks of the states between accesses.  To carry it across *)
(* an access it is strengthened to what holds while victims leave one by   *)
(* one: what may still be evicted is the upper part of the stack, and what *)
(* has gone would not fit below the required experts.                      *)
(***************************************************************************)

\* The cache's own clock stamps are the history of required experts.
TouchInv ==
  /\ \A k \in resident : touched[k] # 0 /\ entries[k].last = touched[k]
  /\ \A k \in Experts : touched[k] <= IF phase = "evicting" THEN clock - 1 ELSE clock
  /\ phase = "evicting" => clock >= 1

\* In the middle of an LRU access.
EvictingPrefix ==
  /\ access.required \cap resident = access.required \cap Fitting(touched, Capacity)
  /\ \A j \in candidates : \A k \in Touched(touched) \ access.required :
       Older(touched, j, k) => k \in resident
  /\ \A k \in Touched(touched) \ (resident \cup access.required) :
       Bytes(access.required \cup Stack(touched, k)) > Capacity

PrefixInv ==
  Policy = "lru" => IF phase = "evicting"
                      THEN EvictingPrefix
                      ELSE resident = Fitting(touched, Capacity)

RecencyInv == SafetyInv /\ TouchInv /\ PrefixInv

\* The recency order of experts is a strict total order.
LEMMA OlderIsTotalOrder ==
  ASSUME NEW last \in [Experts -> Nat]
  PROVE  /\ \A j \in Experts : ~ Older(last, j, j)
         /\ \A j, k \in Experts : j # k => Older(last, j, k) \/ Older(last, k, j)
         /\ \A j, k \in Experts : Older(last, j, k) => ~ Older(last, k, j)
         /\ \A i, j, k \in Experts :
              Older(last, i, j) /\ Older(last, j, k) => Older(last, i, k)
BY ExpertsAssumption DEF Older

\* The stack above a more recent expert is part of the stack above an older one.
LEMMA StacksNest ==
  ASSUME NEW last \in [Experts -> Nat],
         NEW j \in Experts, NEW k \in Experts, Older(last, j, k)
  PROVE  Stack(last, k) \in SUBSET Stack(last, j)
<1> SUFFICES ASSUME NEW i \in Stack(last, k) PROVE i \in Stack(last, j)
  OBVIOUS
<1>1. i \in Touched(last) /\ i \in Experts /\ ~ Older(last, i, k)
  BY DEF Stack, Touched
<1>2. ~ Older(last, i, j)
  BY <1>1, OlderIsTotalOrder
<1> QED
  BY <1>1, <1>2 DEF Stack

\* A stack is a set of experts, and so is a fitting prefix.
LEMMA StackType ==
  ASSUME NEW last, NEW k, NEW capacity
  PROVE  /\ Touched(last) \in SUBSET Experts
         /\ Stack(last, k) \in SUBSET Experts
         /\ Fitting(last, capacity) \in SUBSET Experts
BY DEF Touched, Stack, Fitting

-----------------------------------------------------------------------------
LEMMA StartAccessRecency ==
  ASSUME NEW required \in SUBSET Experts, RecencyInv, StartAccess(required)
  PROVE  TouchInv' /\ PrefixInv'
<1>1. /\ resident' = resident
      /\ UNCHANGED <<entries, touched>>
      /\ phase = "ready" /\ phase' = "evicting"
      /\ clock' = clock + 1 /\ clock \in Nat
      /\ access'.required = required
      /\ touched \in [Experts -> Nat]
  BY DEF StartAccess, RecencyInv, SafetyInv, TypeOK
<1>2. TouchInv'
  BY <1>1 DEF RecencyInv, TouchInv
<1>3. ASSUME Policy = "lru" PROVE EvictingPrefix'
  <2>1. resident = Fitting(touched, Capacity)
    BY <1>1, <1>3 DEF RecencyInv, PrefixInv
  <2>2. ASSUME NEW j \in resident, NEW k \in Touched(touched),
               Older(touched, j, k)
        PROVE  k \in resident
    <3>1. j \in Experts /\ k \in Experts
      BY <1>1, <2>1, StackType DEF Touched
    <3>2. Stack(touched, k) \in SUBSET Stack(touched, j)
      BY <1>1, <2>2, <3>1, StacksNest
    <3>3. Bytes(Stack(touched, j)) <= Capacity
      BY <2>1 DEF Fitting
    <3>4. Bytes(Stack(touched, k)) <= Bytes(Stack(touched, j))
      BY <3>2, StackType, BytesMonotone
    <3>5. /\ Bytes(Stack(touched, k)) \in Nat
          /\ Bytes(Stack(touched, j)) \in Nat
      BY StackType, CellsFinite
    <3> QED
      BY <2>1, <3>3, <3>4, <3>5 DEF Fitting
  <2>3. ASSUME NEW k \in Touched(touched) \ (resident \cup required)
        PROVE  Bytes(required \cup Stack(touched, k)) > Capacity
    <3>1. required \cup Stack(touched, k) \in SUBSET Experts
      BY StackType
    <3>2. /\ Bytes(Stack(touched, k)) \in Nat
          /\ Bytes(required \cup Stack(touched, k)) \in Nat
      BY <3>1, StackType, CellsFinite
    <3>3. ~ (Bytes(Stack(touched, k)) <= Capacity)
      BY <2>1, <2>3 DEF Fitting
    <3>4. Bytes(Stack(touched, k)) <= Bytes(required \cup Stack(touched, k))
      BY <3>1, BytesMonotone
    <3> QED
      BY <3>2, <3>3, <3>4
  <2>4. candidates' = resident \ required
    BY <1>1 DEF candidates
  <2> QED
    BY <1>1, <2>1, <2>2, <2>3, <2>4 DEF EvictingPrefix
<1> QED
  BY <1>1, <1>2, <1>3 DEF PrefixInv

LEMMA EvictRecency ==
  ASSUME NEW victim \in Experts, RecencyInv, Evict(victim)
  PROVE  TouchInv' /\ PrefixInv'
<1>1. /\ resident \in SUBSET Experts
      /\ victim \in candidates
      /\ candidates = resident \ access.required
      /\ resident' = resident \ {victim}
      /\ entries' = [k \in resident \ {victim} |-> entries[k]]
      /\ UNCHANGED <<touched, clock, phase>>
      /\ phase = "evicting"
      /\ touched \in [Experts -> Nat]
  BY DEF Evict, candidates, RecencyInv, SafetyInv, TypeOK
<1>2. access'.required = access.required /\ access.required \in SUBSET Experts
  BY DEF Evict, AfterEviction, RecencyInv, SafetyInv, TypeOK
<1>3. TouchInv'
  BY <1>1 DEF RecencyInv, TouchInv
<1>4. ASSUME Policy = "lru" PROVE EvictingPrefix'
  <2>1. EvictingPrefix
    BY <1>1, <1>4 DEF RecencyInv, PrefixInv
  <2>2. \A k \in candidates \ {victim} : Older(touched, victim, k)
    <3>1. ASSUME NEW k \in candidates \ {victim}
          PROVE  Older(touched, victim, k)
      <4>1. EvictedBefore(victim, k)
        BY DEF Evict
      <4>2. /\ entries[victim].last = touched[victim]
            /\ entries[k].last = touched[k]
        BY <1>1, <3>1 DEF RecencyInv, TouchInv
      <4> QED
        BY <1>1, <1>4, <3>1, <4>1, <4>2 DEF EvictedBefore, Older
    <3> QED
      BY <3>1
  <2>3. candidates' = candidates \ {victim}
    BY <1>1, <1>2 DEF candidates
  <2>4. access'.required \cap resident' = access'.required \cap Fitting(touched', Capacity)
    BY <1>1, <1>2, <2>1 DEF EvictingPrefix
  <2>5. ASSUME NEW j \in candidates \ {victim},
               NEW k \in Touched(touched) \ access.required, Older(touched, j, k)
        PROVE  k \in resident'
    <3>1. k \in resident /\ k \in Experts /\ j \in Experts
      BY <1>1, <2>1, <2>5 DEF EvictingPrefix, Touched
    <3>2. k # victim
      BY <1>1, <2>2, <2>5, <3>1, OlderIsTotalOrder
    <3> QED
      BY <1>1, <3>1, <3>2
  <2>6. Bytes(access.required \cup Stack(touched, victim)) > Capacity
    <3>1. resident \cup access.required \in
            SUBSET (access.required \cup Stack(touched, victim))
      <4> SUFFICES ASSUME NEW x \in candidates
                   PROVE  x \in Stack(touched, victim)
        BY <1>1
      <4>1. x \in Touched(touched)
        BY <1>1 DEF RecencyInv, TouchInv, Touched
      <4>2. ~ Older(touched, x, victim)
        BY <1>1, <2>2, OlderIsTotalOrder
      <4> QED
        BY <4>1, <4>2 DEF Stack
    <3>2. access.required \cup Stack(touched, victim) \in SUBSET Experts
      BY <1>2, StackType
    <3>3. Bytes(resident \cup access.required) > Capacity
      BY <1>1, DemandMeetsResidency DEF Evict, RecencyInv
    <3>4. Bytes(resident \cup access.required)
            <= Bytes(access.required \cup Stack(touched, victim))
      BY <3>1, <3>2, BytesMonotone
    <3>5. /\ Bytes(resident \cup access.required) \in Nat
          /\ Bytes(access.required \cup Stack(touched, victim)) \in Nat
      BY <1>1, <1>2, <3>2, CellsFinite
    <3> QED
      BY <3>3, <3>4, <3>5
  <2>7. ASSUME NEW k \in Touched(touched) \ (resident' \cup access.required)
        PROVE  Bytes(access.required \cup Stack(touched, k)) > Capacity
    <3>1. CASE k = victim
      BY <2>6, <3>1
    <3>2. CASE k # victim
      BY <1>1, <2>1, <2>7, <3>2 DEF EvictingPrefix
    <3> QED
      BY <3>1, <3>2
  <2> QED
    BY <1>1, <1>2, <2>3, <2>4, <2>5, <2>7 DEF EvictingPrefix
<1> QED
  BY <1>1, <1>3, <1>4 DEF PrefixInv

LEMMA FinishAccessRecency ==
  ASSUME RecencyInv, FinishAccess
  PROVE  TouchInv' /\ PrefixInv'
<1> DEFINE required == access.required
<1>1. /\ phase = "evicting" /\ phase' = "ready"
      /\ clock' = clock /\ clock \in Nat /\ clock >= 1
      /\ resident' = resident \cup required
      /\ resident \in SUBSET Experts /\ required \in SUBSET Experts
      /\ touched \in [Experts -> Nat] /\ touched' \in [Experts -> Nat]
      /\ touched' = [k \in Experts |-> IF k \in required THEN clock ELSE touched[k]]
      /\ \A k \in Experts : touched[k] < clock
  <2>1. /\ phase = "evicting" /\ phase' = "ready" /\ clock' = clock
        /\ resident' = resident \cup required
        /\ touched' = [k \in Experts |-> IF k \in required THEN clock ELSE touched[k]]
    BY DEF FinishAccess
  <2>2. /\ clock \in Nat
        /\ resident \in SUBSET Experts /\ required \in SUBSET Experts
        /\ touched \in [Experts -> Nat]
    BY DEF RecencyInv, SafetyInv, TypeOK
  <2>3. clock >= 1 /\ \A k \in Experts : touched[k] <= clock - 1
    BY <2>1 DEF RecencyInv, TouchInv
  <2>4. \A k \in Experts : touched[k] < clock
    BY <2>2, <2>3
  <2>5. touched' \in [Experts -> Nat]
    BY <2>1, <2>2
  <2> HIDE DEF required
  <2> QED
    BY <2>1, <2>2, <2>3, <2>4, <2>5
<1>2. TouchInv'
  <2>1. ASSUME NEW k \in resident'
        PROVE  touched'[k] # 0 /\ entries'[k].last = touched'[k]
    <3>1. CASE k \in required
      BY <1>1, <3>1 DEF FinishAccess, TouchedEntry
    <3>2. CASE k \notin required
      <4>1. k \in resident /\ entries'[k] = entries[k] /\ touched'[k] = touched[k]
        BY <1>1, <2>1, <3>2 DEF FinishAccess
      <4> QED
        BY <4>1 DEF RecencyInv, TouchInv
    <3> QED
      BY <3>1, <3>2
  <2>2. \A k \in Experts : touched'[k] <= clock'
    BY <1>1
  <2> QED
    BY <1>1, <2>1, <2>2 DEF TouchInv
<1>3. ASSUME Policy = "lru" PROVE resident' = Fitting(touched', Capacity)
  <2>1. EvictingPrefix
    BY <1>1, <1>3 DEF RecencyInv, PrefixInv
  <2>2. Bytes(resident') <= Capacity /\ Bytes(resident') \in Nat
    BY <1>1, DemandMeetsResidency, CellsFinite DEF FinishAccess, RecencyInv
  <2>3. ASSUME NEW k \in resident'
        PROVE  k \in Fitting(touched', Capacity)
    <3>1. k \in Touched(touched') /\ k \in Experts
      BY <1>1, <1>2, <2>3 DEF Touched, TouchInv
    <3>2. ASSUME NEW j \in Stack(touched', k), j \notin required
          PROVE  j \in resident
      <4>1. /\ j \in Experts /\ j \in Touched(touched)
            /\ touched'[j] = touched[j] /\ touched[j] < clock
            /\ ~ Older(touched', j, k)
        BY <1>1, <3>2 DEF Stack, Touched
      <4>2. k \notin required
        BY <1>1, <3>1, <4>1 DEF Older
      <4>3. k \in candidates /\ touched'[k] = touched[k]
        BY <1>1, <2>3, <3>1, <4>2 DEF candidates
      <4>4. ~ Older(touched, j, k)
        BY <4>1, <4>3 DEF Older
      <4>5. CASE j = k
        BY <4>3, <4>5 DEF candidates
      <4>6. CASE j # k
        BY <1>1, <2>1, <3>1, <3>2, <4>1, <4>3, <4>4, <4>6, OlderIsTotalOrder
           DEF EvictingPrefix
      <4> QED
        BY <4>5, <4>6
    <3>3. Stack(touched', k) \in SUBSET resident'
      BY <1>1, <3>2
    <3>4. Bytes(Stack(touched', k)) <= Bytes(resident')
      BY <1>1, <3>3, BytesMonotone
    <3>5. Bytes(Stack(touched', k)) \in Nat
      BY StackType, CellsFinite
    <3> QED
      BY <2>2, <3>1, <3>4, <3>5 DEF Fitting
  <2>4. ASSUME NEW k \in Touched(touched') \ resident'
        PROVE  k \notin Fitting(touched', Capacity)
    <3>1. /\ k \in Experts /\ k \notin required /\ k \notin resident
          /\ touched'[k] = touched[k] /\ k \in Touched(touched)
          /\ touched[k] < clock
      BY <1>1, <2>4 DEF Touched
    <3>2. Bytes(required \cup Stack(touched, k)) > Capacity
      BY <2>1, <3>1 DEF EvictingPrefix
    <3>3. required \cup Stack(touched, k) \in SUBSET Stack(touched', k)
      <4>1. ASSUME NEW j \in required
            PROVE  j \in Stack(touched', k)
        BY <1>1, <3>1, <4>1 DEF Stack, Touched, Older
      <4>2. ASSUME NEW j \in Stack(touched, k), j \notin required
            PROVE  j \in Stack(touched', k)
        BY <1>1, <3>1, <4>2 DEF Stack, Touched, Older
      <4> QED
        BY <4>1, <4>2
    <3>4. Bytes(required \cup Stack(touched, k)) <= Bytes(Stack(touched', k))
      BY <3>3, StackType, BytesMonotone
    <3>5. /\ Bytes(required \cup Stack(touched, k)) \in Nat
          /\ Bytes(Stack(touched', k)) \in Nat
      BY <1>1, StackType, CellsFinite
    <3> QED
      BY <3>2, <3>4, <3>5 DEF Fitting
  <2>5. Fitting(touched', Capacity) \in SUBSET Touched(touched')
    BY DEF Fitting
  <2> QED
    BY <2>3, <2>4, <2>5
<1> QED
  BY <1>1, <1>2, <1>3 DEF PrefixInv

LEMMA StartWorkloadRecency ==
  ASSUME RecencyInv, StartWorkload
  PROVE  TouchInv' /\ PrefixInv'
<1>1. phase = "idle" /\ phase' = "ready"
  BY DEF StartWorkload
<1>2. CASE Lifecycle = "cold_per_workload"
  <2>1. /\ resident' = {}
        /\ clock' = 0
        /\ touched' = [k \in Experts |-> 0]
    BY <1>2 DEF StartWorkload
  <2>2. Fitting(touched', Capacity) = {}
    BY <2>1 DEF Fitting, Touched
  <2> QED
    BY <1>1, <2>1, <2>2 DEF TouchInv, PrefixInv
<1>3. CASE Lifecycle # "cold_per_workload"
  BY <1>1, <1>3 DEF StartWorkload, cacheVars, RecencyInv, TouchInv, PrefixInv
<1> QED
  BY <1>2, <1>3

LEMMA InitRecency == Init => RecencyInv
<1> SUFFICES ASSUME Init PROVE RecencyInv
  OBVIOUS
<1>1. /\ resident = {} /\ phase = "idle" /\ clock = 0
      /\ touched = [k \in Experts |-> 0]
  BY DEF Init
<1>2. Fitting(touched, Capacity) = {}
  BY <1>1 DEF Fitting, Touched
<1> QED
  BY <1>1, <1>2, InitSafety DEF RecencyInv, TouchInv, PrefixInv

LEMMA NextRecency == RecencyInv /\ [Next]_vars => RecencyInv'
<1> SUFFICES ASSUME RecencyInv, [Next]_vars PROVE RecencyInv'
  OBVIOUS
<1>1. SafetyInv'
  BY NextSafety DEF RecencyInv
<1>2. CASE StartWorkload
  BY <1>1, <1>2, StartWorkloadRecency DEF RecencyInv
<1>3. CASE SkipEvent
  BY <1>1, <1>3
     DEF SkipEvent, cacheVars, RecencyInv, TouchInv, PrefixInv
<1>4. ASSUME NEW required \in SUBSET Experts, StartAccess(required)
      PROVE  RecencyInv'
  BY <1>1, <1>4, StartAccessRecency DEF RecencyInv
<1>5. ASSUME NEW victim \in Experts, Evict(victim)
      PROVE  RecencyInv'
  BY <1>1, <1>5, EvictRecency DEF RecencyInv
<1>6. CASE FinishAccess
  BY <1>1, <1>6, FinishAccessRecency DEF RecencyInv
<1>7. CASE EndWorkload
  BY <1>1, <1>7
     DEF EndWorkload, cacheVars, RecencyInv, TouchInv, PrefixInv
<1>8. CASE UNCHANGED vars
  BY <1>1, <1>8
     DEF vars, cacheVars, RecencyInv, TouchInv, PrefixInv, EvictingPrefix, candidates
<1> QED
  BY <1>2, <1>3, <1>4, <1>5, <1>6, <1>7, <1>8 DEF Next

LEMMA RecencyInvariant == Spec => []RecencyInv
<1> QED
  BY InitRecency, NextRecency, PTL DEF Spec

(***************************************************************************)
(* Between accesses an LRU byte cache holds exactly the experts whose      *)
(* recency stack fits the capacity, whatever the sizes: evicting oldest    *)
(* first until the missing experts fit never leaves a gap and never gives  *)
(* up one victim too many.                                                 *)
(***************************************************************************)
THEOREM LRUResidencyIsRecencyPrefix == Spec => []ResidencyIsRecencyPrefix
<1>1. RecencyInv => ResidencyIsRecencyPrefix
  BY DEF RecencyInv, PrefixInv, ResidencyIsRecencyPrefix
<1> QED
  BY <1>1, RecencyInvariant, PTL

-----------------------------------------------------------------------------
(***************************************************************************)
(* Part 3: the LRU byte cache implements the recency stack.                *)
(*                                                                         *)
(* Only the end of an access and a cold restart are visible in the stack.  *)
(* The hits it credits there were counted when the access started, so the  *)
(* invariant must say they are still the fitting ones when it ends.        *)
(***************************************************************************)

\* Between workloads nothing is pending in the counters.
IdleInv == phase = "idle" => counters = NoCounts

RefinementInv == RecencyInv /\ IdleInv

LEMMA NextIdle == IdleInv /\ [Next]_vars => IdleInv'
<1> SUFFICES ASSUME IdleInv, [Next]_vars PROVE IdleInv'
  OBVIOUS
<1>1. CASE StartWorkload
  BY <1>1 DEF StartWorkload, IdleInv
<1>2. CASE SkipEvent
  BY <1>2 DEF SkipEvent, IdleInv
<1>3. ASSUME NEW required \in SUBSET Experts, StartAccess(required)
      PROVE  IdleInv'
  BY <1>3 DEF StartAccess, IdleInv
<1>4. ASSUME NEW victim \in Experts, Evict(victim)
      PROVE  IdleInv'
  BY <1>4 DEF Evict, IdleInv
<1>5. CASE FinishAccess
  BY <1>5 DEF FinishAccess, IdleInv
<1>6. CASE EndWorkload
  BY <1>6 DEF EndWorkload, IdleInv
<1>7. CASE UNCHANGED vars
  BY <1>7 DEF vars, IdleInv
<1> QED
  BY <1>1, <1>2, <1>3, <1>4, <1>5, <1>6, <1>7 DEF Next

LEMMA RefinementInvariant == Spec => []RefinementInv
<1>1. Init => IdleInv
  BY DEF Init, IdleInv
<1>2. Spec => []IdleInv
  BY <1>1, NextIdle, PTL DEF Spec
<1> QED
  BY <1>2, RecencyInvariant, PTL DEF RefinementInv

\* The abstract stack's operators are the cache's own.
LEMMA RecencyCardinality == \A S : Recency!Cardinality(S) = Cardinality(S)
BY DEF Recency!Cardinality, Cardinality

LEMMA RecencyOperators ==
  \A S, last, capacity :
    /\ Recency!Bytes(S) = Bytes(S)
    /\ Recency!Fitting(last, capacity) = Fitting(last, capacity)
BY RecencyCardinality
   DEF Recency!Bytes, Recency!Cells, Recency!Fitting, Recency!Touched,
       Recency!Stack, Recency!Older, Bytes, Cells, Fitting, Touched, Stack, Older

LEMMA FinishAccessImplementsAccess ==
  ASSUME RefinementInv, Policy = "lru", FinishAccess
  PROVE  Recency!Access(access.required)
<1>1. /\ phase = "evicting" /\ phase' = "ready"
      /\ clock' = clock /\ clock \in Nat
      /\ access.required \in SUBSET Experts
      /\ access.required # {}
      /\ Bytes(access.required) <= Capacity
      /\ access.hits = Cardinality(access.required \cap resident)
      /\ access.missing = access.required \ resident
      /\ touched' = [k \in Experts |->
                       IF k \in access.required THEN clock ELSE touched[k]]
  BY DEF FinishAccess, RefinementInv, RecencyInv, SafetyInv, TypeOK, AccessInv
<1>2. access.required \cap resident = access.required \cap Fitting(touched, Capacity)
  BY <1>1 DEF RefinementInv, RecencyInv, PrefixInv, EvictingPrefix
<1>3. access.required \ resident = access.required \ Fitting(touched, Capacity)
  BY <1>2
<1>4. /\ counters'.hits = counters.hits + access.hits
      /\ counters'.misses = counters.misses + Cardinality(access.missing)
      /\ UNCHANGED totals
  BY DEF FinishAccess
<1>5. /\ access.hits \in Nat /\ Cardinality(access.missing) \in Nat
      /\ counters.hits \in Nat /\ counters.misses \in Nat
      /\ totals.hits \in Nat /\ totals.misses \in Nat
  <2>1. IsFiniteSet(access.missing)
    BY <1>1, CellsFinite
  <2> QED
    BY <2>1, FS_CardinalityType DEF RefinementInv, RecencyInv, SafetyInv, TypeOK
<1>6. /\ totals'.hits + counters'.hits =
           (totals.hits + counters.hits) + Cardinality(access.required \cap Fitting(touched, Capacity))
      /\ totals'.misses + counters'.misses =
           (totals.misses + counters.misses) + Cardinality(access.required \ Fitting(touched, Capacity))
  <2>1. access.hits = Cardinality(access.required \cap Fitting(touched, Capacity))
    BY <1>1, <1>2
  <2>2. Cardinality(access.missing) =
          Cardinality(access.required \ Fitting(touched, Capacity))
    BY <1>1, <1>3
  <2>3. /\ totals'.hits + counters'.hits =
             (totals.hits + counters.hits) + access.hits
        /\ totals'.misses + counters'.misses =
             (totals.misses + counters.misses) + Cardinality(access.missing)
    BY <1>4, <1>5
  <2> QED
    BY <2>1, <2>2, <2>3
<1>7. clock = (clock - 1) + 1
  BY <1>1
<1> QED
  BY <1>1, <1>6, <1>7, RecencyOperators, RecencyCardinality DEF Recency!Access

\* The state of the recency stack an LRU cache stands for.
recencyState ==
  <<touched,
    IF phase = "evicting" THEN clock - 1 ELSE clock,
    totals.hits + counters.hits,
    totals.misses + counters.misses>>

\* A step that keeps the recency state is a stutter of the abstract cache.
LEMMA StutterIsInvisible ==
  ASSUME UNCHANGED recencyState
  PROVE  UNCHANGED Recency!recencyVars
BY DEF recencyState, Recency!recencyVars

LEMMA StartWorkloadImplementsRestart ==
  ASSUME RefinementInv, StartWorkload
  PROVE  [Recency!Next]_(Recency!recencyVars)
<1>1. /\ phase = "idle" /\ phase' = "ready"
      /\ UNCHANGED totals
      /\ counters'.hits = 0 /\ counters'.misses = 0
      /\ counters.hits = 0 /\ counters.misses = 0
  BY DEF StartWorkload, StartingCounts, NoCounts, RefinementInv, IdleInv
<1>2. CASE Lifecycle = "cold_per_workload"
  <2>1. clock' = 0 /\ touched' = [k \in Experts |-> 0]
    BY <1>2 DEF StartWorkload
  <2>2. Recency!Restart
    BY <1>1, <1>2, <2>1 DEF Recency!Restart
  <2> QED
    BY <2>2 DEF Recency!Next
<1>3. CASE Lifecycle # "cold_per_workload"
  <2>1. UNCHANGED <<clock, touched>>
    BY <1>3 DEF StartWorkload, cacheVars
  <2>2. UNCHANGED recencyState
    BY <1>1, <2>1 DEF recencyState
  <2> QED
    BY <2>2, StutterIsInvisible
<1> QED
  BY <1>2, <1>3

(***************************************************************************)
(* Every event-atomic LRU replay produces the hits and misses of the       *)
(* recency stack, event by event, in both lifecycles: the outcome never    *)
(* depends on which victims left, in how many steps, or on what they       *)
(* weighed.                                                                *)
(***************************************************************************)
THEOREM LRUImplementsRecencyCache == Policy = "lru" /\ Spec => ImplementsRecencyCache
<1> SUFFICES ASSUME Policy = "lru" PROVE Spec => ImplementsRecencyCache
  OBVIOUS
<1>1. Init => Recency!Init
  <2> SUFFICES ASSUME Init PROVE Recency!Init
    OBVIOUS
  <2> QED
    BY DEF Init, Recency!Init, NoCounts
<1>2. RefinementInv /\ [Next]_vars => [Recency!Next]_(Recency!recencyVars)
  <2> SUFFICES ASSUME RefinementInv, [Next]_vars
               PROVE  [Recency!Next]_(Recency!recencyVars)
    OBVIOUS
  <2>0. /\ clock \in Nat
        /\ counters.hits \in Nat /\ counters.misses \in Nat
        /\ totals.hits \in Nat /\ totals.misses \in Nat
    BY DEF RefinementInv, RecencyInv, SafetyInv, TypeOK
  <2>1. CASE StartWorkload
    BY <2>1, StartWorkloadImplementsRestart
  <2>2. CASE SkipEvent
    <3>1. UNCHANGED recencyState
      BY <2>2 DEF SkipEvent, cacheVars, recencyState, RefinementInv,
                  RecencyInv, SafetyInv, TypeOK
    <3> QED
      BY <3>1, StutterIsInvisible
  <2>3. ASSUME NEW required \in SUBSET Experts, StartAccess(required)
        PROVE  [Recency!Next]_(Recency!recencyVars)
    <3>1. UNCHANGED recencyState
      BY <2>0, <2>3 DEF StartAccess, recencyState
    <3> QED
      BY <3>1, StutterIsInvisible
  <2>4. ASSUME NEW victim \in Experts, Evict(victim)
        PROVE  [Recency!Next]_(Recency!recencyVars)
    <3>1. UNCHANGED recencyState
      BY <2>4 DEF Evict, recencyState
    <3> QED
      BY <3>1, StutterIsInvisible
  <2>5. CASE FinishAccess
    <3>1. access.required \in SUBSET Experts
      BY DEF RefinementInv, RecencyInv, SafetyInv, TypeOK
    <3> QED
      BY <2>5, <3>1, FinishAccessImplementsAccess DEF Recency!Next
  <2>6. CASE EndWorkload
    <3>1. UNCHANGED recencyState
      BY <2>0, <2>6
         DEF EndWorkload, cacheVars, Overall, Merge, NoCounts, recencyState
    <3> QED
      BY <3>1, StutterIsInvisible
  <2>7. CASE UNCHANGED vars
    <3>1. UNCHANGED recencyState
      BY <2>7 DEF vars, cacheVars, recencyState
    <3> QED
      BY <3>1, StutterIsInvisible
  <2> QED
    BY <2>1, <2>2, <2>3, <2>4, <2>5, <2>6, <2>7 DEF Next
<1> QED
  BY <1>1, <1>2, RefinementInvariant, PTL
     DEF Spec, ImplementsRecencyCache, Recency!Spec

-----------------------------------------------------------------------------
(***************************************************************************)
(* Part 4: the counters account for the residency.                         *)
(*                                                                         *)
(* An access evicts before it counts, so during one the balance includes   *)
(* what the access has evicted so far.                                     *)
(***************************************************************************)

Replaying == phase \in {"ready", "evicting"}

LedgerInv ==
  /\ phase # "evicting" => access = NoAccess
  /\ totals.hits + totals.misses = totals.requests
  /\ counters.hits + counters.misses = counters.requests
  /\ Replaying =>
       /\ starting + counters.loaded =
            counters.evicted + access.evicted + Bytes(resident)
       /\ starting <= counters.peak
       /\ Bytes(resident) <= counters.peak
       /\ counters.peak <= Capacity
  /\ Replaying /\ Lifecycle = "cold_per_workload" =>
       /\ starting = 0
       /\ counters.misses =
            counters.evictions + access.evictions + Cardinality(resident)
  /\ Lifecycle = "persistent_sequence" =>
       /\ totals.loaded + counters.loaded =
            totals.evicted + counters.evicted + access.evicted + Bytes(resident)
       /\ totals.misses + counters.misses =
            totals.evictions + counters.evictions + access.evictions
              + Cardinality(resident)

LedgerFullInv == SafetyInv /\ IdleInv /\ LedgerInv

\* The numbers the balance is made of.
LEMMA LedgerNumbers ==
  ASSUME SafetyInv
  PROVE  /\ Bytes(resident) \in Nat /\ Cardinality(resident) \in Nat
         /\ IsFiniteSet(resident)
         /\ starting \in Nat
         /\ access.evictions \in Nat /\ access.evicted \in Nat /\ access.hits \in Nat
         /\ counters.hits \in Nat /\ counters.misses \in Nat
         /\ counters.requests \in Nat /\ counters.loaded \in Nat
         /\ counters.evictions \in Nat /\ counters.evicted \in Nat
         /\ counters.peak \in Nat
         /\ totals.hits \in Nat /\ totals.misses \in Nat
         /\ totals.requests \in Nat /\ totals.loaded \in Nat
         /\ totals.evictions \in Nat /\ totals.evicted \in Nat
<1>1. resident \in SUBSET Experts
  BY DEF SafetyInv, TypeOK
<1>2. IsFiniteSet(resident) /\ Bytes(resident) \in Nat
  BY <1>1, CellsFinite
<1>3. Cardinality(resident) \in Nat
  BY <1>2, FS_CardinalityType
<1> QED
  BY <1>2, <1>3 DEF SafetyInv, TypeOK

LEMMA StartWorkloadLedger ==
  ASSUME LedgerFullInv, StartWorkload
  PROVE  LedgerInv'
<1>1. /\ phase = "idle" /\ phase' = "ready"
      /\ access' = access /\ totals' = totals
      /\ starting' = Bytes(resident')
      /\ counters'.hits = 0 /\ counters'.misses = 0 /\ counters'.requests = 0
      /\ counters'.loaded = 0 /\ counters'.evictions = 0 /\ counters'.evicted = 0
      /\ counters'.peak = Bytes(resident')
  BY DEF StartWorkload, StartingCounts, NoCounts
<1>2. counters = NoCounts /\ access = NoAccess
  BY <1>1 DEF LedgerFullInv, IdleInv, LedgerInv
<1>3. Bytes(resident') \in Nat /\ Bytes(resident') <= Capacity
  BY StartWorkloadSafety, CellsFinite DEF LedgerFullInv, SafetyInv, TypeOK, Fits
<1>4. CASE Lifecycle = "cold_per_workload"
  <2>1. resident' = {}
    BY <1>4 DEF StartWorkload
  <2>2. Bytes(resident') = 0 /\ Cardinality(resident') = 0
    BY <2>1, BytesOfNone, FS_EmptySet
  <2> QED
    BY <1>1, <1>2, <1>3, <1>4, <2>2
       DEF LedgerFullInv, LedgerInv, Replaying, NoAccess
<1>5. CASE Lifecycle = "persistent_sequence"
  <2>1. resident' = resident
    BY <1>5 DEF StartWorkload, cacheVars
  <2>2. LedgerInv /\ SafetyInv
    BY DEF LedgerFullInv
  <2> QED
    BY <1>1, <1>2, <1>3, <1>5, <2>1, <2>2, LedgerNumbers
       DEF LedgerInv, Replaying, NoAccess, NoCounts
<1> QED
  BY <1>4, <1>5

LEMMA EvictLedger ==
  ASSUME NEW victim \in Experts, LedgerFullInv, Evict(victim)
  PROVE  LedgerInv'
<1>1. /\ phase = "evicting"
      /\ victim \in resident /\ resident \in SUBSET Experts
      /\ resident' = resident \ {victim}
      /\ access'.evictions = access.evictions + 1
      /\ access'.evicted = access.evicted + Size[victim]
      /\ UNCHANGED <<phase, counters, totals, starting>>
  BY DEF Evict, AfterEviction, candidates, LedgerFullInv, SafetyInv, TypeOK
<1>2. Bytes(resident') = Bytes(resident) - Size[victim] /\ Size[victim] \in Nat
  BY <1>1, BytesOfRemoval, SizeAssumption
<1>3. Cardinality(resident') = Cardinality(resident) - 1
  BY <1>1, CellsFinite, FS_RemoveElement
<1>4. LedgerInv /\ SafetyInv
  BY DEF LedgerFullInv
<1>5. /\ access.evicted + Bytes(resident) = access'.evicted + Bytes(resident')
      /\ access.evictions + Cardinality(resident) =
           access'.evictions + Cardinality(resident')
      /\ Bytes(resident') <= Bytes(resident)
      /\ Bytes(resident') \in Nat /\ Cardinality(resident') \in Int
      /\ access'.evicted \in Nat /\ access'.evictions \in Nat
  <2>1. Bytes(resident') \in Nat
    BY <1>1, CellsFinite
  <2> QED
    BY <1>1, <1>2, <1>3, <1>4, <2>1, LedgerNumbers
<1>6. ASSUME Lifecycle = "cold_per_workload"
      PROVE  /\ starting = 0
             /\ counters.misses =
                  counters.evictions + access'.evictions + Cardinality(resident')
  BY <1>1, <1>4, <1>5, <1>6, LedgerNumbers DEF LedgerInv, Replaying
<1>7. ASSUME Lifecycle = "persistent_sequence"
      PROVE  /\ totals.loaded + counters.loaded =
                  totals.evicted + counters.evicted + access'.evicted
                    + Bytes(resident')
             /\ totals.misses + counters.misses =
                  totals.evictions + counters.evictions + access'.evictions
                    + Cardinality(resident')
  <2>1. /\ totals.loaded + counters.loaded =
             totals.evicted + counters.evicted + access.evicted + Bytes(resident)
        /\ totals.misses + counters.misses =
             totals.evictions + counters.evictions + access.evictions
               + Cardinality(resident)
    BY <1>4, <1>7 DEF LedgerInv
  <2> QED
    BY <1>4, <1>5, <2>1, LedgerNumbers
<1>8. /\ starting + counters.loaded =
           counters.evicted + access'.evicted + Bytes(resident')
      /\ starting <= counters.peak
      /\ Bytes(resident') <= counters.peak
      /\ counters.peak <= Capacity
  <2>1. /\ starting + counters.loaded =
             counters.evicted + access.evicted + Bytes(resident)
        /\ starting <= counters.peak
        /\ Bytes(resident) <= counters.peak
        /\ counters.peak <= Capacity
    BY <1>1, <1>4 DEF LedgerInv, Replaying
  <2>2. starting + counters.loaded =
          counters.evicted + access'.evicted + Bytes(resident')
    BY <1>4, <1>5, <2>1, LedgerNumbers
  <2>3. Bytes(resident') <= counters.peak
    BY <1>4, <1>5, <2>1, LedgerNumbers
  <2> QED
    BY <2>1, <2>2, <2>3
<1>9. /\ totals.hits + totals.misses = totals.requests
      /\ counters.hits + counters.misses = counters.requests
  BY <1>4 DEF LedgerInv
<1> QED
  BY <1>1, <1>6, <1>7, <1>8, <1>9 DEF LedgerInv, Replaying

\* What an access ends with: the loads, and the split of the requests.
LEMMA FinishAccessAmounts ==
  ASSUME SafetyInv, FinishAccess
  PROVE  /\ Bytes(resident') = Bytes(resident) + demandLoadBytes
         /\ Cardinality(resident') = Cardinality(resident) + Cardinality(access.missing)
         /\ access.hits + Cardinality(access.missing) = Cardinality(access.required)
         /\ demandLoadBytes \in Nat
         /\ Cardinality(access.missing) \in Nat
         /\ Cardinality(access.required) \in Nat
         /\ access.running + demandLoadBytes = Bytes(resident')
         /\ Bytes(resident') <= Capacity
<1>1. phase = "evicting" /\ resident' = resident \cup access.required
  BY DEF FinishAccess
<1>2. /\ access.required \in SUBSET Experts
      /\ access.missing \in SUBSET Experts
      /\ resident \in SUBSET Experts
      /\ demandLoadBytes \in Nat
      /\ access.running + demandLoadBytes = Bytes(resident')
  BY <1>1, DemandMeetsResidency
<1>3. /\ access.missing = access.required \ resident
      /\ access.hits = Cardinality(access.required \cap resident)
      /\ access.running = Bytes(resident)
  BY <1>1 DEF SafetyInv, AccessInv
<1>4. /\ IsFiniteSet(access.required) /\ IsFiniteSet(access.missing)
      /\ IsFiniteSet(resident) /\ IsFiniteSet(access.required \cap resident)
  BY <1>2, CellsFinite
<1>5. /\ Cardinality(access.required) \in Nat
      /\ Cardinality(access.missing) \in Nat
      /\ Cardinality(resident) \in Nat
      /\ Cardinality(access.required \cap resident) \in Nat
  BY <1>4, FS_CardinalityType
<1>6. Cardinality(access.missing) =
        Cardinality(access.required) - Cardinality(access.required \cap resident)
  BY <1>3, <1>4, FS_Difference
<1>7. Cardinality(resident') = Cardinality(resident) + Cardinality(access.missing)
  <2>1. resident' = resident \cup access.missing /\ resident \cap access.missing = {}
    BY <1>1, <1>3
  <2>2. Cardinality(resident \cup access.missing) =
          Cardinality(resident) + Cardinality(access.missing)
            - Cardinality(resident \cap access.missing)
    BY <1>4, FS_Union
  <2>3. Cardinality(resident \cap access.missing) = 0
    BY <2>1, FS_EmptySet
  <2> QED
    BY <1>5, <2>1, <2>2, <2>3
<1>8. access.hits + Cardinality(access.missing) = Cardinality(access.required)
  BY <1>3, <1>5, <1>6
<1>9. Bytes(resident') = Bytes(resident) + demandLoadBytes
  BY <1>2, <1>3
<1> QED
  BY <1>2, <1>5, <1>7, <1>8, <1>9 DEF FinishAccess

LEMMA FinishAccessLedger ==
  ASSUME LedgerFullInv, FinishAccess
  PROVE  LedgerInv'
<1>1. /\ phase = "evicting" /\ phase' = "ready"
      /\ access' = NoAccess
      /\ UNCHANGED <<totals, starting>>
      /\ counters'.requests = counters.requests + Cardinality(access.required)
      /\ counters'.hits = counters.hits + access.hits
      /\ counters'.misses = counters.misses + Cardinality(access.missing)
      /\ counters'.loaded = counters.loaded + demandLoadBytes
      /\ counters'.evictions = counters.evictions + access.evictions
      /\ counters'.evicted = counters.evicted + access.evicted
      /\ counters'.peak = MaxOf(counters.peak, access.running + demandLoadBytes)
  BY DEF FinishAccess
<1>2. LedgerInv /\ SafetyInv
  BY DEF LedgerFullInv
<1>3. access'.evictions = 0 /\ access'.evicted = 0
  BY <1>1 DEF NoAccess
<1>4. /\ Bytes(resident') <= counters'.peak
      /\ counters'.peak <= Capacity
      /\ starting' <= counters'.peak
  BY <1>1, <1>2, FinishAccessAmounts, LedgerNumbers DEF MaxOf, LedgerInv, Replaying
<1>5. counters'.hits + counters'.misses = counters'.requests
  BY <1>1, <1>2, FinishAccessAmounts, LedgerNumbers DEF LedgerInv
<1>6. starting' + counters'.loaded =
        counters'.evicted + access'.evicted + Bytes(resident')
  BY <1>1, <1>2, <1>3, FinishAccessAmounts, LedgerNumbers DEF LedgerInv, Replaying
<1>7. ASSUME Lifecycle = "cold_per_workload"
      PROVE  /\ starting' = 0
             /\ counters'.misses =
                  counters'.evictions + access'.evictions + Cardinality(resident')
  BY <1>1, <1>2, <1>3, <1>7, FinishAccessAmounts, LedgerNumbers
     DEF LedgerInv, Replaying
<1>8. ASSUME Lifecycle = "persistent_sequence"
      PROVE  /\ totals'.loaded + counters'.loaded =
                  totals'.evicted + counters'.evicted + access'.evicted
                    + Bytes(resident')
             /\ totals'.misses + counters'.misses =
                  totals'.evictions + counters'.evictions + access'.evictions
                    + Cardinality(resident')
  <2>1. /\ totals.loaded + counters.loaded =
             totals.evicted + counters.evicted + access.evicted + Bytes(resident)
        /\ totals.misses + counters.misses =
             totals.evictions + counters.evictions + access.evictions
               + Cardinality(resident)
    BY <1>2, <1>8 DEF LedgerInv
  <2> DEFINE load == demandLoadBytes
             missing == Cardinality(access.missing)
  <2>2. /\ counters'.loaded = counters.loaded + load
        /\ counters'.evicted = counters.evicted + access.evicted
        /\ counters'.misses = counters.misses + missing
        /\ counters'.evictions = counters.evictions + access.evictions
        /\ totals' = totals
        /\ Bytes(resident') = Bytes(resident) + load
        /\ Cardinality(resident') = Cardinality(resident) + missing
        /\ load \in Nat /\ missing \in Nat
    BY <1>1, <1>2, FinishAccessAmounts
  <2> HIDE DEF load, missing
  <2>3. totals.loaded + counters'.loaded =
          totals.evicted + counters'.evicted + Bytes(resident')
    <3>1. /\ totals.loaded \in Nat /\ counters.loaded \in Nat
          /\ totals.evicted \in Nat /\ counters.evicted \in Nat
          /\ access.evicted \in Nat /\ Bytes(resident) \in Nat
      BY <1>2, LedgerNumbers
    <3>2. totals.loaded + (counters.loaded + load) =
            totals.evicted + (counters.evicted + access.evicted)
              + (Bytes(resident) + load)
      BY <2>1, <2>2, <3>1
    <3> QED
      BY <2>2, <3>2
  <2>4. totals.misses + counters'.misses =
          totals.evictions + counters'.evictions + Cardinality(resident')
    BY <1>2, <2>1, <2>2, LedgerNumbers
  <2>5. /\ counters'.evicted \in Nat /\ counters'.evictions \in Nat
        /\ totals.evicted \in Nat /\ totals.evictions \in Nat
    BY <1>2, <2>2, LedgerNumbers
  <2> QED
    BY <1>3, <2>2, <2>3, <2>4, <2>5
<1> QED
  BY <1>1, <1>2, <1>4, <1>5, <1>6, <1>7, <1>8 DEF LedgerInv, Replaying

LEMMA EndWorkloadLedger ==
  ASSUME LedgerFullInv, EndWorkload
  PROVE  LedgerInv'
<1>1. /\ phase = "ready" /\ phase' = "idle"
      /\ totals'.hits = totals.hits + counters.hits
      /\ totals'.misses = totals.misses + counters.misses
      /\ totals'.requests = totals.requests + counters.requests
      /\ totals'.loaded = totals.loaded + counters.loaded
      /\ totals'.evictions = totals.evictions + counters.evictions
      /\ totals'.evicted = totals.evicted + counters.evicted
      /\ counters'.hits = 0 /\ counters'.misses = 0 /\ counters'.requests = 0
      /\ counters'.loaded = 0 /\ counters'.evictions = 0 /\ counters'.evicted = 0
      /\ UNCHANGED <<entries, access, starting>>
  BY DEF EndWorkload, cacheVars, Overall, Merge, NoCounts
<1>2. LedgerInv /\ SafetyInv
  BY DEF LedgerFullInv
<1> QED
  BY <1>1, <1>2, LedgerNumbers DEF LedgerInv, Replaying

LEMMA NextLedger == LedgerFullInv /\ [Next]_vars => LedgerFullInv'
<1> SUFFICES ASSUME LedgerFullInv, [Next]_vars PROVE LedgerInv'
  BY NextSafety, NextIdle DEF LedgerFullInv
<1>1. CASE StartWorkload
  BY <1>1, StartWorkloadLedger
<1>2. CASE SkipEvent
  <2>1. /\ UNCHANGED <<entries, phase, access, totals, starting>>
        /\ counters'.hits = counters.hits /\ counters'.misses = counters.misses
        /\ counters'.requests = counters.requests
        /\ counters'.loaded = counters.loaded
        /\ counters'.evictions = counters.evictions
        /\ counters'.evicted = counters.evicted /\ counters'.peak = counters.peak
    BY <1>2 DEF SkipEvent, cacheVars, LedgerFullInv, SafetyInv, TypeOK
  <2> QED
    BY <2>1 DEF LedgerFullInv, LedgerInv, Replaying
<1>3. ASSUME NEW required \in SUBSET Experts, StartAccess(required)
      PROVE  LedgerInv'
  <2>1. /\ UNCHANGED <<entries, counters, totals, starting>>
        /\ phase = "ready" /\ phase' = "evicting"
        /\ access'.evictions = 0 /\ access'.evicted = 0
    BY <1>3 DEF StartAccess
  <2>2. access.evictions = 0 /\ access.evicted = 0
    BY <2>1 DEF LedgerFullInv, LedgerInv, NoAccess
  <2> QED
    BY <2>1, <2>2 DEF LedgerFullInv, LedgerInv, Replaying
<1>4. ASSUME NEW victim \in Experts, Evict(victim)
      PROVE  LedgerInv'
  BY <1>4, EvictLedger
<1>5. CASE FinishAccess
  BY <1>5, FinishAccessLedger
<1>6. CASE EndWorkload
  BY <1>6, EndWorkloadLedger
<1>7. CASE UNCHANGED vars
  BY <1>7 DEF vars, cacheVars, LedgerFullInv, LedgerInv, Replaying
<1> QED
  BY <1>1, <1>2, <1>3, <1>4, <1>5, <1>6, <1>7 DEF Next

LEMMA InitLedger == Init => LedgerFullInv
<1> SUFFICES ASSUME Init PROVE LedgerFullInv
  OBVIOUS
<1>1. resident = {} /\ Bytes(resident) = 0 /\ Cardinality(resident) = 0
  <2>1. resident = {}
    BY DEF Init
  <2> QED
    BY <2>1, BytesOfNone, FS_EmptySet
<1>2. /\ totals = NoCounts /\ counters = NoCounts /\ access = NoAccess
      /\ phase = "idle"
  BY DEF Init
<1> QED
  BY <1>1, <1>2, InitSafety
     DEF LedgerFullInv, LedgerInv, IdleInv, Replaying, NoCounts, NoAccess

(***************************************************************************)
(* The figures a replay reports are a ledger of the residency it ends      *)
(* with, for both policies and both lifecycles.                            *)
(***************************************************************************)
THEOREM ByteCacheLedgerBalances == Spec => []LedgerBalances
<1>1. LedgerFullInv => LedgerBalances
  <2> SUFFICES ASSUME LedgerFullInv, phase = "ready" PROVE LedgerBalances
    BY DEF LedgerBalances
  <2>1. LedgerInv /\ SafetyInv /\ access.evictions = 0 /\ access.evicted = 0
    BY DEF LedgerFullInv, LedgerInv, NoAccess
  <2>2. /\ Overall.hits = totals.hits + counters.hits
        /\ Overall.misses = totals.misses + counters.misses
        /\ Overall.requests = totals.requests + counters.requests
        /\ Overall.loaded = totals.loaded + counters.loaded
        /\ Overall.evictions = totals.evictions + counters.evictions
        /\ Overall.evicted = totals.evicted + counters.evicted
    BY DEF Overall, Merge
  <2>3. /\ starting + counters.loaded - counters.evicted = Bytes(resident)
        /\ Overall.hits + Overall.misses = Overall.requests
        /\ MaxOf(starting, Bytes(resident)) <= counters.peak
        /\ counters.peak <= Capacity
    BY <2>1, <2>2, LedgerNumbers DEF LedgerInv, Replaying, MaxOf
  <2>4. /\ CacheLife.loaded - CacheLife.evicted = Bytes(resident)
        /\ CacheLife.misses - CacheLife.evictions = Cardinality(resident)
    <3>1. CASE Lifecycle = "cold_per_workload"
      BY <2>1, <3>1, LedgerNumbers DEF CacheLife, LedgerInv, Replaying
    <3>2. CASE Lifecycle = "persistent_sequence"
      BY <2>1, <2>2, <3>2, LedgerNumbers DEF CacheLife, LedgerInv, Replaying
    <3> QED
      BY <3>1, <3>2
  <2> QED
    BY <2>3, <2>4 DEF LedgerBalances
<1>2. Spec => []LedgerFullInv
  BY InitLedger, NextLedger, PTL DEF Spec
<1> QED
  BY <1>1, <1>2, PTL

-----------------------------------------------------------------------------
(***************************************************************************)
(* Part 5: LFU.  Frequencies are counted while the log of the accesses     *)
(* grows; an access loads only what is missing, so that a resident expert  *)
(* gains one use and none of its loads, and a missing one starts over.     *)
(***************************************************************************)
LogInv ==
  /\ log \in Seq([required : SUBSET Experts, loaded : SUBSET Experts])
  /\ \A i \in DOMAIN log : log[i].loaded \subseteq log[i].required

FrequencyInv ==
  Policy = "lfu" => \A k \in resident : entries[k].frequency = LifetimeUses(k)

LFUInv == RecencyInv /\ LogInv /\ FrequencyInv

\* The accesses of the stay in which k is, or was last.
StayUses(k) ==
  {i \in DOMAIN log : k \in log[i].required /\ \A j \in LoadsOf(k) : j <= i}

LEMMA FinishAccessLFU ==
  ASSUME LFUInv, FinishAccess
  PROVE  LogInv' /\ FrequencyInv'
<1> DEFINE n == Len(log) + 1
           required == access.required
           missing == access.missing
<1>1. /\ required \in SUBSET Experts /\ missing \in SUBSET Experts
      /\ missing = required \ resident
  BY DEF FinishAccess, LFUInv, RecencyInv, SafetyInv, TypeOK, AccessInv
<1>2. /\ Len(log) \in Nat /\ DOMAIN log = 1 .. Len(log)
      /\ log \in Seq([required : SUBSET Experts, loaded : SUBSET Experts])
      /\ \A i \in DOMAIN log : log[i].loaded \subseteq log[i].required
  BY DEF LFUInv, LogInv
<1>3. log' = Append(log, [required |-> required, loaded |-> missing])
  BY DEF FinishAccess
<1>4. /\ log' \in Seq([required : SUBSET Experts, loaded : SUBSET Experts])
      /\ DOMAIN log' = 1 .. n /\ n \in Nat
      /\ log'[n] = [required |-> required, loaded |-> missing]
      /\ \A i \in 1 .. Len(log) : log'[i] = log[i]
  BY <1>1, <1>2, <1>3
<1>5. LogInv'
  BY <1>1, <1>2, <1>4 DEF LogInv
<1>6. entries' = [k \in resident \cup required |->
                    IF k \in required THEN TouchedEntry(k) ELSE entries[k]]
  BY DEF FinishAccess
<1>7. ASSUME NEW k \in Experts
      PROVE  /\ k \in missing => LoadsOf(k)' = LoadsOf(k) \cup {n}
             /\ k \notin missing => LoadsOf(k)' = LoadsOf(k)
             /\ LoadsOf(k) \subseteq 1 .. Len(log)
  BY <1>2, <1>4 DEF LoadsOf
<1>8. ASSUME NEW k \in Experts
      PROVE  /\ k \in missing => StayUses(k)' = {n}
             /\ k \in required \ missing => StayUses(k)' = StayUses(k) \cup {n}
             /\ k \notin required => StayUses(k)' = StayUses(k)
             /\ StayUses(k) \subseteq 1 .. Len(log)
  <2> HIDE DEF required, missing
  <2>1. StayUses(k)' = {i \in 1 .. n : k \in log'[i].required
                                       /\ \A j \in LoadsOf(k)' : j <= i}
    BY <1>4 DEF StayUses
  <2>2. StayUses(k) = {i \in 1 .. Len(log) : k \in log[i].required
                                             /\ \A j \in LoadsOf(k) : j <= i}
    BY <1>2 DEF StayUses
  <2>3. 1 .. n = (1 .. Len(log)) \cup {n} /\ n \notin 1 .. Len(log)
    BY <1>2
  <2>4. \A i \in 1 .. n : i = n \/ (i \in 1 .. Len(log) /\ i < n)
    BY <1>2
  <2>5. log'[n].required = required
    BY <1>4
  <2>6. CASE k \in missing
    <3>1. k \in required /\ LoadsOf(k)' = LoadsOf(k) \cup {n}
      BY <1>1, <1>7, <2>6 DEF required, missing
    <3>2. n \in Nat /\ \A j \in LoadsOf(k) : j \in Nat /\ j < n
      BY <1>2, <1>7
    <3>3. \A i \in 1 .. n : (\A j \in LoadsOf(k)' : j <= i) <=> i = n
      <4> HIDE DEF n
      <4> QED
        BY <3>1, <3>2
    <3> QED
      BY <2>1, <2>2, <2>3, <2>5, <2>6, <3>1, <3>3 DEF required
  <2>7. CASE k \notin missing
    <3>1. LoadsOf(k)' = LoadsOf(k) /\ \A j \in LoadsOf(k) : j <= n
      BY <1>2, <1>7, <2>7
    <3>2. \A i \in 1 .. Len(log) : log'[i].required = log[i].required
      BY <1>4
    <3> QED
      BY <1>1, <2>1, <2>2, <2>3, <2>5, <2>7, <3>1, <3>2 DEF required, missing
  <2> QED
    BY <2>6, <2>7
<1>9. ASSUME Policy = "lfu", NEW k \in resident'
      PROVE  entries'[k].frequency = Cardinality(StayUses(k)')
  <2>1. k \in Experts /\ k \in resident \cup required
    BY <1>1, <1>6, <1>9 DEF LFUInv, RecencyInv, SafetyInv, TypeOK
  <2>2. k \in resident => entries[k].frequency = Cardinality(StayUses(k))
    BY <1>9 DEF LFUInv, FrequencyInv, LifetimeUses, StayUses
  <2>3. IsFiniteSet(StayUses(k))
    <3>1. IsFiniteSet(1 .. Len(log)) /\ StayUses(k) \in SUBSET (1 .. Len(log))
      BY <1>2, <1>8, <2>1, FS_Interval
    <3> QED
      BY <3>1, FS_Subset
  <2>4. CASE k \in missing
    <3>1. entries'[k].frequency = 1
      BY <1>1, <1>6, <1>9, <2>1, <2>4 DEF TouchedEntry
    <3> QED
      BY <1>8, <2>1, <2>4, <3>1, FS_Singleton
  <2>5. CASE k \in required \ missing
    <3>1. entries'[k].frequency = entries[k].frequency + 1 /\ k \in resident
      BY <1>1, <1>6, <1>9, <2>1, <2>5 DEF TouchedEntry
    <3>2. n \notin StayUses(k)
      BY <1>2, <1>8, <2>1
    <3>3. Cardinality(StayUses(k) \cup {n}) = Cardinality(StayUses(k)) + 1
      BY <2>3, <3>2, FS_AddElement
    <3> QED
      BY <1>8, <2>1, <2>2, <2>5, <3>1, <3>3
  <2>6. CASE k \notin required
    <3>1. entries'[k] = entries[k] /\ k \in resident
      BY <1>6, <2>1, <2>6
    <3> QED
      BY <1>8, <2>1, <2>2, <2>6, <3>1
  <2> QED
    BY <1>1, <2>4, <2>5, <2>6
<1>10. FrequencyInv'
  BY <1>9 DEF FrequencyInv, LifetimeUses, StayUses
<1> QED
  BY <1>5, <1>10

LEMMA OtherStepLFU ==
  ASSUME LFUInv, [Next]_vars, ~ FinishAccess
  PROVE  LogInv' /\ FrequencyInv'
<1>1. CASE StartWorkload
  <2>1. CASE Lifecycle = "cold_per_workload"
    BY <1>1, <2>1 DEF StartWorkload, LogInv, FrequencyInv
  <2>2. CASE Lifecycle # "cold_per_workload"
    <3>1. UNCHANGED <<entries, log>>
      BY <1>1, <2>2 DEF StartWorkload, cacheVars
    <3> QED
      BY <3>1 DEF LFUInv, LogInv, FrequencyInv, LifetimeUses, LoadsOf
  <2> QED
    BY <2>1, <2>2
<1>2. ASSUME NEW victim \in Experts, Evict(victim) PROVE LogInv' /\ FrequencyInv'
  <2>1. log' = log /\ entries' = [k \in resident \ {victim} |-> entries[k]]
    BY <1>2 DEF Evict
  <2>2. resident' = resident \ {victim} /\ \A k \in resident' : entries'[k] = entries[k]
    BY <2>1
  <2> QED
    BY <2>1, <2>2 DEF LFUInv, LogInv, FrequencyInv, LifetimeUses, LoadsOf
<1>3. CASE UNCHANGED <<entries, log>>
  BY <1>3 DEF LFUInv, LogInv, FrequencyInv, LifetimeUses, LoadsOf
<1> QED
  BY <1>1, <1>2, <1>3
     DEF Next, SkipEvent, StartAccess, EndWorkload, vars, cacheVars

LEMMA LFUInvariant == Spec => []LFUInv
<1>1. Init => LFUInv
  <2> SUFFICES ASSUME Init PROVE LFUInv
    OBVIOUS
  <2>1. log = << >> /\ resident = {}
    BY DEF Init
  <2> QED
    BY <2>1, InitRecency DEF LFUInv, LogInv, FrequencyInv
<1>2. LFUInv /\ [Next]_vars => LFUInv'
  BY NextRecency, FinishAccessLFU, OtherStepLFU DEF LFUInv
<1> QED
  BY <1>1, <1>2, PTL DEF Spec

(***************************************************************************)
(* An LFU frequency counts the current stay in the cache only, under both  *)
(* lifecycles and however many experts an event requires.                  *)
(***************************************************************************)
THEOREM LFUFrequencyIsResidentLifetime == Spec => []FrequencyIsResidentLifetime
<1>1. LFUInv => FrequencyIsResidentLifetime
  BY DEF LFUInv, FrequencyInv, FrequencyIsResidentLifetime
<1> QED
  BY <1>1, LFUInvariant, PTL

(***************************************************************************)
(* No step of an LFU replay evicts an expert that was used more often in   *)
(* its stay than one it keeps unpinned, or as often and more recently.     *)
(***************************************************************************)
THEOREM LFULeastUsedGoesFirst == Spec => LeastUsedGoesFirst
<1> DEFINE Victims ==
             Policy = "lfu" /\ phase = "evicting" =>
               \A k \in resident \ DOMAIN entries' :
                 \A j \in DOMAIN entries' \ access.required :
                   \/ LifetimeUses(k) < LifetimeUses(j)
                   \/ LifetimeUses(k) = LifetimeUses(j) /\ Older(touched, k, j)
<1>1. ASSUME LFUInv, [Next]_vars PROVE Victims
  <2> SUFFICES ASSUME Policy = "lfu", phase = "evicting",
                      NEW k \in resident \ DOMAIN entries',
                      NEW j \in DOMAIN entries' \ access.required
               PROVE  \/ LifetimeUses(k) < LifetimeUses(j)
                      \/ LifetimeUses(k) = LifetimeUses(j) /\ Older(touched, k, j)
    OBVIOUS
  <2>1. PICK victim \in Experts : Evict(victim)
    BY <1>1 DEF Next, StartWorkload, SkipEvent, StartAccess, FinishAccess, EndWorkload,
                vars, cacheVars
  <2>2. entries' = [x \in resident \ {victim} |-> entries[x]]
    BY <2>1 DEF Evict
  <2>3. k = victim /\ j \in candidates \ {victim} /\ k \in resident /\ j \in resident
    BY <2>2 DEF candidates
  <2>4. EvictedBefore(k, j)
    BY <2>1, <2>3 DEF Evict
  <2>5. /\ entries[k].frequency = LifetimeUses(k) /\ entries[j].frequency = LifetimeUses(j)
        /\ entries[k].last = touched[k] /\ entries[j].last = touched[j]
    BY <1>1, <2>3 DEF LFUInv, FrequencyInv, RecencyInv, TouchInv
  <2> QED
    BY <2>3, <2>4, <2>5 DEF EvictedBefore, Older
<1> QED
  BY <1>1, LFUInvariant, PTL DEF Spec, LeastUsedGoesFirst

=============================================================================
