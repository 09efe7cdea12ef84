-------------------------- MODULE EntryParityProofs --------------------------
(***************************************************************************)
(* Theorems about EntryCache and EntryParity, for any number of experts,   *)
(* any capacity, any selection and any bundles.                            *)
(***************************************************************************)
EXTENDS EntryParity, ExpertBytesProofs, SequenceTheorems

USE EntryCapacityAssumption, BundleBoundsAssumption DEF resident, Dynamic, Fixed

-----------------------------------------------------------------------------
(***************************************************************************)
(* Part 1: the experts that a fixed-frequency policy selects.              *)
(***************************************************************************)
Selected == selection \in Seq(SUBSET Experts)

BundlesWith(k) == {i \in DOMAIN selection : k \in selection[i]}

CountedExperts == {k \in Experts : Frequency(k) > 0}

\* The ranking as a relation.
Ranking ==
  {pair \in CountedExperts \X CountedExperts : RankedBefore(pair[1], pair[2])}

LEMMA FrequencyType ==
  ASSUME Selected, NEW k
  PROVE  /\ IsFiniteSet(DOMAIN selection)
         /\ IsFiniteSet(BundlesWith(k))
         /\ Frequency(k) = Cardinality(BundlesWith(k))
         /\ Frequency(k) \in Nat
<1>1. DOMAIN selection = 1 .. Len(selection) /\ Len(selection) \in Nat
  BY DEF Selected
<1>2. IsFiniteSet(DOMAIN selection)
  BY <1>1, FS_Interval
<1>3. BundlesWith(k) \in SUBSET DOMAIN selection
  BY DEF BundlesWith
<1>4. IsFiniteSet(BundlesWith(k)) /\ Cardinality(BundlesWith(k)) \in Nat
  BY <1>2, <1>3, FS_Subset, FS_CardinalityType
<1>5. Frequency(k) = Cardinality(BundlesWith(k))
  BY DEF Frequency, BundlesWith
<1> QED
  BY <1>2, <1>4, <1>5

(***************************************************************************)
(* The targets are the first of the ranking: as many as fit, unless fewer  *)
(* are counted, and nothing that is left out is required more often.       *)
(***************************************************************************)
LEMMA TargetsAreFirst ==
  ASSUME Selected
  PROVE  /\ FrequencyTargets \in SUBSET CountedExperts
         /\ Cardinality(FrequencyTargets) <= Capacity
         /\ FrequencyTargets # CountedExperts =>
              Cardinality(FrequencyTargets) = Capacity
         /\ \A j \in CountedExperts \ FrequencyTargets, k \in FrequencyTargets :
              Frequency(j) <= Frequency(k)
<1> DEFINE freq == [k \in CountedExperts |-> Frequency(k)]
<1>1. /\ CountedExperts \in SUBSET Experts
      /\ \A k \in CountedExperts : Frequency(k) \in Nat /\ k \in Nat
  BY FrequencyType, ExpertsAssumption DEF CountedExperts
<1>2. IsFiniteSet(CountedExperts)
  BY <1>1, CellsFinite
<1>3. \A j, k \in CountedExperts : <<j, k>> \in Ranking <=> RankedBefore(j, k)
  BY DEF Ranking
<1>4. /\ \A k \in CountedExperts : ~ RankedBefore(k, k)
      /\ \A i, j, k \in CountedExperts :
           RankedBefore(i, j) /\ RankedBefore(j, k) => RankedBefore(i, k)
      /\ \A j, k \in CountedExperts :
           j # k => RankedBefore(j, k) \/ RankedBefore(k, j)
  BY <1>1 DEF RankedBefore
<1>5. FrequencyTargets = FirstOf(CountedExperts, Ranking, Capacity)
  <2>1. ASSUME NEW k \in CountedExperts
        PROVE  {j \in CountedExperts : RankedBefore(j, k)} =
                 Before(CountedExperts, Ranking, k)
    BY <1>3 DEF Before
  <2>2. FrequencyTargets =
          {k \in CountedExperts :
             Cardinality({j \in CountedExperts : RankedBefore(j, k)}) < Capacity}
    BY DEF FrequencyTargets, CountedExperts
  <2> QED
    BY <2>1, <2>2 DEF FirstOf
<1>6. /\ FrequencyTargets \in SUBSET CountedExperts
      /\ Cardinality(FrequencyTargets) <= Capacity
      /\ FrequencyTargets # CountedExperts => Cardinality(FrequencyTargets) = Capacity
      /\ \A j \in CountedExperts, k \in FrequencyTargets :
           <<j, k>> \in Ranking => j \in FrequencyTargets
  <2>1. Capacity \in Nat
    OBVIOUS
  <2>2. \A k \in CountedExperts : <<k, k>> \notin Ranking
    BY <1>3, <1>4
  <2>3. \A i, j, k \in CountedExperts :
          <<i, j>> \in Ranking /\ <<j, k>> \in Ranking => <<i, k>> \in Ranking
    BY <1>3, <1>4
  <2>4. \A j, k \in CountedExperts :
          j # k => <<j, k>> \in Ranking \/ <<k, j>> \in Ranking
    BY <1>3, <1>4
  <2> QED
    BY <1>2, <1>5, <2>1, <2>2, <2>3, <2>4, FirstOfOrder
<1>7. ASSUME NEW j \in CountedExperts \ FrequencyTargets, NEW k \in FrequencyTargets
      PROVE  Frequency(j) <= Frequency(k)
  <2>1. j \in CountedExperts /\ k \in CountedExperts /\ ~ RankedBefore(j, k)
    BY <1>3, <1>6, <1>7
  <2> QED
    BY <1>1, <2>1 DEF RankedBefore
<1> QED
  BY <1>6, <1>7

-----------------------------------------------------------------------------
(***************************************************************************)
(* Part 2: types, the restoration of the targets, and the rows.            *)
(*                                                                         *)
(* A bundle of a fixed policy takes two steps, and only in between is      *)
(* anything but the targets resident; that both steps fit the capacity     *)
(* needs what the first one has left in the locals of access_bundle.       *)
(***************************************************************************)
RowCounts == [samples : Nat, requests : Nat, hits : Nat, misses : Nat,
              prewarm : Nat, demand : Nat, evictions : Nat]

Locals == [required : SUBSET Experts, phase : Phases, hits : Nat,
           misses : Nat, missing : SUBSET Experts,
           displaced : SUBSET Experts, evictions : Nat]

AccessInv ==
  /\ stage = "evicting" => policy \in Dynamic
  /\ stage \in {"displacing", "restoring"} => policy \in Fixed
  /\ stage \in {"evicting", "displacing", "restoring"} =>
       /\ Cardinality(access.required) <= Capacity
       /\ access.hits + access.misses = Cardinality(access.required)
       /\ access.misses = Cardinality(access.missing)
  /\ stage \in {"evicting", "displacing"} =>
       access.missing = access.required \ resident
  /\ stage = "displacing" => access.evictions = 0 /\ access.displaced = {}
  /\ stage = "restoring" =>
       /\ access.missing \cap targets = {}
       /\ access.displaced \subseteq targets
       /\ resident = (targets \ access.displaced) \cup access.missing
       /\ access.required \subseteq resident

TargetsInv ==
  /\ stage = "selecting" => targets = {} /\ resident = {}
  /\ policy \in Fixed /\ stage \in {"ready", "displacing"} => resident = targets
  /\ policy \in Dynamic => targets = {} /\ selection = << >>
  /\ Cardinality(targets) <= Capacity

EntryInv == EntryTypeOK /\ AccessInv /\ TargetsInv

\* The experts of two sets without a common one add up.
LEMMA DisjointSum ==
  ASSUME NEW S \in SUBSET Experts, NEW T \in SUBSET Experts, S \cap T = {}
  PROVE  /\ Cardinality(S \cup T) = Cardinality(S) + Cardinality(T)
         /\ Cardinality(S) \in Nat /\ Cardinality(T) \in Nat
<1>1. /\ IsFiniteSet(S) /\ IsFiniteSet(T)
      /\ Cardinality(S) \in Nat /\ Cardinality(T) \in Nat
      /\ Cardinality(S \cap T) = 0
  BY CellsFinite, FS_CardinalityType, FS_EmptySet
<1>2. Cardinality(S \cup T) = Cardinality(S) + Cardinality(T) - Cardinality(S \cap T)
  BY <1>1, FS_Union
<1> QED
  BY <1>1, <1>2

\* The types the steps below calculate with.
LEMMA EntryTypes ==
  ASSUME EntryTypeOK
  PROVE  /\ Selected
         /\ access \in Locals
         /\ access.required \in SUBSET Experts
         /\ access.missing \in SUBSET Experts
         /\ access.displaced \in SUBSET Experts
         /\ access.hits \in Nat /\ access.misses \in Nat /\ access.evictions \in Nat
         /\ access.phase \in Phases
         /\ DOMAIN entries \in SUBSET Experts
         /\ IsFiniteSet(DOMAIN entries)
         /\ Cardinality(DOMAIN entries) \in Nat
         /\ targets \in SUBSET Experts
         /\ IsFiniteSet(targets)
         /\ Cardinality(targets) \in Nat
         /\ rows \in [Rows -> RowCounts]
         /\ policy \in {"lru", "lfu", "calibrated_static_frequency",
                        "offline_oracle_frequency"}
<1>1. /\ DOMAIN entries \in SUBSET Experts
      /\ targets \in SUBSET Experts
      /\ access \in Locals
      /\ Selected
      /\ rows \in [Rows -> RowCounts]
      /\ policy \in {"lru", "lfu", "calibrated_static_frequency",
                     "offline_oracle_frequency"}
  BY DEF EntryTypeOK, Locals, Selected, RowCounts
<1>2. IsFiniteSet(DOMAIN entries) /\ IsFiniteSet(targets)
  BY <1>1, CellsFinite
<1>3. Cardinality(DOMAIN entries) \in Nat /\ Cardinality(targets) \in Nat
  BY <1>2, FS_CardinalityType
<1>4. /\ access.required \in SUBSET Experts
      /\ access.missing \in SUBSET Experts
      /\ access.displaced \in SUBSET Experts
      /\ access.hits \in Nat /\ access.misses \in Nat /\ access.evictions \in Nat
      /\ access.phase \in Phases
  BY <1>1 DEF Locals
<1> QED
  BY <1>1, <1>2, <1>3, <1>4

\* A fixed-frequency cache is typed by what it holds.
LEMMA HeldType ==
  ASSUME NEW S \in SUBSET Experts
  PROVE  /\ DOMAIN Held(S) = S
         /\ Held(S) \in [S -> [frequency : Nat, last : Nat]]
BY DEF Held

LEMMA NoCountsType == NoCounts \in RowCounts /\ NoAccess \in Locals
BY DEF NoCounts, NoAccess, RowCounts, Locals, Phases

LEMMA EntryInitInv == Init => EntryInv
<1> SUFFICES ASSUME Init PROVE EntryInv
  OBVIOUS
<1>1. /\ entries = << >> /\ DOMAIN entries = {} /\ targets = {}
      /\ selection = << >> /\ stage = "selecting" /\ access = NoAccess
      /\ clock = 0 /\ replayed = 0
      /\ policy \in Dynamic \cup Fixed
      /\ rows = [r \in Rows |-> NoCounts]
  BY DEF Init
<1>2. Cardinality({}) = 0 /\ {} \in SUBSET Experts
  BY FS_EmptySet
<1>3. EntryTypeOK
  <2>1. rows \in [Rows -> RowCounts] /\ access \in Locals
    BY <1>1, NoCountsType
  <2>2. entries \in [{} -> [frequency : Nat, last : Nat]]
    BY <1>1
  <2>3. selection \in Seq(SUBSET Experts)
    BY <1>1
  <2> QED
    BY <1>1, <1>2, <2>1, <2>2, <2>3 DEF EntryTypeOK, RowCounts, Locals
<1>4. AccessInv /\ TargetsInv
  BY <1>1, <1>2 DEF AccessInv, TargetsInv
<1> QED
  BY <1>3, <1>4 DEF EntryInv

LEMMA SelectInv ==
  ASSUME NEW required \in SUBSET Experts, EntryInv, Select(required)
  PROVE  EntryInv'
<1>1. /\ stage = "selecting" /\ policy \in Fixed
      /\ selection' = Append(selection, required)
      /\ UNCHANGED <<policy, targets, entries, clock, access, stage, rows, replayed>>
  BY DEF Select, cacheVars
<1>2. selection' \in Seq(SUBSET Experts)
  BY <1>1, AppendProperties DEF EntryInv, EntryTypeOK
<1>3. EntryTypeOK'
  BY <1>1, <1>2 DEF EntryInv, EntryTypeOK
<1>4. AccessInv' /\ TargetsInv'
  BY <1>1 DEF EntryInv, AccessInv, TargetsInv
<1> QED
  BY <1>3, <1>4 DEF EntryInv

LEMMA BeginReplayInv ==
  ASSUME EntryInv, BeginReplay
  PROVE  EntryInv'
<1> DEFINE T == FrequencyTargets
<1>1. /\ stage = "selecting" /\ stage' = "ready"
      /\ targets' = T
      /\ entries' = Held(T)
      /\ rows' = [rows EXCEPT !["combined"].prewarm = Cardinality(T)]
      /\ selection' = IF policy = "calibrated_static_frequency" THEN << >>
                      ELSE selection
      /\ UNCHANGED <<policy, clock, access, replayed>>
  BY DEF BeginReplay
<1>2. /\ T \in SUBSET Experts
      /\ Cardinality(T) <= Capacity
      /\ Cardinality(T) \in Nat
      /\ policy \in Dynamic => T = {}
  <2>1. T \in SUBSET CountedExperts /\ Cardinality(T) <= Capacity
    BY EntryTypes, TargetsAreFirst DEF EntryInv
  <2>2. T \in SUBSET Experts
    BY <2>1 DEF CountedExperts
  <2>3. Cardinality(T) \in Nat
    BY <2>2, CellsFinite, FS_CardinalityType
  <2>4. ASSUME policy \in Dynamic PROVE T = {}
    <3>1. selection = << >>
      BY <2>4 DEF EntryInv, TargetsInv
    <3>2. \A k : Frequency(k) = 0
      <4>1. \A k : {i \in DOMAIN selection : k \in selection[i]} = {}
        BY <3>1
      <4> QED
        BY <4>1, FS_EmptySet DEF Frequency
    <3>3. CountedExperts = {}
      BY <3>2 DEF CountedExperts
    <3> QED
      BY <2>1, <3>3
  <2> QED
    BY <2>1, <2>2, <2>3, <2>4
<1> HIDE DEF T
<1>3. DOMAIN entries' = T /\ entries' \in [T -> [frequency : Nat, last : Nat]]
  BY <1>1, <1>2, HeldType
<1>4. rows' \in [Rows -> RowCounts]
  BY <1>1, <1>2, EntryTypes, ZenonT(30) DEF EntryInv, Rows, RowCounts
<1>5. selection' \in Seq(SUBSET Experts)
  BY <1>1, EntryTypes DEF EntryInv, Selected
<1>6. EntryTypeOK'
  BY <1>1, <1>2, <1>3, <1>4, <1>5 DEF EntryInv, EntryTypeOK, RowCounts
<1>7. AccessInv'
  BY <1>1 DEF AccessInv
<1>8. TargetsInv'
  BY <1>1, <1>2, <1>3 DEF EntryInv, TargetsInv
<1> QED
  BY <1>6, <1>7, <1>8 DEF EntryInv

LEMMA StartBundleInv ==
  ASSUME NEW required \in SUBSET Experts, NEW phase \in Phases, EntryInv,
         StartBundle(required, phase)
  PROVE  EntryInv'
<1>1. /\ stage = "ready"
      /\ stage' = IF policy \in Dynamic THEN "evicting" ELSE "displacing"
      /\ Cardinality(required) <= Capacity
      /\ clock' \in Nat
      /\ UNCHANGED <<policy, selection, targets, entries, rows, replayed>>
  BY DEF StartBundle, MayReplay, EntryInv, EntryTypeOK
<1>2. access' = [required |-> required, phase |-> phase,
                 hits |-> Cardinality(required \cap resident),
                 misses |-> Cardinality(required \ resident),
                 missing |-> required \ resident,
                 displaced |-> {}, evictions |-> 0]
  BY DEF StartBundle, NoAccess
<1>3. /\ Cardinality(required) =
           Cardinality(required \cap resident) + Cardinality(required \ resident)
      /\ Cardinality(required \cap resident) \in Nat
      /\ Cardinality(required \ resident) \in Nat
  BY CountSplits
<1>4. access' \in Locals
  BY <1>2, <1>3 DEF Locals
<1>5. EntryTypeOK'
  BY <1>1, <1>4 DEF EntryInv, EntryTypeOK, Locals
<1>6. AccessInv'
  BY <1>1, <1>2, <1>3, EntryTypes DEF EntryInv, AccessInv
<1>7. TargetsInv'
  BY <1>1 DEF EntryInv, TargetsInv
<1> QED
  BY <1>5, <1>6, <1>7 DEF EntryInv

LEMMA EvictInv ==
  ASSUME NEW victim \in Experts, EntryInv, Evict(victim)
  PROVE  EntryInv'
<1>1. /\ stage = "evicting"
      /\ victim \in resident /\ victim \notin access.required
      /\ entries' = [k \in resident \ {victim} |-> entries[k]]
      /\ access' = [access EXCEPT !.evictions = @ + 1]
      /\ UNCHANGED <<policy, selection, targets, clock, stage, rows, replayed>>
      /\ resident' = resident \ {victim}
  BY DEF Evict
<1>2. /\ access' \in Locals
      /\ access'.required = access.required /\ access'.missing = access.missing
      /\ access'.hits = access.hits /\ access'.misses = access.misses
  BY <1>1, EntryTypes DEF EntryInv, Locals
<1>3. /\ resident' \in SUBSET Experts
      /\ entries' \in [resident' -> [frequency : Nat, last : Nat]]
  BY <1>1 DEF EntryInv, EntryTypeOK
<1>4. Cardinality(resident') <= Capacity
  <2>1. Cardinality(resident') <= Cardinality(resident)
    BY <1>1, EntryTypes, FS_Subset DEF EntryInv
  <2>2. Cardinality(resident') \in Nat
    BY <1>3, CellsFinite, FS_CardinalityType
  <2>3. Cardinality(resident) <= Capacity /\ Cardinality(resident) \in Nat
    BY EntryTypes DEF EntryInv, EntryTypeOK
  <2> QED
    BY <2>1, <2>2, <2>3
<1>5. EntryTypeOK'
  BY <1>1, <1>2, <1>3, <1>4 DEF EntryInv, EntryTypeOK, Locals
<1>6. AccessInv'
  BY <1>1, <1>2 DEF EntryInv, AccessInv
<1>7. TargetsInv'
  BY <1>1 DEF EntryInv, AccessInv, TargetsInv
<1> QED
  BY <1>5, <1>6, <1>7 DEF EntryInv

\* access_bundle counts its bundle in rows of natural numbers.
LEMMA ReturnTypes ==
  ASSUME NEW demandLoads \in Nat, NEW evictions \in Nat, EntryTypeOK,
         Return(demandLoads, evictions)
  PROVE  /\ rows' \in [Rows -> RowCounts]
         /\ replayed' \in Nat
         /\ stage' = "ready"
         /\ access' = NoAccess
         /\ access' \in Locals
         /\ UNCHANGED <<policy, selection, targets, clock>>
<1>1. Cardinality(access.required) \in Nat
  BY EntryTypes, CellsFinite, FS_CardinalityType
<1>2. ASSUME NEW row \in RowCounts
      PROVE  Counted(row, demandLoads, evictions) \in RowCounts
  <2>1. /\ row.samples + 1 \in Nat
        /\ row.requests + Cardinality(access.required) \in Nat
        /\ row.hits + access.hits \in Nat
        /\ row.misses + access.misses \in Nat
        /\ row.demand + demandLoads \in Nat
        /\ row.evictions + evictions \in Nat
    BY <1>1, EntryTypes DEF RowCounts
  <2> QED
    BY <2>1 DEF Counted, RowCounts
<1>3. rows' \in [Rows -> RowCounts]
  BY <1>2, EntryTypes DEF Return
<1> QED
  BY <1>3, NoCountsType DEF Return, EntryTypeOK

LEMMA TouchInv ==
  ASSUME EntryInv, Touch
  PROVE  EntryInv'
<1>1. /\ stage = "evicting"
      /\ Cardinality(resident) + access.misses <= Capacity
      /\ entries' = [k \in resident \cup access.required |->
                       IF k \in access.required THEN TouchedEntry(k) ELSE entries[k]]
      /\ resident' = resident \cup access.required
      /\ Return(access.misses, access.evictions)
  BY DEF Touch
<1>2. /\ rows' \in [Rows -> RowCounts]
      /\ replayed' \in Nat
      /\ stage' = "ready"
      /\ access' \in Locals
      /\ UNCHANGED <<policy, selection, targets, clock>>
  BY <1>1, EntryTypes, ReturnTypes DEF EntryInv
<1>3. ASSUME NEW k \in access.required
      PROVE  TouchedEntry(k) \in [frequency : Nat, last : Nat]
  BY DEF TouchedEntry, EntryInv, EntryTypeOK
<1>4. /\ resident' \in SUBSET Experts
      /\ entries' \in [resident' -> [frequency : Nat, last : Nat]]
  BY <1>1, <1>3, EntryTypes DEF EntryInv, EntryTypeOK
<1>5. Cardinality(resident') <= Capacity
  <2>1. /\ resident' = resident \cup access.missing
        /\ resident \cap access.missing = {}
    BY <1>1 DEF EntryInv, AccessInv
  <2>2. Cardinality(resident') = Cardinality(resident) + Cardinality(access.missing)
    BY <2>1, EntryTypes, DisjointSum DEF EntryInv
  <2>3. access.misses = Cardinality(access.missing)
    BY <1>1 DEF EntryInv, AccessInv
  <2> QED
    BY <1>1, <2>2, <2>3
<1>6. EntryTypeOK'
  BY <1>2, <1>4, <1>5 DEF EntryInv, EntryTypeOK, RowCounts, Locals
<1>7. AccessInv'
  BY <1>2 DEF AccessInv
<1>8. TargetsInv'
  BY <1>1, <1>2 DEF EntryInv, AccessInv, TargetsInv
<1> QED
  BY <1>6, <1>7, <1>8 DEF EntryInv

\* As many targets are displaced as the missing experts need.
LEMMA DisplacedMakesRoom ==
  ASSUME EntryInv, stage = "displacing"
  PROVE  /\ Displaced \in SUBSET (resident \ access.required)
         /\ Cardinality((resident \ Displaced) \cup access.missing) <= Capacity
<1> DEFINE others == resident \ access.required
           order == {pair \in others \X others : pair[1] < pair[2]}
           total == Cardinality(resident) + access.misses
<1>1. /\ others \in SUBSET Experts /\ IsFiniteSet(others)
      /\ Cardinality(others) \in Nat
      /\ \A k \in others : k \in Nat
  BY EntryTypes, CellsFinite, FS_CardinalityType, ExpertsAssumption DEF EntryInv
<1>2. /\ access.missing = access.required \ resident
      /\ access.misses = Cardinality(access.missing)
      /\ Cardinality(access.required) <= Capacity
      /\ access.required \in SUBSET Experts
      /\ Cardinality(resident) \in Nat /\ access.misses \in Nat
  BY EntryTypes DEF EntryInv, AccessInv
<1>3. /\ DisplacementCount \in Nat
      /\ DisplacementCount = IF total > Capacity THEN total - Capacity ELSE 0
  BY <1>2 DEF DisplacementCount
<1>4. total = Cardinality(others) + Cardinality(access.required)
  <2>1. /\ Cardinality(resident) =
             Cardinality(resident \cap access.required) + Cardinality(others)
        /\ Cardinality(resident \cap access.required) \in Nat
    BY EntryTypes, CountSplits DEF EntryInv
  <2>2. /\ Cardinality(access.required) =
             Cardinality(access.required \cap resident) + access.misses
        /\ Cardinality(access.required) \in Nat
    BY <1>2, CountSplits
  <2>3. resident \cap access.required = access.required \cap resident
    OBVIOUS
  <2> HIDE DEF others
  <2> QED
    BY <1>1, <1>2, <2>1, <2>2, <2>3
<1>5. DisplacementCount <= Cardinality(others)
  <2>1. Cardinality(access.required) \in Nat
    BY <1>2, CellsFinite, FS_CardinalityType
  <2> HIDE DEF others, total
  <2> QED
    BY <1>1, <1>2, <1>3, <1>4, <2>1
<1>6. Displaced = FirstOf(others, order, DisplacementCount)
  <2>1. ASSUME NEW k \in others
        PROVE  {j \in others : j < k} = Before(others, order, k)
    BY DEF Before
  <2> QED
    BY <2>1 DEF Displaced, FirstOf
<1>7. /\ Displaced \in SUBSET others
      /\ Cardinality(Displaced) <= DisplacementCount
      /\ Displaced # others => Cardinality(Displaced) = DisplacementCount
  <2>1. /\ \A k \in others : <<k, k>> \notin order
        /\ \A i, j, k \in others :
             <<i, j>> \in order /\ <<j, k>> \in order => <<i, k>> \in order
        /\ \A j, k \in others : j # k => <<j, k>> \in order \/ <<k, j>> \in order
    BY <1>1
  <2> HIDE DEF others, order
  <2> QED
    BY <1>1, <1>3, <1>6, <2>1, FirstOfOrder
<1>8. Cardinality(Displaced) = DisplacementCount
  <2>1. CASE Displaced = others
    BY <1>1, <1>3, <1>5, <1>7, <2>1
  <2> QED
    BY <1>7, <2>1
<1>9. /\ Cardinality(resident \ Displaced) = Cardinality(resident) - DisplacementCount
      /\ Cardinality(resident \ Displaced) \in Nat
  <2>1. resident \cap Displaced = Displaced
    BY <1>7
  <2>2. /\ Cardinality(resident) =
             Cardinality(resident \cap Displaced) + Cardinality(resident \ Displaced)
        /\ Cardinality(resident \ Displaced) \in Nat
    BY EntryTypes, CountSplits DEF EntryInv
  <2>3. Cardinality(resident \cap Displaced) = DisplacementCount
    BY <1>8, <2>1
  <2> HIDE DEF others, order, total
  <2> QED
    BY <1>2, <1>3, <2>2, <2>3
<1>10. Cardinality((resident \ Displaced) \cup access.missing) =
         Cardinality(resident \ Displaced) + access.misses
  <2>1. /\ resident \ Displaced \in SUBSET Experts
        /\ access.missing \in SUBSET Experts
        /\ (resident \ Displaced) \cap access.missing = {}
    BY <1>2, EntryTypes DEF EntryInv
  <2>2. Cardinality((resident \ Displaced) \cup access.missing) =
          Cardinality(resident \ Displaced) + Cardinality(access.missing)
    BY <2>1, DisjointSum
  <2> QED
    BY <1>2, <2>2
<1>11. Cardinality((resident \ Displaced) \cup access.missing) <= Capacity
  <2> HIDE DEF others, order
  <2> QED
    BY <1>2, <1>3, <1>9, <1>10
<1> QED
  BY <1>7, <1>11

LEMMA DisplaceInv ==
  ASSUME EntryInv, Displace
  PROVE  EntryInv'
<1> DEFINE holds == (resident \ Displaced) \cup access.missing
<1>1. /\ stage = "displacing" /\ stage' = "restoring"
      /\ entries' = Held(holds)
      /\ access' = [access EXCEPT !.displaced = Displaced]
      /\ UNCHANGED <<policy, selection, targets, clock, rows, replayed>>
  BY DEF Displace
<1>2. /\ policy \in Fixed
      /\ resident = targets
      /\ access.missing = access.required \ resident
      /\ Cardinality(access.required) <= Capacity
      /\ access.hits + access.misses = Cardinality(access.required)
      /\ access.misses = Cardinality(access.missing)
  BY <1>1 DEF EntryInv, AccessInv, TargetsInv
<1>3. /\ Displaced \in SUBSET (resident \ access.required)
      /\ Cardinality(holds) <= Capacity
  BY <1>1, DisplacedMakesRoom
<1>4. /\ holds \in SUBSET Experts
      /\ DOMAIN entries' = holds
      /\ entries' \in [holds -> [frequency : Nat, last : Nat]]
  <2>1. holds \in SUBSET Experts
    BY EntryTypes DEF EntryInv
  <2> HIDE DEF holds
  <2> QED
    BY <1>1, <2>1, HeldType
<1>5. /\ access' \in Locals
      /\ access'.required = access.required /\ access'.missing = access.missing
      /\ access'.hits = access.hits /\ access'.misses = access.misses
      /\ access'.displaced = Displaced
  <2>1. Displaced \in SUBSET Experts /\ access \in Locals
    BY <1>3, EntryTypes DEF EntryInv
  <2> QED
    BY <1>1, <2>1 DEF Locals
<1>6. EntryTypeOK'
  <2> HIDE DEF holds
  <2> QED
    BY <1>1, <1>3, <1>4, <1>5 DEF EntryInv, EntryTypeOK, Locals
<1>7. AccessInv'
  <2>1. /\ access.missing \cap targets = {}
        /\ Displaced \subseteq targets
        /\ holds = (targets \ Displaced) \cup access.missing
        /\ access.required \subseteq holds
    BY <1>2, <1>3
  <2> HIDE DEF holds
  <2> QED
    BY <1>1, <1>2, <1>4, <1>5, <2>1 DEF AccessInv
<1>8. TargetsInv'
  BY <1>1, <1>2 DEF EntryInv, TargetsInv
<1> QED
  BY <1>6, <1>7, <1>8 DEF EntryInv

LEMMA RestoreInv ==
  ASSUME EntryInv, Restore
  PROVE  EntryInv'
<1>1. /\ stage = "restoring"
      /\ entries' = Held(Restored)
      /\ Return(DemandLoads, access.misses + Cardinality(access.displaced))
  BY DEF Restore
<1>2. Restored = targets
  BY <1>1 DEF Restored, EntryInv, AccessInv
<1>3. Cardinality(access.displaced) \in Nat
  BY EntryTypes, CellsFinite, FS_CardinalityType DEF EntryInv
<1>4. DemandLoads \in Nat /\ access.misses + Cardinality(access.displaced) \in Nat
  BY <1>3, EntryTypes DEF EntryInv, DemandLoads
<1>5. /\ rows' \in [Rows -> RowCounts]
      /\ replayed' \in Nat
      /\ stage' = "ready"
      /\ access' \in Locals
      /\ UNCHANGED <<policy, selection, targets, clock>>
  BY <1>1, <1>4, ReturnTypes DEF EntryInv
<1>6. DOMAIN entries' = targets /\ entries' \in [targets -> [frequency : Nat, last : Nat]]
  BY <1>1, <1>2, EntryTypes, HeldType DEF EntryInv
<1>7. EntryTypeOK'
  BY <1>5, <1>6 DEF EntryInv, TargetsInv, EntryTypeOK, RowCounts, Locals
<1>8. AccessInv'
  BY <1>5 DEF AccessInv
<1>9. TargetsInv'
  BY <1>1, <1>5, <1>6 DEF EntryInv, AccessInv, TargetsInv
<1> QED
  BY <1>7, <1>8, <1>9 DEF EntryInv

LEMMA EntryNextInv == EntryInv /\ [Next]_vars => EntryInv'
<1> SUFFICES ASSUME EntryInv, [Next]_vars PROVE EntryInv'
  OBVIOUS
<1>1. ASSUME NEW required \in SUBSET Experts, Select(required) PROVE EntryInv'
  BY <1>1, SelectInv
<1>2. CASE BeginReplay
  BY <1>2, BeginReplayInv
<1>3. ASSUME NEW required \in SUBSET Experts, NEW phase \in Phases,
             StartBundle(required, phase)
      PROVE  EntryInv'
  BY <1>3, StartBundleInv
<1>4. ASSUME NEW victim \in Experts, Evict(victim) PROVE EntryInv'
  BY <1>4, EvictInv
<1>5. CASE Touch
  BY <1>5, TouchInv
<1>6. CASE Displace
  BY <1>6, DisplaceInv
<1>7. CASE Restore
  BY <1>7, RestoreInv
<1>8. CASE UNCHANGED vars
  BY <1>8
     DEF vars, cacheVars, EntryInv, EntryTypeOK, AccessInv, TargetsInv
<1> QED
  BY <1>1, <1>2, <1>3, <1>4, <1>5, <1>6, <1>7, <1>8 DEF Next

LEMMA EntryInvariant == Spec => []EntryInv
<1> QED
  BY EntryInitInv, EntryNextInv, PTL DEF Spec

(***************************************************************************)
(* Every variable of the entry-capacity replay keeps its type, and no step *)
(* of access_bundle holds more experts than the capacity: neither the      *)
(* eviction loop of a dynamic policy nor the displacement of targets, which*)
(* always finds as many experts to displace as the missing ones need.      *)
(***************************************************************************)
THEOREM EntryCacheTypeOK == Spec => []EntryTypeOK
<1>1. EntryInv => EntryTypeOK
  BY DEF EntryInv
<1> QED
  BY <1>1, EntryInvariant, PTL

(***************************************************************************)
(* Between bundles a fixed-frequency cache holds exactly its targets, and  *)
(* in the middle of a bundle all that it requires, whatever is replayed.   *)
(***************************************************************************)
THEOREM EntryCacheTargetsRestored == Spec => []TargetsRestored
<1>1. EntryInv => TargetsRestored
  BY DEF EntryInv, AccessInv, TargetsInv, TargetsRestored
<1> QED
  BY <1>1, EntryInvariant, PTL

-----------------------------------------------------------------------------
(***************************************************************************)
(* The rows: what they say of each other, and what the combined row says   *)
(* of the cache at any time.                                               *)
(***************************************************************************)
RowOK(row) ==
  row.hits + row.misses = row.requests

\* One row has what two rows have together, but for the prewarm.
SumsTo(all, p, g) ==
  /\ all.samples = p.samples + g.samples
  /\ all.requests = p.requests + g.requests
  /\ all.hits = p.hits + g.hits
  /\ all.misses = p.misses + g.misses
  /\ all.demand = p.demand + g.demand
  /\ all.evictions = p.evictions + g.evictions

RowsAddUp == SumsTo(rows["combined"], rows["prompt"], rows["generated"])

RowsInv ==
  /\ RowsAddUp
  /\ \A r \in Phases : rows[r].prewarm = 0
  /\ \A r \in Rows : RowOK(rows[r])
  /\ rows["combined"].samples = replayed

Loaded ==
  rows["combined"].prewarm + rows["combined"].demand - rows["combined"].evictions

LoadsInv ==
  Loaded = IF stage = "evicting" THEN Cardinality(resident) + access.evictions
           ELSE IF stage = "restoring" THEN Cardinality(targets)
           ELSE Cardinality(resident)

RowsNames ==
  Phases = {"prompt", "generated"} /\ Rows = {"prompt", "generated", "combined"}

LEMMA RowFields ==
  ASSUME EntryTypeOK
  PROVE  /\ RowsNames
         /\ \A r \in Rows :
              /\ rows[r] \in RowCounts
              /\ rows[r].samples \in Nat /\ rows[r].requests \in Nat
              /\ rows[r].hits \in Nat /\ rows[r].misses \in Nat
              /\ rows[r].prewarm \in Nat
              /\ rows[r].demand \in Nat /\ rows[r].evictions \in Nat
<1>1. rows \in [Rows -> RowCounts]
  BY EntryTypes
<1> QED
  BY <1>1 DEF RowCounts, RowsNames, Rows, Phases

\* What access_bundle returns has been added to a row.
Grown(row, grown, demandLoads, evictions) ==
  /\ grown.samples = row.samples + 1
  /\ grown.requests = row.requests + Cardinality(access.required)
  /\ grown.hits = row.hits + access.hits
  /\ grown.misses = row.misses + access.misses
  /\ grown.prewarm = row.prewarm
  /\ grown.demand = row.demand + demandLoads
  /\ grown.evictions = row.evictions + evictions

LEMMA CountedIsGrown ==
  ASSUME NEW row \in RowCounts, NEW demandLoads, NEW evictions
  PROVE  Grown(row, Counted(row, demandLoads, evictions), demandLoads, evictions)
BY DEF Grown, Counted, RowCounts

\* What is added to a sum and to one of its terms leaves it a sum.
LEMMA GrownSums ==
  ASSUME NEW a \in RowCounts, NEW p \in RowCounts, NEW g \in RowCounts,
         NEW all, NEW q, NEW demandLoads \in Nat, NEW evictions \in Nat, EntryTypeOK,
         SumsTo(a, p, g), Grown(a, all, demandLoads, evictions),
         Grown(p, q, demandLoads, evictions)
  PROVE  SumsTo(all, q, g) /\ SumsTo(all, g, q)
<1>1. /\ Cardinality(access.required) \in Nat
      /\ access.hits \in Nat /\ access.misses \in Nat
  BY EntryTypes, CellsFinite, FS_CardinalityType
<1>2. /\ p.samples \in Nat /\ g.samples \in Nat
      /\ p.requests \in Nat /\ g.requests \in Nat
      /\ p.hits \in Nat /\ g.hits \in Nat
      /\ p.misses \in Nat /\ g.misses \in Nat
      /\ p.demand \in Nat /\ g.demand \in Nat
      /\ p.evictions \in Nat /\ g.evictions \in Nat
  BY DEF RowCounts
<1>3. all.samples = q.samples + g.samples /\ all.samples = g.samples + q.samples
  BY <1>2 DEF SumsTo, Grown
<1>4. all.requests = q.requests + g.requests /\ all.requests = g.requests + q.requests
  BY <1>1, <1>2 DEF SumsTo, Grown
<1>5. all.hits = q.hits + g.hits /\ all.hits = g.hits + q.hits
  BY <1>1, <1>2 DEF SumsTo, Grown
<1>6. all.misses = q.misses + g.misses /\ all.misses = g.misses + q.misses
  BY <1>1, <1>2 DEF SumsTo, Grown
<1>7. all.demand = q.demand + g.demand /\ all.demand = g.demand + q.demand
  BY <1>2 DEF SumsTo, Grown
<1>8. /\ all.evictions = q.evictions + g.evictions
      /\ all.evictions = g.evictions + q.evictions
  BY <1>2 DEF SumsTo, Grown
<1> QED
  BY <1>3, <1>4, <1>5, <1>6, <1>7, <1>8 DEF SumsTo

LEMMA SumsSwap ==
  ASSUME NEW a, NEW p \in RowCounts, NEW g \in RowCounts, SumsTo(a, p, g)
  PROVE  SumsTo(a, g, p)
BY DEF SumsTo, RowCounts

\* A bundle adds the same to the combined row and to the row of its phase.
LEMMA ReturnRows ==
  ASSUME NEW demandLoads \in Nat, NEW evictions \in Nat, EntryTypeOK, RowsInv,
         access.hits + access.misses = Cardinality(access.required),
         Return(demandLoads, evictions)
  PROVE  /\ RowsInv'
         /\ Loaded' = Loaded + demandLoads - evictions
<1> DEFINE added(r) == Grown(rows[r], rows'[r], demandLoads, evictions)
<1>1. /\ rows' = [r \in Rows |->
                    IF r \in {"combined", access.phase}
                      THEN Counted(rows[r], demandLoads, evictions)
                      ELSE rows[r]]
      /\ replayed' = replayed + 1
      /\ replayed \in Nat
  BY DEF Return, EntryTypeOK
<1>2. /\ Cardinality(access.required) \in Nat
      /\ access.hits \in Nat /\ access.misses \in Nat
  BY EntryTypes, CellsFinite, FS_CardinalityType
<1>3. /\ rows'["combined"] = Counted(rows["combined"], demandLoads, evictions)
      /\ \A r \in Phases :
           rows'[r] = IF r = access.phase
                        THEN Counted(rows[r], demandLoads, evictions) ELSE rows[r]
  BY <1>1, RowFields DEF RowsNames
<1>4. added("combined")
  BY <1>3, CountedIsGrown, RowFields DEF RowsNames
<1>5. \A r \in Phases : IF r = access.phase THEN added(r) ELSE rows'[r] = rows[r]
  BY <1>3, CountedIsGrown, RowFields DEF RowsNames
<1> HIDE DEF added
<1>6. RowsAddUp'
  <2>1. /\ rows["combined"] \in RowCounts
        /\ rows["prompt"] \in RowCounts
        /\ rows["generated"] \in RowCounts
    BY RowFields DEF RowsNames
  <2>2. SumsTo(rows["combined"], rows["prompt"], rows["generated"])
    BY DEF RowsInv, RowsAddUp
  <2>3. CASE access.phase = "prompt"
    <3>1. added("prompt") /\ rows'["generated"] = rows["generated"]
      BY <1>5, <2>3, RowFields DEF RowsNames
    <3>2. SumsTo(rows'["combined"], rows'["prompt"], rows["generated"])
      BY <1>4, <2>1, <2>2, <3>1, GrownSums DEF added
    <3> QED
      BY <3>1, <3>2 DEF RowsAddUp, SumsTo
  <2>4. CASE access.phase = "generated"
    <3>1. added("generated") /\ rows'["prompt"] = rows["prompt"]
      BY <1>5, <2>4, RowFields DEF RowsNames
    <3>2. SumsTo(rows["combined"], rows["generated"], rows["prompt"])
      BY <2>1, <2>2, SumsSwap
    <3>3. SumsTo(rows'["combined"], rows["prompt"], rows'["generated"])
      BY <1>4, <2>1, <3>1, <3>2, GrownSums DEF added
    <3> QED
      BY <3>1, <3>3 DEF RowsAddUp, SumsTo
  <2>5. access.phase = "prompt" \/ access.phase = "generated"
    BY EntryTypes DEF Phases
  <2> QED
    BY <2>3, <2>4, <2>5
<1>7. \A r \in Phases : rows'[r].prewarm = 0
  BY <1>5 DEF RowsInv, added, Grown
<1>8. ASSUME NEW r \in Rows PROVE RowOK(rows'[r])
  <2>1. added(r) \/ rows'[r] = rows[r]
    BY <1>4, <1>5, RowFields DEF RowsNames
  <2>2. RowOK(rows[r])
    BY DEF RowsInv
  <2>3. CASE added(r)
    <3>1. /\ rows'[r].hits = rows[r].hits + access.hits
          /\ rows'[r].misses = rows[r].misses + access.misses
          /\ rows'[r].requests = rows[r].requests + Cardinality(access.required)
      BY <2>3 DEF added, Grown
    <3>2. rows[r].hits \in Nat /\ rows[r].misses \in Nat /\ rows[r].requests \in Nat
      BY RowFields
    <3> QED
      BY <1>2, <2>2, <3>1, <3>2 DEF RowOK
  <2> QED
    BY <2>1, <2>2, <2>3
<1>9. rows'["combined"].samples = replayed'
  BY <1>1, <1>4 DEF RowsInv, added, Grown
<1>10. Loaded' = Loaded + demandLoads - evictions
  <2>1. /\ rows'["combined"].prewarm = rows["combined"].prewarm
        /\ rows'["combined"].demand = rows["combined"].demand + demandLoads
        /\ rows'["combined"].evictions = rows["combined"].evictions + evictions
    BY <1>4 DEF added, Grown
  <2>2. /\ rows["combined"].prewarm \in Nat
        /\ rows["combined"].demand \in Nat
        /\ rows["combined"].evictions \in Nat
    BY RowFields DEF RowsNames
  <2> QED
    BY <2>1, <2>2 DEF Loaded
<1> QED
  BY <1>6, <1>7, <1>8, <1>9, <1>10 DEF RowsInv

\* Nothing is counted while targets are selected.
NoRowsYet ==
  stage = "selecting" => rows = [r \in Rows |-> NoCounts] /\ replayed = 0

RowsFullInv == EntryInv /\ RowsInv /\ LoadsInv /\ NoRowsYet

\* A step that leaves the rows alone.
LEMMA RowsKept ==
  ASSUME RowsInv, UNCHANGED <<rows, replayed>>
  PROVE  RowsInv' /\ Loaded' = Loaded
BY DEF RowsInv, RowsAddUp, SumsTo, RowOK, Loaded

LEMMA NoRowsAreSums ==
  ASSUME rows = [r \in Rows |-> NoCounts], replayed = 0
  PROVE  RowsInv /\ Loaded = 0
<1>1. /\ rows["combined"] = NoCounts
      /\ rows["prompt"] = NoCounts
      /\ rows["generated"] = NoCounts
  BY DEF Rows, Phases
<1>2. RowsAddUp /\ rows["combined"].samples = replayed /\ Loaded = 0
  BY <1>1 DEF RowsAddUp, SumsTo, NoCounts, Loaded
<1>3. /\ \A r \in Phases : rows[r].prewarm = 0
      /\ \A r \in Rows : RowOK(rows[r])
  BY DEF NoCounts, RowOK, Rows
<1> QED
  BY <1>2, <1>3 DEF RowsInv

LEMMA InitRows == Init => RowsFullInv
<1> SUFFICES ASSUME Init PROVE RowsFullInv
  OBVIOUS
<1>1. /\ rows = [r \in Rows |-> NoCounts] /\ replayed = 0
      /\ DOMAIN entries = {} /\ stage = "selecting"
  BY DEF Init
<1> QED
  BY <1>1, EntryInitInv, NoRowsAreSums, FS_EmptySet DEF RowsFullInv, LoadsInv, NoRowsYet

\* Only the combined row is charged with the prewarm.
LEMMA BeginReplayRows ==
  ASSUME RowsFullInv, EntryInv', BeginReplay
  PROVE  RowsFullInv'
<1> DEFINE T == FrequencyTargets
<1>1. /\ stage = "selecting" /\ stage' = "ready"
      /\ targets' = T
      /\ entries' = Held(T)
      /\ rows' = [rows EXCEPT !["combined"].prewarm = Cardinality(T)]
      /\ replayed' = replayed
  BY DEF BeginReplay
<1>2. rows = [r \in Rows |-> NoCounts] /\ replayed = 0
  BY <1>1 DEF RowsFullInv, NoRowsYet
<1>3. T \in SUBSET Experts /\ DOMAIN entries' = T /\ Cardinality(T) \in Nat
  <2>1. T \in SUBSET Experts
    BY <1>1, EntryTypes DEF EntryInv, EntryTypeOK
  <2> HIDE DEF T
  <2> QED
    BY <1>1, <2>1, HeldType, CellsFinite, FS_CardinalityType
<1> HIDE DEF T
<1>4. /\ rows'["combined"] = [NoCounts EXCEPT !.prewarm = Cardinality(T)]
      /\ rows'["prompt"] = NoCounts
      /\ rows'["generated"] = NoCounts
  BY <1>1, <1>2 DEF Rows, Phases
<1>5. RowsAddUp' /\ rows'["combined"].samples = replayed'
  BY <1>1, <1>2, <1>4 DEF RowsAddUp, SumsTo, NoCounts
<1>6. /\ \A r \in Phases : rows'[r].prewarm = 0
      /\ \A r \in Rows : RowOK(rows'[r])
  BY <1>4 DEF NoCounts, RowOK, Rows, Phases
<1>7. Loaded' = Cardinality(T)
  BY <1>3, <1>4 DEF Loaded, NoCounts
<1>8. RowsInv' /\ LoadsInv' /\ NoRowsYet'
  BY <1>1, <1>3, <1>5, <1>6, <1>7 DEF RowsInv, LoadsInv, NoRowsYet
<1> QED
  BY <1>8 DEF RowsFullInv

LEMMA TouchRows ==
  ASSUME RowsFullInv, EntryInv', Touch
  PROVE  RowsFullInv'
<1>1. /\ stage = "evicting" /\ stage' = "ready"
      /\ resident' = resident \cup access.required
      /\ Return(access.misses, access.evictions)
  BY DEF Touch, Return
<1>2. /\ access.hits + access.misses = Cardinality(access.required)
      /\ access.missing = access.required \ resident
      /\ access.misses = Cardinality(access.missing)
      /\ access.misses \in Nat /\ access.evictions \in Nat
      /\ Cardinality(resident) \in Nat
  BY <1>1, EntryTypes DEF RowsFullInv, EntryInv, AccessInv
<1>3. RowsInv' /\ Loaded' = Loaded + access.misses - access.evictions
  BY <1>1, <1>2, ReturnRows DEF RowsFullInv, EntryInv
<1>4. Loaded = Cardinality(resident) + access.evictions
  BY <1>1 DEF RowsFullInv, LoadsInv
<1>5. Cardinality(resident') = Cardinality(resident) + access.misses
  <2>1. /\ resident' = resident \cup access.missing
        /\ resident \cap access.missing = {}
    BY <1>1, <1>2
  <2>2. Cardinality(resident') = Cardinality(resident) + Cardinality(access.missing)
    BY <2>1, EntryTypes, DisjointSum DEF RowsFullInv, EntryInv
  <2> QED
    BY <1>2, <2>2
<1>6. Loaded' = Cardinality(resident')
  BY <1>2, <1>3, <1>4, <1>5
<1> QED
  BY <1>1, <1>3, <1>6 DEF RowsFullInv, LoadsInv, NoRowsYet

\* Displacing a target and restoring it is an eviction and a load.
LEMMA RestoreRows ==
  ASSUME RowsFullInv, EntryInv', Restore
  PROVE  RowsFullInv'
<1> DEFINE d == Cardinality(access.displaced)
<1>1. /\ stage = "restoring" /\ stage' = "ready"
      /\ entries' = Held(Restored)
      /\ Return(access.misses + d, access.misses + d)
  BY DEF Restore, Return, DemandLoads
<1>2. /\ access.hits + access.misses = Cardinality(access.required)
      /\ access.misses \in Nat /\ d \in Nat
      /\ targets \in SUBSET Experts /\ Cardinality(targets) \in Nat
  BY <1>1, EntryTypes, CellsFinite, FS_CardinalityType
     DEF RowsFullInv, EntryInv, AccessInv
<1>3. resident' = targets
  <2>1. Restored = targets
    BY <1>1 DEF Restored, RowsFullInv, EntryInv, AccessInv
  <2> QED
    BY <1>1, <1>2, <2>1, HeldType
<1> HIDE DEF d
<1>4. RowsInv' /\ Loaded' = Loaded + (access.misses + d) - (access.misses + d)
  BY <1>1, <1>2, ReturnRows DEF RowsFullInv, EntryInv
<1>5. Loaded = Cardinality(targets)
  BY <1>1 DEF RowsFullInv, LoadsInv
<1>6. Loaded' = Cardinality(resident')
  BY <1>2, <1>3, <1>4, <1>5
<1> QED
  BY <1>1, <1>4, <1>6 DEF RowsFullInv, LoadsInv, NoRowsYet

LEMMA OtherRows ==
  ASSUME RowsFullInv, EntryInv', UNCHANGED <<rows, replayed>>,
         \/ \E required \in SUBSET Experts : Select(required)
         \/ \E required \in SUBSET Experts, phase \in Phases :
              StartBundle(required, phase)
         \/ \E victim \in Experts : Evict(victim)
         \/ Displace
         \/ UNCHANGED vars
  PROVE  RowsFullInv'
<1>1. RowsInv' /\ Loaded' = Loaded
  BY RowsKept DEF RowsFullInv
<1>2. ASSUME NEW required \in SUBSET Experts, Select(required)
      PROVE  LoadsInv' /\ NoRowsYet'
  BY <1>1, <1>2 DEF Select, cacheVars, RowsFullInv, LoadsInv, NoRowsYet
<1>3. ASSUME NEW required \in SUBSET Experts, NEW phase \in Phases,
             StartBundle(required, phase)
      PROVE  LoadsInv' /\ NoRowsYet'
  <2>1. /\ stage = "ready"
        /\ stage' = IF policy \in Dynamic THEN "evicting" ELSE "displacing"
        /\ entries' = entries
        /\ access'.evictions = 0
    BY <1>3 DEF StartBundle, NoAccess
  <2>2. Cardinality(DOMAIN entries) \in Nat
    BY EntryTypes DEF RowsFullInv, EntryInv
  <2> QED
    BY <1>1, <2>1, <2>2 DEF RowsFullInv, LoadsInv, NoRowsYet
<1>4. ASSUME NEW victim \in Experts, Evict(victim)
      PROVE  LoadsInv' /\ NoRowsYet'
  <2>1. /\ stage = "evicting" /\ stage' = "evicting"
        /\ victim \in resident
        /\ resident' = resident \ {victim}
        /\ access' = [access EXCEPT !.evictions = @ + 1]
    BY <1>4 DEF Evict
  <2>2. access'.evictions = access.evictions + 1
    BY <2>1, EntryTypes DEF RowsFullInv, EntryInv, Locals
  <2>3. /\ Cardinality(resident') = Cardinality(resident) - 1
        /\ Cardinality(resident) \in Nat /\ access.evictions \in Nat
    BY <2>1, EntryTypes, FS_RemoveElement DEF RowsFullInv, EntryInv
  <2>4. Loaded = Cardinality(resident) + access.evictions
    BY <2>1 DEF RowsFullInv, LoadsInv
  <2>5. Loaded' = Cardinality(resident') + access'.evictions
    BY <1>1, <2>2, <2>3, <2>4
  <2> QED
    BY <2>1, <2>5 DEF LoadsInv, NoRowsYet
<1>5. CASE Displace
  <2>1. stage = "displacing" /\ stage' = "restoring" /\ targets' = targets
    BY <1>5 DEF Displace
  <2>2. resident = targets
    BY <2>1 DEF RowsFullInv, EntryInv, AccessInv, TargetsInv
  <2> QED
    BY <1>1, <2>1, <2>2 DEF RowsFullInv, LoadsInv, NoRowsYet
<1>6. CASE UNCHANGED vars
  BY <1>1, <1>6 DEF vars, cacheVars, RowsFullInv, LoadsInv, NoRowsYet
<1> QED
  BY <1>1, <1>2, <1>3, <1>4, <1>5, <1>6 DEF RowsFullInv

LEMMA NextRows == RowsFullInv /\ [Next]_vars => RowsFullInv'
<1> SUFFICES ASSUME RowsFullInv, [Next]_vars PROVE RowsFullInv'
  OBVIOUS
<1>1. EntryInv'
  BY EntryNextInv DEF RowsFullInv
<1>2. CASE BeginReplay
  BY <1>1, <1>2, BeginReplayRows
<1>3. CASE Touch
  BY <1>1, <1>3, TouchRows
<1>4. CASE Restore
  BY <1>1, <1>4, RestoreRows
<1>5. CASE \/ \E required \in SUBSET Experts : Select(required)
           \/ \E required \in SUBSET Experts, phase \in Phases :
                StartBundle(required, phase)
           \/ \E victim \in Experts : Evict(victim)
           \/ Displace
           \/ UNCHANGED vars
  <2>1. UNCHANGED <<rows, replayed>>
    BY <1>5 DEF Select, StartBundle, Evict, Displace, vars
  <2> QED
    BY <1>1, <1>5, <2>1, OtherRows
<1> QED
  BY <1>2, <1>3, <1>4, <1>5 DEF Next

LEMMA RowsInvariant == Spec => []RowsFullInv
<1> QED
  BY InitRows, NextRows, PTL DEF Spec

(***************************************************************************)
(* The rows of a result reconcile between bundles, for every policy: the   *)
(* phases add up to the combined row, what was prewarmed and loaded and    *)
(* not evicted is resident, and every request was a hit or a miss.         *)
(***************************************************************************)
THEOREM EntryCacheRowsReconcile == Spec => []RowsReconcile
<1>1. ASSUME RowsFullInv PROVE RowsReconcile
  <2> SUFFICES ASSUME stage = "ready" PROVE RowsReconcile
    BY DEF RowsReconcile
  <2>1. /\ RowsAddUp
        /\ \A r \in Phases : rows[r].prewarm = 0
        /\ \A r \in Rows : rows[r].hits + rows[r].misses = rows[r].requests
        /\ rows["combined"].samples = replayed
    BY <1>1 DEF RowsFullInv, RowsInv, RowOK
  <2>2. rows["combined"].prewarm + rows["combined"].demand
          - rows["combined"].evictions = Cardinality(resident)
    BY <1>1 DEF RowsFullInv, LoadsInv, Loaded
  <2>3. ASSUME NEW field \in (DOMAIN NoCounts) \ {"prewarm"}
        PROVE  rows["combined"][field] =
                 rows["prompt"][field] + rows["generated"][field]
    <3>1. field \in {"samples", "requests", "hits", "misses", "demand", "evictions"}
      BY DEF NoCounts
    <3> QED
      BY <2>1, <3>1 DEF RowsAddUp, SumsTo
  <2> QED
    BY <2>1, <2>2, <2>3 DEF RowsReconcile
<1> QED
  BY <1>1, RowsInvariant, PTL

-----------------------------------------------------------------------------
(***************************************************************************)
(* Part 3: the oracle is one.                                              *)
(*                                                                         *)
(* A hit is a pair of a bundle and an expert.  To exchange the experts of  *)
(* any other set for the targets loses no pair: each of them gives way to  *)
(* a target of its own that is required at least as often.                 *)
(***************************************************************************)
Pairs(T) == {h \in (DOMAIN selection) \X T : h[2] \in selection[h[1]]}

\* What is not larger can be embedded.
LEMMA EmbeddingExists ==
  ASSUME NEW S, NEW T, IsFiniteSet(S), IsFiniteSet(T),
         Cardinality(S) <= Cardinality(T)
  PROVE  \E f \in [S -> T] : \A a, b \in S : f[a] = f[b] => a = b
<1>1. /\ Cardinality(S) \in Nat /\ Cardinality(T) \in Nat
      /\ ExistsBijection(1 .. Cardinality(S), S)
      /\ ExistsBijection(1 .. Cardinality(T), T)
  BY FS_CardinalityType
<1>2. PICK number \in Bijection(S, 1 .. Cardinality(S)) : TRUE
  BY <1>1, Fun_ExistsBijSymmetric, Fun_ExistsBij
<1>3. PICK element \in Bijection(1 .. Cardinality(T), T) : TRUE
  BY <1>1, Fun_ExistsBij
<1>4. /\ number \in [S -> 1 .. Cardinality(S)]
      /\ \A a, b \in S : number[a] = number[b] => a = b
  BY <1>2, Fun_BijectionProperties, ZenonT(30)
<1> DEFINE M == 1 .. Cardinality(T)
<1>5. /\ element \in [M -> T]
      /\ \A m, n \in M : element[m] = element[n] => m = n
  <2>1. element \in Bijection(M, T)
    BY <1>3
  <2> HIDE DEF M
  <2> QED
    BY <2>1, Fun_BijectionProperties
<1>6. 1 .. Cardinality(S) \subseteq 1 .. Cardinality(T)
  BY <1>1
<1> DEFINE f == [a \in S |-> element[number[a]]]
<1>7. f \in [S -> T]
  BY <1>4, <1>5, <1>6
<1>8. \A a, b \in S : f[a] = f[b] => a = b
  BY <1>4, <1>5, <1>6
<1> QED
  BY <1>7, <1>8

LEMMA PairsFinite ==
  ASSUME Selected, NEW T \in SUBSET Experts
  PROVE  IsFiniteSet(Pairs(T)) /\ HitsOfFixed(T) = Cardinality(Pairs(T))
<1>1. IsFiniteSet((DOMAIN selection) \X T)
  BY FrequencyType, CellsFinite, FS_Product
<1>2. Pairs(T) \in SUBSET ((DOMAIN selection) \X T)
  BY DEF Pairs
<1> QED
  BY <1>1, <1>2, FS_Subset DEF HitsOfFixed, Pairs

\* There are targets enough to give way to.
LEMMA TargetsOutnumber ==
  ASSUME Selected, FrequencyTargets # CountedExperts,
         NEW T \in SUBSET Experts, Cardinality(T) <= Capacity
  PROVE  Cardinality(T \ FrequencyTargets) <= Cardinality(FrequencyTargets \ T)
<1> DEFINE F == FrequencyTargets
<1>1. F \in SUBSET Experts /\ Cardinality(F) = Capacity
  BY TargetsAreFirst DEF CountedExperts
<1> HIDE DEF F
<1>2. /\ Cardinality(T) = Cardinality(T \cap F) + Cardinality(T \ F)
      /\ Cardinality(F) = Cardinality(F \cap T) + Cardinality(F \ T)
      /\ Cardinality(T \cap F) \in Nat /\ Cardinality(T \ F) \in Nat
      /\ Cardinality(F \ T) \in Nat
  BY <1>1, CountSplits
<1>3. Cardinality(F \cap T) = Cardinality(T \cap F)
  <2>1. F \cap T = T \cap F
    OBVIOUS
  <2> QED
    BY <2>1
<1> DEFINE common == Cardinality(T \cap F)
           rest == Cardinality(T \ F)
           own == Cardinality(F \ T)
<1>4. rest <= own
  <2>1. /\ Cardinality(T) = common + rest /\ Cardinality(F) = common + own
        /\ common \in Nat /\ rest \in Nat /\ own \in Nat
    BY <1>2, <1>3
  <2>2. common + rest <= common + own
    BY <1>1, <2>1
  <2> HIDE DEF common, rest, own
  <2> QED
    BY <2>1, <2>2
<1> QED
  BY <1>4 DEF F

LEMMA TargetsHitMost ==
  ASSUME Selected, NEW T \in SUBSET Experts, Cardinality(T) <= Capacity
  PROVE  HitsOfFixed(T) <= HitsOfFixed(FrequencyTargets)
<1> DEFINE F == FrequencyTargets
<1>1. F \in SUBSET CountedExperts /\ F \in SUBSET Experts
  BY TargetsAreFirst DEF CountedExperts
<1>2. ASSUME NEW h \in Pairs(T)
      PROVE  /\ h = <<h[1], h[2]>>
             /\ h[1] \in DOMAIN selection
             /\ h[2] \in T
             /\ h[1] \in BundlesWith(h[2])
             /\ h[2] \in CountedExperts
  <2>1. h = <<h[1], h[2]>> /\ h[1] \in BundlesWith(h[2]) /\ h[2] \in T
    BY DEF Pairs, BundlesWith
  <2>2. Frequency(h[2]) # 0 /\ Frequency(h[2]) \in Nat
    BY <2>1, FrequencyType, FS_EmptySet
  <2> QED
    BY <2>1, <2>2 DEF CountedExperts, BundlesWith
<1>3. CASE F = CountedExperts
  <2>1. Pairs(T) \in SUBSET Pairs(F)
    BY <1>2, <1>3 DEF Pairs
  <2> QED
    BY <1>1, <2>1, PairsFinite, FS_Subset
<1>4. CASE F # CountedExperts
  <2>1. PICK partner \in [T \ F -> F \ T] :
          \A j, k \in T \ F : partner[j] = partner[k] => j = k
    <3>1. Cardinality(T \ F) <= Cardinality(F \ T)
      BY <1>4, TargetsOutnumber
    <3>2. IsFiniteSet(T \ F) /\ IsFiniteSet(F \ T)
      BY <1>1, CellsFinite
    <3> QED
      BY <3>1, <3>2, EmbeddingExists
  <2>2. ASSUME NEW k \in T \ F
        PROVE  \E g \in [BundlesWith(k) -> BundlesWith(partner[k])] :
                 \A m, n \in BundlesWith(k) : g[m] = g[n] => m = n
    <3>1. partner[k] \in F
      BY <2>1
    <3>2. Frequency(k) <= Frequency(partner[k])
      <4>1. CASE k \in CountedExperts
        BY <3>1, <4>1, TargetsAreFirst
      <4>2. CASE k \notin CountedExperts
        <5>1. Frequency(k) \in Nat /\ Frequency(partner[k]) \in Nat
          BY FrequencyType
        <5> QED
          BY <4>2, <5>1 DEF CountedExperts
      <4> QED
        BY <4>1, <4>2
    <3>3. Cardinality(BundlesWith(k)) <= Cardinality(BundlesWith(partner[k]))
      BY <3>2, FrequencyType
    <3>4. IsFiniteSet(BundlesWith(k)) /\ IsFiniteSet(BundlesWith(partner[k]))
      BY FrequencyType
    <3> QED
      BY <3>3, <3>4, EmbeddingExists
  <2> DEFINE moved == [k \in T \ F |->
                         CHOOSE g \in [BundlesWith(k) -> BundlesWith(partner[k])] :
                           \A m, n \in BundlesWith(k) : g[m] = g[n] => m = n]
  <2>3. ASSUME NEW k \in T \ F
        PROVE  /\ moved[k] \in [BundlesWith(k) -> BundlesWith(partner[k])]
               /\ \A m, n \in BundlesWith(k) : moved[k][m] = moved[k][n] => m = n
    BY <2>2
  <2> HIDE DEF moved
  <2> DEFINE f == [h \in Pairs(T) |->
                     IF h[2] \in F THEN h ELSE <<moved[h[2]][h[1]], partner[h[2]]>>]
  <2>4. ASSUME NEW h \in Pairs(T)
        PROVE  /\ f[h] \in Pairs(F)
               /\ h[2] \in F => f[h] = h
               /\ h[2] \notin F =>
                    /\ f[h] = <<moved[h[2]][h[1]], partner[h[2]]>>
                    /\ partner[h[2]] \in F \ T
    <3>1. CASE h[2] \in F
      <4>1. f[h] = h
        BY <3>1
      <4>2. h \in Pairs(F)
        BY <1>2, <3>1 DEF Pairs, BundlesWith
      <4> QED
        BY <3>1, <4>1, <4>2
    <3>2. CASE h[2] \notin F
      <4>1. h[2] \in T \ F /\ h[1] \in BundlesWith(h[2])
        BY <1>2, <3>2
      <4>2. partner[h[2]] \in F \ T
        BY <2>1, <4>1
      <4>3. moved[h[2]][h[1]] \in BundlesWith(partner[h[2]])
        BY <2>3, <4>1
      <4>4. <<moved[h[2]][h[1]], partner[h[2]]>> \in Pairs(F)
        BY <4>2, <4>3 DEF Pairs, BundlesWith
      <4>5. f[h] = <<moved[h[2]][h[1]], partner[h[2]]>>
        BY <3>2
      <4> QED
        BY <3>2, <4>2, <4>4, <4>5
    <3> QED
      BY <3>1, <3>2
  <2>5. f \in [Pairs(T) -> Pairs(F)]
    BY <2>4
  <2> HIDE DEF f
  <2>6. ASSUME NEW g \in Pairs(T), NEW h \in Pairs(T), f[g] = f[h]
        PROVE  g = h
    <3>1. CASE g[2] \in F /\ h[2] \in F
      BY <2>4, <2>6, <3>1
    <3>2. CASE g[2] \in F /\ h[2] \notin F
      <4>1. g = <<moved[h[2]][h[1]], partner[h[2]]>> /\ partner[h[2]] \notin T
        BY <2>4, <2>6, <3>2
      <4>2. g[2] = partner[h[2]]
        BY <4>1
      <4> QED
        BY <1>2, <4>1, <4>2
    <3>3. CASE g[2] \notin F /\ h[2] \in F
      <4>1. h = <<moved[g[2]][g[1]], partner[g[2]]>> /\ partner[g[2]] \notin T
        BY <2>4, <2>6, <3>3
      <4>2. h[2] = partner[g[2]]
        BY <4>1
      <4> QED
        BY <1>2, <4>1, <4>2
    <3>4. CASE g[2] \notin F /\ h[2] \notin F
      <4>1. /\ g[2] \in T \ F /\ h[2] \in T \ F
            /\ g[1] \in BundlesWith(g[2]) /\ h[1] \in BundlesWith(h[2])
        BY <1>2, <3>4
      <4>2. <<moved[g[2]][g[1]], partner[g[2]]>> = <<moved[h[2]][h[1]], partner[h[2]]>>
        BY <2>4, <2>6, <3>4
      <4>3. /\ partner[g[2]] = partner[h[2]]
            /\ moved[g[2]][g[1]] = moved[h[2]][h[1]]
        BY <4>2
      <4>4. g[2] = h[2]
        BY <2>1, <4>1, <4>3
      <4>5. g[1] = h[1]
        BY <2>3, <4>1, <4>3, <4>4
      <4> QED
        BY <1>2, <4>4, <4>5
    <3> QED
      BY <3>1, <3>2, <3>3, <3>4
  <2>7. f \in Injection(Pairs(T), Pairs(F))
    BY <2>5, <2>6, Fun_IsInj
  <2>8. IsFiniteSet(Pairs(F))
    BY <1>1, PairsFinite
  <2>9. Cardinality(Pairs(T)) <= Cardinality(Pairs(F))
    BY <2>7, <2>8, FS_Injection
  <2> QED
    BY <1>1, <2>9, PairsFinite
<1> QED
  BY <1>3, <1>4
\* The hits of the bundles replayed so far, had the targets always been held.
ReplayedPairs == {h \in (1 .. replayed) \X targets : h[2] \in selection[h[1]]}

Oracle == policy = "offline_oracle_frequency"

OracleInv ==
  Oracle =>
    /\ replayed <= Len(selection)
    /\ stage # "selecting" => targets = FrequencyTargets
    /\ rows["combined"].hits = Cardinality(ReplayedPairs)
    /\ stage \in {"displacing", "restoring"} =>
         /\ replayed < Len(selection)
         /\ access.required = selection[replayed + 1]
         /\ access.hits = Cardinality(access.required \cap targets)

OracleFullInv == RowsFullInv /\ OracleInv

LEMMA NothingReplayed ==
  ASSUME replayed = 0
  PROVE  ReplayedPairs = {} /\ Cardinality(ReplayedPairs) = 0
<1>1. ReplayedPairs = {}
  BY DEF ReplayedPairs
<1> QED
  BY <1>1, FS_EmptySet

\* The targets depend on nothing but the selection.
LEMMA TargetsKept ==
  ASSUME UNCHANGED selection
  PROVE  FrequencyTargets' = FrequencyTargets
BY DEF FrequencyTargets, Frequency, RankedBefore

LEMMA PairsKept ==
  ASSUME UNCHANGED <<selection, targets, replayed>>
  PROVE  Cardinality(ReplayedPairs') = Cardinality(ReplayedPairs)
<1>1. ReplayedPairs' = ReplayedPairs
  BY DEF ReplayedPairs
<1> QED
  BY <1>1

LEMMA InitOracle == Init => OracleFullInv
<1> SUFFICES ASSUME Init PROVE OracleFullInv
  OBVIOUS
<1>1. /\ RowsFullInv /\ replayed = 0 /\ selection = << >> /\ stage = "selecting"
      /\ rows["combined"].hits = 0
  BY InitRows DEF Init, NoCounts, Rows
<1>2. replayed <= Len(selection)
  BY <1>1
<1> QED
  BY <1>1, <1>2, NothingReplayed DEF OracleFullInv, OracleInv

LEMMA SelectOracle ==
  ASSUME NEW required \in SUBSET Experts, OracleFullInv, Select(required)
  PROVE  OracleInv'
<1>1. /\ stage = "selecting" /\ stage' = stage /\ replayed' = replayed
      /\ rows' = rows
      /\ selection' = Append(selection, required)
  BY DEF Select
<1>2. rows = [r \in Rows |-> NoCounts] /\ replayed = 0
  BY <1>1 DEF OracleFullInv, RowsFullInv, NoRowsYet
<1>3. rows'["combined"].hits = 0 /\ replayed' = 0
  BY <1>1, <1>2 DEF NoCounts, Rows
<1>4. ReplayedPairs' = {}
  BY <1>3 DEF ReplayedPairs
<1>5. Cardinality(ReplayedPairs') = 0
  BY <1>4, FS_EmptySet
<1>6. Len(selection') \in Nat
  BY <1>1, EntryTypes, AppendProperties
     DEF OracleFullInv, RowsFullInv, EntryInv, Selected
<1> QED
  BY <1>1, <1>3, <1>5, <1>6 DEF OracleInv

LEMMA BeginReplayOracle ==
  ASSUME OracleFullInv, BeginReplay
  PROVE  OracleInv'
<1> SUFFICES ASSUME Oracle' PROVE OracleInv'
  BY DEF OracleInv
<1>1. /\ stage = "selecting" /\ stage' = "ready" /\ replayed' = replayed
      /\ Oracle /\ selection' = selection
      /\ targets' = FrequencyTargets
      /\ rows'["combined"].hits = rows["combined"].hits
  BY EntryTypes DEF BeginReplay, Oracle, OracleFullInv, RowsFullInv, EntryInv,
                    Rows, RowCounts
<1>2. rows = [r \in Rows |-> NoCounts] /\ replayed = 0
  BY <1>1 DEF OracleFullInv, RowsFullInv, NoRowsYet
<1>3. rows'["combined"].hits = 0 /\ replayed' = 0
  BY <1>1, <1>2 DEF NoCounts, Rows
<1>4. ReplayedPairs' = {}
  BY <1>3 DEF ReplayedPairs
<1>5. Cardinality(ReplayedPairs') = 0
  BY <1>4, FS_EmptySet
<1>6. targets' = FrequencyTargets'
  BY <1>1, TargetsKept
<1>7. replayed' <= Len(selection')
  BY <1>1 DEF OracleFullInv, OracleInv
<1> QED
  BY <1>1, <1>3, <1>5, <1>6, <1>7 DEF OracleInv

LEMMA StartBundleOracle ==
  ASSUME NEW required \in SUBSET Experts, NEW phase \in Phases, OracleFullInv,
         StartBundle(required, phase)
  PROVE  OracleInv'
<1> SUFFICES ASSUME Oracle' PROVE OracleInv'
  BY DEF OracleInv
<1>1. /\ Oracle /\ stage = "ready" /\ stage' = "displacing"
      /\ UNCHANGED <<selection, targets, rows, replayed>>
      /\ replayed < Len(selection) /\ required = selection[replayed + 1]
      /\ access'.required = required
      /\ access'.hits = Cardinality(required \cap resident)
  BY DEF StartBundle, MayReplay, Oracle, NoAccess
<1>2. resident = targets
  BY <1>1 DEF Oracle, OracleFullInv, RowsFullInv, EntryInv, TargetsInv
<1>3. targets' = FrequencyTargets'
  BY <1>1, TargetsKept DEF OracleFullInv, OracleInv
<1>4. rows'["combined"].hits = Cardinality(ReplayedPairs')
  BY <1>1, PairsKept DEF OracleFullInv, OracleInv
<1>5. access'.hits = Cardinality(access'.required \cap targets')
  BY <1>1, <1>2
<1> QED
  BY <1>1, <1>3, <1>4, <1>5 DEF OracleInv, OracleFullInv

LEMMA DisplaceOracle ==
  ASSUME OracleFullInv, Displace
  PROVE  OracleInv'
<1> SUFFICES ASSUME Oracle' PROVE OracleInv'
  BY DEF OracleInv
<1>1. /\ Oracle /\ stage = "displacing" /\ stage' = "restoring"
      /\ UNCHANGED <<selection, targets, rows, replayed>>
      /\ access' = [access EXCEPT !.displaced = Displaced]
  BY DEF Displace, Oracle
<1>2. access'.required = access.required /\ access'.hits = access.hits
  BY <1>1, EntryTypes DEF OracleFullInv, RowsFullInv, EntryInv, Locals
<1>3. targets' = FrequencyTargets'
  BY <1>1, TargetsKept DEF OracleFullInv, OracleInv
<1>4. rows'["combined"].hits = Cardinality(ReplayedPairs')
  BY <1>1, PairsKept DEF OracleFullInv, OracleInv
<1>5. /\ replayed < Len(selection)
      /\ access.required = selection[replayed + 1]
      /\ access.hits = Cardinality(access.required \cap targets)
      /\ replayed <= Len(selection)
  BY <1>1 DEF OracleFullInv, OracleInv
<1> QED
  BY <1>1, <1>2, <1>3, <1>4, <1>5 DEF OracleInv

\* The bundle that is returned adds the pairs of its hits.
LEMMA RestoreOracle ==
  ASSUME OracleFullInv, Restore
  PROVE  OracleInv'
<1> SUFFICES ASSUME Oracle' PROVE OracleInv'
  BY DEF OracleInv
<1> DEFINE n == replayed + 1
           required == selection[n]
           new == {n} \X (required \cap targets)
           d == Cardinality(access.displaced)
<1>1. /\ Oracle /\ stage = "restoring" /\ stage' = "ready" /\ replayed' = n
      /\ UNCHANGED <<selection, targets>>
      /\ rows'["combined"] =
           Counted(rows["combined"], DemandLoads, access.misses + d)
  BY DEF Restore, Return, Oracle, Rows
<1>2. /\ replayed < Len(selection) /\ access.required = required
      /\ access.hits = Cardinality(required \cap targets)
      /\ rows["combined"].hits = Cardinality(ReplayedPairs)
      /\ targets = FrequencyTargets
  BY <1>1 DEF OracleFullInv, OracleInv
<1>3. /\ replayed \in Nat /\ Len(selection) \in Nat /\ n \in Nat
      /\ selection \in Seq(SUBSET Experts)
      /\ targets \in SUBSET Experts
      /\ EntryTypeOK
  <2>1. EntryTypeOK
    BY DEF OracleFullInv, RowsFullInv, EntryInv
  <2>2. /\ replayed \in Nat /\ targets \in SUBSET Experts
        /\ selection \in Seq(SUBSET Experts)
    BY <2>1 DEF EntryTypeOK
  <2>3. Len(selection) \in Nat
    BY <2>2, LenProperties
  <2> QED
    BY <2>1, <2>2, <2>3
<1>4. rows'["combined"].hits =
        Cardinality(ReplayedPairs) + Cardinality(required \cap targets)
  <2>1. rows["combined"] \in RowCounts
    BY <1>3, RowFields DEF RowsNames
  <2>2. Grown(rows["combined"], rows'["combined"], DemandLoads, access.misses + d)
    BY <1>1, <2>1, CountedIsGrown
  <2> QED
    BY <1>2, <2>2 DEF Grown
<1>5. ReplayedPairs' = ReplayedPairs \cup new /\ ReplayedPairs \cap new = {}
  <2> HIDE DEF n
  <2>1. /\ 1 .. n = (1 .. replayed) \cup {n} /\ n \notin 1 .. replayed
    BY <1>3 DEF n
  <2>2. ReplayedPairs' = {h \in (1 .. n) \X targets : h[2] \in selection[h[1]]}
    BY <1>1 DEF ReplayedPairs
  <2> QED
    BY <2>1, <2>2 DEF ReplayedPairs
<1>6. IsFiniteSet(ReplayedPairs) /\ IsFiniteSet(new)
      /\ Cardinality(new) = Cardinality(required \cap targets)
  <2>1. /\ IsFiniteSet(targets) /\ IsFiniteSet(required \cap targets)
        /\ Cardinality(required \cap targets) \in Nat
    BY <1>3, CellsFinite, FS_CardinalityType, FS_Subset
  <2>2. IsFiniteSet((1 .. replayed) \X targets)
    <3>1. IsFiniteSet(1 .. replayed)
      BY <1>3, FS_Interval
    <3> QED
      BY <2>1, <3>1, FS_Product
  <2>3. IsFiniteSet(ReplayedPairs)
    BY <2>2, FS_Subset DEF ReplayedPairs
  <2>4. IsFiniteSet({n}) /\ Cardinality({n}) = 1
    BY FS_Singleton
  <2> HIDE DEF n
  <2>5. IsFiniteSet(new)
        /\ Cardinality(new) = Cardinality({n}) * Cardinality(required \cap targets)
    BY <2>1, <2>4, FS_Product
  <2> QED
    BY <2>1, <2>3, <2>4, <2>5
<1> HIDE DEF n, new
<1>7. /\ Cardinality(ReplayedPairs') =
           Cardinality(ReplayedPairs) + Cardinality(required \cap targets)
  <2>1. Cardinality(ReplayedPairs \cup new) =
          Cardinality(ReplayedPairs) + Cardinality(new)
            - Cardinality(ReplayedPairs \cap new)
    BY <1>6, FS_Union
  <2>2. Cardinality(ReplayedPairs \cap new) = 0
    BY <1>5, FS_EmptySet
  <2>3. Cardinality(ReplayedPairs) \in Nat /\ Cardinality(new) \in Nat
    BY <1>6, FS_CardinalityType
  <2> QED
    BY <1>5, <1>6, <2>1, <2>2, <2>3
<1>8. targets' = FrequencyTargets'
  BY <1>1, <1>2, TargetsKept
<1>9. replayed' <= Len(selection')
  BY <1>1, <1>2, <1>3 DEF n
<1> QED
  BY <1>1, <1>4, <1>7, <1>8, <1>9 DEF OracleInv

LEMMA NextOracle == OracleFullInv /\ [Next]_vars => OracleFullInv'
<1> SUFFICES ASSUME OracleFullInv, [Next]_vars PROVE OracleFullInv'
  OBVIOUS
<1>1. RowsFullInv'
  BY NextRows DEF OracleFullInv
<1>2. ASSUME (\E victim \in Experts : Evict(victim)) \/ Touch
      PROVE  OracleInv'
  <2>1. stage = "evicting" /\ policy' = policy
    BY <1>2 DEF Evict, Touch, Return
  <2>2. policy \in Dynamic
    BY <2>1 DEF OracleFullInv, RowsFullInv, EntryInv, AccessInv
  <2> QED
    BY <2>1, <2>2 DEF OracleInv, Oracle
<1>3. ASSUME UNCHANGED vars PROVE OracleInv'
  <2>1. UNCHANGED <<policy, selection, targets, access, stage, rows, replayed>>
    BY <1>3 DEF vars, cacheVars
  <2>2. /\ FrequencyTargets' = FrequencyTargets
        /\ Cardinality(ReplayedPairs') = Cardinality(ReplayedPairs)
    BY <2>1, TargetsKept, PairsKept
  <2>3. OracleInv
    BY DEF OracleFullInv
  <2> QED
    BY <2>1, <2>2, <2>3 DEF OracleInv, Oracle
<1>4. ASSUME \/ \E required \in SUBSET Experts : Select(required)
             \/ BeginReplay
             \/ \E required \in SUBSET Experts, phase \in Phases :
                  StartBundle(required, phase)
      PROVE  OracleInv'
  BY <1>4, SelectOracle, BeginReplayOracle, StartBundleOracle
<1>5. ASSUME Displace \/ Restore PROVE OracleInv'
  BY <1>5, DisplaceOracle, RestoreOracle
<1>6. OracleInv'
  BY <1>2, <1>3, <1>4, <1>5 DEF Next
<1> QED
  BY <1>1, <1>6 DEF OracleFullInv

LEMMA OracleInvariant == Spec => []OracleFullInv
<1> QED
  BY InitOracle, NextOracle, PTL DEF Spec

(***************************************************************************)
(* Having replayed the bundles it was selected from, the oracle has as     *)
(* many hits as any set of experts that fits the capacity would have had   *)
(* that was resident all along: no displacement and restoration in between *)
(* has cost it one, and no other choice of experts was better.             *)
(***************************************************************************)
THEOREM EntryCacheOracleIsBestFixed == Spec => []OracleIsBestFixed
<1>1. ASSUME OracleFullInv PROVE OracleIsBestFixed
  <2> SUFFICES ASSUME Oracle, stage = "ready", replayed = Len(selection),
                      NEW T \in SUBSET Experts, Cardinality(T) <= Capacity
               PROVE  HitsOfFixed(T) <= rows["combined"].hits
    BY DEF OracleIsBestFixed, Oracle
  <2>1. /\ targets = FrequencyTargets
        /\ rows["combined"].hits = Cardinality(ReplayedPairs)
    BY <1>1 DEF OracleFullInv, OracleInv
  <2>2. Selected
    BY <1>1, EntryTypes DEF OracleFullInv, RowsFullInv, EntryInv
  <2>3. DOMAIN selection = 1 .. replayed
    BY <2>2, LenProperties DEF Selected
  <2>4. HitsOfFixed(FrequencyTargets) = Cardinality(ReplayedPairs)
    BY <2>1, <2>3 DEF HitsOfFixed, ReplayedPairs
  <2> QED
    BY <2>1, <2>2, <2>4, TargetsHitMost
<1> QED
  BY <1>1, OracleInvariant, PTL
-----------------------------------------------------------------------------
(***************************************************************************)
(* Part 4: the two implementations of LRU and LFU agree.                   *)
(*                                                                         *)
(* The entry replay takes a bundle first.  While it evicts, the byte       *)
(* replay still holds what both started from; when it has touched its      *)
(* bundle, the byte replay has to follow.  What is carried through both    *)
(* halves is how the two residencies differ: by experts that go before all *)
(* unpinned ones the entry replay kept, and only while there is no room.   *)
(***************************************************************************)
byteResident == DOMAIN byteEntries

\* Both replays' order: frequency, last touch, key.
Earlier(E, j, k) ==
  \/ E[j].frequency < E[k].frequency
  \/ /\ E[j].frequency = E[k].frequency
     /\ \/ E[j].last < E[k].last
        \/ E[j].last = E[k].last /\ j < k

Stamps == [frequency : Nat, last : Nat]

ByteLocals == [required : SUBSET Experts, missing : SUBSET Experts, hits : Nat,
               running : Int, evictions : Nat, evicted : Int]

ByteTouched(k) ==
  [frequency |-> IF policy = "lru" THEN 0
                 ELSE IF k \in byteResident THEN byteEntries[k].frequency + 1
                 ELSE 1,
   last      |-> byteClock]

ByteTypes ==
  /\ byteResident \in SUBSET Experts
  /\ byteEntries \in [byteResident -> Stamps]
  /\ byteAccess \in ByteLocals
  /\ byteClock \in Nat
  /\ byteCounters.requests \in Nat /\ byteCounters.hits \in Nat
  /\ byteCounters.misses \in Nat /\ byteCounters.loaded \in Nat
  /\ byteCounters.evictions \in Nat
  /\ policy = "lru" => \A k \in byteResident : byteEntries[k].frequency = 0

\* The combined row counts what the byte replay counts.
CountsAgree ==
  /\ rows["combined"].requests = byteCounters.requests
  /\ rows["combined"].hits = byteCounters.hits
  /\ rows["combined"].misses = byteCounters.misses
  /\ rows["combined"].demand = byteCounters.loaded
  /\ rows["combined"].evictions = byteCounters.evictions

\* The combined row is ahead by the bundle that the byte replay is inside.
CountsFollow ==
  /\ rows["combined"].requests =
       byteCounters.requests + Cardinality(byteAccess.required)
  /\ rows["combined"].hits = byteCounters.hits + byteAccess.hits
  /\ rows["combined"].misses =
       byteCounters.misses + Cardinality(byteAccess.missing)
  /\ rows["combined"].demand =
       byteCounters.loaded + Cardinality(byteAccess.missing)
  /\ rows["combined"].evictions =
       byteCounters.evictions
         + (byteAccess.evictions + Cardinality(byteResident)
              + Cardinality(byteAccess.missing) - Cardinality(resident))

\* The entry replay is inside a bundle that the byte replay has yet to take.
EntryEvicts ==
  /\ byteAccess.required = access.required
  /\ byteAccess.missing = access.required \ byteResident
  /\ byteAccess.missing = access.missing
  /\ byteAccess.hits = access.hits
  /\ byteAccess.running = Cardinality(byteResident)
  /\ byteAccess.evictions = 0
  /\ resident \subseteq byteResident
  /\ \A k \in resident : entries[k] = byteEntries[k]
  /\ \A j \in byteResident \ resident :
       /\ j \notin access.required
       /\ \A k \in resident \ access.required : Earlier(byteEntries, j, k)
  /\ byteResident \ resident # {} =>
       Capacity <= Cardinality(resident) + access.misses
  /\ access.evictions + Cardinality(resident) = Cardinality(byteResident)

\* The entry replay has finished the bundle that the byte replay is inside.
ByteFollows ==
  /\ byteAccess.missing = byteAccess.required \ byteResident
  /\ byteAccess.running = Cardinality(byteResident)
  /\ byteAccess.required \subseteq resident
  /\ resident \ byteAccess.required \subseteq byteResident
  /\ \A k \in resident \ byteAccess.required : entries[k] = byteEntries[k]
  /\ \A k \in byteAccess.required : entries[k] = ByteTouched(k)
  /\ \A j \in byteResident \ resident, k \in resident \ byteAccess.required :
       Earlier(byteEntries, j, k)
  /\ byteResident \ resident # {} => Capacity <= Cardinality(resident)
  /\ CountsFollow

InStep ==
  \/ stage = "selecting" /\ bytePhase = "idle" /\ clock = 0
  \/ /\ stage = "ready" /\ bytePhase = "ready"
     /\ entries = byteEntries /\ CountsAgree
  \/ /\ stage = "evicting" /\ bytePhase = "evicting"
     /\ EntryEvicts /\ CountsAgree
  \/ stage = "ready" /\ bytePhase = "evicting" /\ ByteFollows

DynamicInv ==
  policy \in Dynamic => ByteTypes /\ byteClock = clock /\ InStep

ParityInv == RowsFullInv /\ DynamicInv

-----------------------------------------------------------------------------
(***************************************************************************)
(* What the steps of the byte replay do, for both policies.                *)
(***************************************************************************)
\* With one byte each, bytes are experts.
LEMMA UnitBytes ==
  ASSUME NEW S \in SUBSET Experts
  PROVE  /\ Bytes(S) = Cardinality(S)
         /\ LRUBytes!Bytes(S) = Cardinality(S)
         /\ LFUBytes!Bytes(S) = Cardinality(S)
<1>1. LRUBytes!Bytes(S) = Bytes(S) /\ LFUBytes!Bytes(S) = Bytes(S)
  BY DEF LRUBytes!Bytes, LFUBytes!Bytes, LRUBytes!Cells, LFUBytes!Cells,
         LRUBytes!Cardinality, LFUBytes!Cardinality, Cardinality, Bytes, Cells
<1>2. Bytes(S) = Cardinality(S)
  <2>1. Cells(S) = S \X {1}
    BY UnitSizeAssumption, SizeAssumption DEF Cells
  <2>2. IsFiniteSet(S) /\ Cardinality(S) \in Nat
    BY CellsFinite, FS_CardinalityType
  <2>3. IsFiniteSet({1}) /\ Cardinality({1}) = 1
    BY FS_Singleton
  <2>4. Cardinality(S \X {1}) = Cardinality(S) * Cardinality({1})
    BY <2>2, <2>3, FS_Product
  <2> QED
    BY <2>1, <2>2, <2>3, <2>4 DEF Bytes
<1> QED
  BY <1>1, <1>2

ByteBegins ==
  /\ bytePhase' = "ready"
  /\ byteEntries' = << >>
  /\ byteClock' = 0
  /\ byteAccess' = byteAccess
  /\ byteCounters'.requests = 0 /\ byteCounters'.hits = 0
  /\ byteCounters'.misses = 0 /\ byteCounters'.loaded = 0
  /\ byteCounters'.evictions = 0

ByteStarts(required) ==
  /\ bytePhase = "ready" /\ bytePhase' = "evicting"
  /\ byteClock' = byteClock + 1
  /\ byteAccess' = [required  |-> required,
                    missing   |-> required \ byteResident,
                    hits      |-> Cardinality(required \cap byteResident),
                    running   |-> Cardinality(byteResident),
                    evictions |-> 0,
                    evicted   |-> 0]
  /\ UNCHANGED <<byteEntries, byteCounters>>

ByteEvicts(victim) ==
  /\ bytePhase = "evicting" /\ bytePhase' = "evicting"
  /\ byteAccess.running + Cardinality(byteAccess.missing) > Capacity
  /\ victim \in byteResident \ byteAccess.required
  /\ \A k \in byteResident \ (byteAccess.required \cup {victim}) :
       Earlier(byteEntries, victim, k)
  /\ byteEntries' = [k \in byteResident \ {victim} |-> byteEntries[k]]
  /\ byteAccess' = [byteAccess EXCEPT !.running = @ - Size[victim],
                                      !.evictions = @ + 1,
                                      !.evicted = @ + Size[victim]]
  /\ UNCHANGED <<byteClock, byteCounters>>

ByteFinishes ==
  /\ bytePhase = "evicting" /\ bytePhase' = "ready"
  /\ byteAccess.running + Cardinality(byteAccess.missing) <= Capacity
  /\ byteEntries' = [k \in byteResident \cup byteAccess.required |->
                       IF k \in byteAccess.required THEN ByteTouched(k)
                       ELSE byteEntries[k]]
  /\ byteCounters'.requests =
       byteCounters.requests + Cardinality(byteAccess.required)
  /\ byteCounters'.hits = byteCounters.hits + byteAccess.hits
  /\ byteCounters'.misses =
       byteCounters.misses + Cardinality(byteAccess.missing)
  /\ byteCounters'.loaded =
       byteCounters.loaded + Cardinality(byteAccess.missing)
  /\ byteCounters'.evictions = byteCounters.evictions + byteAccess.evictions
  /\ byteAccess' \in ByteLocals
  /\ byteClock' = byteClock

ByteCardinality(S) ==
  /\ LRUBytes!Cardinality(S) = Cardinality(S)
  /\ LFUBytes!Cardinality(S) = Cardinality(S)

LEMMA ByteCardinalities == \A S : ByteCardinality(S)
BY DEF ByteCardinality, LRUBytes!Cardinality, LFUBytes!Cardinality, Cardinality

LEMMA BeginBothSteps ==
  ASSUME policy \in Dynamic, BeginBoth
  PROVE  BeginReplay /\ ByteBegins
<1>1. CASE LRUBytes!StartWorkload
  <2>1. /\ bytePhase' = "ready" /\ byteEntries' = << >> /\ byteClock' = 0
        /\ byteAccess' = byteAccess
        /\ byteCounters' = LRUBytes!StartingCounts(DOMAIN byteEntries')
    BY <1>1 DEF LRUBytes!StartWorkload, Lifecycle
  <2> QED
    BY <2>1 DEF BeginBoth, ByteBegins, LRUBytes!StartingCounts, LRUBytes!NoCounts
<1>2. CASE LFUBytes!StartWorkload
  <2>1. /\ bytePhase' = "ready" /\ byteEntries' = << >> /\ byteClock' = 0
        /\ byteAccess' = byteAccess
        /\ byteCounters' = LFUBytes!StartingCounts(DOMAIN byteEntries')
    BY <1>2 DEF LFUBytes!StartWorkload, Lifecycle
  <2> QED
    BY <2>1 DEF BeginBoth, ByteBegins, LFUBytes!StartingCounts, LFUBytes!NoCounts
<1> QED
  BY <1>1, <1>2 DEF BeginBoth, NoBytes

LEMMA StartBothSteps ==
  ASSUME policy \in Dynamic, ByteTypes,
         NEW required \in SUBSET Experts, NEW phase \in Phases,
         StartBoth(required, phase)
  PROVE  StartBundle(required, phase) /\ ByteStarts(required)
<1>1. byteResident \in SUBSET Experts
  BY DEF ByteTypes
<1>2. CASE LRUBytes!StartAccess(required)
  <2>1. /\ LRUBytes!Bytes(byteResident) = Cardinality(byteResident)
        /\ LRUBytes!Cardinality(required \cap byteResident) =
             Cardinality(required \cap byteResident)
    BY <1>1, UnitBytes, ByteCardinalities DEF ByteCardinality
  <2> QED
    BY <1>2, <2>1 DEF StartBoth, ByteStarts, LRUBytes!StartAccess,
                      LRUBytes!resident, byteResident
<1>3. CASE LFUBytes!StartAccess(required)
  <2>1. /\ LFUBytes!Bytes(byteResident) = Cardinality(byteResident)
        /\ LFUBytes!Cardinality(required \cap byteResident) =
             Cardinality(required \cap byteResident)
    BY <1>1, UnitBytes, ByteCardinalities DEF ByteCardinality
  <2> QED
    BY <1>3, <2>1 DEF StartBoth, ByteStarts, LFUBytes!StartAccess,
                      LFUBytes!resident, byteResident
<1> QED
  BY <1>2, <1>3 DEF StartBoth, NoBytes
LEMMA ByteAccessTypes ==
  ASSUME ByteTypes
  PROVE  /\ byteAccess.required \in SUBSET Experts
         /\ byteAccess.missing \in SUBSET Experts
         /\ byteAccess.hits \in Nat
         /\ byteAccess.running \in Int
         /\ byteAccess.evictions \in Nat
         /\ byteAccess.evicted \in Int
         /\ IsFiniteSet(byteResident)
         /\ Cardinality(byteResident) \in Nat
         /\ Cardinality(byteAccess.required) \in Nat
         /\ Cardinality(byteAccess.missing) \in Nat
<1>1. /\ byteAccess.required \in SUBSET Experts
      /\ byteAccess.missing \in SUBSET Experts
      /\ byteAccess.hits \in Nat /\ byteAccess.running \in Int
      /\ byteAccess.evictions \in Nat /\ byteAccess.evicted \in Int
      /\ byteResident \in SUBSET Experts
  BY DEF ByteTypes, ByteLocals
<1> QED
  BY <1>1, CellsFinite, FS_CardinalityType

LEMMA NoByteAccessType ==
  LRUBytes!NoAccess \in ByteLocals /\ LFUBytes!NoAccess \in ByteLocals
BY DEF LRUBytes!NoAccess, LFUBytes!NoAccess, ByteLocals

LEMMA ByteEvictSteps ==
  ASSUME ByteTypes, NEW victim \in Experts,
         \/ policy = "lru" /\ LRUBytes!Evict(victim)
         \/ policy = "lfu" /\ LFUBytes!Evict(victim)
  PROVE  ByteEvicts(victim)
<1>1. LRUBytes!Bytes(byteAccess.missing) = Cardinality(byteAccess.missing)
      /\ LFUBytes!Bytes(byteAccess.missing) = Cardinality(byteAccess.missing)
  BY ByteAccessTypes, UnitBytes
<1>2. CASE policy = "lru" /\ LRUBytes!Evict(victim)
  <2>1. /\ bytePhase = "evicting" /\ bytePhase' = bytePhase
        /\ byteAccess.running + Cardinality(byteAccess.missing) > Capacity
        /\ victim \in byteResident \ byteAccess.required
        /\ byteEntries' = [k \in byteResident \ {victim} |-> byteEntries[k]]
        /\ byteAccess' = [byteAccess EXCEPT !.running = @ - Size[victim],
                                            !.evictions = @ + 1,
                                            !.evicted = @ + Size[victim]]
        /\ UNCHANGED <<byteClock, byteCounters>>
    BY <1>1, <1>2 DEF LRUBytes!Evict, LRUBytes!demandLoadBytes, LRUBytes!candidates,
                      LRUBytes!resident, LRUBytes!AfterEviction, byteResident
  <2>2. ASSUME NEW k \in byteResident \ (byteAccess.required \cup {victim})
        PROVE  Earlier(byteEntries, victim, k)
    <3>1. LRUBytes!EvictedBefore(victim, k)
      BY <1>2, <2>2 DEF LRUBytes!Evict, LRUBytes!candidates, LRUBytes!resident,
                        byteResident
    <3>2. \/ byteEntries[victim].last < byteEntries[k].last
          \/ byteEntries[victim].last = byteEntries[k].last /\ victim < k
      BY <2>1, <2>2, <3>1 DEF LRUBytes!EvictedBefore, LRUBytes!Older,
                              LRUBytes!resident, byteResident
    <3>3. byteEntries[victim].frequency = byteEntries[k].frequency
      BY <1>2, <2>1, <2>2 DEF ByteTypes
    <3> QED
      BY <3>2, <3>3 DEF Earlier
  <2> QED
    BY <2>1, <2>2 DEF ByteEvicts
<1>3. CASE policy = "lfu" /\ LFUBytes!Evict(victim)
  <2>1. /\ bytePhase = "evicting" /\ bytePhase' = bytePhase
        /\ byteAccess.running + Cardinality(byteAccess.missing) > Capacity
        /\ victim \in byteResident \ byteAccess.required
        /\ byteEntries' = [k \in byteResident \ {victim} |-> byteEntries[k]]
        /\ byteAccess' = [byteAccess EXCEPT !.running = @ - Size[victim],
                                            !.evictions = @ + 1,
                                            !.evicted = @ + Size[victim]]
        /\ UNCHANGED <<byteClock, byteCounters>>
    BY <1>1, <1>3 DEF LFUBytes!Evict, LFUBytes!demandLoadBytes, LFUBytes!candidates,
                      LFUBytes!resident, LFUBytes!AfterEviction, byteResident
  <2>2. ASSUME NEW k \in byteResident \ (byteAccess.required \cup {victim})
        PROVE  Earlier(byteEntries, victim, k)
    <3>1. LFUBytes!EvictedBefore(victim, k)
      BY <1>3, <2>2 DEF LFUBytes!Evict, LFUBytes!candidates, LFUBytes!resident,
                        byteResident
    <3> QED
      BY <2>1, <2>2, <3>1 DEF LFUBytes!EvictedBefore, LFUBytes!Older, Earlier,
                              LFUBytes!resident, byteResident
  <2> QED
    BY <2>1, <2>2 DEF ByteEvicts
<1> QED
  BY <1>2, <1>3

LEMMA ByteFinishSteps ==
  ASSUME ByteTypes,
         \/ policy = "lru" /\ LRUBytes!FinishAccess
         \/ policy = "lfu" /\ LFUBytes!FinishAccess
  PROVE  ByteFinishes
<1>1. /\ LRUBytes!Bytes(byteAccess.missing) = Cardinality(byteAccess.missing)
      /\ LFUBytes!Bytes(byteAccess.missing) = Cardinality(byteAccess.missing)
      /\ LRUBytes!Cardinality(byteAccess.missing) = Cardinality(byteAccess.missing)
      /\ LFUBytes!Cardinality(byteAccess.missing) = Cardinality(byteAccess.missing)
      /\ LRUBytes!Cardinality(byteAccess.required) = Cardinality(byteAccess.required)
      /\ LFUBytes!Cardinality(byteAccess.required) = Cardinality(byteAccess.required)
  BY ByteAccessTypes, UnitBytes, ByteCardinalities DEF ByteCardinality
<1>2. CASE policy = "lru" /\ LRUBytes!FinishAccess
  <2>1. byteEntries' = [k \in byteResident \cup byteAccess.required |->
                          IF k \in byteAccess.required THEN ByteTouched(k)
                          ELSE byteEntries[k]]
    <3>1. \A k : LRUBytes!TouchedEntry(k) = ByteTouched(k)
      BY <1>2 DEF LRUBytes!TouchedEntry, ByteTouched
    <3> QED
      BY <1>2, <3>1 DEF LRUBytes!FinishAccess, LRUBytes!resident, byteResident
  <2>2. /\ bytePhase = "evicting" /\ bytePhase' = "ready"
        /\ byteAccess.running + Cardinality(byteAccess.missing) <= Capacity
        /\ byteClock' = byteClock /\ byteAccess' = LRUBytes!NoAccess
    BY <1>1, <1>2 DEF LRUBytes!FinishAccess, LRUBytes!demandLoadBytes
  <2>3. /\ byteCounters'.requests =
             byteCounters.requests + Cardinality(byteAccess.required)
        /\ byteCounters'.hits = byteCounters.hits + byteAccess.hits
        /\ byteCounters'.misses =
             byteCounters.misses + Cardinality(byteAccess.missing)
        /\ byteCounters'.loaded =
             byteCounters.loaded + Cardinality(byteAccess.missing)
        /\ byteCounters'.evictions = byteCounters.evictions + byteAccess.evictions
    BY <1>1, <1>2 DEF LRUBytes!FinishAccess, LRUBytes!demandLoadBytes
  <2> QED
    BY <2>1, <2>2, <2>3, NoByteAccessType DEF ByteFinishes
<1>3. CASE policy = "lfu" /\ LFUBytes!FinishAccess
  <2>1. byteEntries' = [k \in byteResident \cup byteAccess.required |->
                          IF k \in byteAccess.required THEN ByteTouched(k)
                          ELSE byteEntries[k]]
    <3>1. \A k : LFUBytes!TouchedEntry(k) = ByteTouched(k)
      BY <1>3 DEF LFUBytes!TouchedEntry, ByteTouched, LFUBytes!resident, byteResident
    <3> QED
      BY <1>3, <3>1 DEF LFUBytes!FinishAccess, LFUBytes!resident, byteResident
  <2>2. /\ bytePhase = "evicting" /\ bytePhase' = "ready"
        /\ byteAccess.running + Cardinality(byteAccess.missing) <= Capacity
        /\ byteClock' = byteClock /\ byteAccess' = LFUBytes!NoAccess
    BY <1>1, <1>3 DEF LFUBytes!FinishAccess, LFUBytes!demandLoadBytes
  <2>3. /\ byteCounters'.requests =
             byteCounters.requests + Cardinality(byteAccess.required)
        /\ byteCounters'.hits = byteCounters.hits + byteAccess.hits
        /\ byteCounters'.misses =
             byteCounters.misses + Cardinality(byteAccess.missing)
        /\ byteCounters'.loaded =
             byteCounters.loaded + Cardinality(byteAccess.missing)
        /\ byteCounters'.evictions = byteCounters.evictions + byteAccess.evictions
    BY <1>1, <1>3 DEF LFUBytes!FinishAccess, LFUBytes!demandLoadBytes
  <2> QED
    BY <2>1, <2>2, <2>3, NoByteAccessType DEF ByteFinishes
<1> QED
  BY <1>2, <1>3

-----------------------------------------------------------------------------
(***************************************************************************)
(* Every step keeps the two replays in step.                               *)
(***************************************************************************)
\* What access_bundle returns is counted in the combined row.
LEMMA ReturnCombined ==
  ASSUME EntryTypeOK, NEW demandLoads, NEW evictions, Return(demandLoads, evictions)
  PROVE  Grown(rows["combined"], rows'["combined"], demandLoads, evictions)
<1>1. rows["combined"] \in RowCounts
  BY RowFields DEF RowsNames
<1>2. rows'["combined"] = Counted(rows["combined"], demandLoads, evictions)
  BY DEF Return, Rows
<1> QED
  BY <1>1, <1>2, CountedIsGrown

LEMMA ParityInitInv == ParityInit => ParityInv
<1> SUFFICES ASSUME ParityInit PROVE ParityInv
  OBVIOUS
<1>1. Init /\ RowsFullInv
  BY InitRows DEF ParityInit
<1>2. /\ byteEntries = << >> /\ byteClock = 0 /\ bytePhase = "idle"
      /\ byteAccess = LRUBytes!NoAccess /\ byteCounters = LRUBytes!NoCounts
      /\ stage = "selecting" /\ clock = 0
  BY <1>1 DEF ParityInit, LRUBytes!Init, Init
<1>3. ByteTypes
  <2>1. byteResident = {} /\ byteEntries \in [byteResident -> Stamps]
    BY <1>2 DEF byteResident
  <2> QED
    BY <1>2, <2>1, NoByteAccessType DEF ByteTypes, LRUBytes!NoCounts
<1> QED
  BY <1>1, <1>2, <1>3 DEF ParityInv, DynamicInv, InStep

LEMMA BeginBothParity ==
  ASSUME ParityInv, policy \in Dynamic, BeginBoth, EntryInv'
  PROVE  ByteTypes' /\ byteClock' = clock' /\ InStep'
<1>1. /\ ByteTypes /\ byteClock = clock /\ InStep
      /\ RowsFullInv /\ EntryInv
  BY DEF ParityInv, DynamicInv, RowsFullInv
<1>2. BeginReplay /\ ByteBegins
  BY BeginBothSteps
<1>3. /\ stage = "selecting" /\ stage' = "ready" /\ policy' = policy
      /\ clock' = clock /\ bytePhase' = "ready" /\ byteClock' = 0
      /\ byteEntries' = << >>
      /\ entries' = Held(FrequencyTargets) /\ targets' = FrequencyTargets
      /\ rows' = [rows EXCEPT !["combined"].prewarm = Cardinality(FrequencyTargets)]
  BY <1>2 DEF BeginReplay, ByteBegins
<1>4. clock' = 0
  BY <1>1, <1>3 DEF InStep
<1>5. entries' = byteEntries'
  <2>1. FrequencyTargets = {}
    BY <1>3 DEF EntryInv, TargetsInv
  <2>2. DOMAIN entries' = {} /\ entries' = [k \in {} |-> entries'[k]]
    BY <1>3, <2>1 DEF Held
  <2>3. DOMAIN byteEntries' = {} /\ byteEntries' = [k \in {} |-> byteEntries'[k]]
    BY <1>3
  <2> QED
    BY <2>2, <2>3
<1>6. CountsAgree'
  <2>1. rows = [r \in Rows |-> NoCounts]
    BY <1>1, <1>3 DEF RowsFullInv, NoRowsYet
  <2>2. rows'["combined"] =
          [NoCounts EXCEPT !.prewarm = Cardinality(FrequencyTargets)]
    BY <1>3, <2>1 DEF Rows
  <2> QED
    BY <1>2, <2>2 DEF NoCounts, ByteBegins, CountsAgree
<1>7. ByteTypes'
  <2>1. byteResident' = {} /\ byteEntries' \in [byteResident' -> Stamps]
    BY <1>3 DEF byteResident
  <2>2. byteAccess' \in ByteLocals /\ byteClock' \in Nat
    BY <1>1, <1>2 DEF ByteTypes, ByteBegins
  <2> QED
    BY <1>2, <2>1, <2>2 DEF ByteTypes, ByteBegins
<1> QED
  BY <1>3, <1>4, <1>5, <1>6, <1>7 DEF InStep
LEMMA StartBothParity ==
  ASSUME ParityInv, policy \in Dynamic, EntryInv',
         NEW required \in SUBSET Experts, NEW phase \in Phases,
         StartBoth(required, phase)
  PROVE  ByteTypes' /\ byteClock' = clock' /\ InStep'
<1>1. /\ ByteTypes /\ byteClock = clock /\ InStep /\ EntryInv
  BY DEF ParityInv, DynamicInv, RowsFullInv
<1>2. StartBundle(required, phase) /\ ByteStarts(required)
  BY <1>1, StartBothSteps
<1>3. /\ stage = "ready" /\ bytePhase = "ready"
      /\ stage' = "evicting" /\ bytePhase' = "evicting"
      /\ clock' = clock + 1 /\ byteClock' = byteClock + 1
      /\ UNCHANGED <<policy, entries, byteEntries, rows, byteCounters>>
  BY <1>2 DEF StartBundle, ByteStarts
<1>4. entries = byteEntries /\ CountsAgree
  BY <1>1, <1>3 DEF InStep
<1>5. access' = [required |-> required, phase |-> phase,
                 hits |-> Cardinality(required \cap resident),
                 misses |-> Cardinality(required \ resident),
                 missing |-> required \ resident,
                 displaced |-> {}, evictions |-> 0]
  BY <1>2 DEF StartBundle, NoAccess
<1>6. byteAccess' = [required  |-> required,
                     missing   |-> required \ byteResident,
                     hits      |-> Cardinality(required \cap byteResident),
                     running   |-> Cardinality(byteResident),
                     evictions |-> 0,
                     evicted   |-> 0]
  BY <1>2 DEF ByteStarts
<1>7. byteAccess' \in ByteLocals
  <2>1. Cardinality(required \cap byteResident) \in Nat
    BY CountSplits
  <2>2. Cardinality(byteResident) \in Nat
    BY <1>1, ByteAccessTypes
  <2> QED
    BY <1>6, <2>1, <2>2 DEF ByteLocals
<1>8. ByteTypes' /\ byteClock' = clock'
  BY <1>1, <1>3, <1>7 DEF ByteTypes, byteResident
<1>9. CountsAgree'
  BY <1>3, <1>4 DEF CountsAgree
<1>10. EntryEvicts'
  <2>1. resident' = byteResident' /\ resident = byteResident
        /\ byteResident' = byteResident
    BY <1>3, <1>4 DEF byteResident
  <2>2. Cardinality(resident') = Cardinality(byteResident')
        /\ Cardinality(byteResident') = Cardinality(byteResident)
        /\ Cardinality(byteResident) \in Nat
    BY <1>1, <2>1, ByteAccessTypes
  <2>3. \A k \in resident' : entries'[k] = byteEntries'[k]
    BY <1>3, <1>4
  <2>4. byteResident' \ resident' = {}
    BY <2>1
  <2>5. /\ byteAccess'.required = access'.required
        /\ byteAccess'.missing = access'.required \ byteResident'
        /\ byteAccess'.missing = access'.missing
        /\ byteAccess'.hits = access'.hits
        /\ byteAccess'.running = Cardinality(byteResident')
        /\ byteAccess'.evictions = 0
        /\ access'.evictions = 0
    BY <1>5, <1>6, <2>1, <2>2
  <2>6. access'.evictions + Cardinality(resident') = Cardinality(byteResident')
    BY <2>2, <2>5
  <2> QED
    BY <2>1, <2>3, <2>4, <2>5, <2>6 DEF EntryEvicts
<1> QED
  BY <1>3, <1>8, <1>9, <1>10 DEF InStep

\* The order is one: it is transitive, and no two experts precede each other.
LEMMA EarlierIsOrder ==
  ASSUME NEW S \in SUBSET Experts, NEW E \in [S -> Stamps]
  PROVE  /\ \A i, j, k \in S : Earlier(E, i, j) /\ Earlier(E, j, k) => Earlier(E, i, k)
         /\ \A j, k \in S : ~ (Earlier(E, j, k) /\ Earlier(E, k, j))
<1>1. \A k \in S : k \in Nat /\ E[k].frequency \in Nat /\ E[k].last \in Nat
  BY ExpertsAssumption DEF Stamps
<1>2. ASSUME NEW i \in S, NEW j \in S, NEW k \in S, Earlier(E, i, j), Earlier(E, j, k)
      PROVE  Earlier(E, i, k)
  BY <1>1, <1>2 DEF Earlier
<1>3. ASSUME NEW j \in S, NEW k \in S PROVE ~ (Earlier(E, j, k) /\ Earlier(E, k, j))
  BY <1>1 DEF Earlier
<1> QED
  BY <1>2, <1>3

\* The entry replay evicts: one more expert goes that is before all it keeps.
LEMMA EvictParity ==
  ASSUME ParityInv, policy \in Dynamic, EntryInv',
         NEW victim \in Experts, Evict(victim), UNCHANGED byteVars
  PROVE  ByteTypes' /\ byteClock' = clock' /\ InStep'
<1>1. /\ ByteTypes /\ byteClock = clock /\ InStep /\ EntryInv
  BY DEF ParityInv, DynamicInv, RowsFullInv
<1>2. /\ stage = "evicting" /\ stage' = "evicting"
      /\ Cardinality(resident) + access.misses > Capacity
      /\ victim \in resident \ access.required
      /\ \A k \in resident \ (access.required \cup {victim}) :
           EvictedBefore(victim, k)
      /\ entries' = [k \in resident \ {victim} |-> entries[k]]
      /\ access' = [access EXCEPT !.evictions = @ + 1]
      /\ UNCHANGED <<policy, clock, rows>>
  BY DEF Evict
<1>3. /\ bytePhase' = bytePhase
      /\ UNCHANGED <<byteEntries, byteClock, byteAccess, byteCounters>>
      /\ byteResident' = byteResident
  BY DEF byteVars, byteResident
<1>4. bytePhase = "evicting" /\ EntryEvicts /\ CountsAgree
  BY <1>1, <1>2 DEF InStep
<1>5. /\ access'.required = access.required
      /\ access'.missing = access.missing
      /\ access'.hits = access.hits
      /\ access'.misses = access.misses
      /\ access'.evictions = access.evictions + 1
      /\ access.misses \in Nat /\ access.evictions \in Nat
  BY <1>1, <1>2, EntryTypes DEF EntryInv, Locals
<1>6. /\ resident' = resident \ {victim}
      /\ Cardinality(resident') = Cardinality(resident) - 1
      /\ Cardinality(resident) \in Nat
  BY <1>1, <1>2, EntryTypes, FS_RemoveElement DEF EntryInv
<1>7. ByteTypes' /\ byteClock' = clock'
  BY <1>1, <1>2, <1>3 DEF ByteTypes
<1>8. CountsAgree'
  BY <1>2, <1>3, <1>4 DEF CountsAgree
<1>9. /\ resident \subseteq byteResident
      /\ \A k \in resident : entries[k] = byteEntries[k]
      /\ \A j \in byteResident \ resident :
           /\ j \notin access.required
           /\ \A k \in resident \ access.required : Earlier(byteEntries, j, k)
      /\ access.evictions + Cardinality(resident) = Cardinality(byteResident)
  BY <1>4 DEF EntryEvicts
<1>10. \A k \in resident' : entries'[k] = byteEntries'[k]
  BY <1>2, <1>3, <1>6, <1>9
<1>11. ASSUME NEW j \in byteResident \ resident'
       PROVE  /\ j \notin access.required
              /\ \A k \in resident' \ access.required : Earlier(byteEntries, j, k)
  <2>1. CASE j = victim
    <3>1. ASSUME NEW k \in resident' \ access.required
          PROVE  Earlier(byteEntries, victim, k)
      <4>1. k \in resident /\ EvictedBefore(victim, k) /\ victim \in resident
        BY <1>2, <1>6, <3>1
      <4> QED
        BY <1>9, <4>1 DEF EvictedBefore, Earlier
    <3> QED
      BY <1>2, <2>1, <3>1
  <2>2. CASE j # victim
    BY <1>6, <1>9, <2>2
  <2> QED
    BY <2>1, <2>2
<1>12. Capacity <= Cardinality(resident') + access.misses
  BY <1>2, <1>5, <1>6
<1>13. access'.evictions + Cardinality(resident') = Cardinality(byteResident)
  BY <1>5, <1>6, <1>9
<1>14. EntryEvicts'
  <2>1. resident' \subseteq byteResident'
    BY <1>3, <1>6, <1>9
  <2>2. /\ byteAccess'.required = access'.required
        /\ byteAccess'.missing = access'.required \ byteResident'
        /\ byteAccess'.missing = access'.missing
        /\ byteAccess'.hits = access'.hits
        /\ byteAccess'.running = Cardinality(byteResident)
        /\ byteAccess'.evictions = 0
    BY <1>3, <1>4, <1>5 DEF EntryEvicts
  <2>3. Cardinality(byteResident') = Cardinality(byteResident)
    BY <1>3
  <2>4. \A j \in byteResident' \ resident' :
          /\ j \notin access'.required
          /\ \A k \in resident' \ access'.required : Earlier(byteEntries', j, k)
    BY <1>3, <1>5, <1>11
  <2> QED
    BY <1>5, <1>10, <1>12, <1>13, <2>1, <2>2, <2>3, <2>4 DEF EntryEvicts
<1> QED
  BY <1>2, <1>3, <1>4, <1>7, <1>8, <1>14 DEF InStep
\* The entry replay touches its bundle: the byte replay has to follow.
LEMMA TouchParity ==
  ASSUME ParityInv, policy \in Dynamic, EntryInv', Touch, UNCHANGED byteVars
  PROVE  ByteTypes' /\ byteClock' = clock' /\ InStep'
<1>1. /\ ByteTypes /\ byteClock = clock /\ InStep /\ EntryInv
  BY DEF ParityInv, DynamicInv, RowsFullInv
<1>2. /\ stage = "evicting" /\ stage' = "ready"
      /\ entries' = [k \in resident \cup access.required |->
                       IF k \in access.required THEN TouchedEntry(k) ELSE entries[k]]
      /\ resident' = resident \cup access.required
      /\ Return(access.misses, access.evictions)
      /\ UNCHANGED <<policy, clock>>
  BY DEF Touch, Return
<1>3. /\ bytePhase' = bytePhase
      /\ UNCHANGED <<byteEntries, byteClock, byteAccess, byteCounters>>
      /\ byteResident' = byteResident
  BY DEF byteVars, byteResident
<1>4. bytePhase = "evicting" /\ EntryEvicts /\ CountsAgree
  BY <1>1, <1>2 DEF InStep
<1> DEFINE Q == access.required
           B == byteResident
           M == byteAccess.missing
<1>5. /\ byteAccess.required = Q /\ M = Q \ B /\ M = access.missing
      /\ byteAccess.hits = access.hits
      /\ byteAccess.running = Cardinality(B)
      /\ byteAccess.evictions = 0
      /\ resident \subseteq B
      /\ \A k \in resident : entries[k] = byteEntries[k]
      /\ \A j \in B \ resident :
           j \notin Q /\ \A k \in resident \ Q : Earlier(byteEntries, j, k)
      /\ B \ resident # {} => Capacity <= Cardinality(resident) + access.misses
      /\ access.evictions + Cardinality(resident) = Cardinality(B)
  BY <1>4 DEF EntryEvicts
<1>6. ByteTypes' /\ byteClock' = clock'
  BY <1>1, <1>2, <1>3 DEF ByteTypes
<1>7. ASSUME NEW k \in Q PROVE entries'[k] = ByteTouched(k)'
  <2>1. entries'[k] = TouchedEntry(k)
    BY <1>2, <1>7
  <2>2. ByteTouched(k)' = ByteTouched(k)
    BY <1>2, <1>3 DEF ByteTouched
  <2>3. k \in resident <=> k \in B
    BY <1>5, <1>7
  <2>4. k \in resident => entries[k] = byteEntries[k]
    BY <1>5
  <2> QED
    BY <1>1, <2>1, <2>2, <2>3, <2>4 DEF TouchedEntry, ByteTouched
<1>8. \A k \in resident' \ Q : k \in resident \ Q /\ entries'[k] = byteEntries'[k]
  BY <1>2, <1>3, <1>5
<1>9. /\ Cardinality(resident') = Cardinality(resident) + Cardinality(M)
      /\ Cardinality(resident) \in Nat /\ Cardinality(M) \in Nat
      /\ access.misses = Cardinality(M)
      /\ access.evictions \in Nat
  <2>1. /\ access.missing = Q \ resident /\ access.misses = Cardinality(access.missing)
    BY <1>1, <1>2 DEF EntryInv, AccessInv
  <2>2. resident' = resident \cup access.missing /\ resident \cap access.missing = {}
    BY <1>2, <2>1
  <2>3. /\ resident \in SUBSET Experts /\ access.missing \in SUBSET Experts
        /\ access.evictions \in Nat
    BY <1>1, EntryTypes DEF EntryInv
  <2>4. /\ Cardinality(resident \cup access.missing) =
             Cardinality(resident) + Cardinality(access.missing)
        /\ Cardinality(resident) \in Nat /\ Cardinality(access.missing) \in Nat
    BY <2>2, <2>3, DisjointSum
  <2> QED
    BY <1>5, <2>1, <2>2, <2>3, <2>4
<1>10. CountsFollow'
  <2>1. Grown(rows["combined"], rows'["combined"], access.misses, access.evictions)
    BY <1>1, <1>2, ReturnCombined DEF EntryInv
  <2>2. CountsAgree
    BY <1>4
  <2>3. /\ rows'["combined"].requests = byteCounters'.requests + Cardinality(Q)
        /\ rows'["combined"].hits = byteCounters'.hits + byteAccess'.hits
        /\ rows'["combined"].misses = byteCounters'.misses + Cardinality(M)
        /\ rows'["combined"].demand = byteCounters'.loaded + Cardinality(M)
        /\ rows'["combined"].evictions = byteCounters'.evictions + access.evictions
    BY <1>3, <1>5, <1>9, <2>1, <2>2 DEF Grown, CountsAgree
  <2> DEFINE b == Cardinality(B)
             m == Cardinality(M)
             r == Cardinality(resident)
             s == Cardinality(resident')
             e == access.evictions
  <2>4. e = 0 + b + m - s
    <3>1. e \in Nat /\ m \in Nat /\ r \in Nat /\ e + r = b /\ s = r + m
      BY <1>5, <1>9
    <3> HIDE DEF b, m, r, s, e
    <3> QED
      BY <3>1
  <2>5. /\ byteAccess'.required = Q /\ byteAccess'.missing = M
        /\ byteAccess'.evictions = 0
        /\ Cardinality(byteResident') = b
    BY <1>3, <1>5
  <2> QED
    BY <2>3, <2>4, <2>5 DEF CountsFollow
<1>11. ByteFollows'
  <2>1. /\ byteAccess'.required = Q /\ byteAccess'.missing = M
        /\ byteAccess'.hits = byteAccess.hits
        /\ byteAccess'.evictions = byteAccess.evictions
        /\ byteAccess'.running = Cardinality(byteResident')
        /\ byteAccess'.missing = byteAccess'.required \ byteResident'
    BY <1>3, <1>5
  <2>2. /\ byteAccess'.required \subseteq resident'
        /\ resident' \ byteAccess'.required \subseteq byteResident'
    BY <1>2, <1>3, <1>5, <2>1
  <2>3. /\ \A k \in resident' \ byteAccess'.required : entries'[k] = byteEntries'[k]
        /\ \A k \in byteAccess'.required : entries'[k] = ByteTouched(k)'
    BY <1>7, <1>8, <2>1
  <2>4. \A j \in byteResident' \ resident', k \in resident' \ byteAccess'.required :
          Earlier(byteEntries', j, k)
    BY <1>2, <1>3, <1>5, <1>8, <2>1
  <2>5. byteResident' \ resident' # {} => Capacity <= Cardinality(resident')
    BY <1>2, <1>3, <1>5, <1>9
  <2> QED
    BY <1>10, <2>1, <2>2, <2>3, <2>4, <2>5 DEF ByteFollows
<1> QED
  BY <1>2, <1>3, <1>4, <1>6, <1>11 DEF InStep

\* The locals of an access after one expert of one byte has gone.
WithoutOne(a) == [a EXCEPT !.running = @ - 1, !.evictions = @ + 1, !.evicted = @ + 1]

LEMMA WithoutOneType ==
  ASSUME NEW a \in ByteLocals
  PROVE  /\ WithoutOne(a) \in ByteLocals
         /\ WithoutOne(a).required = a.required
         /\ WithoutOne(a).missing = a.missing
         /\ WithoutOne(a).hits = a.hits
         /\ WithoutOne(a).running = a.running - 1
         /\ WithoutOne(a).evictions = a.evictions + 1
<1>1. a.running - 1 \in Int /\ a.evictions + 1 \in Nat /\ a.evicted + 1 \in Int
  BY DEF ByteLocals
<1>2. WithoutOne(a) \in ByteLocals
  BY <1>1 DEF WithoutOne, ByteLocals
<1> QED
  BY <1>2 DEF WithoutOne, ByteLocals

\* What the byte replay still needs, next to what the entry replay holds.
LEMMA ByteNeeds ==
  ASSUME ByteTypes, EntryInv, ByteFollows
  PROVE  /\ byteResident \cap byteAccess.missing = {}
         /\ byteResident \cup byteAccess.missing =
              byteResident \cup byteAccess.required
         /\ resident \subseteq byteResident \cup byteAccess.missing
         /\ byteAccess.missing \subseteq resident
         /\ byteAccess.running = Cardinality(byteResident)
         /\ Cardinality(byteResident \cup byteAccess.missing) =
              Cardinality(byteResident) + Cardinality(byteAccess.missing)
         /\ Cardinality(resident) \in Nat /\ Cardinality(resident) <= Capacity
         /\ IsFiniteSet(resident)
<1>1. /\ byteAccess.missing = byteAccess.required \ byteResident
      /\ byteAccess.required \subseteq resident
      /\ resident \ byteAccess.required \subseteq byteResident
      /\ byteAccess.running = Cardinality(byteResident)
  BY DEF ByteFollows
<1>2. byteResident \in SUBSET Experts /\ byteAccess.missing \in SUBSET Experts
  BY ByteAccessTypes DEF ByteTypes
<1>3. byteResident \cap byteAccess.missing = {}
  BY <1>1
<1>4. Cardinality(byteResident \cup byteAccess.missing) =
        Cardinality(byteResident) + Cardinality(byteAccess.missing)
  BY <1>2, <1>3, DisjointSum
<1>5. /\ Cardinality(resident) \in Nat /\ Cardinality(resident) <= Capacity
      /\ IsFiniteSet(resident)
  BY EntryTypes DEF EntryInv, EntryTypeOK
<1> QED
  BY <1>1, <1>3, <1>4, <1>5

\* The byte replay evicts only what the entry replay has evicted.
LEMMA ByteEvictParity ==
  ASSUME ParityInv, policy \in Dynamic, stage = "ready",
         NEW victim \in Experts, ByteEvicts(victim), UNCHANGED vars
  PROVE  ByteTypes' /\ byteClock' = clock' /\ InStep'
<1>1. /\ ByteTypes /\ byteClock = clock /\ InStep /\ EntryInv
  BY DEF ParityInv, DynamicInv, RowsFullInv
<1>2. UNCHANGED <<policy, stage, entries, clock, rows>> /\ resident' = resident
  BY DEF vars, cacheVars
<1> DEFINE Q == byteAccess.required
           B == byteResident
           M == byteAccess.missing
<1>3. /\ bytePhase = "evicting" /\ bytePhase' = "evicting"
      /\ byteAccess.running + Cardinality(M) > Capacity
      /\ victim \in B \ Q
      /\ \A k \in B \ (Q \cup {victim}) : Earlier(byteEntries, victim, k)
      /\ byteEntries' = [k \in B \ {victim} |-> byteEntries[k]]
      /\ byteAccess' = [byteAccess EXCEPT !.running = @ - Size[victim],
                                          !.evictions = @ + 1,
                                          !.evicted = @ + Size[victim]]
      /\ UNCHANGED <<byteClock, byteCounters>>
      /\ byteResident' = B \ {victim}
  BY DEF ByteEvicts, byteResident
<1>4. ByteFollows
  BY <1>1, <1>3 DEF InStep
<1>5. /\ M = Q \ B /\ Q \subseteq resident /\ resident \ Q \subseteq B
      /\ \A k \in resident \ Q : entries[k] = byteEntries[k]
      /\ \A k \in Q : entries[k] = ByteTouched(k)
      /\ \A j \in B \ resident, k \in resident \ Q : Earlier(byteEntries, j, k)
      /\ B \ resident # {} => Capacity <= Cardinality(resident)
  BY <1>4 DEF ByteFollows
<1>6. PICK extra \in B : extra \notin resident
  <2> SUFFICES ASSUME B \subseteq resident PROVE FALSE
    OBVIOUS
  <2>1. B \cup M \subseteq resident
    BY <1>5
  <2>2. Cardinality(B \cup M) <= Cardinality(resident)
    BY <1>1, <1>4, <2>1, ByteNeeds, FS_Subset
  <2>3. /\ Cardinality(B) + Cardinality(M) <= Cardinality(resident)
        /\ Cardinality(B) + Cardinality(M) > Capacity
        /\ Cardinality(resident) \in Nat /\ Cardinality(resident) <= Capacity
        /\ Cardinality(B) \in Nat /\ Cardinality(M) \in Nat
    BY <1>1, <1>3, <1>4, <2>2, ByteNeeds, ByteAccessTypes
  <2> QED
    BY <2>3
<1>7. victim \notin resident
  <2> SUFFICES ASSUME victim \in resident PROVE FALSE
    OBVIOUS
  <2>1. Earlier(byteEntries, extra, victim)
    BY <1>3, <1>5, <1>6
  <2>2. Earlier(byteEntries, victim, extra)
    BY <1>3, <1>5, <1>6
  <2>3. B \in SUBSET Experts /\ byteEntries \in [B -> Stamps]
    BY <1>1 DEF ByteTypes
  <2> QED
    BY <1>3, <1>6, <2>1, <2>2, <2>3, EarlierIsOrder
<1>8. /\ byteAccess' \in ByteLocals
      /\ byteAccess'.required = Q /\ byteAccess'.missing = M
      /\ byteAccess'.hits = byteAccess.hits
      /\ byteAccess'.running = byteAccess.running - 1
      /\ byteAccess'.evictions = byteAccess.evictions + 1
  <2>1. Size[victim] = 1
    BY UnitSizeAssumption
  <2>2. byteAccess \in ByteLocals
    BY <1>1 DEF ByteTypes
  <2>3. byteAccess' = WithoutOne(byteAccess)
    BY <1>3, <2>1 DEF WithoutOne
  <2> QED
    BY <2>2, <2>3, WithoutOneType
<1>9. /\ Cardinality(byteResident') = Cardinality(B) - 1
      /\ Cardinality(B) \in Nat
      /\ byteAccess.running = Cardinality(B)
  BY <1>1, <1>3, <1>4, ByteAccessTypes, ByteNeeds, FS_RemoveElement
<1>10. ByteTypes' /\ byteClock' = clock'
  <2>1. /\ byteResident' \in SUBSET Experts
        /\ byteEntries' \in [byteResident' -> Stamps]
        /\ \A k \in byteResident' : byteEntries'[k] = byteEntries[k]
        /\ byteResident' \subseteq byteResident
    BY <1>1, <1>3 DEF ByteTypes
  <2> QED
    BY <1>1, <1>2, <1>3, <1>8, <2>1 DEF ByteTypes
<1>11. \A k \in Q : ByteTouched(k)' = ByteTouched(k)
  BY <1>2, <1>3 DEF ByteTouched
<1>12. byteAccess'.evictions + Cardinality(byteResident') + Cardinality(M)
         - Cardinality(resident) =
       byteAccess.evictions + Cardinality(B) + Cardinality(M) - Cardinality(resident)
  <2>1. /\ byteAccess.evictions \in Nat /\ Cardinality(M) \in Nat
        /\ Cardinality(resident) \in Nat
    BY <1>1, <1>4, ByteAccessTypes, ByteNeeds
  <2> QED
    BY <1>8, <1>9, <2>1
<1>13. ByteFollows'
  <2>1. /\ byteAccess'.missing = byteAccess'.required \ byteResident'
        /\ byteAccess'.running = Cardinality(byteResident')
        /\ byteAccess'.required \subseteq resident'
        /\ resident' \ byteAccess'.required \subseteq byteResident'
    BY <1>2, <1>3, <1>5, <1>7, <1>8, <1>9
  <2>2. /\ \A k \in resident' \ byteAccess'.required : entries'[k] = byteEntries'[k]
        /\ \A k \in byteAccess'.required : entries'[k] = ByteTouched(k)'
    BY <1>2, <1>3, <1>5, <1>7, <1>8, <1>11
  <2>3. \A j \in byteResident' \ resident', k \in resident' \ byteAccess'.required :
          Earlier(byteEntries', j, k)
    <3> SUFFICES ASSUME NEW j \in byteResident' \ resident', NEW k \in resident' \ Q
                 PROVE  Earlier(byteEntries', j, k)
      BY <1>8
    <3>1. j \in B \ resident /\ k \in resident \ Q /\ j # victim /\ k # victim /\ k \in B
      BY <1>2, <1>3, <1>5, <1>7
    <3>2. byteEntries'[j] = byteEntries[j] /\ byteEntries'[k] = byteEntries[k]
      BY <1>3, <3>1
    <3> QED
      BY <1>5, <3>1, <3>2 DEF Earlier
  <2>4. byteResident' \ resident' # {} => Capacity <= Cardinality(resident')
    BY <1>2, <1>5, <1>6
  <2>5. CountsFollow
    BY <1>4 DEF ByteFollows
  <2>6. CountsFollow'
    <3>1. Cardinality(resident') = Cardinality(resident)
      BY <1>2
    <3> QED
      BY <1>2, <1>3, <1>8, <1>12, <2>5, <3>1 DEF CountsFollow
  <2> QED
    BY <2>1, <2>2, <2>3, <2>4, <2>6 DEF ByteFollows
<1> QED
  BY <1>2, <1>3, <1>10, <1>13 DEF InStep
\* The byte replay touches its bundle: both hold the same experts again.
LEMMA ByteFinishParity ==
  ASSUME ParityInv, policy \in Dynamic, stage = "ready", ByteFinishes, UNCHANGED vars
  PROVE  ByteTypes' /\ byteClock' = clock' /\ InStep'
<1>1. /\ ByteTypes /\ byteClock = clock /\ InStep /\ EntryInv
  BY DEF ParityInv, DynamicInv, RowsFullInv
<1>2. UNCHANGED <<policy, stage, entries, clock, rows>> /\ resident' = resident
  BY DEF vars, cacheVars
<1> DEFINE Q == byteAccess.required
           B == byteResident
           M == byteAccess.missing
<1>3. /\ bytePhase = "evicting" /\ bytePhase' = "ready"
      /\ byteAccess.running + Cardinality(M) <= Capacity
      /\ byteEntries' = [k \in B \cup Q |->
                           IF k \in Q THEN ByteTouched(k) ELSE byteEntries[k]]
      /\ byteClock' = byteClock
  BY DEF ByteFinishes
<1>4. ByteFollows
  BY <1>1, <1>3 DEF InStep
<1>5. /\ M = Q \ B /\ Q \subseteq resident /\ resident \ Q \subseteq B
      /\ \A k \in resident \ Q : entries[k] = byteEntries[k]
      /\ \A k \in Q : entries[k] = ByteTouched(k)
      /\ B \ resident # {} => Capacity <= Cardinality(resident)
      /\ CountsFollow
  BY <1>4 DEF ByteFollows
<1>6. /\ resident \subseteq B \cup M /\ M \subseteq resident
      /\ B \cup M = B \cup Q
      /\ Cardinality(B \cup M) = Cardinality(B) + Cardinality(M)
      /\ Cardinality(B \cup M) <= Capacity
      /\ Cardinality(B \cup M) \in Nat
      /\ IsFiniteSet(B \cup M)
      /\ Cardinality(resident) \in Nat /\ Cardinality(resident) <= Capacity
      /\ IsFiniteSet(resident)
  <2>1. /\ Cardinality(B \cup M) = Cardinality(B) + Cardinality(M)
        /\ byteAccess.running = Cardinality(B)
    BY <1>1, <1>4, ByteNeeds
  <2>2. IsFiniteSet(B \cup M) /\ Cardinality(B \cup M) \in Nat
    <3>1. B \cup M \in SUBSET Experts
      BY <1>1, ByteAccessTypes DEF ByteTypes
    <3> QED
      BY <3>1, CellsFinite, FS_CardinalityType
  <2> QED
    BY <1>1, <1>3, <1>4, <2>1, <2>2, ByteNeeds
<1>7. B \cup Q = resident
  <2>1. Cardinality(resident) <= Cardinality(B \cup M)
        /\ (Cardinality(resident) = Cardinality(B \cup M) => resident = B \cup M)
    BY <1>6, FS_Subset
  <2>2. CASE B \ resident # {}
    <3>1. Cardinality(resident) = Cardinality(B \cup M)
      BY <1>5, <1>6, <2>1, <2>2
    <3> QED
      BY <1>6, <2>1, <3>1
  <2>3. CASE B \ resident = {}
    BY <1>5, <1>6, <2>3
  <2> QED
    BY <2>2, <2>3
<1>8. entries = byteEntries'
  <2>1. entries \in [resident -> Stamps]
    BY <1>1 DEF EntryInv, EntryTypeOK, Stamps
  <2>2. DOMAIN byteEntries' = resident
    BY <1>3, <1>7
  <2>3. byteEntries' = [k \in resident |-> byteEntries'[k]]
    BY <1>3, <1>7
  <2>4. \A k \in resident : entries[k] = byteEntries'[k]
    BY <1>3, <1>5, <1>7
  <2> QED
    BY <2>1, <2>2, <2>3, <2>4
<1>9. CountsAgree'
  <2> DEFINE b == Cardinality(B)
             m == Cardinality(M)
             r == Cardinality(resident)
             v == byteAccess.evictions
  <2>1. v + b + m - r = v
    <3>1. b \in Nat /\ m \in Nat /\ v \in Nat /\ r = b + m
      BY <1>1, <1>6, <1>7, ByteAccessTypes
    <3> HIDE DEF b, m, r, v
    <3> QED
      BY <3>1
  <2> QED
    BY <1>2, <1>5, <2>1 DEF CountsFollow, CountsAgree, ByteFinishes
<1>10. ByteTypes' /\ byteClock' = clock'
  <2>1. byteResident' = resident /\ byteResident' \in SUBSET Experts
    BY <1>1, <1>8, EntryTypes DEF byteResident, EntryInv
  <2>2. byteEntries' \in [byteResident' -> Stamps]
    BY <1>1, <1>8, <2>1 DEF EntryInv, EntryTypeOK, Stamps
  <2>3. ASSUME policy = "lru", NEW k \in byteResident'
        PROVE  byteEntries'[k].frequency = 0
    <3>1. k \in B \cup Q
      BY <1>7, <2>1
    <3>2. CASE k \in Q
      BY <1>3, <2>3, <3>1, <3>2 DEF ByteTouched
    <3>3. CASE k \notin Q
      BY <1>1, <1>3, <2>3, <3>1, <3>3 DEF ByteTypes
    <3> QED
      BY <3>2, <3>3
  <2>4. /\ byteCounters'.requests \in Nat /\ byteCounters'.hits \in Nat
        /\ byteCounters'.misses \in Nat /\ byteCounters'.loaded \in Nat
        /\ byteCounters'.evictions \in Nat
    BY <1>1, ByteAccessTypes DEF ByteTypes, ByteFinishes
  <2>5. byteAccess' \in ByteLocals /\ byteClock' \in Nat /\ policy' = policy
    BY <1>1, <1>2, <1>3 DEF ByteTypes, ByteFinishes
  <2> QED
    BY <1>1, <1>2, <1>3, <2>1, <2>2, <2>3, <2>4, <2>5 DEF ByteTypes
<1> QED
  BY <1>2, <1>3, <1>8, <1>9, <1>10 DEF InStep

LEMMA StutterParity ==
  ASSUME ParityInv, policy \in Dynamic, UNCHANGED parityVars
  PROVE  ByteTypes' /\ byteClock' = clock' /\ InStep'
<1>1. /\ UNCHANGED <<policy, entries, clock, stage, access, rows>>
      /\ UNCHANGED <<byteEntries, byteClock, bytePhase, byteAccess, byteCounters>>
      /\ resident' = resident /\ byteResident' = byteResident
  BY DEF parityVars, vars, cacheVars, byteVars, byteResident
<1>2. ByteTypes /\ byteClock = clock /\ InStep
  BY DEF ParityInv, DynamicInv
<1>3. ByteTypes' /\ byteClock' = clock'
  BY <1>1, <1>2 DEF ByteTypes
<1>4. CountsAgree' <=> CountsAgree
  BY <1>1 DEF CountsAgree
<1>5. EntryEvicts => EntryEvicts'
  BY <1>1 DEF EntryEvicts
<1>6. ByteFollows => ByteFollows'
  BY <1>1 DEF ByteFollows, CountsFollow, ByteTouched
<1> QED
  BY <1>1, <1>2, <1>3, <1>4, <1>5, <1>6 DEF InStep

\* A step of both replays is a step of the entry replay, or none.
LEMMA ParityStepIsEntryStep ==
  [ParityNext]_parityVars => [Next]_vars
BY DEF ParityNext, SelectBundle, BeginBoth, StartBoth, EntryWorks, LRUBytesWork,
       LFUBytesWork, parityVars, Next

LEMMA NextParity == ParityInv /\ [ParityNext]_parityVars => ParityInv'
<1> SUFFICES ASSUME ParityInv, [ParityNext]_parityVars PROVE ParityInv'
  OBVIOUS
<1>1. RowsFullInv' /\ EntryInv' /\ EntryInv
  BY ParityStepIsEntryStep, NextRows DEF ParityInv, RowsFullInv
<1>2. policy' = policy
  BY DEF ParityNext, SelectBundle, BeginBoth, StartBoth, EntryWorks, LRUBytesWork,
         LFUBytesWork, parityVars, vars, Select, BeginReplay, StartBundle, Evict,
         Touch, Displace, Restore, Return
<1>3. ASSUME policy \in Dynamic
      PROVE  ByteTypes' /\ byteClock' = clock' /\ InStep'
  <2>1. ByteTypes
    BY <1>3 DEF ParityInv, DynamicInv
  <2>2. ASSUME NEW required \in SUBSET Experts, SelectBundle(required) PROVE FALSE
    BY <1>3, <2>2 DEF SelectBundle, Select
  <2>3. CASE BeginBoth
    BY <1>1, <1>3, <2>3, BeginBothParity
  <2>4. ASSUME NEW required \in SUBSET Experts, NEW phase \in Phases,
               StartBoth(required, phase)
        PROVE  ByteTypes' /\ byteClock' = clock' /\ InStep'
    BY <1>1, <1>3, <2>4, StartBothParity
  <2>5. CASE EntryWorks
    <3>1. ASSUME NEW victim \in Experts, Evict(victim)
          PROVE  ByteTypes' /\ byteClock' = clock' /\ InStep'
      BY <1>1, <1>3, <2>5, <3>1, EvictParity DEF EntryWorks
    <3>2. CASE Touch
      BY <1>1, <1>3, <2>5, <3>2, TouchParity DEF EntryWorks
    <3>3. ASSUME Displace \/ Restore PROVE FALSE
      <4>1. stage \in {"displacing", "restoring"}
        BY <3>3 DEF Displace, Restore
      <4> QED
        BY <1>1, <1>3, <4>1 DEF EntryInv, AccessInv
    <3> QED
      BY <2>5, <3>1, <3>2, <3>3 DEF EntryWorks
  <2>6. CASE LRUBytesWork
    <3>1. ASSUME NEW victim \in Experts, LRUBytes!Evict(victim)
          PROVE  ByteTypes' /\ byteClock' = clock' /\ InStep'
      <4>1. policy = "lru" /\ stage = "ready" /\ UNCHANGED vars
        BY <2>6 DEF LRUBytesWork
      <4>2. ByteEvicts(victim)
        BY <2>1, <3>1, <4>1, ByteEvictSteps
      <4> QED
        BY <1>3, <4>1, <4>2, ByteEvictParity
    <3>2. ASSUME LRUBytes!FinishAccess
          PROVE  ByteTypes' /\ byteClock' = clock' /\ InStep'
      <4>1. policy = "lru" /\ stage = "ready" /\ UNCHANGED vars
        BY <2>6 DEF LRUBytesWork
      <4>2. ByteFinishes
        BY <2>1, <3>2, <4>1, ByteFinishSteps
      <4> QED
        BY <1>3, <4>1, <4>2, ByteFinishParity
    <3> QED
      BY <2>6, <3>1, <3>2 DEF LRUBytesWork
  <2>7. CASE LFUBytesWork
    <3>1. ASSUME NEW victim \in Experts, LFUBytes!Evict(victim)
          PROVE  ByteTypes' /\ byteClock' = clock' /\ InStep'
      <4>1. policy = "lfu" /\ stage = "ready" /\ UNCHANGED vars
        BY <2>7 DEF LFUBytesWork
      <4>2. ByteEvicts(victim)
        BY <2>1, <3>1, <4>1, ByteEvictSteps
      <4> QED
        BY <1>3, <4>1, <4>2, ByteEvictParity
    <3>2. ASSUME LFUBytes!FinishAccess
          PROVE  ByteTypes' /\ byteClock' = clock' /\ InStep'
      <4>1. policy = "lfu" /\ stage = "ready" /\ UNCHANGED vars
        BY <2>7 DEF LFUBytesWork
      <4>2. ByteFinishes
        BY <2>1, <3>2, <4>1, ByteFinishSteps
      <4> QED
        BY <1>3, <4>1, <4>2, ByteFinishParity
    <3> QED
      BY <2>7, <3>1, <3>2 DEF LFUBytesWork
  <2>8. CASE UNCHANGED parityVars
    BY <1>3, <2>8, StutterParity
  <2> QED
    BY <2>2, <2>3, <2>4, <2>5, <2>6, <2>7, <2>8 DEF ParityNext
<1> QED
  BY <1>1, <1>2, <1>3 DEF ParityInv, DynamicInv

LEMMA ParityInvariant == ParitySpec => []ParityInv
<1> QED
  BY ParityInitInv, NextParity, PTL DEF ParitySpec

(***************************************************************************)
(* The entry replay is not disturbed by the byte replay next to it: what   *)
(* is proved of the one holds in the composition.                          *)
(***************************************************************************)
THEOREM ParityReplaysEntries == ParitySpec => Spec
<1>1. ParityInit => Init
  BY DEF ParityInit
<1> QED
  BY <1>1, ParityStepIsEntryStep, PTL DEF ParitySpec, Spec

(***************************************************************************)
(* After every bundle the LRU and LFU replays of cache.py and byte_cache.py*)
(* hold the same experts and have counted the same requests, hits, misses, *)
(* loads and evictions, whatever was replayed, if every expert has one     *)
(* byte.                                                                   *)
(***************************************************************************)
THEOREM EntryReplayAgreesWithBytes == ParitySpec => []EntryAgreesWithBytes
<1>1. ASSUME ParityInv PROVE EntryAgreesWithBytes
  BY <1>1 DEF ParityInv, DynamicInv, InStep, CountsAgree, EntryAgreesWithBytes
<1> QED
  BY <1>1, ParityInvariant, PTL

=============================================================================
