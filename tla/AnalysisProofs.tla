---------------------------- MODULE AnalysisProofs ----------------------------
(***************************************************************************)
(* Theorems about the analyses that stand beside the byte cache: the       *)
(* capacity frontier and the pre-flight grid of lifecycle simulations, for *)
(* every set of experts, every sizes map and every trace.                  *)
(*                                                                         *)
(* The frontier.  By ByteCacheProofs the residency between two accesses is *)
(* the longest prefix of the recency stack that fits, so a request hits if *)
(* and only if the stack down to it fits.  The frontier numbers events,    *)
(* the cache numbers accesses, but both give the experts the same order,   *)
(* so the bytes of that stack are the required capacity the frontier       *)
(* records for the request.                                                *)
(*                                                                         *)
(* The grid.  Its simulations are folds over sequences.  A fold is the     *)
(* last link of a chain with one link per item, and what holds along such  *)
(* a chain holds at its end.  The chain of an LRU replay with less room,   *)
(* or from a colder start, stays the most recent part of that with more.   *)
(* The cache that acts in steps is always at the end of such a chain or on *)
(* its way to the next link.                                               *)
(***************************************************************************)
EXTENDS FrontierOfCache, LifecycleGrid, ByteCacheProofs, SequenceTheorems


-----------------------------------------------------------------------------
(***************************************************************************)
(* Part 1: the frontier's operators are the cache's own.                   *)
(***************************************************************************)
LEMMA FrontierOperators ==
  /\ \A S : Frontier!Cardinality(S) = Cardinality(S)
  /\ \A S : Frontier!Bytes(S) = Bytes(S)
  /\ \A last : Frontier!Touched(last) = Touched(last)
  /\ \A last, j, k : Frontier!Older(last, j, k) <=> Older(last, j, k)
<1>1. \A S : Frontier!Cardinality(S) = Cardinality(S)
  BY DEF Frontier!Cardinality, Cardinality
<1> QED
  BY <1>1 DEF Frontier!Bytes, Frontier!Cells, Frontier!Touched, Frontier!Older,
              Bytes, Cells, Touched, Older

-----------------------------------------------------------------------------
(***************************************************************************)
(* Part 2: the frontier by itself, whatever the trace: its accounting, and *)
(* the reach of the referenced working set.                                *)
(***************************************************************************)
FrontierInv ==
  /\ Frontier!TypeOK
  /\ IsFiniteSet(reuses)
  /\ Frontier!AccountingReconciles
  /\ Frontier!WorkingSetReachesEveryReuse

\* The records one event adds.
NewReuses(required) ==
  {[event |-> events + 1, key |-> k, capacity |-> Frontier!RequiredCapacity(k)] :
     k \in Frontier!Reused(required)}

\* An event adds one record per expert it requires again.
LEMMA NewReusesCount ==
  ASSUME NEW required, Frontier!Reused(required) \in SUBSET Experts
  PROVE  /\ IsFiniteSet(NewReuses(required))
         /\ Cardinality(NewReuses(required)) = Cardinality(Frontier!Reused(required))
<1> DEFINE S == Frontier!Reused(required)
           T == NewReuses(required)
           f == [k \in S |-> [event |-> events + 1, key |-> k,
                              capacity |-> Frontier!RequiredCapacity(k)]]
<1>1. /\ f \in [S -> T]
      /\ \A a, b \in S : f[a] = f[b] => a = b
      /\ \A t \in T : \E k \in S : f[k] = t
  BY DEF NewReuses
<1> HIDE DEF S, T, f
<1>2. S \in SUBSET Experts
  BY DEF S
<1>3. IsFiniteSet(T) /\ Cardinality(T) = Cardinality(S)
  BY <1>1, <1>2, OneRecordPerExpert
<1> QED
  BY <1>3 DEF S, T

\* A required capacity is a number of bytes that the experts touched so far hold.
LEMMA RequiredCapacityBound ==
  ASSUME Frontier!TypeOK, NEW k \in Touched(lastTouch)
  PROVE  /\ Frontier!RequiredCapacity(k) \in Nat
         /\ Frontier!RequiredCapacity(k) <= Bytes(Touched(lastTouch))
<1> DEFINE above == {j \in Touched(lastTouch) \ {k} : Older(lastTouch, k, j)}
<1>1. /\ k \in Experts
      /\ above \in SUBSET Experts
      /\ Touched(lastTouch) \in SUBSET Experts
      /\ {k} \in SUBSET Experts
  BY DEF Touched
<1>2. Bytes(above \cup {k}) = Bytes(above) + Bytes({k})
  BY <1>1, BytesOfUnion
<1>3. Bytes({k}) = Size[k] /\ Size[k] \in Nat /\ Bytes(above) \in Nat
  BY <1>1, BytesOfOne, CellsFinite, SizeAssumption
<1>4. Frontier!RequiredCapacity(k) = Bytes(above \cup {k})
  BY FrontierOperators, <1>2, <1>3 DEF Frontier!RequiredCapacity
<1>5. above \cup {k} \in SUBSET Touched(lastTouch)
  OBVIOUS
<1>6. Bytes(above \cup {k}) <= Bytes(Touched(lastTouch))
  BY <1>1, <1>5, BytesMonotone
<1>7. Bytes(above) + Bytes({k}) \in Nat
  BY <1>3
<1> HIDE DEF above
<1> QED
  BY <1>2, <1>4, <1>6, <1>7

\* After an event exactly its experts have joined the touched ones.
LEMMA TouchedGrows ==
  ASSUME Frontier!TypeOK, NEW required \in SUBSET Experts, Frontier!Event(required)
  PROVE  Touched(lastTouch') = Touched(lastTouch) \cup required
BY FrontierOperators DEF Frontier!TypeOK, Frontier!Event, Touched

LEMMA EventType ==
  ASSUME FrontierInv, NEW required \in SUBSET Experts, Frontier!Event(required)
  PROVE  Frontier!TypeOK' /\ IsFiniteSet(reuses')
<1>1. Frontier!TypeOK /\ IsFiniteSet(reuses)
  BY DEF FrontierInv
<1>2. reuses' = reuses \cup NewReuses(required)
  BY FrontierOperators DEF Frontier!Event, NewReuses
<1>3. /\ events \in Nat /\ events' = events + 1
      /\ lastTouch \in [Experts -> 0 .. events]
  BY FrontierOperators, <1>1 DEF Frontier!TypeOK, Frontier!Event
<1>4. lastTouch' \in [Experts -> 0 .. events']
  BY FrontierOperators, <1>3 DEF Frontier!Event
<1>5. \A k \in Frontier!Reused(required) : k \in Experts /\ Frontier!RequiredCapacity(k) \in Nat
  BY FrontierOperators, <1>1, RequiredCapacityBound DEF Frontier!Reused
<1>6. NewReuses(required) \subseteq
        [event : 1 .. events', key : Experts, capacity : Nat]
  BY <1>3, <1>5 DEF NewReuses
<1>7. reuses \subseteq [event : 1 .. events', key : Experts, capacity : Nat]
  BY <1>1, <1>3 DEF Frontier!TypeOK
<1>8. Frontier!Reused(required) \in SUBSET Experts
  BY FrontierOperators DEF Frontier!Reused
<1>9. IsFiniteSet(NewReuses(required))
  BY <1>8, NewReusesCount
<1>10. IsFiniteSet(reuses')
  BY <1>1, <1>2, <1>9, FS_Union
<1>11. /\ Cardinality(required) \in Nat
       /\ Cardinality(required \ Touched(lastTouch)) \in Nat
       /\ Bytes(required) \in Nat
  BY CountSplits, CellsFinite
<1>12. requests' \in Nat /\ firstUses' \in Nat /\ floor' \in Nat
  <2>1. /\ requests' = requests + Cardinality(required)
        /\ firstUses' = firstUses + Cardinality(required \ Touched(lastTouch))
        /\ floor' = IF Bytes(required) > floor THEN Bytes(required) ELSE floor
    BY FrontierOperators DEF Frontier!Event
  <2> QED
    BY <1>1, <1>11, <2>1 DEF Frontier!TypeOK
<1> QED
  BY <1>2, <1>3, <1>4, <1>6, <1>7, <1>10, <1>12 DEF Frontier!TypeOK

LEMMA EventAccounting ==
  ASSUME FrontierInv, NEW required \in SUBSET Experts, Frontier!Event(required)
  PROVE  Frontier!AccountingReconciles'
<1>1. Frontier!TypeOK /\ IsFiniteSet(reuses) /\ Frontier!AccountingReconciles
  BY DEF FrontierInv
<1>3. Frontier!Reused(required) \in SUBSET Experts
  BY FrontierOperators DEF Frontier!Reused
<1>4. /\ IsFiniteSet(NewReuses(required))
      /\ Cardinality(NewReuses(required)) = Cardinality(Frontier!Reused(required))
  BY <1>3, NewReusesCount
<1>5. reuses \cap NewReuses(required) = {}
  BY <1>1 DEF Frontier!TypeOK, NewReuses
<1>6. reuses' = reuses \cup NewReuses(required)
  BY FrontierOperators DEF Frontier!Event, NewReuses
<1>7. Cardinality(reuses') = Cardinality(reuses) + Cardinality(Frontier!Reused(required))
  <2>1. Cardinality(reuses \cup NewReuses(required)) =
          Cardinality(reuses) + Cardinality(NewReuses(required))
            - Cardinality(reuses \cap NewReuses(required))
    BY <1>1, <1>4, FS_Union
  <2>2. Cardinality(reuses \cap NewReuses(required)) = 0
    BY <1>5, FS_EmptySet
  <2>3. Cardinality(reuses) \in Nat /\ Cardinality(NewReuses(required)) \in Nat
    BY <1>1, <1>4, FS_CardinalityType
  <2> QED
    BY <1>4, <1>6, <2>1, <2>2, <2>3
<1>8. /\ Cardinality(required) =
           Cardinality(Frontier!Reused(required))
             + Cardinality(required \ Touched(lastTouch))
      /\ Cardinality(Frontier!Reused(required)) \in Nat
      /\ Cardinality(required \ Touched(lastTouch)) \in Nat
  BY FrontierOperators, CountSplits DEF Frontier!Reused
<1>9. /\ firstUses' = firstUses + Cardinality(required \ Touched(lastTouch))
      /\ requests' = requests + Cardinality(required)
  BY FrontierOperators DEF Frontier!Event
<1>10. Cardinality(reuses) \in Nat /\ firstUses \in Nat /\ requests \in Nat
  BY <1>1, FS_CardinalityType DEF Frontier!TypeOK
<1>11. firstUses' + Cardinality(reuses') = requests'
  BY FrontierOperators, <1>1, <1>7, <1>8, <1>9, <1>10 DEF Frontier!AccountingReconciles
<1>12. firstUses' = Cardinality(Touched(lastTouch'))
  <2>1. Touched(lastTouch') = Touched(lastTouch) \cup required
    BY <1>1, TouchedGrows
  <2>2. Touched(lastTouch') \in SUBSET Experts
    BY DEF Touched
  <2>3. /\ Touched(lastTouch') \cap Touched(lastTouch) = Touched(lastTouch)
        /\ Touched(lastTouch') \ Touched(lastTouch) =
             required \ Touched(lastTouch)
    BY <2>1
  <2>4. Cardinality(Touched(lastTouch')) =
          Cardinality(Touched(lastTouch))
            + Cardinality(required \ Touched(lastTouch))
    BY <2>2, <2>3, CountSplits
  <2> QED
    BY FrontierOperators, <1>1, <1>9, <2>4 DEF Frontier!AccountingReconciles
<1> QED
  BY FrontierOperators, <1>11, <1>12 DEF Frontier!AccountingReconciles

LEMMA EventReach ==
  ASSUME FrontierInv, NEW required \in SUBSET Experts, Frontier!Event(required)
  PROVE  Frontier!WorkingSetReachesEveryReuse'
<1>1. Frontier!TypeOK /\ Frontier!WorkingSetReachesEveryReuse
  BY DEF FrontierInv
<1>2. Touched(lastTouch') = Touched(lastTouch) \cup required
  BY <1>1, TouchedGrows
<1>3. Touched(lastTouch') \in SUBSET Experts
  BY DEF Touched
<1>4. Bytes(required) <= Bytes(Touched(lastTouch'))
  BY <1>2, <1>3, BytesMonotone
<1>5. Bytes(Touched(lastTouch)) <= Bytes(Touched(lastTouch'))
  BY <1>2, <1>3, BytesMonotone
<1>6. /\ Bytes(required) \in Nat
      /\ Bytes(Touched(lastTouch)) \in Nat
      /\ Bytes(Touched(lastTouch')) \in Nat
  BY <1>2, <1>3, CellsFinite DEF Touched
<1>7. floor' <= Bytes(Touched(lastTouch'))
  BY FrontierOperators, <1>1, <1>4, <1>5, <1>6
     DEF Frontier!Event, Frontier!WorkingSetReachesEveryReuse, Frontier!referencedWorkingSet, Frontier!TypeOK
<1>8. ASSUME NEW r \in reuses' PROVE r.capacity <= Bytes(Touched(lastTouch'))
  <2>1. CASE r \in reuses
    BY FrontierOperators, <1>1, <1>5, <1>6, <2>1
       DEF Frontier!WorkingSetReachesEveryReuse, Frontier!referencedWorkingSet, Frontier!TypeOK
  <2>2. CASE r \in NewReuses(required)
    <3>1. PICK k \in Frontier!Reused(required) : r.capacity = Frontier!RequiredCapacity(k)
      BY FrontierOperators, <2>2 DEF NewReuses
    <3>2. /\ Frontier!RequiredCapacity(k) \in Nat
          /\ Frontier!RequiredCapacity(k) <= Bytes(Touched(lastTouch))
      BY FrontierOperators, <1>1, RequiredCapacityBound DEF Frontier!Reused
    <3> QED
      BY <1>5, <1>6, <3>1, <3>2
  <2> QED
    BY FrontierOperators, <2>1, <2>2 DEF Frontier!Event, NewReuses
<1> QED
  BY FrontierOperators, <1>7, <1>8 DEF Frontier!WorkingSetReachesEveryReuse, Frontier!referencedWorkingSet

LEMMA FrontierInvInit == Frontier!Init => FrontierInv
<1> SUFFICES ASSUME Frontier!Init PROVE FrontierInv
  OBVIOUS
<1>1. Touched(lastTouch) = {}
  BY DEF Frontier!Init, Touched
<1>2. Bytes(Touched(lastTouch)) = 0 /\ Cardinality(Touched(lastTouch)) = 0
  BY <1>1, BytesOfNone, FS_EmptySet
<1>3. IsFiniteSet(reuses) /\ Cardinality(reuses) = 0
  BY FS_EmptySet DEF Frontier!Init
<1> QED
  BY <1>2, <1>3, FrontierOperators
     DEF Frontier!Init, FrontierInv, Frontier!TypeOK, Frontier!AccountingReconciles,
         Frontier!WorkingSetReachesEveryReuse, Frontier!referencedWorkingSet

LEMMA FrontierInvStep ==
  FrontierInv /\ [Frontier!Next]_Frontier!frontierVars => FrontierInv'
<1> SUFFICES ASSUME FrontierInv, [Frontier!Next]_Frontier!frontierVars PROVE FrontierInv'
  OBVIOUS
<1>1. CASE Frontier!Next
  <2>1. PICK required \in SUBSET Experts : Frontier!Event(required)
    BY <1>1 DEF Frontier!Next
  <2> QED
    BY <2>1, EventType, EventAccounting, EventReach DEF FrontierInv
<1>2. CASE UNCHANGED Frontier!frontierVars
  BY <1>2, FrontierOperators
     DEF Frontier!frontierVars, FrontierInv, Frontier!TypeOK,
         Frontier!AccountingReconciles, Frontier!WorkingSetReachesEveryReuse,
         Frontier!referencedWorkingSet, Touched
<1> QED
  BY <1>1, <1>2

LEMMA FrontierInvariant == Frontier!Spec => []FrontierInv
BY FrontierInvInit, FrontierInvStep, PTL DEF Frontier!Spec

(***************************************************************************)
(* The variables of the derivation keep their types.                       *)
(***************************************************************************)
THEOREM FrontierTypeOK == Frontier!Spec => []Frontier!TypeOK
<1>1. FrontierInv => Frontier!TypeOK
  BY DEF FrontierInv
<1> QED
  BY <1>1, FrontierInvariant, PTL

(***************************************************************************)
(* The two assertions of _derive_mode never fail, whatever the trace.      *)
(***************************************************************************)
THEOREM FrontierAccountingReconciles ==
  Frontier!Spec => []Frontier!AccountingReconciles
<1>1. FrontierInv => Frontier!AccountingReconciles
  BY DEF FrontierInv
<1> QED
  BY <1>1, FrontierInvariant, PTL

(***************************************************************************)
(* For every trace and every sizes map the referenced working set is a     *)
(* feasible capacity at which every reuse hits.                            *)
(***************************************************************************)
THEOREM FrontierWorkingSetIsEnough ==
  Frontier!Spec => []Frontier!WorkingSetReachesEveryReuse
<1>1. FrontierInv => Frontier!WorkingSetReachesEveryReuse
  BY DEF FrontierInv
<1> QED
  BY <1>1, FrontierInvariant, PTL


-----------------------------------------------------------------------------
(***************************************************************************)
(* Part 3: the frontier beside the cache.                                  *)
(***************************************************************************)
\* Events and accesses order these experts alike.
SameOrder(S) ==
  \A j, k \in S : /\ touched[j] = 0 <=> lastTouch[j] = 0
                  /\ touched[j] < touched[k] <=> lastTouch[j] < lastTouch[k]

OrderInv ==
  /\ events \in Nat
  /\ lastTouch \in [Experts -> 0 .. events]
  /\ phase # "evicting" => SameOrder(Experts)
  /\ phase = "evicting" =>
       /\ SameOrder(Experts \ access.required)
       /\ events # 0
       /\ \A k \in access.required : lastTouch[k] = events
       /\ \A k \in Experts \ access.required : lastTouch[k] < events
  /\ workloads = 0 =>
       phase = "idle" /\ \A k \in Experts : touched[k] = 0 /\ lastTouch[k] = 0

ReuseInv ==
  /\ IsFiniteSet(reuses)
  /\ \A r \in reuses : r.event \in 1 .. events

\* The reuses that hit at the capacity of the cache.
HitRecords == {r \in reuses : r.capacity <= Capacity}

HitInv ==
  /\ phase # "evicting" => access.hits = 0
  /\ ReplayedHits = Cardinality(HitRecords)

PredictionInv == RefinementInv /\ OrderInv /\ ReuseInv /\ HitInv

-----------------------------------------------------------------------------
\* The capacity the frontier records for a request is what the stack down to
\* it weighs.
LEMMA RequiredCapacityIsStack ==
  ASSUME touched \in [Experts -> Nat], lastTouch \in [Experts -> Nat],
         SameOrder(Experts), NEW k \in Touched(lastTouch)
  PROVE  /\ k \in Touched(touched)
         /\ Frontier!RequiredCapacity(k) = Bytes(Stack(touched, k))
<1> DEFINE above == {j \in Touched(lastTouch) \ {k} : Older(lastTouch, k, j)}
<1>1. k \in Experts /\ above \in SUBSET Experts /\ {k} \in SUBSET Experts
  BY DEF Touched
<1>2. Touched(touched) = Touched(lastTouch)
  BY DEF Touched, SameOrder
<1>3. \A i, j \in Experts : Older(touched, i, j) <=> Older(lastTouch, i, j)
  <2> SUFFICES ASSUME NEW i \in Experts, NEW j \in Experts
               PROVE  Older(touched, i, j) <=> Older(lastTouch, i, j)
    OBVIOUS
  <2>1. /\ touched[i] \in Nat /\ touched[j] \in Nat
        /\ lastTouch[i] \in Nat /\ lastTouch[j] \in Nat
    OBVIOUS
  <2>2. /\ touched[i] < touched[j] <=> lastTouch[i] < lastTouch[j]
        /\ touched[j] < touched[i] <=> lastTouch[j] < lastTouch[i]
    BY DEF SameOrder
  <2> QED
    BY <2>1, <2>2 DEF Older
<1>4. Stack(touched, k) = above \cup {k}
  <2>1. \A j \in Experts : ~ Older(touched, j, k) <=> j = k \/ Older(touched, k, j)
    BY <1>1, OlderIsTotalOrder
  <2> QED
    BY <1>1, <1>2, <1>3, <2>1 DEF Stack, Touched
<1>5. Bytes(above \cup {k}) = Bytes(above) + Bytes({k})
  BY <1>1, BytesOfUnion
<1>6. Bytes({k}) = Size[k]
  BY <1>1, BytesOfOne
<1>7. Frontier!RequiredCapacity(k) = Bytes(above) + Size[k]
  BY FrontierOperators DEF Frontier!RequiredCapacity
<1> QED
  BY <1>2, <1>4, <1>5, <1>6, <1>7

-----------------------------------------------------------------------------
\* An event is compared in the state before it: the requests that hit are those
\* whose new record fits.
LEMMA EventHits ==
  ASSUME PredictionInv, Policy = "lru", NEW required \in SUBSET Experts,
         phase = "ready", Frontier!Event(required)
  PROVE  /\ IsFiniteSet(reuses')
         /\ Cardinality(HitRecords') =
              Cardinality(HitRecords) + Cardinality(required \cap resident)
         /\ \A r \in reuses' : r.event \in 1 .. events'
<1> DEFINE hit == required \cap resident
           record(k) == [event |-> events + 1, key |-> k,
                         capacity |-> Frontier!RequiredCapacity(k)]
           reused == required \cap Touched(lastTouch)
           new == {record(k) : k \in reused}
           newHits == {r \in new : r.capacity <= Capacity}
<1>1. /\ touched \in [Experts -> Nat]
      /\ lastTouch \in [Experts -> Nat]
      /\ SameOrder(Experts)
      /\ events \in Nat
      /\ resident = Fitting(touched, Capacity)
      /\ IsFiniteSet(reuses)
      /\ \A r \in reuses : r.event \in 1 .. events
  BY DEF PredictionInv, RefinementInv, RecencyInv, SafetyInv, TypeOK, PrefixInv,
         OrderInv, ReuseInv
<1>2. reuses' = reuses \cup new /\ events' = events + 1
  BY FrontierOperators DEF Frontier!Event, Frontier!Reused
<1>3. Touched(touched) = Touched(lastTouch)
  BY <1>1 DEF Touched, SameOrder
<1>4. hit = {k \in reused : Frontier!RequiredCapacity(k) <= Capacity}
  BY <1>1, <1>3, RequiredCapacityIsStack DEF Fitting
<1>5. hit \in SUBSET Experts /\ reused \in SUBSET Experts
  BY DEF Touched
<1>6. IsFiniteSet(new)
  <2> DEFINE f == [k \in reused |-> record(k)]
  <2>1. /\ f \in [reused -> new]
        /\ \A a, b \in reused : f[a] = f[b] => a = b
        /\ \A t \in new : \E k \in reused : f[k] = t
    OBVIOUS
  <2> HIDE DEF f, new, reused
  <2> QED
    BY <1>5, <2>1, OneRecordPerExpert
<1>7. IsFiniteSet(newHits) /\ Cardinality(newHits) = Cardinality(hit)
  <2> DEFINE f == [k \in hit |-> record(k)]
  <2>1. /\ f \in [hit -> newHits]
        /\ \A a, b \in hit : f[a] = f[b] => a = b
        /\ \A t \in newHits : \E k \in hit : f[k] = t
    BY <1>4
  <2> HIDE DEF f, newHits, hit
  <2> QED
    BY <1>5, <2>1, OneRecordPerExpert
<1>8. HitRecords' = HitRecords \cup newHits
  BY <1>2 DEF HitRecords
<1>9. HitRecords \cap newHits = {}
  BY <1>1 DEF HitRecords
<1>10. IsFiniteSet(HitRecords)
  BY <1>1, FS_Subset DEF HitRecords
<1>11. Cardinality(HitRecords') = Cardinality(HitRecords) + Cardinality(hit)
  <2>1. Cardinality(HitRecords \cup newHits) =
          Cardinality(HitRecords) + Cardinality(newHits)
            - Cardinality(HitRecords \cap newHits)
    BY <1>7, <1>10, FS_Union
  <2>2. Cardinality(HitRecords \cap newHits) = 0
    BY <1>9, FS_EmptySet
  <2>3. Cardinality(HitRecords) \in Nat /\ Cardinality(newHits) \in Nat
    BY <1>7, <1>10, FS_CardinalityType
  <2> QED
    BY <1>7, <1>8, <2>1, <2>2, <2>3
<1>12. IsFiniteSet(reuses')
  BY <1>1, <1>2, <1>6, FS_Union
<1>13. ASSUME NEW r \in reuses' PROVE r.event \in 1 .. events'
  BY <1>1, <1>2
<1> QED
  BY <1>11, <1>12, <1>13

-----------------------------------------------------------------------------
\* Numbers of hits that the steps below add up.
LEMMA HitNumbers ==
  ASSUME PredictionInv
  PROVE  /\ totals.hits \in Nat
         /\ counters.hits \in Nat
         /\ access.hits \in Nat
         /\ ReplayedHits = totals.hits + counters.hits + access.hits
BY DEF PredictionInv, RefinementInv, RecencyInv, SafetyInv, TypeOK,
       ReplayedHits, Overall, Merge

LEMMA BeginPrediction ==
  ASSUME PredictionInv, Begin
  PROVE  OrderInv' /\ ReuseInv' /\ HitInv'
<1>1. /\ workloads = 0 /\ StartWorkload /\ UNCHANGED frontierVars
      /\ phase = "idle" /\ phase' = "ready" /\ workloads' = workloads + 1
      /\ UNCHANGED <<access, totals>>
  BY DEF Begin, StartWorkload
<1>2. UNCHANGED <<lastTouch, reuses, events>>
  BY <1>1 DEF frontierVars
<1>3. \A k \in Experts : touched[k] = 0 /\ lastTouch[k] = 0
  BY <1>1 DEF PredictionInv, OrderInv
<1>4. \A k \in Experts : touched'[k] = 0
  BY <1>1, <1>3 DEF StartWorkload, cacheVars
<1>5. OrderInv'
  BY <1>1, <1>2, <1>3, <1>4 DEF PredictionInv, OrderInv, SameOrder
<1>6. counters = NoCounts
  BY <1>1 DEF PredictionInv, RefinementInv, IdleInv
<1>7. counters'.hits = 0 /\ counters.hits = 0
  BY <1>1, <1>6 DEF StartWorkload, StartingCounts, NoCounts
<1>8. ReplayedHits' = ReplayedHits
  BY <1>1, <1>7 DEF ReplayedHits, Overall, Merge
<1>9. HitInv'
  BY <1>1, <1>2, <1>8 DEF PredictionInv, HitInv, HitRecords
<1> QED
  BY <1>2, <1>5, <1>9 DEF PredictionInv, ReuseInv

LEMMA UnassignedEventPrediction ==
  ASSUME PredictionInv, Policy = "lru", UnassignedEvent
  PROVE  OrderInv' /\ ReuseInv' /\ HitInv'
<1>1. /\ SkipEvent /\ Frontier!Event({})
      /\ phase = "ready" /\ phase' = phase
      /\ UNCHANGED <<touched, access, totals, workloads>>
      /\ counters' = [counters EXCEPT !.events = @ + 1]
  BY DEF UnassignedEvent, SkipEvent, cacheVars
<1>2. lastTouch' = lastTouch /\ events' = events + 1
  BY DEF UnassignedEvent, Frontier!Event, PredictionInv, OrderInv
<1>3. OrderInv'
  BY <1>1, <1>2 DEF PredictionInv, OrderInv, SameOrder
<1>4. /\ IsFiniteSet(reuses')
      /\ Cardinality(HitRecords') =
           Cardinality(HitRecords) + Cardinality({} \cap resident)
      /\ \A r \in reuses' : r.event \in 1 .. events'
  BY <1>1, EventHits
<1>5. Cardinality({} \cap resident) = 0
  BY FS_EmptySet
<1>6. IsFiniteSet(HitRecords)
  BY FS_Subset DEF PredictionInv, ReuseInv, HitRecords
<1>7. Cardinality(HitRecords') = Cardinality(HitRecords)
  BY <1>4, <1>5, <1>6, FS_CardinalityType
<1>8. counters'.hits = counters.hits
  BY <1>1 DEF PredictionInv, RefinementInv, RecencyInv, SafetyInv, TypeOK
<1>9. ReplayedHits' = ReplayedHits
  BY <1>1, <1>8 DEF ReplayedHits, Overall, Merge
<1>10. HitInv'
  BY <1>1, <1>7, <1>9 DEF PredictionInv, HitInv
<1> QED
  BY <1>3, <1>4, <1>10 DEF ReuseInv

LEMMA RoutingEventPrediction ==
  ASSUME PredictionInv, Policy = "lru", NEW required \in SUBSET Experts,
         RoutingEvent(required)
  PROVE  OrderInv' /\ ReuseInv' /\ HitInv'
<1>1. /\ Frontier!Event(required)
      /\ phase = "ready" /\ phase' = "evicting"
      /\ access'.required = required
      /\ access'.hits = Cardinality(required \cap resident)
      /\ UNCHANGED <<touched, counters, totals, workloads>>
  BY DEF RoutingEvent, StartAccess
<1>2. /\ events \in Nat /\ events' = events + 1
      /\ lastTouch \in [Experts -> 0 .. events]
      /\ lastTouch' = [k \in Experts |->
                         IF k \in required THEN events + 1 ELSE lastTouch[k]]
      /\ SameOrder(Experts)
      /\ workloads # 0
  BY <1>1 DEF Frontier!Event, PredictionInv, OrderInv
<1>3. lastTouch' \in [Experts -> 0 .. events']
  BY <1>2
<1>4. SameOrder(Experts \ access.required)'
  <2>1. \A j \in Experts \ required :
          lastTouch'[j] = lastTouch[j] /\ touched'[j] = touched[j]
    BY <1>1, <1>2
  <2> QED
    BY <1>1, <1>2, <2>1 DEF SameOrder
<1>5. /\ \A k \in required : lastTouch'[k] = events'
      /\ \A k \in Experts \ required : lastTouch'[k] < events'
  BY <1>2
<1>6. OrderInv'
  BY <1>1, <1>2, <1>3, <1>4, <1>5 DEF OrderInv
<1>7. /\ IsFiniteSet(reuses')
      /\ Cardinality(HitRecords') =
           Cardinality(HitRecords) + Cardinality(required \cap resident)
      /\ \A r \in reuses' : r.event \in 1 .. events'
  BY <1>1, EventHits
<1>8. access.hits = 0 /\ ReplayedHits = Cardinality(HitRecords)
  BY <1>1 DEF PredictionInv, HitInv
<1>9. ReplayedHits' = totals.hits + counters.hits + access'.hits
  BY <1>1 DEF ReplayedHits, Overall, Merge
<1>10. ReplayedHits' = Cardinality(HitRecords')
  <2>1. ReplayedHits = totals.hits + counters.hits
    BY <1>8, HitNumbers
  <2> QED
    BY <1>1, <1>7, <1>8, <1>9, <2>1
<1> QED
  BY <1>1, <1>6, <1>7, <1>10 DEF ReuseInv, HitInv

LEMMA CacheWorkPrediction ==
  ASSUME PredictionInv, CacheWork
  PROVE  OrderInv' /\ ReuseInv' /\ HitInv'
<1>1. UNCHANGED <<lastTouch, reuses, events>>
  BY DEF CacheWork, frontierVars
<1>2. ReuseInv' /\ HitRecords' = HitRecords
  BY <1>1 DEF PredictionInv, ReuseInv, HitRecords
<1>3. ASSUME NEW victim \in Experts, Evict(victim)
      PROVE  OrderInv' /\ HitInv'
  <2>1. /\ phase = "evicting" /\ phase' = phase
        /\ UNCHANGED <<touched, counters, totals, workloads>>
        /\ access' = AfterEviction(victim)
    BY <1>3 DEF Evict
  <2>2. access'.required = access.required /\ access'.hits = access.hits
    BY <2>1 DEF AfterEviction, PredictionInv, RefinementInv, RecencyInv, SafetyInv,
                TypeOK
  <2>3. OrderInv'
    BY <1>1, <2>1, <2>2 DEF PredictionInv, OrderInv, SameOrder
  <2>4. ReplayedHits' = ReplayedHits
    BY <2>1, <2>2 DEF ReplayedHits, Overall, Merge
  <2> QED
    BY <1>2, <2>1, <2>3, <2>4 DEF PredictionInv, HitInv
<1>4. ASSUME FinishAccess PROVE OrderInv' /\ HitInv'
  <2>1. /\ phase = "evicting" /\ phase' = "ready"
        /\ UNCHANGED <<totals, workloads>>
        /\ access' = NoAccess
        /\ counters'.hits = counters.hits + access.hits
        /\ touched' = [k \in Experts |->
                         IF k \in access.required THEN clock ELSE touched[k]]
    BY <1>4 DEF FinishAccess
  <2>2. access'.hits = 0
    BY <2>1 DEF NoAccess
  <2>3. /\ touched \in [Experts -> Nat]
        /\ clock \in Nat /\ clock >= 1
        /\ \A k \in Experts : touched[k] <= clock - 1
        /\ events \in Nat
        /\ lastTouch \in [Experts -> 0 .. events]
        /\ SameOrder(Experts \ access.required)
        /\ \A k \in access.required : lastTouch[k] = events
        /\ \A k \in Experts \ access.required : lastTouch[k] < events
        /\ events # 0
        /\ workloads # 0
        /\ access.required \in SUBSET Experts
    BY <2>1 DEF PredictionInv, RefinementInv, RecencyInv, SafetyInv, TypeOK,
                TouchInv, OrderInv
  <2>4. SameOrder(Experts)'
    <3> SUFFICES ASSUME NEW j \in Experts, NEW k \in Experts
                 PROVE  /\ touched'[j] = 0 <=> lastTouch'[j] = 0
                        /\ touched'[j] < touched'[k] <=> lastTouch'[j] < lastTouch'[k]
      BY DEF SameOrder
    <3>1. /\ touched[j] \in Nat /\ touched[k] \in Nat
          /\ touched[j] <= clock - 1 /\ touched[k] <= clock - 1
          /\ lastTouch[j] \in Nat /\ lastTouch[k] \in Nat
          /\ lastTouch' = lastTouch
      BY <1>1, <2>3
    <3>2. /\ j \in access.required => touched'[j] = clock /\ lastTouch[j] = events
          /\ j \notin access.required =>
               touched'[j] = touched[j] /\ lastTouch[j] < events
          /\ k \in access.required => touched'[k] = clock /\ lastTouch[k] = events
          /\ k \notin access.required =>
               touched'[k] = touched[k] /\ lastTouch[k] < events
      BY <2>1, <2>3
    <3>3. /\ j \notin access.required => (touched[j] = 0 <=> lastTouch[j] = 0)
          /\ j \notin access.required /\ k \notin access.required =>
               (touched[j] < touched[k] <=> lastTouch[j] < lastTouch[k])
      BY <2>3 DEF SameOrder
    <3> QED
      BY <2>3, <3>1, <3>2, <3>3
  <2>5. OrderInv'
    BY <1>1, <2>1, <2>3, <2>4 DEF OrderInv
  <2>6. ReplayedHits' = ReplayedHits
    BY <2>1, <2>2, HitNumbers DEF ReplayedHits, Overall, Merge
  <2> QED
    BY <1>2, <2>1, <2>2, <2>5, <2>6 DEF PredictionInv, HitInv
<1>5. ASSUME EndWorkload PROVE OrderInv' /\ HitInv'
  <2>1. /\ phase = "ready" /\ phase' = "idle"
        /\ UNCHANGED <<touched, access, workloads>>
        /\ totals' = Overall
        /\ counters' = NoCounts
    BY <1>5 DEF EndWorkload, cacheVars
  <2>2. OrderInv'
    BY <1>1, <2>1 DEF PredictionInv, OrderInv, SameOrder
  <2>3. totals'.hits = totals.hits + counters.hits /\ counters'.hits = 0
    BY <2>1 DEF Overall, Merge, NoCounts
  <2>4. ReplayedHits' = ReplayedHits
    BY <2>1, <2>3, HitNumbers DEF ReplayedHits, Overall, Merge
  <2> QED
    BY <1>2, <2>1, <2>2, <2>4 DEF PredictionInv, HitInv
<1> QED
  BY <1>2, <1>3, <1>4, <1>5 DEF CacheWork

-----------------------------------------------------------------------------
LEMMA InitPrediction == FrontierInit => PredictionInv
<1> SUFFICES ASSUME FrontierInit PROVE PredictionInv
  OBVIOUS
<1>1. RefinementInv
  BY InitRecency DEF FrontierInit, Init, RefinementInv, IdleInv
<1>2. OrderInv
  BY DEF FrontierInit, Init, Frontier!Init, OrderInv, SameOrder
<1>3. reuses = {} /\ HitRecords = {}
  BY DEF FrontierInit, Frontier!Init, HitRecords
<1>4. ReuseInv
  BY <1>3, FS_EmptySet DEF ReuseInv
<1>5. HitInv
  BY <1>3, FS_EmptySet
     DEF FrontierInit, Init, HitInv, ReplayedHits, Overall, Merge, NoCounts, NoAccess
<1> QED
  BY <1>1, <1>2, <1>4, <1>5 DEF PredictionInv

\* A step of the composition is a step of the cache.
LEMMA FrontierStepIsCacheStep == [FrontierNext]_allVars => [Next]_vars
BY DEF FrontierNext, Begin, UnassignedEvent, RoutingEvent, CacheWork, Next, allVars

LEMMA NextPrediction ==
  ASSUME Policy = "lru"
  PROVE  PredictionInv /\ [FrontierNext]_allVars => PredictionInv'
<1> SUFFICES ASSUME PredictionInv, [FrontierNext]_allVars PROVE PredictionInv'
  OBVIOUS
<1>1. RefinementInv'
  BY FrontierStepIsCacheStep, NextRecency, NextIdle DEF PredictionInv, RefinementInv
<1>2. CASE Begin
  BY <1>1, <1>2, BeginPrediction DEF PredictionInv
<1>3. CASE UnassignedEvent
  BY <1>1, <1>3, UnassignedEventPrediction DEF PredictionInv
<1>4. ASSUME NEW required \in SUBSET Experts, RoutingEvent(required)
      PROVE  PredictionInv'
  BY <1>1, <1>4, RoutingEventPrediction DEF PredictionInv
<1>5. CASE CacheWork
  BY <1>1, <1>5, CacheWorkPrediction DEF PredictionInv
<1>6. CASE UNCHANGED allVars
  <2>1. /\ UNCHANGED <<lastTouch, reuses, events>>
        /\ UNCHANGED <<touched, phase, access, counters, totals, workloads>>
    BY <1>6 DEF allVars, frontierVars, vars, cacheVars
  <2>2. OrderInv' /\ ReuseInv'
    BY <2>1 DEF PredictionInv, OrderInv, SameOrder, ReuseInv
  <2>3. HitInv'
    BY <2>1 DEF PredictionInv, HitInv, HitRecords, ReplayedHits, Overall, Merge
  <2> QED
    BY <1>1, <2>2, <2>3 DEF PredictionInv
<1> QED
  BY <1>2, <1>3, <1>4, <1>5, <1>6 DEF FrontierNext

-----------------------------------------------------------------------------
(***************************************************************************)
(* Part 4: the capacities the frontier names.  Hits grow with the capacity *)
(* and only at breakpoints, so that the hits at any feasible capacity are  *)
(* those at the largest breakpoint below it; what the replay accepts never *)
(* exceeds its capacity, so that this is a feasible one.                   *)
(***************************************************************************)
\* A step of the composition is a step of the frontier.
LEMMA FrontierStepIsFrontierStep ==
  [FrontierNext]_allVars => [Frontier!Next]_Frontier!frontierVars
BY DEF FrontierNext, Begin, UnassignedEvent, RoutingEvent, CacheWork, allVars,
       frontierVars, Frontier!frontierVars, Frontier!Next

LEMMA MinIsLeast ==
  ASSUME NEW S \in SUBSET Nat, S # {}
  PROVE  /\ Frontier!Min(S) \in S
         /\ \A n \in S : Frontier!Min(S) <= n
BY LeastNatural DEF Frontier!Min

\* More capacity, no fewer hits.
LEMMA HitsGrow ==
  ASSUME FrontierInv, NEW c \in Nat, NEW d \in Nat, c <= d
  PROVE  /\ Frontier!ExactHitsAt(c) \in Nat /\ Frontier!ExactHitsAt(d) \in Nat
         /\ Frontier!ExactHitsAt(c) <= Frontier!ExactHitsAt(d)
<1> DEFINE At(n) == {r \in reuses : r.capacity <= n}
<1>1. IsFiniteSet(reuses) /\ \A r \in reuses : r.capacity \in Nat
  BY DEF FrontierInv, Frontier!TypeOK
<1>2. \A n : At(n) \in SUBSET reuses
  OBVIOUS
<1>3. At(c) \in SUBSET At(d)
  BY <1>1
<1>4. \A n : Frontier!ExactHitsAt(n) = Cardinality(At(n))
  BY FrontierOperators DEF Frontier!ExactHitsAt
<1> HIDE DEF At
<1>5. IsFiniteSet(At(c)) /\ IsFiniteSet(At(d))
  BY <1>1, <1>2, FS_Subset
<1> QED
  BY <1>3, <1>4, <1>5, FS_Subset, FS_CardinalityType

\* The hits at a feasible capacity are those at a breakpoint below it.
LEMMA BreakpointBelow ==
  ASSUME FrontierInv, NEW capacity \in Nat, floor <= capacity
  PROVE  \E c \in Frontier!Breakpoints :
            c <= capacity /\ Frontier!ExactHitsAt(c) = Frontier!ExactHitsAt(capacity)
<1> DEFINE D == {capacity - c : c \in {b \in Frontier!Breakpoints : b <= capacity}}
<1>1. /\ floor \in Nat
      /\ \A r \in reuses : r.capacity \in Nat
  BY DEF FrontierInv, Frontier!TypeOK
<1>2. /\ Frontier!Breakpoints \subseteq Nat
      /\ floor \in Frontier!Breakpoints
      /\ \A r \in reuses : r.capacity > floor => r.capacity \in Frontier!Breakpoints
  BY <1>1 DEF Frontier!Breakpoints
<1>3. D \in SUBSET Nat /\ D # {}
  BY <1>1, <1>2
<1>4. PICK n \in D : \A m \in D : n <= m
  <2> HIDE DEF D
  <2> QED
    BY <1>3, LeastNatural
<1>5. PICK c \in Frontier!Breakpoints : c <= capacity /\ n = capacity - c
  BY <1>4
<1>6. ASSUME NEW b \in Frontier!Breakpoints, b <= capacity PROVE b <= c
  <2>1. capacity - c <= capacity - b
    BY <1>4, <1>5, <1>6
  <2> QED
    BY <1>2, <2>1
<1>7. \A r \in reuses : r.capacity <= capacity <=> r.capacity <= c
  BY <1>1, <1>2, <1>5, <1>6
<1>8. Frontier!ExactHitsAt(c) = Frontier!ExactHitsAt(capacity)
  <2>1. {r \in reuses : r.capacity <= c} = {r \in reuses : r.capacity <= capacity}
    BY <1>7
  <2> QED
    BY <2>1 DEF Frontier!ExactHitsAt
<1> QED
  BY <1>5, <1>8

\* The least breakpoint with enough hits is the least capacity with enough hits.
LEMMA TargetMarksTheLine ==
  ASSUME FrontierInv, floor <= Capacity, NEW needed \in Nat, needed <= Cardinality(reuses)
  PROVE  Capacity >= Frontier!Min({c \in Frontier!Breakpoints :
                                     Frontier!ExactHitsAt(c) >= needed})
           <=> Frontier!ExactHitsAt(Capacity) >= needed
<1> DEFINE S == {c \in Frontier!Breakpoints : Frontier!ExactHitsAt(c) >= needed}
<1>1. S \in SUBSET Nat /\ Capacity \in Nat
  BY CapacityAssumption DEF Frontier!Breakpoints, FrontierInv, Frontier!TypeOK
<1>2. S # {}
  <2> DEFINE all == Frontier!referencedWorkingSet
  <2>1. all \in Nat /\ floor <= all /\ \A r \in reuses : r.capacity <= all
    <3>1. all = Bytes(Touched(lastTouch))
      BY FrontierOperators DEF Frontier!referencedWorkingSet
    <3>2. Touched(lastTouch) \in SUBSET Experts
      BY DEF Touched
    <3> QED
      BY <3>1, <3>2, CellsFinite DEF FrontierInv, Frontier!WorkingSetReachesEveryReuse
  <2>2. PICK c \in Frontier!Breakpoints :
          c <= all /\ Frontier!ExactHitsAt(c) = Frontier!ExactHitsAt(all)
    BY <2>1, BreakpointBelow
  <2>3. {r \in reuses : r.capacity <= all} = reuses
    BY <2>1
  <2>4. Frontier!ExactHitsAt(all) = Cardinality(reuses)
    BY <2>3, FrontierOperators DEF Frontier!ExactHitsAt
  <2>5. Cardinality(reuses) \in Nat
    BY FS_CardinalityType DEF FrontierInv
  <2> QED
    BY <2>2, <2>4, <2>5
<1>3. Frontier!Min(S) \in S /\ \A c \in S : Frontier!Min(S) <= c
  <2> HIDE DEF S
  <2> QED
    BY <1>1, <1>2, MinIsLeast
<1>4. ASSUME Capacity >= Frontier!Min(S) PROVE Frontier!ExactHitsAt(Capacity) >= needed
  <2> DEFINE m == Frontier!Min(S)
  <2>1. m \in Nat /\ m <= Capacity /\ Frontier!ExactHitsAt(m) >= needed
    BY <1>1, <1>3, <1>4
  <2> HIDE DEF m
  <2> QED
    BY <1>1, <2>1, HitsGrow
<1>5. ASSUME Frontier!ExactHitsAt(Capacity) >= needed PROVE Capacity >= Frontier!Min(S)
  <2>1. PICK c \in Frontier!Breakpoints :
          c <= Capacity /\ Frontier!ExactHitsAt(c) = Frontier!ExactHitsAt(Capacity)
    BY <1>1, BreakpointBelow
  <2>2. c \in S
    BY <1>5, <2>1
  <2> HIDE DEF S
  <2>3. Frontier!Min(S) <= c /\ c \in Nat /\ Frontier!Min(S) \in Nat
    BY <1>1, <1>3, <2>2
  <2> QED
    BY <1>1, <2>1, <2>3
<1> QED
  BY <1>4, <1>5

LEMMA FirstHitMarksTheLine ==
  ASSUME FrontierInv, floor <= Capacity, reuses # {}
  PROVE  Capacity >= Frontier!FirstHitCapacity <=> Frontier!ExactHitsAt(Capacity) > 0
<1> DEFINE S == {r.capacity : r \in reuses}
           least == Frontier!Min(S)
<1>1. /\ S \in SUBSET Nat /\ S # {} /\ Capacity \in Nat /\ floor \in Nat
      /\ IsFiniteSet(reuses)
  BY CapacityAssumption DEF FrontierInv, Frontier!TypeOK
<1>2. least \in S /\ \A c \in S : least <= c
  <2> HIDE DEF S
  <2> QED
    BY <1>1, MinIsLeast
<1>3. least \in Nat /\ \E r \in reuses : r.capacity = least
  BY <1>1, <1>2
<1>4. \A r \in reuses : least <= r.capacity /\ r.capacity \in Nat
  BY <1>1, <1>2
<1>5. Frontier!FirstHitCapacity = Frontier!Max({floor, least})
  BY DEF Frontier!FirstHitCapacity
<1> HIDE DEF S, least
<1>6. Capacity >= Frontier!FirstHitCapacity <=> Capacity >= least
  <2>1. \E x \in {floor, least} : \A y \in {floor, least} : x >= y
    BY <1>1, <1>3
  <2>2. /\ Frontier!Max({floor, least}) \in {floor, least}
        /\ \A y \in {floor, least} : Frontier!Max({floor, least}) >= y
    BY <2>1 DEF Frontier!Max
  <2> QED
    BY <1>1, <1>3, <1>5, <2>2
<1>7. Capacity >= least <=> {r \in reuses : r.capacity <= Capacity} # {}
  BY <1>1, <1>3, <1>4
<1>8. IsFiniteSet({r \in reuses : r.capacity <= Capacity})
  BY <1>1, FS_Subset
<1>9. Cardinality({r \in reuses : r.capacity <= Capacity}) > 0
        <=> {r \in reuses : r.capacity <= Capacity} # {}
  BY <1>8, FS_EmptySet, FS_CardinalityType
<1> QED
  BY <1>6, <1>7, <1>9, FrontierOperators DEF Frontier!ExactHitsAt

\* Rounding up: the required hits are the least number that makes the fraction.
LEMMA RequiredHitsRoundUp ==
  ASSUME FrontierInv, NEW f \in Frontier!TargetFractions, NEW n \in Nat
  PROVE  /\ Frontier!RequiredHits(f) \in Nat
         /\ n >= Frontier!RequiredHits(f) <=> f[2] * n >= f[1] * requests
<1>1. requests \in Nat
  BY DEF FrontierInv, Frontier!TypeOK
<1>2. CASE f = <<1, 4>>
  <2>1. f[1] = 1 /\ f[2] = 4 /\ Frontier!RequiredHits(f) = (requests + 3) \div 4
    BY <1>1, <1>2 DEF Frontier!RequiredHits
  <2> QED
    BY <1>1, <2>1
<1>3. CASE f = <<1, 2>>
  <2>1. f[1] = 1 /\ f[2] = 2 /\ Frontier!RequiredHits(f) = (requests + 1) \div 2
    BY <1>1, <1>3 DEF Frontier!RequiredHits
  <2> QED
    BY <1>1, <2>1
<1>4. CASE f = <<3, 4>>
  <2>1. f[1] = 3 /\ f[2] = 4 /\ Frontier!RequiredHits(f) = (3 * requests + 3) \div 4
    BY <1>1, <1>4 DEF Frontier!RequiredHits
  <2> QED
    BY <1>1, <2>1
<1>5. CASE f = <<9, 10>>
  <2>1. f[1] = 9 /\ f[2] = 10 /\ Frontier!RequiredHits(f) = (9 * requests + 9) \div 10
    BY <1>1, <1>5 DEF Frontier!RequiredHits
  <2> QED
    BY <1>1, <2>1
<1> QED
  BY <1>2, <1>3, <1>4, <1>5 DEF Frontier!TargetFractions

\* What the replay is given fits its capacity.
FloorInv == FrontierInv /\ floor <= Capacity

LEMMA FloorInvInit == FrontierInit => FloorInv
<1> SUFFICES ASSUME FrontierInit PROVE FloorInv
  OBVIOUS
<1>1. FrontierInv
  BY FrontierInvInit DEF FrontierInit
<1> QED
  BY <1>1, CapacityAssumption DEF FrontierInit, Frontier!Init, FloorInv

LEMMA FloorInvStep == FloorInv /\ [FrontierNext]_allVars => FloorInv'
<1> SUFFICES ASSUME FloorInv, [FrontierNext]_allVars PROVE FloorInv'
  OBVIOUS
<1>1. FrontierInv'
  BY FrontierStepIsFrontierStep, FrontierInvStep DEF FloorInv
<1>2. ASSUME NEW required \in SUBSET Experts, Frontier!Event(required),
             Bytes(required) <= Capacity
      PROVE  floor' <= Capacity
  BY <1>2, FrontierOperators DEF FloorInv, Frontier!Event
<1>3. Bytes({}) <= Capacity
  BY BytesOfNone, CapacityAssumption
<1>4. UNCHANGED frontierVars => floor' <= Capacity
  BY DEF frontierVars, FloorInv
<1> QED
  BY <1>1, <1>2, <1>3, <1>4
     DEF FloorInv, FrontierNext, Begin, UnassignedEvent, RoutingEvent, StartAccess,
         CacheWork, allVars

LEMMA FloorInvariant == FrontierSpec => []FloorInv
BY FloorInvInit, FloorInvStep, PTL DEF FrontierSpec

(***************************************************************************)
(* At every capacity at which a trace can be replayed, and after every     *)
(* event of it, the frontier derives hits without a cache, and they are    *)
(* those of the LRU replay that evicts one victim at a time.               *)
(***************************************************************************)
THEOREM FrontierPredictsLRUReplay ==
  Policy = "lru" /\ FrontierSpec => []FrontierPredictsCache
<1> SUFFICES ASSUME Policy = "lru"
             PROVE  FrontierSpec => []FrontierPredictsCache
  OBVIOUS
<1>1. ASSUME FloorInv, PredictionInv PROVE FrontierPredictsCache
  <2>1. Frontier!IsFeasible(Capacity)
    BY <1>1, CapacityAssumption DEF FloorInv, FrontierInv, Frontier!TypeOK, Frontier!IsFeasible
  <2>2. ReplayedHits = Frontier!ExactHitsAt(Capacity)
    BY <1>1, FrontierOperators
       DEF PredictionInv, HitInv, HitRecords, Frontier!ExactHitsAt
  <2> QED
    BY <2>1, <2>2 DEF FrontierPredictsCache
<1> QED
  BY <1>1, FloorInvariant, InitPrediction, NextPrediction, PTL DEF FrontierSpec

(***************************************************************************)
(* Beside a cache as well the assertions of _derive_mode never fail.       *)
(***************************************************************************)
THEOREM FrontierAccountsBesideCache == FrontierSpec => []FrontierAccounting
<1>1. FloorInv => FrontierAccounting
  BY DEF FloorInv, FrontierInv, FrontierAccounting
<1> QED
  BY <1>1, FloorInvariant, PTL

(***************************************************************************)
(* Beside a cache as well the working set is feasible and enough.          *)
(***************************************************************************)
THEOREM FrontierReachBesideCache == FrontierSpec => []WorkingSetIsEnough
<1>1. FloorInv => WorkingSetIsEnough
  BY DEF FloorInv, FrontierInv, WorkingSetIsEnough
<1> QED
  BY <1>1, FloorInvariant, PTL

(***************************************************************************)
(* The capacities that the frontier names for its targets, and for the     *)
(* first hit, are exactly where an LRU replay that is run at any capacity  *)
(* begins to reach them, after every event of every trace.                 *)
(***************************************************************************)
THEOREM FrontierNamesTheLine ==
  Policy = "lru" /\ FrontierSpec => []NamedCapacitiesMarkTheLine
<1> SUFFICES ASSUME Policy = "lru"
             PROVE  FrontierSpec => []NamedCapacitiesMarkTheLine
  OBVIOUS
<1>1. ASSUME FloorInv, PredictionInv PROVE NamedCapacitiesMarkTheLine
  <2>1. FrontierInv /\ floor <= Capacity /\ Capacity \in Nat
    BY <1>1, CapacityAssumption DEF FloorInv
  <2>2. ReplayedHits = Frontier!ExactHitsAt(Capacity)
    BY <1>1, FrontierOperators
       DEF PredictionInv, HitInv, HitRecords, Frontier!ExactHitsAt
  <2>3. ReplayedHits \in Nat
    BY <2>1, <2>2, HitsGrow
  <2>4. ASSUME NEW f \in Frontier!ReachedTargets
        PROVE  Capacity >= Frontier!TargetCapacity(f) <=>
                 f[2] * ReplayedHits >= f[1] * requests
    <3>1. /\ f \in Frontier!TargetFractions
          /\ Frontier!RequiredHits(f) <= Cardinality(reuses)
      BY FrontierOperators DEF Frontier!ReachedTargets
    <3>2. /\ Frontier!RequiredHits(f) \in Nat
          /\ ReplayedHits >= Frontier!RequiredHits(f) <=>
               f[2] * ReplayedHits >= f[1] * requests
      BY <2>1, <2>3, <3>1, RequiredHitsRoundUp
    <3>3. Capacity >= Frontier!TargetCapacity(f) <=>
            Frontier!ExactHitsAt(Capacity) >= Frontier!RequiredHits(f)
      BY <2>1, <3>1, <3>2, TargetMarksTheLine DEF Frontier!TargetCapacity
    <3> QED
      BY <2>2, <3>2, <3>3
  <2>5. reuses # {} => (Capacity >= Frontier!FirstHitCapacity <=> ReplayedHits > 0)
    BY <2>1, <2>2, FirstHitMarksTheLine
  <2> QED
    BY <2>4, <2>5 DEF NamedCapacitiesMarkTheLine
<1> QED
  BY <1>1, FloorInvariant, InitPrediction, NextPrediction, PTL DEF FrontierSpec


\* The last place of a prefix of a sequence, and the prefix before it.
LEMMA LastOfPrefix ==
  ASSUME NEW n \in Nat \ {0}, NEW s, n \in s, s \in SUBSET (1 .. n)
  PROVE  Max(s) = n /\ s \ {n} \in SUBSET (1 .. n - 1)
<1>1. \A y \in s : n >= y
  OBVIOUS
<1>2. \A x \in s : (\A y \in s : x >= y) => x = n
  OBVIOUS
<1>3. Max(s) = CHOOSE x \in s : \A y \in s : x >= y
  BY Zenon DEF Max
<1>4. Max(s) = n
  BY <1>1, <1>2, <1>3
<1> QED
  BY <1>4

(***************************************************************************)
(* The recursion of FoldLeft runs over all sets of places of a sequence.   *)
(* For a step that is a function on V and E it has a solution.             *)
(***************************************************************************)
FoldStep(step, base, items, f, s) ==
  IF s = {} THEN base ELSE step[<<f[s \ {Max(s)}], items[Max(s)]>>]

IsFold(step, base, items, n, f) ==
  \A s \in SUBSET (1 .. n) : f[s] = FoldStep(step, base, items, f, s)

LEMMA FoldIsDefined ==
  ASSUME NEW V, NEW E, NEW step \in [V \X E -> V], NEW base \in V,
         NEW n \in Nat, NEW items \in [1 .. n -> E]
  PROVE  \E f \in [SUBSET (1 .. n) -> V] : IsFold(step, base, items, n, f)
<1> DEFINE Solves(f, m) ==
             \A s \in SUBSET (1 .. m) : f[s] = FoldStep(step, base, items, f, s)
           Solvable(m) == \E f \in [SUBSET (1 .. m) -> V] : Solves(f, m)
           Bad == {m \in Nat : m <= n /\ ~ Solvable(m)}
<1>1. Bad = {}
  <2> SUFFICES ASSUME Bad # {} PROVE FALSE
    OBVIOUS
  <2>1. PICK m \in Bad : \A l \in Bad : m <= l
    <3>1. Bad \in SUBSET Nat
      OBVIOUS
    <3> HIDE DEF Bad
    <3> QED
      BY <3>1, LeastNatural
  <2>2. m # 0
    <3> DEFINE f == [s \in SUBSET (1 .. 0) |-> base]
    <3>1. SUBSET (1 .. 0) = {{}}
      OBVIOUS
    <3>2. f \in [SUBSET (1 .. 0) -> V] /\ f[{}] = base
      BY <3>1
    <3>3. Solves(f, 0)
      <4> HIDE DEF f
      <4> QED
        BY <3>1, <3>2 DEF FoldStep
    <3>4. Solvable(0)
      <4> HIDE DEF f
      <4> QED
        BY <3>2, <3>3
    <3> HIDE DEF Solvable
    <3> QED
      BY <2>1, <3>4
  <2>3. m \in Nat \ {0} /\ m <= n /\ m - 1 \in Nat /\ m \in 1 .. n
    BY <2>1, <2>2
  <2>4. Solvable(m - 1)
    <3> HIDE DEF Solvable
    <3> QED
      BY <2>1, <2>3
  <2>5. PICK f \in [SUBSET (1 .. m - 1) -> V] : Solves(f, m - 1)
    BY <2>4
  <2> DEFINE g == [s \in SUBSET (1 .. m) |->
                     IF m \in s THEN step[<<f[s \ {m}], items[m]>>] ELSE f[s]]
  <2>6. ASSUME NEW s \in SUBSET (1 .. m), m \notin s
        PROVE  s \in SUBSET (1 .. m - 1)
    BY <2>3, <2>6
  <2>7. ASSUME NEW s \in SUBSET (1 .. m), m \in s
        PROVE  s \ {m} \in SUBSET (1 .. m - 1) /\ Max(s) = m
    BY <2>3, <2>7, LastOfPrefix
  <2>8. ASSUME NEW s \in SUBSET (1 .. m - 1)
        PROVE  s \in SUBSET (1 .. m) /\ m \notin s
    BY <2>3
  <2>9. ASSUME NEW s \in SUBSET (1 .. m)
        PROVE  (IF m \in s THEN step[<<f[s \ {m}], items[m]>>] ELSE f[s]) \in V
    <3>1. CASE m \in s
      <4>1. f[s \ {m}] \in V /\ items[m] \in E
        BY <2>3, <2>5, <2>7, <3>1
      <4>2. <<f[s \ {m}], items[m]>> \in V \X E
        BY <4>1
      <4> QED
        BY <3>1, <4>2
    <3>2. CASE m \notin s
      BY <2>5, <2>6, <3>2
    <3> QED
      BY <3>1, <3>2
  <2>10. g \in [SUBSET (1 .. m) -> V]
    BY <2>9
  <2>11. \A s \in SUBSET (1 .. m - 1) : g[s] = f[s]
    BY <2>8
  <2>12. \A s \in SUBSET (1 .. m) : m \in s => g[s] = step[<<f[s \ {m}], items[m]>>]
    OBVIOUS
  <2>13. Solves(g, m)
    <3> SUFFICES ASSUME NEW s \in SUBSET (1 .. m)
                 PROVE  g[s] = FoldStep(step, base, items, g, s)
      OBVIOUS
    <3> HIDE DEF g
    <3>1. CASE m \in s
      BY <2>7, <2>11, <2>12, <3>1 DEF FoldStep
    <3>2. CASE m \notin s
      <4>1. s \in SUBSET (1 .. m - 1)
        BY <2>6, <3>2
      <4>2. g[s] = f[s] /\ f[s] = FoldStep(step, base, items, f, s)
        BY <2>5, <2>11, <4>1
      <4>3. s \ {Max(s)} \in SUBSET (1 .. m - 1)
        BY <4>1
      <4>4. g[s \ {Max(s)}] = f[s \ {Max(s)}]
        BY <2>11, <4>3
      <4> QED
        BY <4>2, <4>4 DEF FoldStep
    <3> QED
      BY <3>1, <3>2
  <2>14. Solvable(m)
    <3> HIDE DEF g
    <3> QED
      BY <2>10, <2>13
  <2> HIDE DEF Solvable
  <2> QED
    BY <2>1, <2>14
<1>2. Solvable(n)
  <2> HIDE DEF Solvable
  <2> QED
    BY <1>1
<1> QED
  BY <1>2 DEF IsFold

\* The results of a step over longer and longer prefixes.
IsChain(step, base, items, n, h) ==
  /\ h[0] = base
  /\ \A i \in 1 .. n : h[i] = step[<<h[i - 1], items[i]>>]

LEMMA ChainIsDefined ==
  ASSUME NEW V, NEW E, NEW step \in [V \X E -> V], NEW base \in V,
         NEW n \in Nat, NEW items \in [1 .. n -> E]
  PROVE  \E h \in [0 .. n -> V] : IsChain(step, base, items, n, h)
<1>1. PICK f \in [SUBSET (1 .. n) -> V] : IsFold(step, base, items, n, f)
  BY FoldIsDefined
<1> DEFINE h == [i \in 0 .. n |-> f[1 .. i]]
<1>2. h \in [0 .. n -> V]
  <2>1. \A i \in 0 .. n : 1 .. i \in SUBSET (1 .. n)
    OBVIOUS
  <2> QED
    BY <1>1, <2>1
<1>3. h[0] = base
  <2>1. 1 .. 0 = {}
    OBVIOUS
  <2>2. h[0] = f[{}] /\ {} \in SUBSET (1 .. n)
    BY <2>1
  <2> QED
    BY <1>1, <2>2 DEF IsFold, FoldStep
<1>4. ASSUME NEW i \in 1 .. n
      PROVE  h[i] = step[<<h[i - 1], items[i]>>]
  <2>1. 1 .. i \in SUBSET (1 .. n) /\ 1 .. i # {} /\ i \in 1 .. i /\ i \in Nat \ {0}
    <3> HIDE DEF h
    <3>1. i \in Nat /\ 1 <= i /\ i <= n
      OBVIOUS
    <3>2. i \in 1 .. i
      BY <3>1
    <3>3. 1 .. i \in SUBSET (1 .. n)
      BY <3>1
    <3>4. 1 .. i # {}
      BY Zenon, <3>2
    <3>5. i \in Nat \ {0}
      BY <3>1
    <3> QED
      BY Zenon, <3>2, <3>3, <3>4, <3>5
  <2>2. Max(1 .. i) = i
    BY <2>1, LastOfPrefix
  <2>3. (1 .. i) \ {i} = 1 .. i - 1
    OBVIOUS
  <2>4. f[1 .. i] = step[<<f[1 .. i - 1], items[i]>>]
    BY <1>1, <2>1, <2>2, <2>3 DEF IsFold, FoldStep
  <2>5. i - 1 \in 0 .. n /\ i \in 0 .. n
    OBVIOUS
  <2>6. h[i] = f[1 .. i] /\ h[i - 1] = f[1 .. i - 1]
    BY <2>5
  <2> HIDE DEF h
  <2> QED
    BY <2>4, <2>6
<1> HIDE DEF h
<1> QED
  BY <1>2, <1>3, <1>4 DEF IsChain

\* What holds of the shortest prefix and is kept from each to the next holds
\* of all.
LEMMA PrefixInduction ==
  ASSUME NEW n \in Nat, NEW good \in SUBSET Nat, 0 \in good,
         \A i \in 1 .. n : i - 1 \in good => i \in good
  PROVE  0 .. n \in SUBSET good
<1> DEFINE Bad == {i \in 0 .. n : i \notin good}
<1> SUFFICES ASSUME Bad # {} PROVE FALSE
  OBVIOUS
<1>1. Bad \in SUBSET Nat
  OBVIOUS
<1>2. PICK i \in Bad : \A j \in Bad : i <= j
  <2> HIDE DEF Bad
  <2> QED
    BY <1>1, LeastNatural
<1>3. i \in 1 .. n /\ i - 1 \in 0 .. n
  BY <1>2
<1>4. i - 1 \in good
  BY <1>2, <1>3
<1> QED
  BY <1>2, <1>3, <1>4

\* A solution of the recursion of a fold is, on the prefixes, the chain.
LEMMA FoldFollowsChain ==
  ASSUME NEW n \in Nat, NEW f, NEW h,
         f[{}] = h[0],
         \A i \in 1 .. n : f[(1 .. i) \ {Max(1 .. i)}] = h[i - 1] => f[1 .. i] = h[i]
  PROVE  f[1 .. n] = h[n]
<1> DEFINE good == {i \in Nat : f[1 .. i] = h[i]}
<1>1. 0 \in good
  <2>1. 1 .. 0 = {}
    OBVIOUS
  <2> QED
    BY <2>1
<1>2. ASSUME NEW i \in 1 .. n, i - 1 \in good PROVE i \in good
  <2>1. 1 .. i \in SUBSET (1 .. i) /\ i \in 1 .. i /\ i \in Nat \ {0}
    OBVIOUS
  <2>2. Max(1 .. i) = i
    BY <2>1, LastOfPrefix
  <2>3. (1 .. i) \ {i} = 1 .. i - 1
    OBVIOUS
  <2>4. f[1 .. i - 1] = h[i - 1]
    BY <1>2
  <2>5. f[1 .. i] = h[i]
    BY <2>2, <2>3, <2>4
  <2> QED
    BY <2>5
<1>3. good \in SUBSET Nat
  OBVIOUS
<1>4. 0 .. n \in SUBSET good
  <2> HIDE DEF good
  <2> QED
    BY <1>1, <1>2, <1>3, PrefixInduction
<1>5. n \in good
  <2> HIDE DEF good
  <2> QED
    BY <1>4
<1> QED
  BY <1>5


\* A set of places of a sequence that is not empty has a last one.
LEMMA LastPlace ==
  ASSUME NEW n \in Nat, NEW s \in SUBSET (1 .. n), s # {}
  PROVE  Max(s) \in s /\ Max(s) \in 1 .. n /\ s \ {Max(s)} \in SUBSET (1 .. n)
<1> DEFINE gaps == {n - x : x \in s}
<1>1. gaps \in SUBSET Nat /\ gaps # {}
  <2>1. \A x \in s : n - x \in Nat
    OBVIOUS
  <2>2. gaps \in SUBSET Nat
    BY <2>1
  <2>3. PICK x \in s : TRUE
    OBVIOUS
  <2>4. n - x \in gaps
    OBVIOUS
  <2> QED
    BY <2>2, <2>4
<1>2. PICK least \in gaps : \A m \in gaps : least <= m
  <2> HIDE DEF gaps
  <2> QED
    BY <1>1, LeastNatural
<1>3. PICK last \in s : least = n - last
  BY <1>2
<1>4. \A y \in s : last >= y
  <2> TAKE y \in s
  <2>1. n - last <= n - y
    BY <1>2, <1>3
  <2> QED
    BY <2>1
<1>5. Max(s) = CHOOSE x \in s : \A y \in s : x >= y
  BY Zenon DEF Max
<1>6. Max(s) \in s
  BY <1>4, <1>5
<1> QED
  BY <1>6

-----------------------------------------------------------------------------
\* What a replay of byte_cache.py carries from event to event.
CountsSet == [events : Nat, requests : Nat, hits : Nat, misses : Nat, loaded : Nat,
              evictions : Nat, evicted : Nat, peak : Nat]

EntriesSet == UNION {[S -> [frequency : Nat, last : Nat]] : S \in SUBSET Experts}

Caches == {c \in [entries : EntriesSet, clock : Nat] :
             \A k \in DOMAIN c.entries : c.entries[k].last <= c.clock}

Replays == [cache : Caches, counts : CountsSet]

\* The parts of a cache.
LEMMA CacheParts ==
  ASSUME NEW cache \in Caches
  PROVE  /\ KeysOf(cache) \in SUBSET Experts
         /\ cache.clock \in Nat
         /\ cache = [entries |-> cache.entries, clock |-> cache.clock]
         /\ cache.entries \in [KeysOf(cache) -> [frequency : Nat, last : Nat]]
         /\ \A k \in KeysOf(cache) :
              /\ cache.entries[k] \in [frequency : Nat, last : Nat]
              /\ cache.entries[k].last \in Nat
              /\ cache.entries[k].frequency \in Nat
              /\ cache.entries[k].last <= cache.clock
<1>1. cache \in [entries : EntriesSet, clock : Nat]
  BY DEF Caches
<1>2. PICK S \in SUBSET Experts : cache.entries \in [S -> [frequency : Nat, last : Nat]]
  BY <1>1 DEF EntriesSet
<1>3. KeysOf(cache) = S
  BY <1>2 DEF KeysOf
<1>4. \A k \in KeysOf(cache) : cache.entries[k].last <= cache.clock
  BY DEF Caches, KeysOf
<1> QED
  BY <1>1, <1>2, <1>3, <1>4

\* Entries that are put together make a cache.
LEMMA CacheOf ==
  ASSUME NEW S \in SUBSET Experts, NEW clk \in Nat,
         NEW e \in [S -> [frequency : Nat, last : Nat]],
         \A k \in S : e[k].last <= clk
  PROVE  /\ [clock |-> clk, entries |-> e] \in Caches
         /\ KeysOf([clock |-> clk, entries |-> e]) = S
<1>1. e \in EntriesSet
  BY DEF EntriesSet
<1>2. DOMAIN e = S
  OBVIOUS
<1> QED
  BY <1>1, <1>2 DEF Caches, KeysOf

\* A new cache holds nothing.
LEMMA NewCacheType == NewCache \in Caches /\ KeysOf(NewCache) = {}
<1>1. << >> \in [{} -> [frequency : Nat, last : Nat]] /\ DOMAIN << >> = {}
  OBVIOUS
<1>2. {} \in SUBSET Experts
  OBVIOUS
<1>3. << >> \in EntriesSet
  BY <1>1, <1>2 DEF EntriesSet
<1> QED
  BY <1>1, <1>3 DEF NewCache, Caches, KeysOf

\* What access_bundle leaves resident.
AccessFacts(policy, capacity, cache, required, next) ==
  /\ Victims(policy, capacity, cache, required) \in SUBSET (KeysOf(cache) \ required)
  /\ next \in Caches
  /\ next.clock = cache.clock + 1
  /\ KeysOf(next) =
       (KeysOf(cache) \ Victims(policy, capacity, cache, required)) \cup required
  /\ \A k \in required :
       /\ next.entries[k].last = cache.clock + 1
       /\ next.entries[k].frequency =
            (IF k \in KeysOf(cache) THEN cache.entries[k].frequency ELSE 0) + 1
  /\ \A k \in KeysOf(next) \ required : next.entries[k] = cache.entries[k]

LEMMA AccessParts ==
  ASSUME NEW policy, NEW capacity, NEW cache \in Caches, NEW required \in SUBSET Experts
  PROVE  AccessFacts(policy, capacity, cache, required,
                     Access(policy, capacity, cache, required))
<1> DEFINE victims == Victims(policy, capacity, cache, required)
           kept == KeysOf(cache) \ victims
           uses(k) == IF k \in kept THEN cache.entries[k].frequency ELSE 0
           e == [k \in kept \cup required |->
                   IF k \in required
                     THEN [frequency |-> uses(k) + 1, last |-> cache.clock + 1]
                     ELSE cache.entries[k]]
           next == [clock |-> cache.clock + 1, entries |-> e]
<1>1. victims \in SUBSET (KeysOf(cache) \ required)
  BY DEF Victims
<1>2. next = Access(policy, capacity, cache, required)
  BY DEF Access
<1>3. kept \cup required \in SUBSET Experts /\ kept \in SUBSET KeysOf(cache)
  BY CacheParts
<1>4. cache.clock \in Nat /\ cache.clock + 1 \in Nat
  BY CacheParts
<1>5. \A k \in required : uses(k) \in Nat
  BY <1>3, CacheParts
<1>6. \A k \in required : uses(k) = IF k \in KeysOf(cache) THEN cache.entries[k].frequency ELSE 0
  BY <1>1
<1> HIDE DEF victims, kept, uses
<1>7. ASSUME NEW k \in kept \cup required
      PROVE  /\ e[k] \in [frequency : Nat, last : Nat]
             /\ e[k].last <= cache.clock + 1
  <2>1. CASE k \in required
    BY <1>4, <1>5, <2>1
  <2>2. CASE k \notin required
    <3>1. k \in KeysOf(cache)
      BY <1>3, <1>7, <2>2
    <3>2. cache.entries[k] \in [frequency : Nat, last : Nat] /\ cache.entries[k].last <= cache.clock
          /\ cache.entries[k].last \in Nat
      BY <3>1, CacheParts
    <3> QED
      BY <1>4, <1>7, <2>2, <3>2
  <2> QED
    BY <2>1, <2>2
<1>8. e \in [kept \cup required -> [frequency : Nat, last : Nat]]
  BY <1>7
<1>9. next \in Caches /\ KeysOf(next) = kept \cup required
  <2> HIDE DEF e
  <2> QED
    BY <1>3, <1>4, <1>7, <1>8, CacheOf
<1>10. next.clock = cache.clock + 1 /\ next.entries = e
  OBVIOUS
<1>11. \A k \in required : e[k].last = cache.clock + 1 /\ e[k].frequency = uses(k) + 1
  OBVIOUS
<1>12. \A k \in (kept \cup required) \ required : e[k] = cache.entries[k]
  OBVIOUS
<1> HIDE DEF e, next
<1> QED
  BY <1>1, <1>2, <1>6, <1>9, <1>10, <1>11, <1>12 DEF kept, victims, AccessFacts

\* The greater of two numbers.
LEMMA MaxOfTwo ==
  ASSUME NEW a \in Nat, NEW b \in Nat
  PROVE  Max({a, b}) = MaxOf(a, b) /\ MaxOf(a, b) \in Nat
<1>1. Max({a, b}) = CHOOSE x \in {a, b} : \A y \in {a, b} : x >= y
  BY Zenon DEF Max
<1>2. MaxOf(a, b) \in {a, b} /\ \A y \in {a, b} : MaxOf(a, b) >= y
  BY DEF MaxOf
<1>3. \A x \in {a, b} : (\A y \in {a, b} : x >= y) => x = MaxOf(a, b)
  BY DEF MaxOf
<1>4. MaxOf(a, b) \in Nat
  BY DEF MaxOf
<1> QED
  BY <1>1, <1>2, <1>3, <1>4

\* Numbers of experts and of bytes are natural numbers.
LEMMA Amounts ==
  ASSUME NEW S \in SUBSET Experts
  PROVE  Cardinality(S) \in Nat /\ Bytes(S) \in Nat
BY CellsFinite, FS_CardinalityType

LEMMA ReplayEventType ==
  ASSUME NEW policy, NEW capacity, NEW replay \in Replays, NEW required \in SUBSET Experts
  PROVE  ReplayEvent(policy, capacity, replay, required) \in Replays
<1> DEFINE next == Access(policy, capacity, replay.cache, required)
           victims == Victims(policy, capacity, replay.cache, required)
           before == KeysOf(replay.cache)
           c == replay.counts
<1>1. replay.cache \in Caches /\ c \in CountsSet
  BY DEF Replays
<1>2. before \in SUBSET Experts /\ next \in Caches /\ victims \in SUBSET before
  <2>1. AccessFacts(policy, capacity, replay.cache, required, next)
    BY <1>1, AccessParts
  <2> QED
    BY <1>1, <2>1, CacheParts DEF AccessFacts
<1>3. KeysOf(next) \in SUBSET Experts
  BY <1>2, CacheParts
<1>4. /\ Cardinality(required) \in Nat /\ Cardinality(required \cap before) \in Nat
      /\ Cardinality(required \ before) \in Nat /\ Bytes(required \ before) \in Nat
      /\ Cardinality(victims) \in Nat /\ Bytes(victims) \in Nat /\ Bytes(KeysOf(next)) \in Nat
  <2>1. /\ required \cap before \in SUBSET Experts /\ required \ before \in SUBSET Experts
        /\ victims \in SUBSET Experts
    BY <1>2
  <2> QED
    BY <1>3, <2>1, Amounts
<1>5. Max({c.peak, Bytes(KeysOf(next))}) \in Nat
  <2>1. c.peak \in Nat
    BY <1>1 DEF CountsSet
  <2> HIDE DEF c, next
  <2> QED
    BY <1>4, <2>1, MaxOfTwo
<1>6. CASE required = {}
  <2>1. ReplayEvent(policy, capacity, replay, required) = [replay EXCEPT !.counts.events = @ + 1]
    BY <1>6 DEF ReplayEvent
  <2> QED
    BY <2>1 DEF Replays, CountsSet
<1>7. CASE required # {}
  <2> DEFINE after ==
         [events    |-> c.events + 1,
          requests  |-> c.requests + Cardinality(required),
          hits      |-> c.hits + Cardinality(required \cap before),
          misses    |-> c.misses + Cardinality(required \ before),
          loaded    |-> c.loaded + Bytes(required \ before),
          evictions |-> c.evictions + Cardinality(victims),
          evicted   |-> c.evicted + Bytes(victims),
          peak      |-> Max({c.peak, Bytes(KeysOf(next))})]
  <2>1. ReplayEvent(policy, capacity, replay, required) = [cache |-> next, counts |-> after]
    BY Zenon, <1>7 DEF ReplayEvent
  <2>2. after \in CountsSet
    <3> HIDE DEF c, next, victims, before
    <3> QED
      BY <1>1, <1>4, <1>5 DEF CountsSet
  <2> HIDE DEF after, next
  <2> QED
    BY <1>2, <2>1, <2>2 DEF Replays
<1> QED
  BY <1>6, <1>7

\* A replay over longer and longer prefixes of a trace.
ReplayChain(policy, capacity, cache, trace, h) ==
  /\ h \in [0 .. Len(trace) -> Replays]
  /\ h[0] = [cache |-> cache, counts |-> CountsFrom(cache)]
  /\ \A i \in 1 .. Len(trace) : h[i] = ReplayEvent(policy, capacity, h[i - 1], trace[i])

LEMMA ReplayStart ==
  ASSUME NEW cache \in Caches
  PROVE  [cache |-> cache, counts |-> CountsFrom(cache)] \in Replays
<1>1. Bytes(KeysOf(cache)) \in Nat
  BY CacheParts, Amounts
<1> QED
  BY <1>1 DEF Replays, CountsFrom, CountsSet

LEMMA ReplayFollowsChain ==
  ASSUME NEW policy, NEW capacity, NEW cache \in Caches, NEW trace \in Seq(SUBSET Experts)
  PROVE  \E h : /\ ReplayChain(policy, capacity, cache, trace, h)
                /\ Replay(policy, capacity, cache, trace) = h[Len(trace)]
<1> DEFINE V == Replays
           E == SUBSET Experts
           n == Len(trace)
           base == [cache |-> cache, counts |-> CountsFrom(cache)]
           step == [p \in V \X E |-> ReplayEvent(policy, capacity, p[1], p[2])]
           Rec(f, s) == IF s = {} THEN base
                        ELSE ReplayEvent(policy, capacity, f[s \ {Max(s)}], trace[Max(s)])
           F == CHOOSE f : f = [s \in SUBSET DOMAIN trace |-> Rec(f, s)]
<1>1. Replay(policy, capacity, cache, trace) = F[DOMAIN trace]
  BY Zenon DEF Replay, FoldLeft, MapThenFoldSet
<1>2. n \in Nat /\ DOMAIN trace = 1 .. n /\ trace \in [1 .. n -> E]
  BY LenProperties
<1>3. base \in V
  BY ReplayStart
<1>4. step \in [V \X E -> V]
  <2>1. \A p \in V \X E : ReplayEvent(policy, capacity, p[1], p[2]) \in V
    BY ReplayEventType
  <2> QED
    BY <2>1
<1>5. \A v \in V, e \in E : step[<<v, e>>] = ReplayEvent(policy, capacity, v, e)
  OBVIOUS
<1> HIDE DEF V, E, n, base, step
<1>6. PICK f \in [SUBSET (1 .. n) -> V] : IsFold(step, base, trace, n, f)
  BY <1>2, <1>3, <1>4, FoldIsDefined
<1>7. f = [s \in SUBSET (1 .. n) |-> Rec(f, s)]
  <2>1. ASSUME NEW s \in SUBSET (1 .. n), s # {}
        PROVE  f[s] = ReplayEvent(policy, capacity, f[s \ {Max(s)}], trace[Max(s)])
    <3>1. Max(s) \in 1 .. n /\ s \ {Max(s)} \in SUBSET (1 .. n)
      BY <1>2, <2>1, LastPlace
    <3>2. f[s \ {Max(s)}] \in V /\ trace[Max(s)] \in E
      BY <1>2, <3>1
    <3>3. f[s] = step[<<f[s \ {Max(s)}], trace[Max(s)]>>]
      BY <1>6, <2>1 DEF IsFold, FoldStep
    <3> QED
      BY <1>5, <3>2, <3>3
  <2>2. {} \in SUBSET (1 .. n) => f[{}] = base
    BY <1>6 DEF IsFold, FoldStep
  <2>3. \A s \in SUBSET (1 .. n) : f[s] = Rec(f, s)
    BY <2>1, <2>2
  <2> HIDE DEF Rec
  <2> QED
    BY <2>3
<1>8. F = [s \in SUBSET (1 .. n) |-> Rec(F, s)]
  BY Zenon, <1>2, <1>7
<1>9. PICK h \in [0 .. n -> V] : IsChain(step, base, trace, n, h)
  BY <1>2, <1>3, <1>4, ChainIsDefined
<1>10. \A i \in 1 .. n : h[i] = ReplayEvent(policy, capacity, h[i - 1], trace[i])
  <2> TAKE i \in 1 .. n
  <2>1. h[i - 1] \in V /\ trace[i] \in E
    BY <1>2, <1>9
  <2> QED
    BY <1>5, <1>9, <2>1 DEF IsChain
<1> HIDE DEF F
<1>11. F[1 .. n] = h[n]
  <2>1. F[{}] = h[0]
    <3>1. {} \in SUBSET (1 .. n)
      OBVIOUS
    <3> QED
      BY <1>8, <1>9, <3>1 DEF IsChain
  <2>2. ASSUME NEW i \in 1 .. n, F[(1 .. i) \ {Max(1 .. i)}] = h[i - 1]
        PROVE  F[1 .. i] = h[i]
    <3>1. 1 .. i \in SUBSET (1 .. n) /\ i \in 1 .. i /\ i \in Nat \ {0}
      BY <1>2
    <3>2. 1 .. i # {}
      BY Zenon, <3>1
    <3>3. Max(1 .. i) = i
      BY <3>1, LastOfPrefix
    <3>4. F[1 .. i] = ReplayEvent(policy, capacity, h[i - 1], trace[i])
      BY <1>8, <2>2, <3>1, <3>2, <3>3
    <3> QED
      BY <1>10, <3>4
  <2> QED
    BY <1>2, <2>1, <2>2, FoldFollowsChain, ZenonT(30)
<1>12. ReplayChain(policy, capacity, cache, trace, h)
  BY <1>9, <1>10 DEF IsChain, ReplayChain, V, n, base
<1> QED
  BY <1>1, <1>2, <1>11, <1>12 DEF n


(***************************************************************************)
(* The stack property of LRU, for experts of different sizes and events of *)
(* several experts: of two caches that take the same event, one of which   *)
(* holds the most recent part of what the other holds, that one still does *)
(* afterwards if it is not the larger one.                                 *)
(***************************************************************************)
Earlier(cache, j, k) ==
  \/ cache.entries[j].last < cache.entries[k].last
  \/ cache.entries[j].last = cache.entries[k].last /\ j < k

RecentPartOf(a, b) ==
  /\ KeysOf(a) \in SUBSET KeysOf(b)
  /\ \A j, k \in KeysOf(a) : Earlier(a, j, k) <=> Earlier(b, j, k)
  /\ \A j \in KeysOf(b) \ KeysOf(a), k \in KeysOf(a) : Earlier(b, j, k)

\* what would remain beside the required experts if k did
LaterThan(cache, required, k) == {j \in KeysOf(cache) \ required : ~ Earlier(cache, j, k)}

LEMMA EarlierIsTotalOrder ==
  ASSUME NEW cache \in Caches
  PROVE  /\ \A k \in KeysOf(cache) : ~ Earlier(cache, k, k)
         /\ \A j, k \in KeysOf(cache) :
              j # k => Earlier(cache, j, k) \/ Earlier(cache, k, j)
         /\ \A i, j, k \in KeysOf(cache) :
              Earlier(cache, i, j) /\ Earlier(cache, j, k) => Earlier(cache, i, k)
<1>1. \A k \in KeysOf(cache) : k \in Nat /\ cache.entries[k].last \in Nat
  BY CacheParts, ExpertsAssumption
<1> QED
  BY <1>1 DEF Earlier

LEMMA LRUVictims ==
  ASSUME NEW capacity, NEW cache \in Caches, NEW required \in SUBSET Experts,
         NEW k \in KeysOf(cache) \ required
  PROVE  k \in Victims("lru", capacity, cache, required) <=>
           Bytes(LaterThan(cache, required, k) \cup required) > capacity
<1> DEFINE pool == KeysOf(cache) \ required
           Ahead == {j \in pool : GivenUpFirst("lru", cache.entries, j, k)}
<1>1. \A j \in pool : GivenUpFirst("lru", cache.entries, j, k) <=> Earlier(cache, j, k)
  BY DEF GivenUpFirst, Older, Earlier, KeysOf
<1>2. (KeysOf(cache) \ Ahead) \cup required = LaterThan(cache, required, k) \cup required
  BY <1>1 DEF LaterThan
<1>3. k \in Victims("lru", capacity, cache, required) <=>
        Bytes((KeysOf(cache) \ Ahead) \cup required) > capacity
  BY DEF Victims
<1> QED
  BY <1>2, <1>3

\* An event puts its experts after all others, in the order of their keys.
LEMMA AccessOrder ==
  ASSUME NEW capacity, NEW cache \in Caches, NEW required \in SUBSET Experts,
         NEW next, next = Access("lru", capacity, cache, required),
         NEW j \in KeysOf(next), NEW k \in KeysOf(next)
  PROVE  Earlier(next, j, k) <=>
           IF j \in required THEN k \in required /\ j < k
                             ELSE k \in required \/ Earlier(cache, j, k)
<1>0. AccessFacts("lru", capacity, cache, required, next)
  BY AccessParts
<1>1. \A i \in required : next.entries[i].last = cache.clock + 1
  BY <1>0 DEF AccessFacts
<1>2. \A i \in KeysOf(next) \ required :
         /\ i \in KeysOf(cache)
         /\ next.entries[i] = cache.entries[i]
  BY <1>0 DEF AccessFacts
<1>3. \A i \in KeysOf(next) \ required :
         /\ next.entries[i].last = cache.entries[i].last
         /\ cache.entries[i].last \in Nat
         /\ cache.entries[i].last < cache.clock + 1
  BY <1>2, CacheParts
<1>4. cache.clock \in Nat
  BY CacheParts
<1> QED
  BY <1>1, <1>3, <1>4 DEF Earlier

LEMMA LaterTogether ==
  ASSUME NEW a \in Caches, NEW b \in Caches, RecentPartOf(a, b),
         NEW required, NEW k \in KeysOf(a) \ required
  PROVE  LaterThan(a, required, k) = LaterThan(b, required, k)
<1>1. \A j \in KeysOf(a) : j \in KeysOf(b) /\ (Earlier(a, j, k) <=> Earlier(b, j, k))
  BY DEF RecentPartOf
<1>2. \A j \in KeysOf(b) : j \notin KeysOf(a) => Earlier(b, j, k)
  BY DEF RecentPartOf
<1> QED
  BY <1>1, <1>2 DEF LaterThan

LEMMA LaterNest ==
  ASSUME NEW cache \in Caches, NEW required, NEW j \in KeysOf(cache) \ required,
         NEW k \in KeysOf(cache) \ required, ~ Earlier(cache, j, k)
  PROVE  /\ LaterThan(cache, required, j) \in SUBSET LaterThan(cache, required, k)
         /\ LaterThan(cache, required, k) \in SUBSET Experts
<1>1. ASSUME NEW i \in KeysOf(cache), ~ Earlier(cache, i, j) PROVE ~ Earlier(cache, i, k)
  BY <1>1, EarlierIsTotalOrder
<1> QED
  BY <1>1, CacheParts DEF LaterThan

LEMMA AccessKeepsRecentPart ==
  ASSUME NEW small \in Int, NEW large \in Int, small <= large,
         NEW a \in Caches, NEW b \in Caches, RecentPartOf(a, b),
         NEW required \in SUBSET Experts
  PROVE  RecentPartOf(Access("lru", small, a, required), Access("lru", large, b, required))
<1> DEFINE p == Access("lru", small, a, required)
           q == Access("lru", large, b, required)
           va == Victims("lru", small, a, required)
           vb == Victims("lru", large, b, required)
<1>1. /\ KeysOf(p) = (KeysOf(a) \ va) \cup required
      /\ KeysOf(q) = (KeysOf(b) \ vb) \cup required
      /\ va \in SUBSET (KeysOf(a) \ required)
      /\ vb \in SUBSET (KeysOf(b) \ required)
  <2>1. AccessFacts("lru", small, a, required, p)
    BY AccessParts
  <2>2. AccessFacts("lru", large, b, required, q)
    BY AccessParts
  <2> QED
    BY <2>1, <2>2 DEF AccessFacts
<1>2. KeysOf(a) \in SUBSET KeysOf(b) /\ KeysOf(b) \in SUBSET Experts
  BY CacheParts DEF RecentPartOf
<1>3. \A j, k \in KeysOf(p) :
        Earlier(p, j, k) <=>
          IF j \in required THEN k \in required /\ j < k
                            ELSE k \in required \/ Earlier(a, j, k)
  BY AccessOrder
<1>4. \A j, k \in KeysOf(q) :
        Earlier(q, j, k) <=>
          IF j \in required THEN k \in required /\ j < k
                            ELSE k \in required \/ Earlier(b, j, k)
  BY AccessOrder
<1>5. \A k \in KeysOf(a) \ required :
        k \in va <=> Bytes(LaterThan(a, required, k) \cup required) > small
  BY LRUVictims
<1>6. \A k \in KeysOf(b) \ required :
        k \in vb <=> Bytes(LaterThan(b, required, k) \cup required) > large
  BY LRUVictims
<1> HIDE DEF p, q, va, vb
<1>7. ASSUME NEW k \in KeysOf(a) \ required, k \notin va PROVE k \notin vb
  <2>1. LaterThan(a, required, k) = LaterThan(b, required, k)
    BY LaterTogether
  <2>2. LaterThan(a, required, k) \cup required \in SUBSET Experts
    BY <1>2 DEF LaterThan
  <2>3. Bytes(LaterThan(a, required, k) \cup required) \in Nat
    BY <2>2, Amounts
  <2> QED
    BY <1>2, <1>5, <1>6, <1>7, <2>1, <2>3
<1>8. KeysOf(p) \in SUBSET KeysOf(q)
  BY <1>1, <1>2, <1>7
<1>9. \A j, k \in KeysOf(p) : Earlier(p, j, k) <=> Earlier(q, j, k)
  <2> TAKE j, k \in KeysOf(p)
  <2>1. j \notin required => j \in KeysOf(a)
    BY <1>1
  <2>2. k \notin required => k \in KeysOf(a)
    BY <1>1
  <2>3. j \in KeysOf(a) /\ k \in KeysOf(a) => (Earlier(a, j, k) <=> Earlier(b, j, k))
    BY DEF RecentPartOf
  <2> QED
    BY <1>3, <1>4, <1>8, <2>1, <2>2, <2>3
<1>10. ASSUME NEW j \in KeysOf(q) \ KeysOf(p), NEW k \in KeysOf(p)
       PROVE  Earlier(q, j, k)
  <2>1. j \notin required /\ j \in KeysOf(b) /\ k \in KeysOf(q)
    BY <1>1, <1>8
  <2>2. CASE k \in required
    BY <1>4, <2>1, <2>2
  <2>3. CASE k \notin required
    <3>1. k \in KeysOf(a) \ required /\ k \notin va
      BY <1>1, <2>3
    <3>2. CASE j \notin KeysOf(a)
      <4>1. Earlier(b, j, k)
        BY <2>1, <3>1, <3>2 DEF RecentPartOf
      <4> QED
        BY <1>4, <2>1, <4>1
    <3>3. CASE j \in KeysOf(a)
      <4>1. j \in va
        BY <1>1, <2>1, <3>3
      <4>2. ASSUME ~ Earlier(a, j, k) PROVE FALSE
        <5>1. /\ LaterThan(a, required, j) \in SUBSET LaterThan(a, required, k)
              /\ LaterThan(a, required, k) \in SUBSET Experts
          BY <2>1, <3>1, <3>3, <4>2, LaterNest
        <5>2. /\ LaterThan(a, required, j) \cup required
                   \in SUBSET (LaterThan(a, required, k) \cup required)
              /\ LaterThan(a, required, j) \cup required \in SUBSET Experts
              /\ LaterThan(a, required, k) \cup required \in SUBSET Experts
          BY <5>1
        <5>3. Bytes(LaterThan(a, required, j) \cup required)
                <= Bytes(LaterThan(a, required, k) \cup required)
          BY <5>2, BytesMonotone
        <5>4. /\ Bytes(LaterThan(a, required, j) \cup required) \in Nat
              /\ Bytes(LaterThan(a, required, k) \cup required) \in Nat
          BY <5>2, Amounts
        <5>5. Bytes(LaterThan(a, required, j) \cup required) > small
          BY <1>5, <2>1, <3>3, <4>1
        <5>6. ~ (Bytes(LaterThan(a, required, k) \cup required) > small)
          BY <1>5, <3>1
        <5> QED
          BY <5>3, <5>4, <5>5, <5>6
      <4>3. Earlier(b, j, k)
        BY <3>1, <3>3, <4>2 DEF RecentPartOf
      <4> QED
        BY <1>4, <2>1, <4>3
    <3> QED
      BY <3>2, <3>3
  <2> QED
    BY <2>2, <2>3
<1>11. RecentPartOf(p, q)
  BY <1>8, <1>9, <1>10 DEF RecentPartOf
<1> QED
  BY <1>11 DEF p, q

-----------------------------------------------------------------------------
\* One replay pays at least what the other pays, for the same requests.
PaysMore(c, d) ==
  /\ c.events = d.events
  /\ c.requests = d.requests
  /\ c.requests = c.hits + c.misses
  /\ d.requests = d.hits + d.misses
  /\ c.hits <= d.hits
  /\ d.misses <= c.misses
  /\ d.loaded <= c.loaded

LEMMA EventKeepsPayingMore ==
  ASSUME NEW small \in Int, NEW large \in Int, small <= large,
         NEW r \in Replays, NEW s \in Replays, NEW required \in SUBSET Experts,
         RecentPartOf(r.cache, s.cache), PaysMore(r.counts, s.counts)
  PROVE  /\ RecentPartOf(ReplayEvent("lru", small, r, required).cache,
                         ReplayEvent("lru", large, s, required).cache)
         /\ PaysMore(ReplayEvent("lru", small, r, required).counts,
                     ReplayEvent("lru", large, s, required).counts)
<1> DEFINE p == ReplayEvent("lru", small, r, required)
           q == ReplayEvent("lru", large, s, required)
           ka == KeysOf(r.cache)
           kb == KeysOf(s.cache)
<1>1. /\ r.cache \in Caches /\ s.cache \in Caches
      /\ r.counts \in CountsSet /\ s.counts \in CountsSet
  BY DEF Replays
<1>2. CASE required = {}
  <2>1. /\ p.cache = r.cache /\ q.cache = s.cache
        /\ p.counts = [r.counts EXCEPT !.events = @ + 1]
        /\ q.counts = [s.counts EXCEPT !.events = @ + 1]
    BY <1>2 DEF ReplayEvent, Replays
  <2> HIDE DEF p, q
  <2>2. PaysMore(p.counts, q.counts)
    <3>1. /\ p.counts.events = r.counts.events + 1 /\ q.counts.events = s.counts.events + 1
          /\ p.counts.requests = r.counts.requests /\ q.counts.requests = s.counts.requests
          /\ p.counts.hits = r.counts.hits /\ q.counts.hits = s.counts.hits
          /\ p.counts.misses = r.counts.misses /\ q.counts.misses = s.counts.misses
          /\ p.counts.loaded = r.counts.loaded /\ q.counts.loaded = s.counts.loaded
      BY <1>1, <2>1 DEF CountsSet
    <3> QED
      BY <3>1 DEF PaysMore
  <2>3. RecentPartOf(p.cache, q.cache)
    BY <2>1
  <2> QED
    BY <2>2, <2>3 DEF p, q
<1>3. CASE required # {}
  <2>1. p.cache = Access("lru", small, r.cache, required)
    BY <1>3 DEF ReplayEvent
  <2>2. q.cache = Access("lru", large, s.cache, required)
    BY <1>3 DEF ReplayEvent
  <2>3. RecentPartOf(p.cache, q.cache)
    <3> HIDE DEF p, q
    <3> QED
      BY <1>1, <2>1, <2>2, AccessKeepsRecentPart
  <2>4. /\ p.counts.events = r.counts.events + 1
        /\ p.counts.requests = r.counts.requests + Cardinality(required)
        /\ p.counts.hits = r.counts.hits + Cardinality(required \cap ka)
        /\ p.counts.misses = r.counts.misses + Cardinality(required \ ka)
        /\ p.counts.loaded = r.counts.loaded + Bytes(required \ ka)
    BY <1>3 DEF ReplayEvent
  <2>5. /\ q.counts.events = s.counts.events + 1
        /\ q.counts.requests = s.counts.requests + Cardinality(required)
        /\ q.counts.hits = s.counts.hits + Cardinality(required \cap kb)
        /\ q.counts.misses = s.counts.misses + Cardinality(required \ kb)
        /\ q.counts.loaded = s.counts.loaded + Bytes(required \ kb)
    BY <1>3 DEF ReplayEvent
  <2> HIDE DEF p, q
  <2>6. /\ Cardinality(required) = Cardinality(required \cap ka) + Cardinality(required \ ka)
        /\ Cardinality(required) = Cardinality(required \cap kb) + Cardinality(required \ kb)
        /\ Cardinality(required) \in Nat
        /\ Cardinality(required \cap ka) \in Nat /\ Cardinality(required \ ka) \in Nat
        /\ Cardinality(required \cap kb) \in Nat /\ Cardinality(required \ kb) \in Nat
    BY CountSplits
  <2>7. ka \in SUBSET kb
    BY DEF RecentPartOf
  <2>8. Cardinality(required \cap ka) <= Cardinality(required \cap kb)
    <3>1. IsFiniteSet(required \cap kb)
      BY CellsFinite
    <3>2. required \cap ka \in SUBSET (required \cap kb)
      BY <2>7
    <3> HIDE DEF ka, kb
    <3> QED
      BY <3>1, <3>2, FS_Subset
  <2>9. /\ Bytes(required \ kb) <= Bytes(required \ ka)
        /\ Bytes(required \ kb) \in Nat /\ Bytes(required \ ka) \in Nat
    <3>1. required \ kb \in SUBSET (required \ ka) /\ required \ ka \in SUBSET Experts
          /\ required \ kb \in SUBSET Experts
      BY <2>7
    <3> HIDE DEF ka, kb
    <3> QED
      BY <3>1, BytesMonotone, Amounts
  <2> HIDE DEF ka, kb
  <2>10. PaysMore(p.counts, q.counts)
    <3>1. /\ r.counts.events \in Nat /\ r.counts.requests \in Nat /\ r.counts.hits \in Nat
          /\ r.counts.misses \in Nat /\ r.counts.loaded \in Nat
          /\ s.counts.events \in Nat /\ s.counts.requests \in Nat /\ s.counts.hits \in Nat
          /\ s.counts.misses \in Nat /\ s.counts.loaded \in Nat
      BY <1>1 DEF CountsSet
    <3>2. p.counts.events = q.counts.events /\ p.counts.requests = q.counts.requests
      BY <2>4, <2>5 DEF PaysMore
    <3>3. p.counts.requests = p.counts.hits + p.counts.misses
      BY <2>4, <2>6, <3>1 DEF PaysMore
    <3>4. q.counts.requests = q.counts.hits + q.counts.misses
      BY <2>5, <2>6, <3>1 DEF PaysMore
    <3>5. p.counts.hits <= q.counts.hits
      BY <2>4, <2>5, <2>6, <2>8, <3>1 DEF PaysMore
    <3>6. q.counts.misses <= p.counts.misses
      BY <2>4, <2>5, <2>6, <2>8, <3>1 DEF PaysMore
    <3>7. q.counts.loaded <= p.counts.loaded
      BY <2>4, <2>5, <2>9, <3>1 DEF PaysMore
    <3> QED
      BY <3>2, <3>3, <3>4, <3>5, <3>6, <3>7 DEF PaysMore
  <2> QED
    BY <2>3, <2>10 DEF p, q
<1> QED
  BY <1>2, <1>3

\* A new cache is the most recent part of any, and a cache of itself.
LEMMA RecentPartAtStart ==
  ASSUME NEW cache \in Caches
  PROVE  RecentPartOf(NewCache, cache) /\ RecentPartOf(cache, cache)
BY NewCacheType DEF RecentPartOf

LEMMA ReplayKeepsPayingMore ==
  ASSUME NEW small \in Int, NEW large \in Int, small <= large,
         NEW a \in Caches, NEW b \in Caches, RecentPartOf(a, b),
         NEW trace \in Seq(SUBSET Experts)
  PROVE  /\ RecentPartOf(Replay("lru", small, a, trace).cache,
                         Replay("lru", large, b, trace).cache)
         /\ PaysMore(Replay("lru", small, a, trace).counts,
                     Replay("lru", large, b, trace).counts)
<1> DEFINE n == Len(trace)
<1>1. PICK g : /\ ReplayChain("lru", small, a, trace, g)
               /\ Replay("lru", small, a, trace) = g[n]
  BY ReplayFollowsChain
<1>2. PICK h : /\ ReplayChain("lru", large, b, trace, h)
               /\ Replay("lru", large, b, trace) = h[n]
  BY ReplayFollowsChain
<1>3. n \in Nat /\ \A i \in 1 .. n : trace[i] \in SUBSET Experts
  BY LenProperties
<1>4. /\ g \in [0 .. n -> Replays] /\ h \in [0 .. n -> Replays]
      /\ g[0] = [cache |-> a, counts |-> CountsFrom(a)]
      /\ h[0] = [cache |-> b, counts |-> CountsFrom(b)]
      /\ \A i \in 1 .. n : g[i] = ReplayEvent("lru", small, g[i - 1], trace[i])
      /\ \A i \in 1 .. n : h[i] = ReplayEvent("lru", large, h[i - 1], trace[i])
  BY <1>1, <1>2 DEF ReplayChain
<1> DEFINE good == {i \in Nat : /\ RecentPartOf(g[i].cache, h[i].cache)
                                /\ PaysMore(g[i].counts, h[i].counts)}
<1> HIDE DEF n
<1>5. 0 \in good
  BY <1>4 DEF CountsFrom, PaysMore
<1>6. ASSUME NEW i \in 1 .. n, i - 1 \in good PROVE i \in good
  <2>1. g[i - 1] \in Replays /\ h[i - 1] \in Replays /\ trace[i] \in SUBSET Experts
        /\ i \in Nat
    BY <1>3, <1>4
  <2>2. /\ RecentPartOf(g[i].cache, h[i].cache)
        /\ PaysMore(g[i].counts, h[i].counts)
    BY <1>4, <1>6, <2>1, EventKeepsPayingMore
  <2> QED
    BY <2>1, <2>2
<1>7. 0 .. n \in SUBSET good
  <2>1. good \in SUBSET Nat
    OBVIOUS
  <2> HIDE DEF good
  <2> QED
    BY <1>3, <1>5, <1>6, <2>1, PrefixInduction
<1>8. n \in good
  <2> HIDE DEF good
  <2> QED
    BY <1>3, <1>7
<1> QED
  BY <1>1, <1>2, <1>8 DEF n


\* Declared workloads, and the rows a lifecycle returns for them.
DeclaredSet == [id : Nat, order : Nat, events : Seq(SUBSET Experts)]

RowSet(mode, policy, capacity) ==
  [id : Nat, order : Nat, mode : {mode}, policy : {policy}, capacity : {capacity},
   counts : CountsSet, starting : SUBSET Experts, ending : SUBSET Experts]

LifecycleStates(mode, policy, capacity) ==
  [cache : Caches, results : Seq(RowSet(mode, policy, capacity))]

StartCache(mode, cache) == IF mode = "persistent_sequence" THEN cache ELSE NewCache

NextState(mode, policy, capacity, state, workload) ==
  LET start  == StartCache(mode, state.cache)
      replay == Replay(policy, capacity, start, workload.events)
  IN  [cache   |-> replay.cache,
       results |-> Append(state.results,
                          WorkloadResult(mode, policy, capacity, workload, start, replay))]

LEMMA ReplayType ==
  ASSUME NEW policy, NEW capacity, NEW cache \in Caches, NEW trace \in Seq(SUBSET Experts)
  PROVE  /\ Replay(policy, capacity, cache, trace) \in Replays
         /\ Replay(policy, capacity, cache, trace).cache \in Caches
         /\ Replay(policy, capacity, cache, trace).counts \in CountsSet
<1>1. PICK h : /\ ReplayChain(policy, capacity, cache, trace, h)
               /\ Replay(policy, capacity, cache, trace) = h[Len(trace)]
  BY ReplayFollowsChain
<1>2. Len(trace) \in 0 .. Len(trace)
  BY LenProperties
<1>3. h[Len(trace)] \in Replays
  BY <1>1, <1>2 DEF ReplayChain
<1> QED
  BY <1>1, <1>3 DEF Replays

LEMMA StartCacheType ==
  ASSUME NEW mode, NEW cache \in Caches
  PROVE  StartCache(mode, cache) \in Caches
BY NewCacheType DEF StartCache

LEMMA RowType ==
  ASSUME NEW mode, NEW policy, NEW capacity, NEW workload \in DeclaredSet,
         NEW start \in Caches
  PROVE  WorkloadResult(mode, policy, capacity, workload, start,
                        Replay(policy, capacity, start, workload.events))
           \in RowSet(mode, policy, capacity)
<1> DEFINE replay == Replay(policy, capacity, start, workload.events)
<1>1. workload.events \in Seq(SUBSET Experts) /\ workload.id \in Nat /\ workload.order \in Nat
  BY DEF DeclaredSet
<1>2. replay.cache \in Caches /\ replay.counts \in CountsSet
  BY <1>1, ReplayType
<1>3. KeysOf(replay.cache) \in SUBSET Experts /\ KeysOf(start) \in SUBSET Experts
  BY <1>2, CacheParts
<1> HIDE DEF replay
<1> QED
  BY <1>1, <1>2, <1>3 DEF WorkloadResult, RowSet, replay

LEMMA NextStateType ==
  ASSUME NEW mode, NEW policy, NEW capacity,
         NEW state \in LifecycleStates(mode, policy, capacity), NEW workload \in DeclaredSet
  PROVE  NextState(mode, policy, capacity, state, workload)
           \in LifecycleStates(mode, policy, capacity)
<1> DEFINE start == StartCache(mode, state.cache)
           replay == Replay(policy, capacity, start, workload.events)
           row == WorkloadResult(mode, policy, capacity, workload, start, replay)
<1>1. state.cache \in Caches /\ state.results \in Seq(RowSet(mode, policy, capacity))
  BY DEF LifecycleStates
<1>2. start \in Caches
  BY <1>1, StartCacheType
<1>3. workload.events \in Seq(SUBSET Experts)
  BY DEF DeclaredSet
<1>4. replay.cache \in Caches
  BY <1>2, <1>3, ReplayType
<1>5. row \in RowSet(mode, policy, capacity)
  BY <1>2, RowType
<1>6. NextState(mode, policy, capacity, state, workload) =
        [cache |-> replay.cache, results |-> Append(state.results, row)]
  BY DEF NextState
<1> HIDE DEF start, replay, row
<1>7. Append(state.results, row) \in Seq(RowSet(mode, policy, capacity))
  BY <1>1, <1>5, AppendProperties
<1> QED
  BY <1>4, <1>6, <1>7 DEF LifecycleStates

LifecycleStart == [cache |-> NewCache, results |-> << >>]

LifecycleChain(suite, mode, policy, capacity, h) ==
  /\ h \in [0 .. Len(suite) -> LifecycleStates(mode, policy, capacity)]
  /\ h[0] = LifecycleStart
  /\ \A i \in 1 .. Len(suite) :
       h[i] = NextState(mode, policy, capacity, h[i - 1], suite[i])

\* What simulate_byte_cache_workloads makes of its last state.
SimulationOf(mode, policy, capacity, state) ==
  [mode |-> mode, policy |-> policy, capacity |-> capacity,
   workloads |-> state.results, counts |-> AggregateOf(state.results),
   sharedFinal |-> IF mode = "persistent_sequence" THEN {KeysOf(state.cache)} ELSE {}]

\* Its last state.
LifecycleOf(mode, policy, capacity, suite) ==
  FoldLeft(LAMBDA state, workload : NextState(mode, policy, capacity, state, workload),
           LifecycleStart, suite)

LEMMA SimulationIsLifecycle ==
  ASSUME NEW mode, NEW policy, NEW capacity, NEW suite
  PROVE  SimulateWorkloads(suite, capacity, policy, mode) =
           SimulationOf(mode, policy, capacity, LifecycleOf(mode, policy, capacity, suite))
BY Zenon DEF SimulateWorkloads, LifecycleOf, FoldLeft, MapThenFoldSet, SimulationOf,
             NextState, StartCache, LifecycleStart

LEMMA LifecycleFollowsChain ==
  ASSUME NEW mode, NEW policy, NEW capacity, NEW suite \in Seq(DeclaredSet)
  PROVE  \E h : /\ LifecycleChain(suite, mode, policy, capacity, h)
                /\ LifecycleOf(mode, policy, capacity, suite) = h[Len(suite)]
<1> DEFINE V == LifecycleStates(mode, policy, capacity)
           E == DeclaredSet
           n == Len(suite)
           base == LifecycleStart
           step == [p \in V \X E |-> NextState(mode, policy, capacity, p[1], p[2])]
           Rec(f, s) == IF s = {} THEN base
                        ELSE NextState(mode, policy, capacity, f[s \ {Max(s)}], suite[Max(s)])
           F == CHOOSE f : f = [s \in SUBSET DOMAIN suite |-> Rec(f, s)]
<1>1. LifecycleOf(mode, policy, capacity, suite) = F[DOMAIN suite]
  BY Zenon DEF LifecycleOf, FoldLeft, MapThenFoldSet
<1>2. n \in Nat /\ DOMAIN suite = 1 .. n /\ suite \in [1 .. n -> E]
  BY LenProperties
<1>3. base \in V
  <2>1. << >> \in Seq(RowSet(mode, policy, capacity))
    BY EmptySeq
  <2> QED
    BY <2>1, NewCacheType DEF LifecycleStart, LifecycleStates
<1>4. step \in [V \X E -> V]
  <2>1. \A p \in V \X E : NextState(mode, policy, capacity, p[1], p[2]) \in V
    BY NextStateType
  <2> QED
    BY <2>1
<1>5. \A v \in V, e \in E : step[<<v, e>>] = NextState(mode, policy, capacity, v, e)
  OBVIOUS
<1> HIDE DEF V, E, n, base, step
<1>6. PICK f \in [SUBSET (1 .. n) -> V] : IsFold(step, base, suite, n, f)
  BY <1>2, <1>3, <1>4, FoldIsDefined
<1>7. f = [s \in SUBSET (1 .. n) |-> Rec(f, s)]
  <2>1. ASSUME NEW s \in SUBSET (1 .. n), s # {}
        PROVE  f[s] = NextState(mode, policy, capacity, f[s \ {Max(s)}], suite[Max(s)])
    <3>1. Max(s) \in 1 .. n /\ s \ {Max(s)} \in SUBSET (1 .. n)
      BY <1>2, <2>1, LastPlace
    <3>2. f[s \ {Max(s)}] \in V /\ suite[Max(s)] \in E
      BY <1>2, <3>1
    <3>3. f[s] = step[<<f[s \ {Max(s)}], suite[Max(s)]>>]
      BY <1>6, <2>1 DEF IsFold, FoldStep
    <3> QED
      BY <1>5, <3>2, <3>3
  <2>2. {} \in SUBSET (1 .. n) => f[{}] = base
    BY <1>6 DEF IsFold, FoldStep
  <2>3. \A s \in SUBSET (1 .. n) : f[s] = Rec(f, s)
    BY <2>1, <2>2
  <2> HIDE DEF Rec
  <2> QED
    BY <2>3
<1>8. F = [s \in SUBSET (1 .. n) |-> Rec(F, s)]
  BY Zenon, <1>2, <1>7
<1>9. PICK h \in [0 .. n -> V] : IsChain(step, base, suite, n, h)
  BY <1>2, <1>3, <1>4, ChainIsDefined
<1>10. \A i \in 1 .. n : h[i] = NextState(mode, policy, capacity, h[i - 1], suite[i])
  <2> TAKE i \in 1 .. n
  <2>1. h[i - 1] \in V /\ suite[i] \in E
    BY <1>2, <1>9
  <2> QED
    BY <1>5, <1>9, <2>1 DEF IsChain
<1> HIDE DEF F
<1>11. F[1 .. n] = h[n]
  <2>1. F[{}] = h[0]
    <3>1. {} \in SUBSET (1 .. n)
      OBVIOUS
    <3> QED
      BY <1>8, <1>9, <3>1 DEF IsChain
  <2>2. ASSUME NEW i \in 1 .. n, F[(1 .. i) \ {Max(1 .. i)}] = h[i - 1]
        PROVE  F[1 .. i] = h[i]
    <3>1. 1 .. i \in SUBSET (1 .. n) /\ i \in 1 .. i /\ i \in Nat \ {0}
      BY <1>2
    <3>2. 1 .. i # {}
      BY Zenon, <3>1
    <3>3. Max(1 .. i) = i
      BY <3>1, LastOfPrefix
    <3>4. F[1 .. i] = NextState(mode, policy, capacity, h[i - 1], suite[i])
      BY <1>8, <2>2, <3>1, <3>2, <3>3
    <3> QED
      BY <1>10, <3>4
  <2> QED
    BY <1>2, <2>1, <2>2, FoldFollowsChain, ZenonT(30)
<1>12. LifecycleChain(suite, mode, policy, capacity, h)
  BY <1>9, <1>10 DEF IsChain, LifecycleChain, V, n, base
<1> QED
  BY <1>1, <1>2, <1>11, <1>12 DEF n

\* The caches between the workloads of a lifecycle, and its rows.
RowFor(suite, mode, policy, capacity, caches, i) ==
  WorkloadResult(mode, policy, capacity, suite[i], StartCache(mode, caches[i - 1]),
                 Replay(policy, capacity, StartCache(mode, caches[i - 1]), suite[i].events))

LifecycleFacts(suite, mode, policy, capacity, caches, rows) ==
  /\ caches \in [0 .. Len(suite) -> Caches]
  /\ caches[0] = NewCache
  /\ \A i \in 1 .. Len(suite) :
       caches[i] = Replay(policy, capacity, StartCache(mode, caches[i - 1]),
                          suite[i].events).cache
  /\ rows \in Seq(RowSet(mode, policy, capacity))
  /\ Len(rows) = Len(suite)
  /\ \A i \in 1 .. Len(suite) : rows[i] = RowFor(suite, mode, policy, capacity, caches, i)

LEMMA ChainFacts ==
  ASSUME NEW mode, NEW policy, NEW capacity, NEW suite \in Seq(DeclaredSet), NEW h,
         LifecycleChain(suite, mode, policy, capacity, h)
  PROVE  LifecycleFacts(suite, mode, policy, capacity,
                        [i \in 0 .. Len(suite) |-> h[i].cache], h[Len(suite)].results)
<1> DEFINE n == Len(suite)
           caches == [i \in 0 .. n |-> h[i].cache]
           Row(i) == RowFor(suite, mode, policy, capacity, caches, i)
           good == {i \in Nat : /\ Len(h[i].results) = i
                                /\ \A j \in 1 .. i : h[i].results[j] = Row(j)}
<1>1. /\ n \in Nat
      /\ h \in [0 .. n -> LifecycleStates(mode, policy, capacity)]
      /\ h[0] = LifecycleStart
      /\ \A i \in 1 .. n : h[i] = NextState(mode, policy, capacity, h[i - 1], suite[i])
  BY LenProperties DEF LifecycleChain
<1> HIDE DEF n
<1>2. ASSUME NEW i \in 1 .. n
      PROVE  /\ i - 1 \in 0 .. n /\ i \in 0 .. n
             /\ caches[i - 1] = h[i - 1].cache
             /\ h[i].cache = Replay(policy, capacity, StartCache(mode, caches[i - 1]),
                                    suite[i].events).cache
             /\ h[i].results = Append(h[i - 1].results, Row(i))
  <2>1. i - 1 \in 0 .. n /\ i \in 0 .. n
    BY <1>1
  <2>2. caches[i - 1] = h[i - 1].cache
    BY <2>1
  <2>3. h[i] = NextState(mode, policy, capacity, h[i - 1], suite[i])
    BY <1>1
  <2> HIDE DEF caches
  <2>4. h[i].results = Append(h[i - 1].results, Row(i))
    BY <2>2, <2>3 DEF NextState, RowFor
  <2>5. h[i].cache = Replay(policy, capacity, StartCache(mode, caches[i - 1]),
                            suite[i].events).cache
    BY <2>2, <2>3 DEF NextState
  <2> QED
    BY <2>1, <2>2, <2>4, <2>5
<1>3. \A i \in 0 .. n : /\ h[i].cache \in Caches
                        /\ h[i].results \in Seq(RowSet(mode, policy, capacity))
  BY <1>1 DEF LifecycleStates
<1>4. caches \in [0 .. n -> Caches]
  BY <1>3
<1>5. caches[0] = NewCache /\ h[0].results = << >>
  <2>1. 0 \in 0 .. n
    BY <1>1
  <2> QED
    BY <1>1, <2>1 DEF LifecycleStart
<1>6. \A i \in 1 .. n :
        caches[i] = Replay(policy, capacity, StartCache(mode, caches[i - 1]),
                           suite[i].events).cache
  <2> TAKE i \in 1 .. n
  <2>1. caches[i] = h[i].cache
    BY <1>2
  <2> HIDE DEF caches
  <2> QED
    BY <1>2, <2>1
<1> HIDE DEF caches, Row
<1>7. 0 \in good
  BY <1>5
<1>8. ASSUME NEW i \in 1 .. n, i - 1 \in good PROVE i \in good
  <2> DEFINE old == h[i - 1].results
  <2>1. old \in Seq(RowSet(mode, policy, capacity)) /\ Len(old) = i - 1
        /\ \A j \in 1 .. i - 1 : old[j] = Row(j)
    BY <1>2, <1>3, <1>8
  <2>2. h[i].results = Append(old, Row(i)) /\ i \in Nat
    BY <1>2
  <2>3. h[i].results \in Seq(RowSet(mode, policy, capacity))
    BY <1>2, <1>3
  <2> HIDE DEF old
  <2>4. Len(Append(old, Row(i))) = i
    BY <2>1, <2>2
  <2>5. ASSUME NEW j \in 1 .. i PROVE Append(old, Row(i))[j] = Row(j)
    <3>1. CASE j = i
      BY <2>1, <2>2, <3>1
    <3>2. CASE j # i
      <4>1. j \in 1 .. i - 1
        BY <2>2, <3>2
      <4>2. Append(old, Row(i))[j] = old[j]
        BY <2>1, <4>1
      <4> QED
        BY <2>1, <4>1, <4>2
    <3> QED
      BY <3>1, <3>2
  <2> QED
    BY <2>2, <2>4, <2>5
<1>9. 0 .. n \in SUBSET good
  <2>1. good \in SUBSET Nat
    OBVIOUS
  <2> HIDE DEF good
  <2> QED
    BY <1>1, <1>7, <1>8, <2>1, PrefixInduction
<1>10. n \in good /\ n \in 0 .. n
  <2> HIDE DEF good
  <2> QED
    BY <1>1, <1>9
<1>11. /\ h[n].results \in Seq(RowSet(mode, policy, capacity))
       /\ Len(h[n].results) = n
       /\ \A i \in 1 .. n : h[n].results[i] = Row(i)
  BY <1>3, <1>10
<1> QED
  BY <1>4, <1>5, <1>6, <1>11 DEF LifecycleFacts, Row, caches, n

\* The simulation of one cell: its rows, its sums over them, and its last cache.
IsCell(suite, mode, policy, capacity, row, caches) ==
  /\ row.mode = mode /\ row.policy = policy /\ row.capacity = capacity
  /\ LifecycleFacts(suite, mode, policy, capacity, caches, row.workloads)
  /\ row.counts = AggregateOf(row.workloads)
  /\ row.sharedFinal = IF mode = "persistent_sequence" THEN {KeysOf(caches[Len(suite)])} ELSE {}

LEMMA SimulatedCell ==
  ASSUME NEW mode, NEW policy, NEW capacity, NEW suite \in Seq(DeclaredSet)
  PROVE  \E caches : IsCell(suite, mode, policy, capacity,
                            SimulateWorkloads(suite, capacity, policy, mode), caches)
<1>1. PICK h : /\ LifecycleChain(suite, mode, policy, capacity, h)
               /\ LifecycleOf(mode, policy, capacity, suite) = h[Len(suite)]
  BY LifecycleFollowsChain
<1> DEFINE row == SimulateWorkloads(suite, capacity, policy, mode)
           end == h[Len(suite)]
           caches == [i \in 0 .. Len(suite) |-> h[i].cache]
<1>2. LifecycleFacts(suite, mode, policy, capacity, caches, end.results)
  BY <1>1, ChainFacts
<1>3. Len(suite) \in 0 .. Len(suite)
  BY LenProperties
<1>4. caches[Len(suite)] = end.cache
  BY <1>3
<1>5. row = SimulationOf(mode, policy, capacity, end)
  BY <1>1, SimulationIsLifecycle
<1> HIDE DEF row, end, caches
<1>6. /\ row.mode = mode /\ row.policy = policy /\ row.capacity = capacity
      /\ row.workloads = end.results /\ row.counts = AggregateOf(end.results)
      /\ row.sharedFinal = IF mode = "persistent_sequence" THEN {KeysOf(end.cache)} ELSE {}
  BY <1>5 DEF SimulationOf
<1>7. IsCell(suite, mode, policy, capacity, row, caches)
  BY <1>2, <1>4, <1>6 DEF IsCell
<1> QED
  BY <1>7 DEF row


(***************************************************************************)
(* Sums.  A sum of n integers is the last of its partial sums.             *)
(***************************************************************************)
IsSum(amount, n, total) ==
  \E h \in [0 .. n -> Int] :
    /\ h[0] = 0
    /\ \A i \in 1 .. n : h[i] = h[i - 1] + amount[i]
    /\ total = h[n]

LEMMA SumType ==
  ASSUME NEW n \in Nat, NEW a, NEW s, IsSum(a, n, s)
  PROVE  s \in Int
<1>1. PICK h \in [0 .. n -> Int] : s = h[n]
  BY DEF IsSum
<1> QED
  BY <1>1

LEMMA SumMonotone ==
  ASSUME NEW n \in Nat, NEW a \in [1 .. n -> Int], NEW b \in [1 .. n -> Int],
         NEW s, NEW t, IsSum(a, n, s), IsSum(b, n, t),
         \A i \in 1 .. n : a[i] <= b[i]
  PROVE  s <= t
<1>1. PICK g \in [0 .. n -> Int] :
         g[0] = 0 /\ (\A i \in 1 .. n : g[i] = g[i - 1] + a[i]) /\ s = g[n]
  BY DEF IsSum
<1>2. PICK h \in [0 .. n -> Int] :
         h[0] = 0 /\ (\A i \in 1 .. n : h[i] = h[i - 1] + b[i]) /\ t = h[n]
  BY DEF IsSum
<1> DEFINE good == {i \in Nat : g[i] <= h[i]}
<1>3. 0 \in good
  BY <1>1, <1>2
<1>4. ASSUME NEW i \in 1 .. n, i - 1 \in good PROVE i \in good
  <2>1. /\ g[i] = g[i - 1] + a[i] /\ h[i] = h[i - 1] + b[i]
        /\ a[i] <= b[i] /\ g[i - 1] <= h[i - 1]
    BY <1>1, <1>2, <1>4
  <2>2. a[i] \in Int /\ b[i] \in Int /\ i - 1 \in 0 .. n /\ i \in Nat
    OBVIOUS
  <2>3. g[i - 1] \in Int /\ h[i - 1] \in Int
    BY <2>2
  <2>4. g[i] <= h[i]
    BY <2>1, <2>2, <2>3
  <2> QED
    BY <2>2, <2>4
<1>5. 0 .. n \in SUBSET good
  <2>1. good \in SUBSET Nat
    OBVIOUS
  <2> HIDE DEF good
  <2> QED
    BY <1>3, <1>4, <2>1, PrefixInduction
<1>6. n \in good
  <2> HIDE DEF good
  <2> QED
    BY <1>5
<1> QED
  BY <1>1, <1>2, <1>6

LEMMA SumUnique ==
  ASSUME NEW n \in Nat, NEW a \in [1 .. n -> Int], NEW s, NEW t,
         IsSum(a, n, s), IsSum(a, n, t)
  PROVE  s = t
<1>1. \A i \in 1 .. n : a[i] <= a[i]
  OBVIOUS
<1>2. s <= t /\ t <= s
  BY <1>1, SumMonotone
<1>3. s \in Int /\ t \in Int
  BY SumType
<1> QED
  BY <1>2, <1>3

\* A sum of no negative numbers is not negative.
LEMMA SumNatural ==
  ASSUME NEW n \in Nat, NEW a \in [1 .. n -> Nat], NEW s, IsSum(a, n, s)
  PROVE  s \in Nat
<1> DEFINE zero == [i \in 1 .. n |-> 0]
           h == [i \in 0 .. n |-> 0]
<1>1. IsSum(zero, n, 0)
  <2>1. h \in [0 .. n -> Int] /\ h[0] = 0 /\ h[n] = 0
    OBVIOUS
  <2>2. \A i \in 1 .. n : h[i] = h[i - 1] + zero[i]
    OBVIOUS
  <2> HIDE DEF h, zero
  <2> QED
    BY <2>1, <2>2 DEF IsSum
<1>2. zero \in [1 .. n -> Int] /\ a \in [1 .. n -> Int] /\ \A i \in 1 .. n : zero[i] <= a[i]
  OBVIOUS
<1>3. 0 <= s
  <2> HIDE DEF zero
  <2> QED
    BY <1>1, <1>2, SumMonotone
<1>4. s \in Int
  BY SumType
<1> QED
  BY <1>3, <1>4

LEMMA LinearStep ==
  ASSUME NEW x \in Int, NEW y \in Int, NEW p \in Int, NEW q \in Int,
         NEW u \in Int, NEW v \in Int
  PROVE  x * (p + u) + y * (q + v) = (x * p + y * q) + (x * u + y * v)
  OBVIOUS

\* A sum of sums, both factors the same for all terms.
LEMMA SumLinear ==
  ASSUME NEW n \in Nat, NEW a \in [1 .. n -> Int], NEW b \in [1 .. n -> Int],
         NEW s, NEW t, IsSum(a, n, s), IsSum(b, n, t), NEW x \in Int, NEW y \in Int,
         NEW c, \A i \in 1 .. n : c[i] = x * a[i] + y * b[i]
  PROVE  IsSum(c, n, x * s + y * t)
<1>1. PICK g \in [0 .. n -> Int] :
         g[0] = 0 /\ (\A i \in 1 .. n : g[i] = g[i - 1] + a[i]) /\ s = g[n]
  BY DEF IsSum
<1>2. PICK h \in [0 .. n -> Int] :
         h[0] = 0 /\ (\A i \in 1 .. n : h[i] = h[i - 1] + b[i]) /\ t = h[n]
  BY DEF IsSum
<1> DEFINE f == [i \in 0 .. n |-> x * g[i] + y * h[i]]
<1>3. f \in [0 .. n -> Int]
  OBVIOUS
<1>4. f[0] = 0
  <2>1. f[0] = x * 0 + y * 0
    BY <1>1, <1>2
  <2> QED
    BY <2>1
<1>5. f[n] = x * s + y * t
  BY <1>1, <1>2
<1>6. ASSUME NEW i \in 1 .. n PROVE f[i] = f[i - 1] + c[i]
  <2>1. i - 1 \in 0 .. n /\ i \in 0 .. n
    OBVIOUS
  <2>2. f[i] = x * g[i] + y * h[i] /\ f[i - 1] = x * g[i - 1] + y * h[i - 1]
    BY <2>1
  <2>3. /\ g[i] = g[i - 1] + a[i] /\ h[i] = h[i - 1] + b[i]
        /\ c[i] = x * a[i] + y * b[i]
    BY <1>1, <1>2
  <2>4. g[i - 1] \in Int /\ h[i - 1] \in Int /\ a[i] \in Int /\ b[i] \in Int
    BY <2>1
  <2> HIDE DEF f
  <2> DEFINE p == g[i - 1]
             q == h[i - 1]
             u == a[i]
             v == b[i]
  <2>5. p \in Int /\ q \in Int /\ u \in Int /\ v \in Int
    BY <2>4
  <2>6. f[i] = x * (p + u) + y * (q + v) /\ f[i - 1] = x * p + y * q /\ c[i] = x * u + y * v
    BY <2>2, <2>3
  <2> HIDE DEF p, q, u, v
  <2>7. x * (p + u) + y * (q + v) = (x * p + y * q) + (x * u + y * v)
    BY <2>5, LinearStep
  <2> QED
    BY Zenon, <2>6, <2>7
<1> HIDE DEF f
<1> QED
  BY <1>3, <1>4, <1>5, <1>6 DEF IsSum

\* One more term.
LEMMA SumOfOneMore ==
  ASSUME NEW n \in Nat, NEW a, NEW s, IsSum(a, n, s),
         NEW b, \A i \in 1 .. n : b[i] = a[i], b[n + 1] \in Int
  PROVE  IsSum(b, n + 1, s + b[n + 1])
<1>1. PICK g \in [0 .. n -> Int] :
         g[0] = 0 /\ (\A i \in 1 .. n : g[i] = g[i - 1] + a[i]) /\ s = g[n]
  BY DEF IsSum
<1> DEFINE f == [i \in 0 .. n + 1 |-> IF i = n + 1 THEN s + b[n + 1] ELSE g[i]]
<1>2. \A i \in 0 .. n : f[i] = g[i] /\ g[i] \in Int
  OBVIOUS
<1>3. f[n + 1] = s + b[n + 1]
  OBVIOUS
<1>4. s \in Int
  BY <1>1
<1>5. f \in [0 .. n + 1 -> Int]
  BY <1>4
<1> HIDE DEF f
<1>6. f[0] = 0
  BY <1>1, <1>2
<1>7. ASSUME NEW i \in 1 .. n + 1 PROVE f[i] = f[i - 1] + b[i]
  <2>1. CASE i = n + 1
    <3>1. f[i - 1] = g[n]
      BY <1>2, <2>1
    <3> QED
      BY <1>1, <1>3, <2>1, <3>1
  <2>2. CASE i # n + 1
    <3>1. i \in 1 .. n /\ i \in 0 .. n /\ i - 1 \in 0 .. n
      BY <2>2
    <3>2. f[i] = g[i] /\ f[i - 1] = g[i - 1] /\ g[i] = g[i - 1] + a[i] /\ b[i] = a[i]
      BY <1>1, <1>2, <3>1
    <3> QED
      BY <3>2
  <2> QED
    BY <2>1, <2>2
<1> QED
  BY <1>3, <1>5, <1>6, <1>7 DEF IsSum

LEMMA SumOfNone ==
  ASSUME NEW a
  PROVE  IsSum(a, 0, 0)
<1> DEFINE h == [i \in 0 .. 0 |-> 0]
<1>1. h \in [0 .. 0 -> Int] /\ h[0] = 0 /\ \A i \in 1 .. 0 : h[i] = h[i - 1] + a[i]
  OBVIOUS
<1> HIDE DEF h
<1> QED
  BY <1>1 DEF IsSum

-----------------------------------------------------------------------------
\* The recursion behind the sums of the code.
IsSumFold(amount, n, f) ==
  f = [s \in SUBSET (1 .. n) |-> IF s = {} THEN 0 ELSE f[s \ {Max(s)}] + amount[Max(s)]]

LEMMA SumFoldIsDefined ==
  ASSUME NEW n \in Nat, NEW amount \in [1 .. n -> Int]
  PROVE  \E f : IsSumFold(amount, n, f)
<1> DEFINE step == [p \in Int \X Int |-> p[1] + p[2]]
<1>1. step \in [Int \X Int -> Int] /\ \A x, y \in Int : step[<<x, y>>] = x + y
  OBVIOUS
<1> HIDE DEF step
<1>2. 0 \in Int
  OBVIOUS
<1>3. PICK f \in [SUBSET (1 .. n) -> Int] : IsFold(step, 0, amount, n, f)
  BY <1>1, <1>2, FoldIsDefined
<1>4. ASSUME NEW s \in SUBSET (1 .. n), s # {}
      PROVE  f[s] = f[s \ {Max(s)}] + amount[Max(s)]
  <2>1. Max(s) \in 1 .. n /\ s \ {Max(s)} \in SUBSET (1 .. n)
    BY <1>4, LastPlace
  <2>2. f[s \ {Max(s)}] \in Int /\ amount[Max(s)] \in Int
    BY <2>1
  <2>3. f[s] = step[<<f[s \ {Max(s)}], amount[Max(s)]>>]
    BY <1>3, <1>4 DEF IsFold, FoldStep
  <2> QED
    BY <1>1, <2>2, <2>3
<1>5. {} \in SUBSET (1 .. n) => f[{}] = 0
  BY <1>3 DEF IsFold, FoldStep
<1>6. \A s \in SUBSET (1 .. n) :
         f[s] = IF s = {} THEN 0 ELSE f[s \ {Max(s)}] + amount[Max(s)]
  BY <1>4, <1>5
<1>7. f = [s \in SUBSET (1 .. n) |-> IF s = {} THEN 0 ELSE f[s \ {Max(s)}] + amount[Max(s)]]
  BY <1>6
<1> QED
  BY <1>7 DEF IsSumFold

LEMMA SumFoldIsSum ==
  ASSUME NEW n \in Nat, NEW amount \in [1 .. n -> Int], NEW f, IsSumFold(amount, n, f)
  PROVE  IsSum(amount, n, f[1 .. n])
<1> DEFINE h == [i \in 0 .. n |-> f[1 .. i]]
<1>1. \A s \in SUBSET (1 .. n) :
         f[s] = IF s = {} THEN 0 ELSE f[s \ {Max(s)}] + amount[Max(s)]
  BY DEF IsSumFold
<1>2. h[0] = 0
  <2>1. 1 .. 0 = {} /\ {} \in SUBSET (1 .. n)
    OBVIOUS
  <2>2. f[1 .. 0] = 0
    BY <1>1, <2>1
  <2> QED
    BY <2>2
<1>3. ASSUME NEW i \in 1 .. n PROVE h[i] = h[i - 1] + amount[i]
  <2>1. i - 1 \in 0 .. n /\ i \in 0 .. n /\ i \in Nat \ {0} /\ i \in 1 .. i
    OBVIOUS
  <2>2. h[i] = f[1 .. i] /\ h[i - 1] = f[1 .. i - 1]
    BY <2>1
  <2> HIDE DEF h
  <2>3. 1 .. i # {}
    BY Zenon, <2>1
  <2>4. 1 .. i \in SUBSET (1 .. n) /\ (1 .. i) \ {i} = 1 .. i - 1
    BY <2>1
  <2>5. Max(1 .. i) = i
    BY <2>1, LastOfPrefix
  <2> QED
    BY <1>1, <2>2, <2>3, <2>4, <2>5
<1>4. h \in [0 .. n -> Int]
  <2> DEFINE good == {i \in Nat : h[i] \in Int}
  <2>1. 0 \in good
    BY <1>2
  <2>2. ASSUME NEW i \in 1 .. n, i - 1 \in good PROVE i \in good
    <3> HIDE DEF h
    <3>1. h[i - 1] \in Int
      BY <2>2
    <3>2. amount[i] \in Int /\ i \in Nat
      OBVIOUS
    <3>3. h[i] = h[i - 1] + amount[i]
      BY <1>3
    <3> QED
      BY <3>1, <3>2, <3>3
  <2>3. 0 .. n \in SUBSET good
    <3>1. good \in SUBSET Nat
      OBVIOUS
    <3> HIDE DEF good
    <3> QED
      BY <2>1, <2>2, <3>1, PrefixInduction
  <2>4. \A i \in 0 .. n : h[i] \in Int
    <3> HIDE DEF h
    <3> QED
      BY <2>3
  <2> HIDE DEF good
  <2> QED
    BY <2>4
<1>5. h[n] = f[1 .. n]
  OBVIOUS
<1> HIDE DEF h
<1> QED
  BY <1>2, <1>3, <1>4, <1>5 DEF IsSum

\* The sums that the code takes: over the counts of rows,
LEMMA SumOfIsSum ==
  ASSUME NEW n \in Nat, NEW rows, DOMAIN rows = 1 .. n, NEW field,
         \A i \in 1 .. n : rows[i].counts[field] \in Int
  PROVE  IsSum([i \in 1 .. n |-> rows[i].counts[field]], n, SumOf(rows, field))
<1> DEFINE amount == [i \in 1 .. n |-> rows[i].counts[field]]
           Rec(f, s) == IF s = {} THEN 0 ELSE f[s \ {Max(s)}] + rows[Max(s)].counts[field]
           F == CHOOSE f : f = [s \in SUBSET DOMAIN rows |-> Rec(f, s)]
<1>1. SumOf(rows, field) = F[DOMAIN rows]
  BY Zenon DEF SumOf, FoldLeft, MapThenFoldSet
<1>2. amount \in [1 .. n -> Int]
  OBVIOUS
<1>3. ASSUME NEW s \in SUBSET (1 .. n), s # {}
      PROVE  amount[Max(s)] = rows[Max(s)].counts[field]
  <2>1. Max(s) \in 1 .. n
    BY <1>3, LastPlace
  <2> QED
    BY <2>1
<1> HIDE DEF amount
<1>4. PICK f : IsSumFold(amount, n, f)
  BY <1>2, SumFoldIsDefined
<1>5. f = [s \in SUBSET (1 .. n) |-> Rec(f, s)]
  <2>1. \A s \in SUBSET (1 .. n) :
          Rec(f, s) = IF s = {} THEN 0 ELSE f[s \ {Max(s)}] + amount[Max(s)]
    BY <1>3
  <2> HIDE DEF Rec
  <2> QED
    BY <1>4, <2>1 DEF IsSumFold
<1>6. F = [s \in SUBSET (1 .. n) |-> Rec(F, s)]
  BY Zenon, <1>5
<1> HIDE DEF F
<1>7. IsSumFold(amount, n, F)
  <2>1. \A s \in SUBSET (1 .. n) :
          Rec(F, s) = IF s = {} THEN 0 ELSE F[s \ {Max(s)}] + amount[Max(s)]
    BY <1>3
  <2> HIDE DEF Rec
  <2>2. F = [s \in SUBSET (1 .. n) |->
               IF s = {} THEN 0 ELSE F[s \ {Max(s)}] + amount[Max(s)]]
    BY <1>6, <2>1
  <2> QED
    BY <2>2 DEF IsSumFold
<1>8. IsSum(amount, n, F[1 .. n])
  BY <1>2, <1>7, SumFoldIsSum
<1> QED
  BY <1>1, <1>8 DEF amount


\* The sum of two sums.
LEMMA SumOfSums ==
  ASSUME NEW n \in Nat, NEW a \in [1 .. n -> Int], NEW b \in [1 .. n -> Int],
         NEW c \in [1 .. n -> Int], NEW s, NEW t, NEW u,
         IsSum(a, n, s), IsSum(b, n, t), IsSum(c, n, u),
         \A i \in 1 .. n : c[i] = a[i] + b[i]
  PROVE  u = s + t
<1>1. \A i \in 1 .. n : c[i] = 1 * a[i] + 1 * b[i]
  OBVIOUS
<1>2. IsSum(c, n, 1 * s + 1 * t)
  <2>1. 1 \in Int
    OBVIOUS
  <2> QED
    BY <1>1, <2>1, SumLinear
<1>3. u = 1 * s + 1 * t
  BY <1>2, SumUnique
<1>4. s \in Int /\ t \in Int
  BY SumType
<1> QED
  BY <1>3, <1>4

\* Sums of the same terms.
LEMMA SumsAgree ==
  ASSUME NEW n \in Nat, NEW a \in [1 .. n -> Int], NEW b \in [1 .. n -> Int],
         NEW s, NEW t, IsSum(a, n, s), IsSum(b, n, t), \A i \in 1 .. n : a[i] = b[i]
  PROVE  s = t
<1>1. a = b
  OBVIOUS
<1> QED
  BY <1>1, SumUnique

\* The counters that an aggregate adds up.
AddedFields == {"events", "requests", "hits", "misses", "loaded", "evictions", "evicted"}

Amount(rows, field) == [i \in 1 .. Len(rows) |-> rows[i].counts[field]]

\* What an aggregate holds.
AddsUp(rows, field) ==
  /\ Amount(rows, field) \in [1 .. Len(rows) -> Nat]
  /\ AggregateOf(rows)[field] = SumOf(rows, field)
  /\ IsSum(Amount(rows, field), Len(rows), AggregateOf(rows)[field])
  /\ AggregateOf(rows)[field] \in Nat

LEMMA CountsField ==
  ASSUME NEW c \in CountsSet, NEW field \in AddedFields
  PROVE  c[field] \in Nat
BY DEF CountsSet, AddedFields

LEMMA AggregateAddsUp ==
  ASSUME NEW mode, NEW policy, NEW capacity, NEW rows \in Seq(RowSet(mode, policy, capacity)),
         NEW field \in AddedFields
  PROVE  AddsUp(rows, field)
<1> DEFINE n == Len(rows)
<1>1. n \in Nat /\ DOMAIN rows = 1 .. n
  BY LenProperties
<1>2. \A i \in 1 .. n : rows[i].counts \in CountsSet
  <2> TAKE i \in 1 .. n
  <2>1. rows[i] \in RowSet(mode, policy, capacity)
    BY <1>1
  <2> QED
    BY <2>1 DEF RowSet
<1>3. \A i \in 1 .. n : rows[i].counts[field] \in Nat
  BY <1>2, CountsField
<1>4. \A i \in 1 .. n : rows[i].counts[field] \in Int
  BY <1>3
<1> HIDE DEF n
<1>5. IsSum([i \in 1 .. n |-> rows[i].counts[field]], n, SumOf(rows, field))
  BY <1>1, <1>4, SumOfIsSum
<1>6. Amount(rows, field) = [i \in 1 .. n |-> rows[i].counts[field]]
  BY DEF Amount, n
<1>7. Amount(rows, field) \in [1 .. n -> Nat]
  BY <1>3, <1>6
<1>8. field \in DOMAIN CountsFrom(NewCache) /\ field # "peak"
  BY DEF AddedFields, CountsFrom
<1>9. AggregateOf(rows)[field] = SumOf(rows, field)
  BY <1>8 DEF AggregateOf
<1>10. SumOf(rows, field) \in Nat
  BY <1>1, <1>5, <1>6, <1>7, SumNatural
<1> QED
  BY <1>5, <1>6, <1>7, <1>9, <1>10 DEF AddsUp, n

-----------------------------------------------------------------------------
(***************************************************************************)
(* Of two LRU lifecycles of the same workloads, the one that starts cold   *)
(* or has less room pays at least as much for every workload.              *)
(***************************************************************************)
LEMMA RowsPayMore ==
  ASSUME NEW suite \in Seq(DeclaredSet), NEW m1, NEW m2,
         NEW small \in Int, NEW large \in Int, small <= large,
         m1 = m2 \/ m1 # "persistent_sequence",
         NEW ca, NEW ra, LifecycleFacts(suite, m1, "lru", small, ca, ra),
         NEW cb, NEW rb, LifecycleFacts(suite, m2, "lru", large, cb, rb)
  PROVE  \A i \in 1 .. Len(suite) : PaysMore(ra[i].counts, rb[i].counts)
<1> DEFINE n == Len(suite)
           sa(i) == StartCache(m1, ca[i - 1])
           sb(i) == StartCache(m2, cb[i - 1])
           good == {i \in Nat : RecentPartOf(ca[i], cb[i])}
<1>1. n \in Nat /\ DOMAIN suite = 1 .. n /\ \A i \in 1 .. n : suite[i] \in DeclaredSet
  BY LenProperties
<1>2. /\ ca \in [0 .. n -> Caches] /\ cb \in [0 .. n -> Caches]
      /\ ca[0] = NewCache /\ cb[0] = NewCache
  BY DEF LifecycleFacts
<1>3. ASSUME NEW i \in 1 .. n
      PROVE  /\ ca[i] = Replay("lru", small, sa(i), suite[i].events).cache
             /\ cb[i] = Replay("lru", large, sb(i), suite[i].events).cache
             /\ ra[i].counts = Replay("lru", small, sa(i), suite[i].events).counts
             /\ rb[i].counts = Replay("lru", large, sb(i), suite[i].events).counts
  <2>1. /\ ca[i] = Replay("lru", small, sa(i), suite[i].events).cache
        /\ cb[i] = Replay("lru", large, sb(i), suite[i].events).cache
    BY DEF LifecycleFacts
  <2>2. ra[i] = RowFor(suite, m1, "lru", small, ca, i) /\ rb[i] = RowFor(suite, m2, "lru", large, cb, i)
    BY DEF LifecycleFacts
  <2>3. /\ ra[i].counts = Replay("lru", small, sa(i), suite[i].events).counts
        /\ rb[i].counts = Replay("lru", large, sb(i), suite[i].events).counts
    BY <2>2 DEF RowFor, WorkloadResult
  <2> QED
    BY <2>1, <2>3
<1> HIDE DEF n
<1>4. ASSUME NEW i \in 1 .. n, i - 1 \in good
      PROVE  /\ i \in good
             /\ PaysMore(ra[i].counts, rb[i].counts)
  <2>1. i - 1 \in 0 .. n /\ i \in Nat
    BY <1>1
  <2>2. ca[i - 1] \in Caches /\ cb[i - 1] \in Caches /\ RecentPartOf(ca[i - 1], cb[i - 1])
    BY <1>2, <1>4, <2>1
  <2>3. sa(i) \in Caches /\ sb(i) \in Caches
    BY <2>2, StartCacheType
  <2>4. RecentPartOf(sa(i), sb(i))
    <3>1. CASE m1 = "persistent_sequence"
      BY <2>2, <3>1 DEF StartCache
    <3>2. CASE m1 # "persistent_sequence"
      <4>1. sa(i) = NewCache
        BY <3>2 DEF StartCache
      <4> HIDE DEF sa, sb
      <4> QED
        BY <2>3, <4>1, RecentPartAtStart
    <3> QED
      BY <3>1, <3>2
  <2>5. suite[i].events \in Seq(SUBSET Experts)
    BY <1>1 DEF DeclaredSet
  <2> HIDE DEF sa, sb
  <2>6. /\ RecentPartOf(Replay("lru", small, sa(i), suite[i].events).cache,
                        Replay("lru", large, sb(i), suite[i].events).cache)
        /\ PaysMore(Replay("lru", small, sa(i), suite[i].events).counts,
                    Replay("lru", large, sb(i), suite[i].events).counts)
    BY <2>3, <2>4, <2>5, ReplayKeepsPayingMore
  <2> QED
    BY <1>3, <2>1, <2>6
<1>5. 0 \in good
  BY <1>2, NewCacheType, RecentPartAtStart
<1>6. 0 .. n \in SUBSET good
  <2>1. good \in SUBSET Nat
    OBVIOUS
  <2> HIDE DEF good
  <2> QED
    BY <1>1, <1>4, <1>5, <2>1, PrefixInduction
<1> HIDE DEF good
<1>7. \A i \in 1 .. n : i - 1 \in good
  BY <1>1, <1>6
<1> QED
  BY <1>4, <1>7 DEF n

\* So it does over all of them.
LEMMA TotalsPayMore ==
  ASSUME NEW m1, NEW m2, NEW c1, NEW c2,
         NEW ra \in Seq(RowSet(m1, "lru", c1)), NEW rb \in Seq(RowSet(m2, "lru", c2)),
         Len(ra) = Len(rb), \A i \in 1 .. Len(ra) : PaysMore(ra[i].counts, rb[i].counts)
  PROVE  /\ PaysMore(AggregateOf(ra), AggregateOf(rb))
         /\ \A field \in AddedFields :
              AggregateOf(ra)[field] \in Nat /\ AggregateOf(rb)[field] \in Nat
<1> DEFINE n == Len(ra)
           A(field) == Amount(ra, field)
           B(field) == Amount(rb, field)
           x == AggregateOf(ra)
           y == AggregateOf(rb)
<1>1. n \in Nat
  BY LenProperties
<1>2. ASSUME NEW field \in AddedFields
      PROVE  /\ A(field) \in [1 .. n -> Nat] /\ B(field) \in [1 .. n -> Nat]
             /\ A(field) \in [1 .. n -> Int] /\ B(field) \in [1 .. n -> Int]
             /\ IsSum(A(field), n, x[field]) /\ IsSum(B(field), n, y[field])
             /\ x[field] \in Nat /\ y[field] \in Nat
  <2>1. AddsUp(ra, field) /\ AddsUp(rb, field)
    BY AggregateAddsUp
  <2>2. A(field) \in [1 .. n -> Nat] /\ B(field) \in [1 .. n -> Nat]
    BY <2>1 DEF AddsUp
  <2>3. A(field) \in [1 .. n -> Int] /\ B(field) \in [1 .. n -> Int]
    <3> HIDE DEF A, B, n
    <3> QED
      BY <2>2
  <2> QED
    BY <2>1, <2>2, <2>3 DEF AddsUp
<1>3. ASSUME NEW i \in 1 .. n, NEW field \in AddedFields
      PROVE  A(field)[i] = ra[i].counts[field] /\ B(field)[i] = rb[i].counts[field]
  BY DEF Amount
<1>4. "events" \in AddedFields /\ "requests" \in AddedFields /\ "hits" \in AddedFields
      /\ "misses" \in AddedFields /\ "loaded" \in AddedFields
  BY DEF AddedFields
<1>5. ASSUME NEW i \in 1 .. n
      PROVE  /\ A("events")[i] = B("events")[i]
             /\ A("requests")[i] = B("requests")[i]
             /\ A("requests")[i] = A("hits")[i] + A("misses")[i]
             /\ B("requests")[i] = B("hits")[i] + B("misses")[i]
             /\ A("hits")[i] <= B("hits")[i]
             /\ B("misses")[i] <= A("misses")[i]
             /\ B("loaded")[i] <= A("loaded")[i]
  <2>1. PaysMore(ra[i].counts, rb[i].counts)
    OBVIOUS
  <2> HIDE DEF A, B
  <2> QED
    BY <1>3, <1>4, <2>1 DEF PaysMore
<1> HIDE DEF n, A, B, x, y
<1>6. x["events"] = y["events"] /\ x["requests"] = y["requests"]
  <2>1. \A i \in 1 .. n : A("events")[i] = B("events")[i]
    BY <1>5
  <2>2. \A i \in 1 .. n : A("requests")[i] = B("requests")[i]
    BY <1>5
  <2>3. x["events"] = y["events"]
    BY <1>1, <1>2, <1>4, <2>1, SumsAgree, ZenonT(30)
  <2>4. x["requests"] = y["requests"]
    BY <1>1, <1>2, <1>4, <2>2, SumsAgree, ZenonT(30)
  <2> QED
    BY <2>3, <2>4
<1>7. x["requests"] = x["hits"] + x["misses"]
  <2>1. \A i \in 1 .. n : A("requests")[i] = A("hits")[i] + A("misses")[i]
    BY <1>5
  <2>2. /\ A("requests") \in [1 .. n -> Int] /\ A("hits") \in [1 .. n -> Int]
        /\ A("misses") \in [1 .. n -> Int]
        /\ IsSum(A("requests"), n, x["requests"]) /\ IsSum(A("hits"), n, x["hits"])
        /\ IsSum(A("misses"), n, x["misses"])
    BY <1>2, <1>4
  <2> QED
    BY <1>1, <2>1, <2>2, SumOfSums, ZenonT(30)
<1>8. y["requests"] = y["hits"] + y["misses"]
  <2>1. \A i \in 1 .. n : B("requests")[i] = B("hits")[i] + B("misses")[i]
    BY <1>5
  <2>2. /\ B("requests") \in [1 .. n -> Int] /\ B("hits") \in [1 .. n -> Int]
        /\ B("misses") \in [1 .. n -> Int]
        /\ IsSum(B("requests"), n, y["requests"]) /\ IsSum(B("hits"), n, y["hits"])
        /\ IsSum(B("misses"), n, y["misses"])
    BY <1>2, <1>4
  <2> QED
    BY <1>1, <2>1, <2>2, SumOfSums
<1>9. x["hits"] <= y["hits"]
  BY <1>1, <1>2, <1>4, <1>5, SumMonotone
<1>10. y["misses"] <= x["misses"]
  BY <1>1, <1>2, <1>4, <1>5, SumMonotone
<1>11. y["loaded"] <= x["loaded"]
  BY <1>1, <1>2, <1>4, <1>5, SumMonotone
<1>12. PaysMore(x, y)
  BY <1>6, <1>7, <1>8, <1>9, <1>10, <1>11 DEF PaysMore
<1> QED
  BY <1>2, <1>12 DEF x, y


\* An event that is recorded joins the last workload.
LEMMA RecordType ==
  ASSUME NEW E, declared \in Seq(Seq(E)), NEW required \in E, RecordEvent(required)
  PROVE  declared' \in Seq(Seq(E))
<1> DEFINE n == Len(declared)
           next == [declared EXCEPT ![n] = Append(@, required)]
<1>1. n \in Nat /\ DOMAIN declared = 1 .. n
      /\ \A i \in 1 .. n : declared[i] \in Seq(E)
  BY LenProperties
<1>2. DOMAIN next = 1 .. n
  BY <1>1
<1>3. \A i \in 1 .. n : next[i] \in Seq(E)
  <2> TAKE i \in 1 .. n
  <2>1. CASE i = n
    <3>1. next[i] = Append(declared[n], required)
      BY <1>1, <2>1
    <3>2. declared[n] \in Seq(E)
      BY <1>1, <2>1
    <3>3. Append(declared[n], required) \in Seq(E)
      BY <3>2, AppendProperties, SMTT(30)
    <3> QED
      BY <3>1, <3>3
  <2>2. CASE i # n
    BY <1>1, <2>2
  <2> QED
    BY <2>1, <2>2
<1>4. next = [i \in 1 .. n |-> next[i]]
  BY <1>2
<1> HIDE DEF n, next
<1>5. next \in [1 .. n -> Seq(E)]
  BY <1>3, <1>4
<1>6. next \in Seq(Seq(E))
  BY <1>1, <1>5, SeqDef
<1>7. declared' = next
  BY DEF RecordEvent, next, n
<1> QED
  BY <1>6, <1>7

DeclaredTypeOK == declared \in Seq(Seq(SUBSET Experts))

\* Every event that is replayed fits the capacity.
EventsThatFit == {required \in SUBSET Experts : Bytes(required) <= Capacity}

DeclaredFits == declared \in Seq(Seq(EventsThatFit))

DeclaredInv == DeclaredTypeOK /\ DeclaredFits

LEMMA DeclaredStep ==
  ASSUME NEW E, declared \in Seq(Seq(E)), {} \in E,
         \A required \in SUBSET Experts : StartAccess(required) => required \in E,
         [GridNext]_gridVars
  PROVE  declared' \in Seq(Seq(E))
<1>1. CASE declared' = declared
  BY <1>1
<1>2. CASE declared' = Append(declared, << >>)
  <2>1. << >> \in Seq(E)
    BY EmptySeq
  <2> QED
    BY <1>2, <2>1, AppendProperties
<1>3. CASE RecordEvent({})
  BY <1>3, RecordType
<1>4. CASE \E required \in SUBSET Experts : StartAccess(required) /\ RecordEvent(required)
  <2>1. PICK required \in E : RecordEvent(required)
    BY <1>4
  <2> QED
    BY <2>1, RecordType
<1> QED
  BY <1>1, <1>2, <1>3, <1>4 DEF GridNext, gridVars

(***************************************************************************)
(* The declared workloads are sequences of events, each a set of experts   *)
(* that fit the capacity together (_validate_required_by_event).           *)
(***************************************************************************)
THEOREM DeclaredEventsFit == GridSpec => []DeclaredInv
<1>1. GridInit => DeclaredInv
  BY EmptySeq DEF GridInit, DeclaredInv, DeclaredTypeOK, DeclaredFits
<1>2. DeclaredInv /\ [GridNext]_gridVars => DeclaredInv'
  <2> SUFFICES ASSUME DeclaredInv, [GridNext]_gridVars PROVE DeclaredInv'
    OBVIOUS
  <2>1. {} \in EventsThatFit /\ {} \in SUBSET Experts
    BY BytesOfNone, CapacityAssumption DEF EventsThatFit
  <2>2. \A required \in SUBSET Experts : StartAccess(required) => required \in EventsThatFit
    BY DEF StartAccess, EventsThatFit
  <2>3. DeclaredTypeOK'
    BY <2>1, DeclaredStep DEF DeclaredInv, DeclaredTypeOK
  <2>4. DeclaredFits'
    <3>1. declared \in Seq(Seq(EventsThatFit))
      BY DEF DeclaredInv, DeclaredFits
    <3>2. declared' \in Seq(Seq(EventsThatFit))
      BY <2>1, <2>2, <3>1, DeclaredStep
    <3>3. EventsThatFit' = EventsThatFit
      BY DEF EventsThatFit
    <3> QED
      BY <3>2, <3>3 DEF DeclaredFits
  <2> QED
    BY <2>3, <2>4 DEF DeclaredInv
<1> QED
  BY <1>1, <1>2, PTL DEF GridSpec

\* The declared workloads as the analyses take them.
LEMMA WorkloadsType ==
  ASSUME DeclaredTypeOK
  PROVE  /\ Workloads \in Seq(DeclaredSet)
         /\ Len(Workloads) = Len(declared)
         /\ DOMAIN Workloads = 1 .. Len(declared)
         /\ Len(declared) \in Nat /\ DOMAIN declared = 1 .. Len(declared)
         /\ \A i \in 1 .. Len(declared) :
              /\ Workloads[i] = [id |-> i, order |-> i, events |-> declared[i]]
              /\ declared[i] \in Seq(SUBSET Experts)
<1> DEFINE n == Len(declared)
<1>1. n \in Nat /\ DOMAIN declared = 1 .. n
      /\ \A i \in 1 .. n : declared[i] \in Seq(SUBSET Experts)
  BY LenProperties DEF DeclaredTypeOK
<1>2. Workloads = [i \in 1 .. n |-> [id |-> i, order |-> i, events |-> declared[i]]]
  BY <1>1 DEF Workloads
<1> HIDE DEF n
<1>3. \A i \in 1 .. n : [id |-> i, order |-> i, events |-> declared[i]] \in DeclaredSet
  BY <1>1 DEF DeclaredSet
<1>4. Workloads \in [1 .. n -> DeclaredSet]
  BY <1>2, <1>3
<1>5. Workloads \in Seq(DeclaredSet)
  BY <1>1, <1>4, SeqDef
<1>6. DOMAIN Workloads = 1 .. n
  BY <1>2
<1>7. Len(Workloads) = n
  BY <1>1, <1>5, <1>6, LenProperties
<1>8. \A i \in 1 .. n : Workloads[i] = [id |-> i, order |-> i, events |-> declared[i]]
  BY <1>2
<1> QED
  BY <1>1, <1>5, <1>6, <1>7, <1>8 DEF n

-----------------------------------------------------------------------------
LEMMA CellsPayMore ==
  ASSUME NEW suite \in Seq(DeclaredSet), NEW m1, NEW m2,
         NEW small \in Int, NEW large \in Int, small <= large,
         m1 = m2 \/ m1 # "persistent_sequence"
  PROVE  LET a == SimulateWorkloads(suite, small, "lru", m1)
             b == SimulateWorkloads(suite, large, "lru", m2)
         IN  /\ PaysMore(a.counts, b.counts)
             /\ \A field \in AddedFields :
                  a.counts[field] \in Nat /\ b.counts[field] \in Nat
<1> DEFINE a == SimulateWorkloads(suite, small, "lru", m1)
           b == SimulateWorkloads(suite, large, "lru", m2)
<1>1. PICK ca : IsCell(suite, m1, "lru", small, a, ca)
  BY SimulatedCell
<1>2. PICK cb : IsCell(suite, m2, "lru", large, b, cb)
  BY SimulatedCell
<1> HIDE DEF a, b
<1>3. /\ LifecycleFacts(suite, m1, "lru", small, ca, a.workloads)
      /\ a.counts = AggregateOf(a.workloads)
  BY <1>1 DEF IsCell
<1>4. /\ LifecycleFacts(suite, m2, "lru", large, cb, b.workloads)
      /\ b.counts = AggregateOf(b.workloads)
  BY <1>2 DEF IsCell
<1>5. \A i \in 1 .. Len(suite) : PaysMore(a.workloads[i].counts, b.workloads[i].counts)
  BY <1>3, <1>4, RowsPayMore
<1>6. /\ a.workloads \in Seq(RowSet(m1, "lru", small)) /\ Len(a.workloads) = Len(suite)
      /\ b.workloads \in Seq(RowSet(m2, "lru", large)) /\ Len(b.workloads) = Len(suite)
  BY <1>3, <1>4 DEF LifecycleFacts
<1>7. /\ PaysMore(AggregateOf(a.workloads), AggregateOf(b.workloads))
      /\ \A field \in AddedFields :
           /\ AggregateOf(a.workloads)[field] \in Nat
           /\ AggregateOf(b.workloads)[field] \in Nat
  BY <1>5, <1>6, TotalsPayMore
<1> QED
  BY <1>3, <1>4, <1>7 DEF a, b

-----------------------------------------------------------------------------
LEMMA TimesMonotone ==
  ASSUME NEW x \in Int, NEW y \in Int, NEW k \in Nat, x <= y
  PROVE  x * k <= y * k /\ k * x <= k * y
OBVIOUS

LEMMA TimesNatural ==
  ASSUME NEW x \in Nat, NEW y \in Nat
  PROVE  x * y \in Nat
OBVIOUS

\* What is loaded less costs no more.
LEMMA ServiceMonotone ==
  ASSUME NEW la \in Nat, NEW lb \in Nat, lb <= la, NEW ba \in Nat, NEW bb \in Nat, bb <= ba,
         NEW profile, NEW plan, IsProfile(profile), IsPlan(plan)
  PROVE  AtMost(TransferAccounting(lb, bb, profile, plan).service,
                TransferAccounting(la, ba, profile, plan).service)
<1> DEFINE w == profile.bandwidth
           ops == plan.operations
           lat == profile.setup
           ns == NsPerSecond
           na == ba * ns + (la * ops * lat) * w
           nb == bb * ns + (lb * ops * lat) * w
<1>1. w \in Nat /\ ops \in Nat /\ lat \in Nat /\ ns \in Nat
  BY NsAssumption DEF IsProfile, IsPlan
<1>2. /\ TransferAccounting(lb, bb, profile, plan).service = <<nb, w * ns>>
      /\ TransferAccounting(la, ba, profile, plan).service = <<na, w * ns>>
  BY DEF TransferAccounting, Plus
<1> HIDE DEF w, ops, lat, ns
<1>3. bb * ns \in Nat /\ ba * ns \in Nat /\ bb * ns <= ba * ns
  BY <1>1, TimesMonotone, TimesNatural
<1>4. lb * ops \in Nat /\ la * ops \in Nat /\ lb * ops <= la * ops
  BY <1>1, TimesMonotone, TimesNatural
<1>5. /\ lb * ops * lat \in Nat /\ la * ops * lat \in Nat
      /\ lb * ops * lat <= la * ops * lat
  BY <1>1, <1>4, TimesMonotone, TimesNatural
<1>6. /\ (lb * ops * lat) * w \in Nat /\ (la * ops * lat) * w \in Nat
      /\ (lb * ops * lat) * w <= (la * ops * lat) * w
  BY <1>1, <1>5, TimesMonotone, TimesNatural
<1>7. na \in Nat /\ nb \in Nat /\ nb <= na
  BY <1>3, <1>6
<1>8. w * ns \in Nat
  BY <1>1, TimesNatural
<1> HIDE DEF na, nb
<1>9. nb * (w * ns) <= na * (w * ns)
  BY <1>7, <1>8, TimesMonotone
<1> QED
  BY <1>2, <1>9 DEF AtMost

-----------------------------------------------------------------------------
\* The capacities of the configuration, and the rows of its grid.
LEMMA FeasibleParts ==
  /\ Feasible.capacities \in SUBSET (Nat \ {0})
  /\ Feasible.policies = Config.policies
  /\ Feasible.profiles = Config.profiles /\ Feasible.plans = Config.plans
  /\ \A profile \in Config.profiles : IsProfile(profile)
  /\ \A plan \in Config.plans : IsPlan(plan)
BY ConfigAssumption DEF Feasible, IsConfig, HasValidFields

\* What the row of a cell says it is.
LEMMA SimulationLabels ==
  ASSUME NEW suite, NEW capacity, NEW policy, NEW mode
  PROVE  LET row == SimulateWorkloads(suite, capacity, policy, mode)
         IN  row.mode = mode /\ row.policy = policy /\ row.capacity = capacity
BY Zenon DEF SimulateWorkloads

LEMMA GridRow ==
  ASSUME NEW suite, NEW config, NEW row \in LifecycleGridOf(suite, config)
  PROVE  \E capacity \in config.capacities, policy \in config.policies,
            mode \in ToSet(CacheLifecycleModes) :
           /\ row = SimulateWorkloads(suite, capacity, policy, mode)
           /\ row.mode = mode /\ row.policy = policy /\ row.capacity = capacity
<1>1. PICK capacity \in config.capacities, policy \in config.policies,
           mode \in ToSet(CacheLifecycleModes) :
           row = SimulateWorkloads(suite, capacity, policy, mode)
  BY DEF LifecycleGridOf
<1>2. row.mode = mode /\ row.policy = policy /\ row.capacity = capacity
  BY <1>1, SimulationLabels
<1> QED
  BY <1>1, <1>2

LEMMA LRURowsPayMore ==
  ASSUME DeclaredTypeOK,
         NEW a \in LifecycleGridOf(Workloads, Feasible),
         NEW b \in LifecycleGridOf(Workloads, Feasible),
         a.policy = "lru", b.policy = "lru", a.capacity <= b.capacity,
         a.mode = b.mode \/ a.mode # "persistent_sequence"
  PROVE  /\ PaysMore(a.counts, b.counts)
         /\ \A field \in AddedFields : a.counts[field] \in Nat /\ b.counts[field] \in Nat
<1>1. PICK ca \in Feasible.capacities, pa \in Feasible.policies,
           ma \in ToSet(CacheLifecycleModes) :
           /\ a = SimulateWorkloads(Workloads, ca, pa, ma)
           /\ a.mode = ma /\ a.policy = pa /\ a.capacity = ca
  BY GridRow
<1>2. PICK cb \in Feasible.capacities, pb \in Feasible.policies,
           mb \in ToSet(CacheLifecycleModes) :
           /\ b = SimulateWorkloads(Workloads, cb, pb, mb)
           /\ b.mode = mb /\ b.policy = pb /\ b.capacity = cb
  BY GridRow
<1>3. ca \in Int /\ cb \in Int /\ ca <= cb /\ Workloads \in Seq(DeclaredSet)
  BY <1>1, <1>2, FeasibleParts, WorkloadsType
<1>4. /\ a = SimulateWorkloads(Workloads, ca, "lru", ma)
      /\ b = SimulateWorkloads(Workloads, cb, "lru", mb)
      /\ ma = mb \/ ma # "persistent_sequence"
  BY <1>1, <1>2
<1> QED
  BY <1>3, <1>4, CellsPayMore

LEMMA DifferencesCancel ==
  ASSUME NEW a \in Nat, NEW b \in Nat, NEW c \in Nat, NEW d \in Nat, a + b = c + d
  PROVE  (c - a) + (d - b) = 0
OBVIOUS

\* A comparison of LRU rows of adjacent capacities.
LEMMA AdjacentLRUPair ==
  ASSUME DeclaredTypeOK,
         NEW pair \in AdjacentComparisons(LifecycleGridOf(Workloads, Feasible)),
         pair.policy = "lru"
  PROVE  /\ pair.deltas.hits >= 0
         /\ pair.deltas.hits + pair.deltas.misses = 0
         /\ pair.deltas.loaded <= 0
         /\ \A rate \in pair.deltas.hitRate : AtMost(<<0, 1>>, rate)
<1> DEFINE rows == LifecycleGridOf(Workloads, Feasible)
<1>1. PICK a \in rows, b \in rows :
        /\ a.mode = b.mode /\ a.policy = b.policy
        /\ AreAdjacent(a.capacity, b.capacity, CapacitiesOf(rows))
        /\ pair = AdjacentComparison(a, b)
  <2>1. PICK p \in rows \X rows :
          /\ p[1].mode = p[2].mode /\ p[1].policy = p[2].policy
          /\ AreAdjacent(p[1].capacity, p[2].capacity, CapacitiesOf(rows))
          /\ pair = AdjacentComparison(p[1], p[2])
    BY DEF AdjacentComparisons
  <2>2. p[1] \in rows /\ p[2] \in rows
    BY <2>1
  <2> HIDE DEF rows
  <2> QED
    BY <2>1, <2>2
<1>2. pair.policy = a.policy /\ pair.deltas = Deltas(a, b)
  BY <1>1 DEF AdjacentComparison
<1>3. a.capacity \in Int /\ b.capacity \in Int
  BY GridRow, FeasibleParts
<1>4. a.capacity <= b.capacity
  BY <1>1, <1>3 DEF AreAdjacent
<1>5. /\ PaysMore(a.counts, b.counts)
      /\ \A field \in AddedFields : a.counts[field] \in Nat /\ b.counts[field] \in Nat
  BY <1>1, <1>2, <1>4, LRURowsPayMore
<1> DEFINE c == a.counts
           d == b.counts
<1>6. /\ c.hits \in Nat /\ c.misses \in Nat /\ c.requests \in Nat /\ c.loaded \in Nat
      /\ d.hits \in Nat /\ d.misses \in Nat /\ d.requests \in Nat /\ d.loaded \in Nat
  BY <1>5 DEF AddedFields
<1>7. /\ pair.deltas.hits = d.hits - c.hits
      /\ pair.deltas.misses = d.misses - c.misses
      /\ pair.deltas.loaded = d.loaded - c.loaded
      /\ pair.deltas.hitRate = HitRateDelta(a, b)
  BY <1>2 DEF Deltas
<1>8. /\ c.requests = d.requests /\ c.requests = c.hits + c.misses
      /\ d.requests = d.hits + d.misses /\ c.hits <= d.hits /\ d.loaded <= c.loaded
  BY <1>5 DEF PaysMore
<1>9. ASSUME NEW rate \in HitRateDelta(a, b) PROVE AtMost(<<0, 1>>, rate)
  <2>1. rate = Minus(<<d.hits, d.requests>>, <<c.hits, c.requests>>)
    BY <1>9 DEF HitRateDelta, Undefined
  <2>2. rate[1] = d.hits * c.requests - c.hits * d.requests
    BY <2>1 DEF Minus
  <2>3. rate[2] = d.requests * c.requests
    BY <2>1 DEF Minus
  <2> HIDE DEF c, d
  <2>4. c.hits * d.requests <= d.hits * c.requests
    BY <1>6, <1>8, TimesMonotone
  <2>5. /\ c.hits * d.requests \in Nat /\ d.hits * c.requests \in Nat
        /\ d.requests * c.requests \in Nat
    BY <1>6, TimesNatural
  <2>6. rate[1] \in Int /\ 0 <= rate[1] /\ rate[2] \in Nat
    BY <2>2, <2>3, <2>4, <2>5
  <2> QED
    BY <2>6 DEF AtMost
<1> HIDE DEF c, d
<1>10. pair.deltas.hits >= 0
  BY <1>6, <1>7, <1>8
<1>11. pair.deltas.hits + pair.deltas.misses = 0
  <2>1. c.hits + c.misses = d.hits + d.misses
    BY <1>8
  <2>2. (d.hits - c.hits) + (d.misses - c.misses) = 0
    BY <1>6, <2>1, DifferencesCancel
  <2> QED
    BY Zenon, <1>7, <2>2
<1>12. pair.deltas.loaded <= 0
  BY <1>6, <1>7, <1>8
<1>13. \A rate \in pair.deltas.hitRate : AtMost(<<0, 1>>, rate)
  BY <1>7, <1>9
<1> QED
  BY <1>10, <1>11, <1>12, <1>13

\* Two estimates of LRU rows.
LEMMA LRUEstimatePair ==
  ASSUME DeclaredTypeOK,
         NEW a \in LifecycleEstimates(LifecycleGridOf(Workloads, Feasible),
                                      Feasible.profiles, Feasible.plans),
         NEW b \in LifecycleEstimates(LifecycleGridOf(Workloads, Feasible),
                                      Feasible.profiles, Feasible.plans),
         a.policy = "lru", b.policy = "lru", a.profile = b.profile, a.plan = b.plan,
         \/ a.capacity < b.capacity /\ a.mode = b.mode
         \/ /\ a.capacity = b.capacity
            /\ a.mode = "cold_per_workload" /\ b.mode = "persistent_sequence"
  PROVE  AtMost(b.estimate.service, a.estimate.service)
<1> DEFINE rows == LifecycleGridOf(Workloads, Feasible)
<1>1. PICK r \in rows, fa \in Feasible.profiles, pa \in Feasible.plans :
        a = LifecycleEstimateRow(r, fa, pa)
  BY DEF LifecycleEstimates
<1>2. PICK s \in rows, fb \in Feasible.profiles, pb \in Feasible.plans :
        b = LifecycleEstimateRow(s, fb, pb)
  BY DEF LifecycleEstimates
<1>3. /\ a.mode = r.mode /\ a.policy = r.policy /\ a.capacity = r.capacity
      /\ a.profile = fa /\ a.plan = pa /\ a.estimate = Estimate(r, fa, pa)
  BY <1>1 DEF LifecycleEstimateRow
<1>4. /\ b.mode = s.mode /\ b.policy = s.policy /\ b.capacity = s.capacity
      /\ b.profile = fb /\ b.plan = pb /\ b.estimate = Estimate(s, fb, pb)
  BY <1>2 DEF LifecycleEstimateRow
<1>5. r.capacity \in Int /\ s.capacity \in Int
  BY GridRow, FeasibleParts
<1>6. r.capacity <= s.capacity
  BY <1>3, <1>4, <1>5
<1>7. r.mode = s.mode \/ r.mode # "persistent_sequence"
  BY <1>3, <1>4
<1>8. /\ PaysMore(r.counts, s.counts)
      /\ \A field \in AddedFields : r.counts[field] \in Nat /\ s.counts[field] \in Nat
  BY <1>3, <1>4, <1>6, <1>7, LRURowsPayMore
<1>9. /\ r.counts.misses \in Nat /\ r.counts.loaded \in Nat
      /\ s.counts.misses \in Nat /\ s.counts.loaded \in Nat
  BY <1>8 DEF AddedFields
<1>10. s.counts.misses <= r.counts.misses /\ s.counts.loaded <= r.counts.loaded
  BY <1>8 DEF PaysMore
<1>11. IsProfile(fa) /\ IsPlan(pa)
  BY FeasibleParts
<1>12. AtMost(TransferAccounting(s.counts.misses, s.counts.loaded, fa, pa).service,
              TransferAccounting(r.counts.misses, r.counts.loaded, fa, pa).service)
  BY <1>9, <1>10, <1>11, ServiceMonotone
<1> QED
  BY <1>3, <1>4, <1>12 DEF Estimate

(***************************************************************************)
(* LRU never pays more for a larger capacity, or for a cache that persists *)
(* (byte_cache.py, sensitivity_summary.py, hardware_cost.py): for every    *)
(* set of experts and sizes, every suite of workloads, every configuration *)
(* of capacities, hardware profiles and operation plans.                   *)
(***************************************************************************)
THEOREM LRULargerNeverDearer == GridSpec => []LRUNeverPaysMore
<1>1. DeclaredTypeOK => LRUNeverPaysMore
  <2> SUFFICES ASSUME DeclaredTypeOK, AnalysisDue PROVE LRUNeverPaysMore
    BY DEF LRUNeverPaysMore
  <2> DEFINE analysis == LifecycleAnalysis(Workloads, Feasible)
             rows == LifecycleGridOf(Workloads, Feasible)
  <2>1. /\ analysis.summary.adjacent = AdjacentComparisons(rows)
        /\ analysis.estimates = LifecycleEstimates(rows, Feasible.profiles, Feasible.plans)
    BY DEF LifecycleAnalysis, LifecycleSummary
  <2>2. \A pair \in {p \in analysis.summary.adjacent : p.policy = "lru"} :
          /\ pair.deltas.hits >= 0
          /\ pair.deltas.hits + pair.deltas.misses = 0
          /\ pair.deltas.loaded <= 0
          /\ \A rate \in pair.deltas.hitRate : AtMost(<<0, 1>>, rate)
    BY <2>1, AdjacentLRUPair
  <2>3. \A a, b \in {p \in analysis.estimates : p.policy = "lru"} :
          /\ \/ a.capacity < b.capacity /\ a.mode = b.mode
             \/ /\ a.capacity = b.capacity
                /\ a.mode = "cold_per_workload" /\ b.mode = "persistent_sequence"
          /\ a.profile = b.profile /\ a.plan = b.plan
          => AtMost(b.estimate.service, a.estimate.service)
    BY <2>1, LRUEstimatePair
  <2> HIDE DEF analysis
  <2> QED
    BY Zenon, <2>2, <2>3 DEF LRUNeverPaysMore, analysis
<1>2. DeclaredInv => LRUNeverPaysMore
  BY <1>1 DEF DeclaredInv
<1> QED
  BY <1>2, DeclaredEventsFit, PTL


-----------------------------------------------------------------------------
(***************************************************************************)
(* One item more.  A replay of an event more is that replay with the event *)
(* added; a lifecycle of a workload more has a row more; and the aggregate *)
(* of a row more is what the stepwise cache merges.                        *)
(***************************************************************************)
LEMMA AppendItem ==
  ASSUME NEW E, NEW s \in Seq(E), NEW e \in E
  PROVE  /\ Append(s, e) \in Seq(E) /\ Len(Append(s, e)) = Len(s) + 1
         /\ Len(s) \in Nat
         /\ \A i \in 1 .. Len(s) : Append(s, e)[i] = s[i]
         /\ Append(s, e)[Len(s) + 1] = e
BY AppendProperties, LenProperties

LEMMA ReplayOfNone ==
  ASSUME NEW policy, NEW capacity, NEW cache \in Caches
  PROVE  Replay(policy, capacity, cache, << >>) = [cache |-> cache, counts |-> CountsFrom(cache)]
<1>1. << >> \in Seq(SUBSET Experts) /\ Len(<< >>) = 0
  BY EmptySeq
<1>2. PICK h : /\ ReplayChain(policy, capacity, cache, << >>, h)
               /\ Replay(policy, capacity, cache, << >>) = h[Len(<< >>)]
  BY <1>1, ReplayFollowsChain
<1> QED
  BY <1>1, <1>2 DEF ReplayChain

LEMMA ReplayOfOneMore ==
  ASSUME NEW policy, NEW capacity, NEW cache \in Caches,
         NEW trace \in Seq(SUBSET Experts), NEW required \in SUBSET Experts
  PROVE  Replay(policy, capacity, cache, Append(trace, required)) =
           ReplayEvent(policy, capacity, Replay(policy, capacity, cache, trace), required)
<1> DEFINE n == Len(trace)
           longer == Append(trace, required)
<1>1. /\ longer \in Seq(SUBSET Experts) /\ Len(longer) = n + 1 /\ n \in Nat
      /\ \A i \in 1 .. n : longer[i] = trace[i]
      /\ longer[n + 1] = required
  BY AppendItem
<1>2. PICK g : /\ ReplayChain(policy, capacity, cache, trace, g)
               /\ Replay(policy, capacity, cache, trace) = g[n]
  BY ReplayFollowsChain
<1>3. PICK h : /\ ReplayChain(policy, capacity, cache, longer, h)
               /\ Replay(policy, capacity, cache, longer) = h[Len(longer)]
  BY <1>1, ReplayFollowsChain
<1> DEFINE good == {i \in Nat : g[i] = h[i]}
<1> HIDE DEF n, longer
<1>4. 0 \in good
  BY <1>2, <1>3 DEF ReplayChain
<1>5. ASSUME NEW i \in 1 .. n, i - 1 \in good PROVE i \in good
  <2>1. g[i] = ReplayEvent(policy, capacity, g[i - 1], trace[i])
    BY <1>2 DEF ReplayChain, n
  <2>2. h[i] = ReplayEvent(policy, capacity, h[i - 1], longer[i])
    <3>1. i \in 1 .. Len(longer)
      BY <1>1
    <3> QED
      BY <1>3, <3>1 DEF ReplayChain
  <2>3. i \in Nat /\ longer[i] = trace[i] /\ g[i - 1] = h[i - 1]
    BY <1>1, <1>5
  <2> QED
    BY <2>1, <2>2, <2>3
<1>6. 0 .. n \in SUBSET good
  <2>1. good \in SUBSET Nat
    OBVIOUS
  <2> HIDE DEF good
  <2> QED
    BY <1>1, <1>4, <1>5, <2>1, PrefixInduction
<1>7. g[n] = h[n]
  <2>1. n \in good
    <3> HIDE DEF good
    <3> QED
      BY <1>1, <1>6
  <2> QED
    BY <2>1
<1>8. h[n + 1] = ReplayEvent(policy, capacity, h[n], required)
  <2>1. n + 1 \in 1 .. Len(longer) /\ (n + 1) - 1 = n
    BY <1>1
  <2> QED
    BY <1>1, <1>3, <2>1 DEF ReplayChain
<1> QED
  BY <1>1, <1>2, <1>3, <1>7, <1>8 DEF longer

LEMMA LifecycleOfNone ==
  ASSUME NEW mode, NEW policy, NEW capacity
  PROVE  LifecycleOf(mode, policy, capacity, << >>) = LifecycleStart
<1>1. << >> \in Seq(DeclaredSet) /\ Len(<< >>) = 0
  BY EmptySeq
<1>2. PICK h : /\ LifecycleChain(<< >>, mode, policy, capacity, h)
               /\ LifecycleOf(mode, policy, capacity, << >>) = h[Len(<< >>)]
  BY <1>1, LifecycleFollowsChain
<1> QED
  BY <1>1, <1>2 DEF LifecycleChain

LEMMA LifecycleOfOneMore ==
  ASSUME NEW mode, NEW policy, NEW capacity,
         NEW suite \in Seq(DeclaredSet), NEW workload \in DeclaredSet
  PROVE  LifecycleOf(mode, policy, capacity, Append(suite, workload)) =
           NextState(mode, policy, capacity, LifecycleOf(mode, policy, capacity, suite), workload)
<1> DEFINE n == Len(suite)
           longer == Append(suite, workload)
<1>1. /\ longer \in Seq(DeclaredSet) /\ Len(longer) = n + 1 /\ n \in Nat
      /\ \A i \in 1 .. n : longer[i] = suite[i]
      /\ longer[n + 1] = workload
  BY AppendItem
<1>2. PICK g : /\ LifecycleChain(suite, mode, policy, capacity, g)
               /\ LifecycleOf(mode, policy, capacity, suite) = g[n]
  BY LifecycleFollowsChain
<1>3. PICK h : /\ LifecycleChain(longer, mode, policy, capacity, h)
               /\ LifecycleOf(mode, policy, capacity, longer) = h[Len(longer)]
  BY <1>1, LifecycleFollowsChain
<1> DEFINE good == {i \in Nat : g[i] = h[i]}
<1> HIDE DEF n, longer
<1>4. 0 \in good
  BY <1>2, <1>3 DEF LifecycleChain
<1>5. ASSUME NEW i \in 1 .. n, i - 1 \in good PROVE i \in good
  <2>1. g[i] = NextState(mode, policy, capacity, g[i - 1], suite[i])
    BY <1>2 DEF LifecycleChain, n
  <2>2. h[i] = NextState(mode, policy, capacity, h[i - 1], longer[i])
    <3>1. i \in 1 .. Len(longer)
      BY <1>1
    <3> QED
      BY <1>3, <3>1 DEF LifecycleChain
  <2>3. i \in Nat /\ longer[i] = suite[i] /\ g[i - 1] = h[i - 1]
    BY <1>1, <1>5
  <2> QED
    BY <2>1, <2>2, <2>3
<1>6. 0 .. n \in SUBSET good
  <2>1. good \in SUBSET Nat
    OBVIOUS
  <2> HIDE DEF good
  <2> QED
    BY <1>1, <1>4, <1>5, <2>1, PrefixInduction
<1>7. g[n] = h[n]
  <2>1. n \in good
    <3> HIDE DEF good
    <3> QED
      BY <1>1, <1>6
  <2> QED
    BY <2>1
<1>8. h[n + 1] = NextState(mode, policy, capacity, h[n], workload)
  <2>1. n + 1 \in 1 .. Len(longer) /\ (n + 1) - 1 = n
    BY <1>1
  <2> QED
    BY <1>1, <1>3, <2>1 DEF LifecycleChain
<1> QED
  BY <1>1, <1>2, <1>3, <1>7, <1>8 DEF longer

LEMMA LifecycleOfType ==
  ASSUME NEW mode, NEW policy, NEW capacity, NEW suite \in Seq(DeclaredSet)
  PROVE  /\ LifecycleOf(mode, policy, capacity, suite).cache \in Caches
         /\ LifecycleOf(mode, policy, capacity, suite).results
              \in Seq(RowSet(mode, policy, capacity))
<1>1. PICK h : /\ LifecycleChain(suite, mode, policy, capacity, h)
               /\ LifecycleOf(mode, policy, capacity, suite) = h[Len(suite)]
  BY LifecycleFollowsChain
<1>2. Len(suite) \in 0 .. Len(suite)
  BY LenProperties
<1>3. h[Len(suite)] \in LifecycleStates(mode, policy, capacity)
  BY <1>1, <1>2 DEF LifecycleChain
<1> QED
  BY <1>1, <1>3 DEF LifecycleStates

-----------------------------------------------------------------------------
\* A set of natural numbers below a bound has a greatest.
LEMMA GreatestOfBounded ==
  ASSUME NEW s \in SUBSET Nat, s # {}, NEW bound \in Nat, \A x \in s : x <= bound
  PROVE  Max(s) \in s /\ \A x \in s : x <= Max(s)
<1> DEFINE gaps == {bound - x : x \in s}
<1>1. gaps \in SUBSET Nat /\ gaps # {}
  <2>1. \A x \in s : bound - x \in Nat
    OBVIOUS
  <2>2. gaps \in SUBSET Nat
    BY <2>1
  <2>3. PICK x \in s : TRUE
    OBVIOUS
  <2>4. bound - x \in gaps
    OBVIOUS
  <2> QED
    BY <2>2, <2>4
<1>2. PICK least \in gaps : \A m \in gaps : least <= m
  <2> HIDE DEF gaps
  <2> QED
    BY <1>1, LeastNatural
<1>3. PICK last \in s : least = bound - last
  BY <1>2
<1>4. \A y \in s : last >= y
  <2> TAKE y \in s
  <2>1. bound - last <= bound - y
    BY <1>2, <1>3
  <2>2. last \in Nat /\ y \in Nat
    OBVIOUS
  <2> QED
    BY <2>1, <2>2
<1>5. Max(s) = CHOOSE x \in s : \A y \in s : x >= y
  BY Zenon DEF Max
<1>6. Max(s) \in s /\ \A y \in s : Max(s) >= y
  BY <1>4, <1>5
<1>7. \A y \in s : y <= Max(s)
  <2> TAKE y \in s
  <2>1. Max(s) \in Nat /\ y \in Nat /\ Max(s) >= y
    BY <1>6
  <2> QED
    BY <2>1
<1> QED
  BY <1>6, <1>7

LEMMA GreatestIs ==
  ASSUME NEW s \in SUBSET Nat, NEW top \in s, \A x \in s : x <= top
  PROVE  Max(s) = top
<1>1. top \in Nat /\ s # {}
  OBVIOUS
<1>2. Max(s) \in s /\ \A x \in s : x <= Max(s)
  BY <1>1, GreatestOfBounded
<1>3. Max(s) \in Nat /\ top <= Max(s) /\ Max(s) <= top
  BY <1>2
<1> QED
  BY <1>1, <1>3

\* The amounts of finitely many rows have a bound.
LEMMA TermsAreBounded ==
  ASSUME NEW n \in Nat, NEW f \in [1 .. n -> Nat]
  PROVE  \E bound \in Nat : \A i \in 1 .. n : f[i] <= bound
<1> DEFINE good == {m \in Nat : m <= n => \E bound \in Nat : \A i \in 1 .. m : f[i] <= bound}
<1>1. 0 \in good
  <2>1. \A i \in 1 .. 0 : f[i] <= 0
    OBVIOUS
  <2> QED
    BY <2>1
<1>2. ASSUME NEW m \in 1 .. n, m - 1 \in good PROVE m \in good
  <2>1. m - 1 <= n /\ m \in Nat /\ f[m] \in Nat
    OBVIOUS
  <2>2. PICK bound \in Nat : \A i \in 1 .. m - 1 : f[i] <= bound
    BY <1>2, <2>1
  <2>3. bound + f[m] \in Nat
    BY <2>1
  <2>4. \A i \in 1 .. m : f[i] <= bound + f[m]
    <3> TAKE i \in 1 .. m
    <3>1. CASE i = m
      BY <2>1, <3>1
    <3>2. CASE i # m
      <4>1. i \in 1 .. m - 1 /\ i \in 1 .. n
        BY <3>2
      <4>2. f[i] <= bound /\ f[i] \in Nat
        BY <2>2, <4>1
      <4> QED
        BY <2>1, <4>2
    <3> QED
      BY <3>1, <3>2
  <2> QED
    BY <2>1, <2>3, <2>4
<1>3. 0 .. n \in SUBSET good
  <2>1. good \in SUBSET Nat
    OBVIOUS
  <2> HIDE DEF good
  <2> QED
    BY <1>1, <1>2, <2>1, PrefixInduction
<1>4. n \in good
  <2> HIDE DEF good
  <2> QED
    BY <1>3
<1> QED
  BY <1>4


PeaksOf(rows) == {rows[i].counts.peak : i \in DOMAIN rows}

\* The greatest of the peaks of rows, or zero.
LEMMA GreatestPeak ==
  ASSUME NEW mode, NEW policy, NEW capacity, NEW rows \in Seq(RowSet(mode, policy, capacity))
  PROVE  /\ PeaksOf(rows) \in SUBSET Nat
         /\ Max({0} \cup PeaksOf(rows)) \in {0} \cup PeaksOf(rows)
         /\ Max({0} \cup PeaksOf(rows)) \in Nat
         /\ \A x \in {0} \cup PeaksOf(rows) : x <= Max({0} \cup PeaksOf(rows))
<1> DEFINE n == Len(rows)
           f == [i \in 1 .. n |-> rows[i].counts.peak]
           s == {0} \cup PeaksOf(rows)
<1>1. n \in Nat /\ DOMAIN rows = 1 .. n /\ \A i \in 1 .. n : rows[i] \in RowSet(mode, policy, capacity)
  BY LenProperties
<1>2. \A i \in 1 .. n : rows[i].counts.peak \in Nat
  BY <1>1 DEF RowSet, CountsSet
<1>3. f \in [1 .. n -> Nat]
  BY <1>2
<1> HIDE DEF n
<1>4. PeaksOf(rows) = {f[i] : i \in 1 .. n}
  BY <1>1 DEF PeaksOf
<1> HIDE DEF f
<1>5. PICK bound \in Nat : \A i \in 1 .. n : f[i] <= bound
  BY <1>1, <1>3, TermsAreBounded
<1>6. PeaksOf(rows) \in SUBSET Nat
  BY <1>3, <1>4
<1>7. s \in SUBSET Nat /\ s # {} /\ \A x \in s : x <= bound
  BY <1>4, <1>5, <1>6
<1> HIDE DEF s
<1>8. Max(s) \in s /\ \A x \in s : x <= Max(s)
  BY <1>7, GreatestOfBounded
<1>9. Max(s) \in Nat
  BY <1>7, <1>8
<1> QED
  BY <1>6, <1>8, <1>9 DEF s

LEMMA PeakOfOneMore ==
  ASSUME NEW mode, NEW policy, NEW capacity,
         NEW rows \in Seq(RowSet(mode, policy, capacity)), NEW row \in RowSet(mode, policy, capacity)
  PROVE  Max({0} \cup PeaksOf(Append(rows, row)))
           = MaxOf(Max({0} \cup PeaksOf(rows)), row.counts.peak)
<1> DEFINE n == Len(rows)
           longer == Append(rows, row)
           m == Max({0} \cup PeaksOf(rows))
           p == row.counts.peak
           s == {0} \cup PeaksOf(longer)
<1>1. /\ longer \in Seq(RowSet(mode, policy, capacity)) /\ Len(longer) = n + 1 /\ n \in Nat
      /\ \A i \in 1 .. n : longer[i] = rows[i]
      /\ longer[n + 1] = row
  BY AppendItem
<1>2. DOMAIN longer = 1 .. n + 1 /\ DOMAIN rows = 1 .. n
  <2>1. DOMAIN rows = 1 .. n
    BY LenProperties
  <2>2. DOMAIN longer = 1 .. Len(longer)
    BY <1>1, LenProperties
  <2> QED
    BY <1>1, <2>1, <2>2
<1> HIDE DEF n, longer
<1>3. PeaksOf(longer) = PeaksOf(rows) \cup {p}
  <2>1. PeaksOf(longer) \in SUBSET (PeaksOf(rows) \cup {p})
    <3> SUFFICES ASSUME NEW i \in 1 .. n + 1 PROVE longer[i].counts.peak \in PeaksOf(rows) \cup {p}
      BY <1>2 DEF PeaksOf
    <3>1. CASE i = n + 1
      BY <1>1, <3>1
    <3>2. CASE i # n + 1
      <4>1. i \in 1 .. n
        BY <1>1, <3>2
      <4> QED
        BY <1>1, <1>2, <4>1 DEF PeaksOf
    <3> QED
      BY <3>1, <3>2
  <2>2. p \in PeaksOf(longer)
    <3>1. n + 1 \in 1 .. n + 1
      BY <1>1
    <3> QED
      BY <1>1, <1>2, <3>1 DEF PeaksOf
  <2>3. PeaksOf(rows) \in SUBSET PeaksOf(longer)
    <3> SUFFICES ASSUME NEW i \in 1 .. n PROVE rows[i].counts.peak \in PeaksOf(longer)
      BY <1>2 DEF PeaksOf
    <3>1. i \in 1 .. n + 1
      BY <1>1
    <3> QED
      BY <1>1, <1>2, <3>1 DEF PeaksOf
  <2> QED
    BY <2>1, <2>2, <2>3
<1>4. p \in Nat
  BY DEF RowSet, CountsSet
<1>5. /\ PeaksOf(rows) \in SUBSET Nat /\ m \in Nat /\ m \in {0} \cup PeaksOf(rows)
      /\ \A x \in {0} \cup PeaksOf(rows) : x <= m
  BY GreatestPeak
<1> HIDE DEF m, p
<1>6. s \in SUBSET Nat /\ s = {0} \cup PeaksOf(rows) \cup {p}
  BY <1>3, <1>4, <1>5
<1>7. MaxOf(m, p) \in s
  BY <1>5, <1>6 DEF MaxOf
<1>8. \A x \in s : x <= MaxOf(m, p)
  <2> TAKE x \in s
  <2>1. x \in Nat /\ (x <= m \/ x = p)
    BY <1>5, <1>6
  <2> QED
    BY <1>4, <1>5, <2>1 DEF MaxOf
<1> HIDE DEF s
<1>9. Max(s) = MaxOf(m, p)
  BY <1>6, <1>7, <1>8, GreatestIs
<1> QED
  BY <1>9 DEF s, longer, m, p

\* The sum of one row more.
LEMMA AddedOfOneMore ==
  ASSUME NEW mode, NEW policy, NEW capacity,
         NEW rows \in Seq(RowSet(mode, policy, capacity)), NEW row \in RowSet(mode, policy, capacity),
         NEW field \in AddedFields
  PROVE  AggregateOf(Append(rows, row))[field] = AggregateOf(rows)[field] + row.counts[field]
<1> DEFINE n == Len(rows)
           longer == Append(rows, row)
           a == Amount(rows, field)
           b == Amount(longer, field)
<1>1. /\ longer \in Seq(RowSet(mode, policy, capacity)) /\ Len(longer) = n + 1 /\ n \in Nat
      /\ \A i \in 1 .. n : longer[i] = rows[i]
      /\ longer[n + 1] = row
  BY AppendItem
<1>2. AddsUp(rows, field)
  BY AggregateAddsUp
<1>3. AddsUp(longer, field)
  BY <1>1, AggregateAddsUp
<1>4. IsSum(a, n, AggregateOf(rows)[field])
  BY <1>2 DEF AddsUp
<1> HIDE DEF longer, n
<1>5. IsSum(b, n + 1, AggregateOf(longer)[field]) /\ b \in [1 .. n + 1 -> Nat]
  BY <1>1, <1>3 DEF AddsUp
<1>6. \A i \in 1 .. n : b[i] = a[i]
  <2> TAKE i \in 1 .. n
  <2>1. i \in 1 .. n + 1
    BY <1>1
  <2> QED
    BY <1>1, <2>1 DEF Amount, n
<1>7. b[n + 1] = row.counts[field]
  <2>1. n + 1 \in 1 .. n + 1
    BY <1>1
  <2> QED
    BY <1>1, <2>1 DEF Amount
<1> HIDE DEF a, b
<1>8. b[n + 1] \in Int /\ b \in [1 .. n + 1 -> Int] /\ n + 1 \in Nat
  <2>1. n + 1 \in 1 .. n + 1
    BY <1>1
  <2>2. b \in [1 .. n + 1 -> Int]
    BY <1>5
  <2> QED
    BY <1>1, <2>1, <2>2
<1>9. IsSum(b, n + 1, AggregateOf(rows)[field] + b[n + 1])
  BY <1>1, <1>4, <1>6, <1>8, SumOfOneMore
<1>10. AggregateOf(longer)[field] = AggregateOf(rows)[field] + b[n + 1]
  BY <1>5, <1>8, <1>9, SumUnique
<1> QED
  BY <1>7, <1>10 DEF longer

\* The parts of an aggregate.
LEMMA AggregateParts ==
  ASSUME NEW mode, NEW policy, NEW capacity, NEW rows \in Seq(RowSet(mode, policy, capacity))
  PROVE  /\ AggregateOf(rows) \in CountsSet
         /\ AggregateOf(rows).peak = Max({0} \cup PeaksOf(rows))
<1> DEFINE names == AddedFields \cup {"peak"}
           x == AggregateOf(rows)
<1>1. DOMAIN CountsFrom(NewCache) = names
  BY DEF CountsFrom, AddedFields
<1>2. x = [field \in names |->
             IF field = "peak" THEN Max({0} \cup PeaksOf(rows)) ELSE SumOf(rows, field)]
  BY <1>1 DEF AggregateOf, PeaksOf
<1>3. "peak" \in names /\ x["peak"] = Max({0} \cup PeaksOf(rows))
  BY <1>2
<1>4. \A field \in AddedFields : x[field] \in Nat
  BY AggregateAddsUp DEF AddsUp
<1>5. x["peak"] \in Nat
  BY <1>3, GreatestPeak
<1>6. DOMAIN x = names /\ x = [field \in names |-> x[field]]
  BY <1>2
<1> HIDE DEF x
<1>7. \A field \in names : x[field] \in Nat
  BY <1>4, <1>5
<1>8. x \in CountsSet
  BY <1>6, <1>7 DEF CountsSet, AddedFields
<1> QED
  BY <1>3, <1>8 DEF x

LEMMA CountsEqual ==
  ASSUME NEW x \in CountsSet, NEW y \in CountsSet, x.peak = y.peak,
         \A field \in AddedFields : x[field] = y[field]
  PROVE  x = y
BY DEF CountsSet, AddedFields

LEMMA MergeParts ==
  ASSUME NEW c \in CountsSet, NEW d \in CountsSet
  PROVE  /\ Merge(c, d) \in CountsSet
         /\ Merge(c, d).peak = MaxOf(c.peak, d.peak)
         /\ \A field \in AddedFields : Merge(c, d)[field] = c[field] + d[field]
<1>1. MaxOf(c.peak, d.peak) \in Nat
  BY DEF CountsSet, MaxOf
<1>2. Merge(c, d) \in CountsSet
  BY <1>1 DEF CountsSet, Merge
<1> QED
  BY <1>2 DEF Merge, AddedFields

LEMMA AggregateOfOneMore ==
  ASSUME NEW mode, NEW policy, NEW capacity,
         NEW rows \in Seq(RowSet(mode, policy, capacity)), NEW row \in RowSet(mode, policy, capacity)
  PROVE  AggregateOf(Append(rows, row)) = Merge(AggregateOf(rows), row.counts)
<1> DEFINE longer == Append(rows, row)
<1>1. longer \in Seq(RowSet(mode, policy, capacity)) /\ row.counts \in CountsSet
  BY AppendItem DEF RowSet
<1>2. AggregateOf(rows) \in CountsSet /\ AggregateOf(rows).peak = Max({0} \cup PeaksOf(rows))
  BY AggregateParts
<1>3. AggregateOf(longer) \in CountsSet /\ AggregateOf(longer).peak = Max({0} \cup PeaksOf(longer))
  BY <1>1, AggregateParts
<1>4. /\ Merge(AggregateOf(rows), row.counts) \in CountsSet
      /\ Merge(AggregateOf(rows), row.counts).peak = MaxOf(AggregateOf(rows).peak, row.counts.peak)
      /\ \A field \in AddedFields :
           Merge(AggregateOf(rows), row.counts)[field] = AggregateOf(rows)[field] + row.counts[field]
  BY <1>1, <1>2, MergeParts
<1>5. \A field \in AddedFields :
         AggregateOf(longer)[field] = Merge(AggregateOf(rows), row.counts)[field]
  BY <1>4, AddedOfOneMore
<1>6. AggregateOf(longer).peak = Merge(AggregateOf(rows), row.counts).peak
  BY <1>2, <1>3, <1>4, PeakOfOneMore
<1> HIDE DEF longer
<1>7. AggregateOf(longer) = Merge(AggregateOf(rows), row.counts)
  BY <1>3, <1>4, <1>5, <1>6, CountsEqual
<1> QED
  BY <1>7 DEF longer

LEMMA AggregateOfNone == AggregateOf(<< >>) = NoCounts
<1> DEFINE x == AggregateOf(<< >>)
<1>1. << >> \in Seq(RowSet("", "", 0)) /\ Len(<< >>) = 0 /\ DOMAIN << >> = {}
  BY EmptySeq
<1>2. x \in CountsSet /\ x.peak = Max({0} \cup PeaksOf(<< >>))
  BY <1>1, AggregateParts
<1>3. PeaksOf(<< >>) = {}
  BY <1>1 DEF PeaksOf
<1>4. Max({0}) = 0
  <2>1. {0} \in SUBSET Nat /\ 0 \in {0} /\ \A y \in {0} : y <= 0
    OBVIOUS
  <2> QED
    BY <2>1, GreatestIs
<1>5. x.peak = 0
  BY <1>2, <1>3, <1>4
<1>6. ASSUME NEW field \in AddedFields PROVE x[field] = 0
  <2>1. AddsUp(<< >>, field)
    BY <1>1, AggregateAddsUp
  <2>2. /\ IsSum(Amount(<< >>, field), 0, x[field])
        /\ Amount(<< >>, field) \in [1 .. 0 -> Nat]
    BY <1>1, <2>1 DEF AddsUp
  <2>3. Amount(<< >>, field) \in [1 .. 0 -> Int]
    <3> DEFINE am == Amount(<< >>, field)
    <3>1. am \in [1 .. 0 -> Nat]
      BY <2>2
    <3> HIDE DEF am
    <3>2. am \in [1 .. 0 -> Int]
      BY <3>1
    <3> QED
      BY <3>2 DEF am
  <2>4. IsSum(Amount(<< >>, field), 0, 0)
    BY SumOfNone
  <2> HIDE DEF x
  <2> QED
    BY <2>2, <2>3, <2>4, SumUnique
<1>7. NoCounts \in CountsSet /\ NoCounts.peak = 0 /\ \A field \in AddedFields : NoCounts[field] = 0
  BY DEF NoCounts, CountsSet, AddedFields
<1> HIDE DEF x
<1>8. x = NoCounts
  BY <1>2, <1>5, <1>6, <1>7, CountsEqual
<1> QED
  BY <1>8 DEF x


-----------------------------------------------------------------------------
(***************************************************************************)
(* The steps of an access against the access of a replay.  The steps keep  *)
(* no frequency under LRU; the replay keeps one and never looks at it.     *)
(***************************************************************************)
SameEntry(cache, k) ==
  /\ cache.entries[k].last = entries[k].last
  /\ Policy = "lfu" => cache.entries[k].frequency = entries[k].frequency

\* Between accesses the cache that runs is the cache of the replay.
Follows(cache) ==
  /\ KeysOf(cache) = resident
  /\ cache.clock = clock
  /\ \A k \in resident : SameEntry(cache, k)

Gone(cache) == KeysOf(cache) \ resident

\* In an access it has lost some of the victims, none before its predecessors.
MidAccess(cache, required) ==
  /\ access.required = required
  /\ clock = cache.clock + 1
  /\ resident \in SUBSET KeysOf(cache)
  /\ \A k \in resident : SameEntry(cache, k)
  /\ access.missing = required \ KeysOf(cache)
  /\ access.hits = Cardinality(required \cap KeysOf(cache))
  /\ Gone(cache) \in SUBSET Victims(Policy, Capacity, cache, required)
  /\ access.evictions = Cardinality(Gone(cache))
  /\ access.evicted = Bytes(Gone(cache))
  /\ \A j \in Gone(cache), k \in resident \ required :
       GivenUpFirst(Policy, cache.entries, j, k)

\* No expert is given up before itself, nor two before each other.
LEMMA GivenUpOrder ==
  ASSUME NEW cache \in Caches, NEW j \in KeysOf(cache), NEW k \in KeysOf(cache)
  PROVE  /\ ~ (GivenUpFirst(Policy, cache.entries, j, k) /\ GivenUpFirst(Policy, cache.entries, k, j))
         /\ GivenUpFirst(Policy, cache.entries, j, k) => j # k
<1>1. /\ cache.entries[j].last \in Nat /\ cache.entries[k].last \in Nat
      /\ cache.entries[j].frequency \in Nat /\ cache.entries[k].frequency \in Nat
      /\ j \in Nat /\ k \in Nat
  BY CacheParts, ExpertsAssumption
<1>2. \A x, y \in KeysOf(cache) :
        Older([z \in DOMAIN cache.entries |-> cache.entries[z].last], x, y) <=>
          \/ cache.entries[x].last < cache.entries[y].last
          \/ cache.entries[x].last = cache.entries[y].last /\ x < y
  BY DEF Older, KeysOf
<1> QED
  BY <1>1, <1>2 DEF GivenUpFirst

\* Both name the same first victim.
LEMMA SameVictimOrder ==
  ASSUME NEW cache \in Caches, resident \in SUBSET KeysOf(cache),
         \A k \in resident : SameEntry(cache, k),
         NEW j \in resident, NEW k \in resident
  PROVE  GivenUpFirst(Policy, cache.entries, j, k) <=> EvictedBefore(j, k)
<1>1. j \in DOMAIN cache.entries /\ k \in DOMAIN cache.entries
  BY DEF KeysOf
<1>2. Older([z \in DOMAIN cache.entries |-> cache.entries[z].last], j, k) <=>
        Older([z \in resident |-> entries[z].last], j, k)
  BY <1>1 DEF Older, SameEntry
<1> QED
  BY <1>2 DEF GivenUpFirst, EvictedBefore, SameEntry

LEMMA VictimsType ==
  ASSUME NEW cache \in Caches, NEW required
  PROVE  /\ Victims(Policy, Capacity, cache, required) \in SUBSET (KeysOf(cache) \ required)
         /\ KeysOf(cache) \in SUBSET Experts
BY CacheParts DEF Victims

LEMMA AccessStarts ==
  ASSUME SafetyInv, NEW cache \in Caches, NEW required \in SUBSET Experts,
         Follows(cache), StartAccess(required)
  PROVE  MidAccess(cache, required)'
<1>1. /\ access' = [required  |-> required, missing   |-> required \ resident,
                    hits      |-> Cardinality(required \cap resident),
                    running   |-> Bytes(resident), evictions |-> 0, evicted |-> 0]
      /\ clock' = clock + 1 /\ entries' = entries
  BY DEF StartAccess
<1>2. KeysOf(cache) = resident /\ cache.clock = clock /\ \A k \in resident : SameEntry(cache, k)
  BY DEF Follows
<1>3. Gone(cache)' = {} /\ resident' = resident
  BY <1>1, <1>2 DEF Gone, resident
<1>4. Cardinality({}) = 0 /\ Bytes({}) = 0
  BY FS_EmptySet, BytesOfNone
<1>5. \A k \in resident' : SameEntry(cache, k)'
  BY <1>1, <1>2, <1>3 DEF SameEntry
<1> QED
  BY <1>1, <1>2, <1>3, <1>4, <1>5 DEF MidAccess

LEMMA AccessEvicts ==
  ASSUME SafetyInv, NEW cache \in Caches, NEW required \in SUBSET Experts,
         MidAccess(cache, required), NEW victim \in Experts, Evict(victim)
  PROVE  MidAccess(cache, required)'
<1> DEFINE K == KeysOf(cache)
           G == Gone(cache)
           V == Victims(Policy, Capacity, cache, required)
           First(j, k) == GivenUpFirst(Policy, cache.entries, j, k)
<1>1. /\ phase = "evicting" /\ access.running + demandLoadBytes > Capacity
      /\ victim \in resident \ required
      /\ \A k \in (resident \ required) \ {victim} : EvictedBefore(victim, k)
      /\ entries' = [k \in resident \ {victim} |-> entries[k]]
      /\ access' = AfterEviction(victim) /\ clock' = clock
  BY DEF Evict, candidates, MidAccess
<1>2. /\ access.required = required /\ clock = cache.clock + 1
      /\ resident \in SUBSET K /\ \A k \in resident : SameEntry(cache, k)
      /\ G \in SUBSET V
      /\ access.evictions = Cardinality(G) /\ access.evicted = Bytes(G)
      /\ \A j \in G, k \in resident \ required : First(j, k)
  BY DEF MidAccess
<1>3. G = K \ resident /\ K \in SUBSET Experts /\ V \in SUBSET (K \ required)
  BY VictimsType DEF Gone
<1>4. Bytes(resident \cup required) > Capacity
  BY <1>1, <1>2, DemandMeetsResidency
<1>5. \A k \in (resident \ required) \ {victim} : First(victim, k)
  BY <1>1, <1>2, SameVictimOrder
<1>6. {j \in K \ required : First(j, victim)} = G
  <2>1. ASSUME NEW j \in K \ required, First(j, victim) PROVE j \in G
    <3> SUFFICES ASSUME j \notin G PROVE FALSE
      OBVIOUS
    <3>1. j \in resident \ required /\ victim \in K
      BY <1>1, <1>2, <1>3
    <3>2. j # victim
      BY <2>1, <3>1, GivenUpOrder
    <3>3. First(victim, j)
      BY <1>5, <3>1, <3>2
    <3> QED
      BY <2>1, <3>1, <3>3, GivenUpOrder
  <2>2. \A j \in G : j \in K \ required /\ First(j, victim)
    BY <1>1, <1>2, <1>3
  <2> QED
    BY <2>1, <2>2
<1>7. victim \in V
  <2>1. (K \ G) \cup required = resident \cup required
    BY <1>2, <1>3
  <2>2. victim \in K \ required
    BY <1>1, <1>2
  <2> QED
    BY <1>4, <1>6, <2>1, <2>2 DEF Victims
<1>8. resident' = resident \ {victim}
  BY <1>1 DEF resident
<1>9. Gone(cache)' = G \cup {victim} /\ victim \notin G
  BY <1>1, <1>2, <1>3, <1>8 DEF Gone
<1>10. /\ access'.required = access.required /\ access'.missing = access.missing
       /\ access'.hits = access.hits
       /\ access'.evictions = access.evictions + 1
       /\ access'.evicted = access.evicted + Size[victim]
  BY <1>1 DEF AfterEviction, SafetyInv, TypeOK
<1>11. Cardinality(G \cup {victim}) = Cardinality(G) + 1
  <2>1. IsFiniteSet(G)
    <3>1. G \in SUBSET Experts
      BY <1>3
    <3> QED
      BY <3>1, CellsFinite
  <2> QED
    BY <1>9, <2>1, FS_AddElement
<1>12. Bytes(G \cup {victim}) = Bytes(G) + Size[victim]
  <2>1. G \in SUBSET Experts /\ {victim} \in SUBSET Experts /\ G \cap {victim} = {}
    BY <1>3, <1>9
  <2> QED
    BY <2>1, BytesOfUnion, BytesOfOne
<1>13. \A k \in resident' : SameEntry(cache, k)'
  <2> TAKE k \in resident'
  <2>1. k \in resident /\ entries'[k] = entries[k]
    BY <1>1, <1>8
  <2> QED
    BY <1>2, <2>1 DEF SameEntry
<1>14. \A j \in G \cup {victim}, k \in resident' \ required : First(j, k)
  BY <1>2, <1>5, <1>8
<1>15. resident' \in SUBSET K
  BY <1>2, <1>8
<1>16. /\ access.missing = required \ K /\ access.hits = Cardinality(required \cap K)
  BY DEF MidAccess
<1> HIDE DEF K, G, V, First
<1>17. Gone(cache)' \in SUBSET V
  BY <1>2, <1>7, <1>9
<1> QED
  BY <1>1, <1>2, <1>9, <1>10, <1>11, <1>12, <1>13, <1>14, <1>15, <1>16, <1>17
     DEF MidAccess, K, V, First

\* When what is missing fits, exactly the victims of the replay are gone.
LEMMA VictimsAreGone ==
  ASSUME SafetyInv, NEW cache \in Caches, NEW required \in SUBSET Experts,
         MidAccess(cache, required), FinishAccess
  PROVE  Gone(cache) = Victims(Policy, Capacity, cache, required)
<1> DEFINE K == KeysOf(cache)
           G == Gone(cache)
           V == Victims(Policy, Capacity, cache, required)
           First(j, k) == GivenUpFirst(Policy, cache.entries, j, k)
<1>1. phase = "evicting" /\ access.running + demandLoadBytes <= Capacity
  BY DEF FinishAccess
<1>2. /\ access.required = required /\ resident \in SUBSET K /\ G \in SUBSET V
      /\ \A j \in G, k \in resident \ required : First(j, k)
  BY DEF MidAccess
<1>3. G = K \ resident /\ K \in SUBSET Experts /\ V \in SUBSET (K \ required)
  BY VictimsType DEF Gone
<1>4. Bytes(resident \cup required) <= Capacity
  BY <1>1, <1>2, DemandMeetsResidency
<1>5. ASSUME NEW k \in V, k \notin G PROVE FALSE
  <2> DEFINE rest == (K \ {j \in K \ required : First(j, k)}) \cup required
  <2>1. Bytes(rest) > Capacity
    BY <1>5 DEF Victims
  <2>2. k \in resident \ required
    BY <1>3, <1>5
  <2>3. rest \in SUBSET (resident \cup required) /\ resident \cup required \in SUBSET Experts
    BY <1>2, <1>3, <2>2
  <2> HIDE DEF rest
  <2>4. Bytes(rest) <= Bytes(resident \cup required)
    BY <2>3, BytesMonotone
  <2>5. Bytes(rest) \in Nat /\ Bytes(resident \cup required) \in Nat
    <3>1. rest \in SUBSET Experts
      BY <2>3
    <3> QED
      BY <2>3, <3>1, Amounts
  <2> QED
    BY <1>4, <2>1, <2>4, <2>5, CapacityAssumption
<1> QED
  BY <1>2, <1>5

LEMMA AccessFinishes ==
  ASSUME SafetyInv, NEW cache \in Caches, NEW required \in SUBSET Experts, required # {},
         MidAccess(cache, required), FinishAccess,
         NEW counts \in CountsSet, counters = counts
  PROVE  LET next == ReplayEvent(Policy, Capacity, [cache |-> cache, counts |-> counts], required)
         IN  Follows(next.cache)' /\ counters' = next.counts
<1> DEFINE K == KeysOf(cache)
           V == Victims(Policy, Capacity, cache, required)
           after == Access(Policy, Capacity, cache, required)
           next == ReplayEvent(Policy, Capacity, [cache |-> cache, counts |-> counts], required)
<1>1. /\ access.required = required /\ clock = cache.clock + 1 /\ resident \in SUBSET K
      /\ \A k \in resident : SameEntry(cache, k)
      /\ access.missing = required \ K /\ access.hits = Cardinality(required \cap K)
      /\ access.evictions = Cardinality(Gone(cache)) /\ access.evicted = Bytes(Gone(cache))
  BY DEF MidAccess
<1>2. Gone(cache) = V
  BY VictimsAreGone
<1>3. K \ V = resident /\ V \in SUBSET (K \ required)
  BY <1>1, <1>2, VictimsType DEF Gone
<1>4. AccessFacts(Policy, Capacity, cache, required, after)
  BY AccessParts
<1>5. /\ after.clock = cache.clock + 1
      /\ KeysOf(after) = resident \cup required
      /\ \A k \in required :
           /\ after.entries[k].last = cache.clock + 1
           /\ after.entries[k].frequency =
                (IF k \in K THEN cache.entries[k].frequency ELSE 0) + 1
      /\ \A k \in KeysOf(after) \ required : after.entries[k] = cache.entries[k]
  BY <1>3, <1>4 DEF AccessFacts
<1>6. /\ entries' = [k \in resident \cup required |->
                       IF k \in required THEN TouchedEntry(k) ELSE entries[k]]
      /\ clock' = clock
  BY <1>1 DEF FinishAccess
<1>7. resident' = resident \cup required
  BY <1>6 DEF resident
<1>8. \A k \in resident' : SameEntry(after, k)'
  <2> TAKE k \in resident'
  <2>1. CASE k \in required
    <3>1. entries'[k] = TouchedEntry(k)
      BY <1>6, <2>1
    <3>2. after.entries[k].last = entries'[k].last
      BY <1>1, <1>5, <2>1, <3>1 DEF TouchedEntry
    <3>3. ASSUME Policy = "lfu" PROVE after.entries[k].frequency = entries'[k].frequency
      <4>1. k \in K <=> k \in resident
        BY <1>1, <1>3, <2>1
      <4>2. Policy # "lru"
        BY <3>3
      <4>3. CASE k \in resident
        <5>1. entries'[k].frequency = entries[k].frequency + 1
          BY <3>1, <4>2, <4>3 DEF TouchedEntry
        <5>2. cache.entries[k].frequency = entries[k].frequency
          BY <1>1, <3>3, <4>3 DEF SameEntry
        <5> QED
          BY <1>5, <2>1, <4>1, <4>3, <5>1, <5>2
      <4>4. CASE k \notin resident
        <5>1. entries'[k].frequency = 1
          BY <3>1, <4>2, <4>4 DEF TouchedEntry
        <5> QED
          BY <1>5, <2>1, <4>1, <4>4, <5>1
      <4> QED
        BY <4>3, <4>4
    <3> QED
      BY <3>2, <3>3 DEF SameEntry
  <2>2. CASE k \notin required
    <3>1. k \in resident /\ entries'[k] = entries[k]
      BY <1>6, <1>7, <2>2
    <3>2. after.entries[k] = cache.entries[k]
      BY <1>5, <2>2, <3>1
    <3> QED
      BY <1>1, <3>1, <3>2 DEF SameEntry
  <2> QED
    BY <2>1, <2>2
<1>9. next.cache = after
  BY DEF ReplayEvent
<1>10. Follows(after)'
  BY <1>1, <1>5, <1>6, <1>7, <1>8 DEF Follows
<1>11. /\ phase = "evicting"
       /\ access.running + demandLoadBytes = Bytes(resident \cup required)
       /\ demandLoadBytes = Bytes(required \ K)
  BY <1>1, DemandMeetsResidency DEF FinishAccess, demandLoadBytes
<1>12. counters' =
          [events    |-> counts.events + 1,
           requests  |-> counts.requests + Cardinality(required),
           hits      |-> counts.hits + Cardinality(required \cap K),
           misses    |-> counts.misses + Cardinality(required \ K),
           loaded    |-> counts.loaded + Bytes(required \ K),
           evictions |-> counts.evictions + Cardinality(V),
           evicted   |-> counts.evicted + Bytes(V),
           peak      |-> MaxOf(counts.peak, Bytes(resident \cup required))]
  BY <1>1, <1>2, <1>11 DEF FinishAccess
<1>13. Max({counts.peak, Bytes(KeysOf(after))}) = MaxOf(counts.peak, Bytes(resident \cup required))
  <2>1. counts.peak \in Nat
    BY DEF CountsSet
  <2>2. Bytes(resident \cup required) \in Nat
    <3>1. resident \cup required \in SUBSET Experts
      BY <1>1, VictimsType
    <3> QED
      BY <3>1, Amounts
  <2> QED
    BY <1>5, <2>1, <2>2, MaxOfTwo
<1>14. next.counts =
          [events    |-> counts.events + 1,
           requests  |-> counts.requests + Cardinality(required),
           hits      |-> counts.hits + Cardinality(required \cap K),
           misses    |-> counts.misses + Cardinality(required \ K),
           loaded    |-> counts.loaded + Bytes(required \ K),
           evictions |-> counts.evictions + Cardinality(V),
           evicted   |-> counts.evicted + Bytes(V),
           peak      |-> Max({counts.peak, Bytes(KeysOf(after))})]
  BY Zenon DEF ReplayEvent
<1> HIDE DEF next, after, K, V
<1>15. counters' = next.counts
  BY <1>12, <1>13, <1>14
<1>16. Follows(next.cache)'
  BY <1>9, <1>10
<1> QED
  BY <1>15, <1>16 DEF next


-----------------------------------------------------------------------------
(***************************************************************************)
(* The replay in steps against its cell: after every step the declared     *)
(* workloads are those finished and the events of the one that runs, the   *)
(* totals and the cache are those of the lifecycle of the former, and the  *)
(* counters those of the replay of the latter.                             *)
(***************************************************************************)
Pasts == Seq(Seq(SUBSET Experts))

SuiteOf(past) == [i \in DOMAIN past |-> [id |-> i, order |-> i, events |-> past[i]]]

StateOf(past) == LifecycleOf(Lifecycle, Policy, Capacity, SuiteOf(past))

ReplayOf(past, trace) ==
  Replay(Policy, Capacity, StartCache(Lifecycle, StateOf(past).cache), trace)

BetweenWorkloads(past) ==
  /\ phase = "idle" /\ declared = past
  /\ Follows(StateOf(past).cache)

BetweenEvents(past, trace) ==
  /\ phase = "ready" /\ declared = Append(past, trace)
  /\ Follows(ReplayOf(past, trace).cache)
  /\ counters = ReplayOf(past, trace).counts

InAccess(past, trace, required) ==
  /\ phase = "evicting" /\ declared = Append(past, Append(trace, required))
  /\ required # {}
  /\ MidAccess(ReplayOf(past, trace).cache, required)
  /\ counters = ReplayOf(past, trace).counts

IsReplayed(past) ==
  /\ totals = AggregateOf(StateOf(past).results)
  /\ \/ BetweenWorkloads(past)
     \/ \E trace \in Seq(SUBSET Experts) :
          \/ BetweenEvents(past, trace)
          \/ \E required \in SUBSET Experts : InAccess(past, trace, required)

StepsInv == \E past \in Pasts : IsReplayed(past)

LEMMA SuiteOfNone == SuiteOf(<< >>) = << >>
BY DEF SuiteOf

LEMMA SuiteType ==
  ASSUME NEW past \in Pasts
  PROVE  SuiteOf(past) \in Seq(DeclaredSet) /\ Len(SuiteOf(past)) = Len(past)
<1> DEFINE n == Len(past)
<1>1. n \in Nat /\ DOMAIN past = 1 .. n /\ \A i \in 1 .. n : past[i] \in Seq(SUBSET Experts)
  BY LenProperties DEF Pasts
<1>2. SuiteOf(past) = [i \in 1 .. n |-> [id |-> i, order |-> i, events |-> past[i]]]
  BY <1>1 DEF SuiteOf
<1> HIDE DEF n
<1>3. \A i \in 1 .. n : [id |-> i, order |-> i, events |-> past[i]] \in DeclaredSet
  BY <1>1 DEF DeclaredSet
<1>4. SuiteOf(past) \in [1 .. n -> DeclaredSet]
  BY <1>2, <1>3
<1>5. SuiteOf(past) \in Seq(DeclaredSet)
  BY <1>1, <1>4, SeqDef
<1>6. Len(SuiteOf(past)) = n
  BY <1>1, <1>4, <1>5, LenProperties
<1> QED
  BY <1>5, <1>6 DEF n

LEMMA SuiteOfOneMore ==
  ASSUME NEW past \in Pasts, NEW trace \in Seq(SUBSET Experts)
  PROVE  LET workload == [id |-> Len(past) + 1, order |-> Len(past) + 1, events |-> trace]
         IN  /\ SuiteOf(Append(past, trace)) = Append(SuiteOf(past), workload)
             /\ workload \in DeclaredSet
             /\ Append(past, trace) \in Pasts
<1> DEFINE n == Len(past)
           w == [id |-> n + 1, order |-> n + 1, events |-> trace]
           p == Append(past, trace)
           s == SuiteOf(past)
           t == SuiteOf(p)
           u == Append(s, w)
<1>1. /\ p \in Pasts /\ Len(p) = n + 1 /\ n \in Nat
      /\ \A i \in 1 .. n : p[i] = past[i]
      /\ p[n + 1] = trace
  BY AppendItem DEF Pasts
<1>2. w \in DeclaredSet
  BY <1>1 DEF DeclaredSet
<1>3. DOMAIN past = 1 .. n /\ DOMAIN p = 1 .. n + 1
  <2>1. DOMAIN past = 1 .. Len(past)
    BY LenProperties DEF Pasts
  <2>2. DOMAIN p = 1 .. Len(p)
    BY <1>1, LenProperties DEF Pasts
  <2> QED
    BY <1>1, <2>1, <2>2
<1> HIDE DEF n, p, w
<1>4. s \in Seq(DeclaredSet) /\ Len(s) = n
  BY SuiteType DEF n
<1> HIDE DEF s
<1>5. /\ u \in Seq(DeclaredSet) /\ Len(u) = n + 1
      /\ \A i \in 1 .. n : u[i] = s[i]
      /\ u[n + 1] = w
  BY <1>2, <1>4, AppendItem
<1>6. DOMAIN u = 1 .. n + 1 /\ u = [i \in 1 .. n + 1 |-> u[i]]
  <2> HIDE DEF u
  <2>1. DOMAIN u = 1 .. n + 1
    BY <1>5, LenProperties
  <2>2. u = [i \in DOMAIN u |-> u[i]]
    BY <1>5, SeqDef
  <2> QED
    BY <2>1, <2>2
<1> HIDE DEF u
<1>7. t = [i \in 1 .. n + 1 |-> [id |-> i, order |-> i, events |-> p[i]]]
  BY <1>3 DEF SuiteOf
<1>8. \A i \in 1 .. n + 1 : [id |-> i, order |-> i, events |-> p[i]] = u[i]
  <2> TAKE i \in 1 .. n + 1
  <2>1. CASE i = n + 1
    BY <1>1, <1>5, <2>1 DEF w
  <2>2. CASE i # n + 1
    <3>1. i \in 1 .. n
      BY <1>1, <2>2
    <3>2. s[i] = [id |-> i, order |-> i, events |-> past[i]]
      BY <1>3, <3>1 DEF s, SuiteOf
    <3> QED
      BY <1>1, <1>5, <3>1, <3>2
  <2> QED
    BY <2>1, <2>2
<1>9. t = u
  BY <1>6, <1>7, <1>8
<1> QED
  BY <1>1, <1>2, <1>9 DEF u, s, w, n, p

\* What StateOf and ReplayOf are, and what a workload adds to them.
LEMMA StateParts ==
  ASSUME NEW past \in Pasts
  PROVE  /\ StateOf(past).cache \in Caches
         /\ StateOf(past).results \in Seq(RowSet(Lifecycle, Policy, Capacity))
         /\ StartCache(Lifecycle, StateOf(past).cache) \in Caches
BY SuiteType, LifecycleOfType, StartCacheType DEF StateOf

LEMMA ReplayOfParts ==
  ASSUME NEW past \in Pasts, NEW trace \in Seq(SUBSET Experts)
  PROVE  LET r == ReplayOf(past, trace)
         IN  /\ r \in Replays /\ r.cache \in Caches /\ r.counts \in CountsSet
             /\ r = [cache |-> r.cache, counts |-> r.counts]
<1>1. ReplayOf(past, trace) \in Replays
  BY StateParts, ReplayType DEF ReplayOf
<1> QED
  BY <1>1 DEF Replays

LEMMA ReplayOfEvent ==
  ASSUME NEW past \in Pasts, NEW trace \in Seq(SUBSET Experts), NEW required \in SUBSET Experts
  PROVE  /\ ReplayOf(past, Append(trace, required)) =
              ReplayEvent(Policy, Capacity, ReplayOf(past, trace), required)
         /\ Append(trace, required) \in Seq(SUBSET Experts)
BY StateParts, ReplayOfOneMore, AppendProperties DEF ReplayOf

LEMMA StateOfWorkload ==
  ASSUME NEW past \in Pasts, NEW trace \in Seq(SUBSET Experts)
  PROVE  LET before == StateOf(past)
             after == StateOf(Append(past, trace))
             r == ReplayOf(past, trace)
         IN  /\ after.cache = r.cache
             /\ AggregateOf(after.results) = Merge(AggregateOf(before.results), r.counts)
<1> DEFINE before == StateOf(past)
           after == StateOf(Append(past, trace))
           r == ReplayOf(past, trace)
           w == [id |-> Len(past) + 1, order |-> Len(past) + 1, events |-> trace]
           start == StartCache(Lifecycle, before.cache)
           row == WorkloadResult(Lifecycle, Policy, Capacity, w, start, r)
<1>1. SuiteOf(Append(past, trace)) = Append(SuiteOf(past), w) /\ w \in DeclaredSet
  BY SuiteOfOneMore
<1>2. SuiteOf(past) \in Seq(DeclaredSet)
  BY SuiteType
<1>3. after = NextState(Lifecycle, Policy, Capacity, before, w)
  BY <1>1, <1>2, LifecycleOfOneMore DEF StateOf
<1>4. r = Replay(Policy, Capacity, start, w.events)
  BY DEF ReplayOf
<1>5. after.cache = r.cache /\ after.results = Append(before.results, row)
  BY <1>3, <1>4 DEF NextState
<1>6. before.results \in Seq(RowSet(Lifecycle, Policy, Capacity)) /\ start \in Caches
  BY StateParts
<1>7. row \in RowSet(Lifecycle, Policy, Capacity)
  BY <1>1, <1>4, <1>6, RowType
<1>8. row.counts = r.counts
  BY DEF WorkloadResult
<1> HIDE DEF before, after, r, row
<1>9. AggregateOf(after.results) = Merge(AggregateOf(before.results), r.counts)
  BY <1>5, <1>6, <1>7, <1>8, AggregateOfOneMore
<1> QED
  BY <1>5, <1>9 DEF before, after, r

LEMMA RecordLast ==
  ASSUME NEW past \in Pasts, NEW trace \in Seq(SUBSET Experts),
         declared = Append(past, trace), NEW required \in SUBSET Experts, RecordEvent(required)
  PROVE  declared' = Append(past, Append(trace, required))
<1> DEFINE n == Len(past)
           p == Append(past, trace)
           longer == Append(trace, required)
           q == Append(past, longer)
<1>1. /\ p \in Seq(Seq(SUBSET Experts)) /\ Len(p) = n + 1 /\ n \in Nat
      /\ \A i \in 1 .. n : p[i] = past[i]
      /\ p[n + 1] = trace
  BY AppendItem DEF Pasts
<1>2. longer \in Seq(SUBSET Experts)
  BY AppendItem
<1>3. /\ q \in Seq(Seq(SUBSET Experts)) /\ Len(q) = n + 1
      /\ \A i \in 1 .. n : q[i] = past[i]
      /\ q[n + 1] = longer
  BY <1>2, AppendItem DEF Pasts
<1>4. DOMAIN p = 1 .. n + 1 /\ DOMAIN q = 1 .. n + 1 /\ q = [i \in 1 .. n + 1 |-> q[i]]
  <2> HIDE DEF p, q, n
  <2>1. DOMAIN p = 1 .. n + 1
    BY <1>1, LenProperties
  <2>2. DOMAIN q = 1 .. n + 1
    BY <1>3, LenProperties
  <2>3. q = [i \in DOMAIN q |-> q[i]]
    BY <1>3, SeqDef
  <2> QED
    BY <2>1, <2>2, <2>3
<1>5. declared' = [p EXCEPT ![n + 1] = Append(@, required)]
  BY <1>1 DEF RecordEvent
<1> HIDE DEF p, q, n
<1>6. [p EXCEPT ![n + 1] = Append(@, required)]
        = [i \in 1 .. n + 1 |-> IF i = n + 1 THEN longer ELSE p[i]]
  BY <1>1, <1>4
<1> HIDE DEF longer
<1>7. \A i \in 1 .. n + 1 : (IF i = n + 1 THEN longer ELSE p[i]) = q[i]
  <2> TAKE i \in 1 .. n + 1
  <2>1. CASE i = n + 1
    BY <1>3, <2>1
  <2>2. CASE i # n + 1
    <3>1. i \in 1 .. n
      BY <1>1, <2>2
    <3> QED
      BY <1>1, <1>3, <2>2, <3>1
  <2> QED
    BY <2>1, <2>2
<1>8. declared' = q
  BY <1>4, <1>5, <1>6, <1>7
<1> QED
  BY <1>8 DEF q, longer


\* One lemma per step of the grid.
LEMMA InitReplayed == GridInit => StepsInv
<1> SUFFICES ASSUME GridInit PROVE StepsInv
  OBVIOUS
<1> DEFINE past == << >>
<1>1. past \in Pasts
  BY EmptySeq DEF Pasts
<1>2. StateOf(past) = [cache |-> NewCache, results |-> << >>]
  BY SuiteOfNone, LifecycleOfNone DEF StateOf, LifecycleStart
<1>3. AggregateOf(StateOf(past).results) = NoCounts
  BY <1>2, AggregateOfNone
<1>4. Follows(StateOf(past).cache)
  <2>1. KeysOf(NewCache) = {} /\ NewCache.clock = 0
    BY NewCacheType DEF NewCache
  <2>2. entries = << >> /\ clock = 0
    BY DEF GridInit, Init
  <2>3. resident = {}
    BY <2>2 DEF resident
  <2> QED
    BY <1>2, <2>1, <2>2, <2>3 DEF Follows
<1>5. phase = "idle" /\ declared = past /\ totals = NoCounts
  BY DEF GridInit, Init
<1> HIDE DEF past
<1>6. IsReplayed(past)
  BY <1>3, <1>4, <1>5 DEF IsReplayed, BetweenWorkloads
<1> QED
  BY <1>1, <1>6 DEF StepsInv

LEMMA StartWorkloadReplayed ==
  ASSUME NEW past \in Pasts, IsReplayed(past), StartWorkload, declared' = Append(declared, << >>)
  PROVE  IsReplayed(past)'
<1> DEFINE start == StartCache(Lifecycle, StateOf(past).cache)
<1>1. phase = "idle" /\ phase' = "ready" /\ totals' = totals
  BY DEF StartWorkload
<1>2. BetweenWorkloads(past) /\ totals = AggregateOf(StateOf(past).results)
  BY <1>1 DEF IsReplayed, BetweenEvents, InAccess
<1>3. declared = past /\ Follows(StateOf(past).cache)
  BY <1>2 DEF BetweenWorkloads
<1>4. start \in Caches
  BY StateParts
<1>5. << >> \in Seq(SUBSET Experts)
  BY EmptySeq
<1>6. ReplayOf(past, << >>) = [cache |-> start, counts |-> CountsFrom(start)]
  BY <1>4, ReplayOfNone DEF ReplayOf
<1>7. Follows(start)'
  <2>1. CASE Lifecycle = "cold_per_workload"
    <3>1. start = NewCache
      BY <2>1 DEF StartCache
    <3>2. KeysOf(NewCache) = {} /\ NewCache.clock = 0
      BY NewCacheType DEF NewCache
    <3>3. entries' = << >> /\ clock' = 0
      BY <2>1 DEF StartWorkload
    <3>4. resident' = {}
      BY <3>3 DEF resident
    <3> QED
      BY <3>1, <3>2, <3>3, <3>4 DEF Follows
  <2>2. CASE Lifecycle # "cold_per_workload"
    <3>1. start = StateOf(past).cache
      BY <2>2, LifecycleAssumption DEF StartCache
    <3>2. entries' = entries /\ clock' = clock
      BY <2>2 DEF StartWorkload, cacheVars
    <3>3. Follows(start)
      BY <1>3, <3>1
    <3> QED
      BY <3>2, <3>3 DEF Follows, SameEntry, resident
  <2> QED
    BY <2>1, <2>2
<1>8. counters' = CountsFrom(start)
  <2>1. counters' = StartingCounts(resident')
    BY DEF StartWorkload, resident
  <2>2. KeysOf(start) = resident'
    BY <1>7 DEF Follows
  <2> QED
    BY <2>1, <2>2 DEF StartingCounts, NoCounts, CountsFrom
<1> HIDE DEF start
<1>9. BetweenEvents(past, << >>)'
  BY <1>1, <1>3, <1>6, <1>7, <1>8 DEF BetweenEvents
<1>10. totals' = AggregateOf(StateOf(past).results)
  BY <1>1, <1>2
<1> QED
  BY <1>5, <1>9, <1>10 DEF IsReplayed

LEMMA SkipEventReplayed ==
  ASSUME NEW past \in Pasts, IsReplayed(past), SkipEvent, RecordEvent({})
  PROVE  IsReplayed(past)'
<1>1. phase = "ready" /\ phase' = "ready" /\ totals' = totals /\ UNCHANGED <<entries, clock>>
  BY DEF SkipEvent, cacheVars
<1>2. totals = AggregateOf(StateOf(past).results)
      /\ \E trace \in Seq(SUBSET Experts) : BetweenEvents(past, trace)
  BY <1>1 DEF IsReplayed, BetweenWorkloads, InAccess
<1>3. PICK trace \in Seq(SUBSET Experts) : BetweenEvents(past, trace)
  BY <1>2
<1> DEFINE r == ReplayOf(past, trace)
           longer == Append(trace, {})
           s == ReplayOf(past, longer)
<1>4. declared = Append(past, trace) /\ Follows(r.cache) /\ counters = r.counts
  BY <1>3 DEF BetweenEvents
<1>5. r \in Replays /\ r.cache \in Caches /\ r.counts \in CountsSet
  BY ReplayOfParts
<1>6. s = ReplayEvent(Policy, Capacity, r, {}) /\ longer \in Seq(SUBSET Experts)
  BY ReplayOfEvent
<1>7. s = [r EXCEPT !.counts.events = @ + 1]
  BY Zenon, <1>6 DEF ReplayEvent
<1>8. declared' = Append(past, longer)
  BY <1>4, RecordLast
<1> HIDE DEF r, s, longer
<1>9. s.cache = r.cache /\ s.counts = [r.counts EXCEPT !.events = @ + 1]
  BY <1>5, <1>7 DEF Replays
<1>10. counters' = s.counts
  BY <1>4, <1>9 DEF SkipEvent
<1>11. Follows(s.cache)'
  BY <1>1, <1>4, <1>9 DEF Follows, SameEntry, resident
<1>12. BetweenEvents(past, longer)'
  BY <1>1, <1>8, <1>10, <1>11 DEF BetweenEvents, s
<1>13. totals' = AggregateOf(StateOf(past).results)
  BY <1>1, <1>2
<1> QED
  BY <1>6, <1>12, <1>13 DEF IsReplayed

LEMMA StartAccessReplayed ==
  ASSUME SafetyInv, NEW past \in Pasts, IsReplayed(past),
         NEW required \in SUBSET Experts, StartAccess(required), RecordEvent(required)
  PROVE  IsReplayed(past)'
<1>1. /\ phase = "ready" /\ phase' = "evicting" /\ totals' = totals
      /\ counters' = counters /\ required # {}
  BY DEF StartAccess
<1>2. totals = AggregateOf(StateOf(past).results)
      /\ \E trace \in Seq(SUBSET Experts) : BetweenEvents(past, trace)
  BY <1>1 DEF IsReplayed, BetweenWorkloads, InAccess
<1>3. PICK trace \in Seq(SUBSET Experts) : BetweenEvents(past, trace)
  BY <1>2
<1> DEFINE r == ReplayOf(past, trace)
<1>4. declared = Append(past, trace) /\ Follows(r.cache) /\ counters = r.counts
  BY <1>3 DEF BetweenEvents
<1>5. r.cache \in Caches
  BY ReplayOfParts
<1>6. declared' = Append(past, Append(trace, required))
  BY <1>4, RecordLast
<1>7. MidAccess(r.cache, required)'
  BY <1>4, <1>5, AccessStarts
<1>8. InAccess(past, trace, required)'
  BY <1>1, <1>4, <1>6, <1>7 DEF InAccess
<1>9. totals' = AggregateOf(StateOf(past).results)
  BY <1>1, <1>2
<1> QED
  BY <1>8, <1>9 DEF IsReplayed

LEMMA InsideAccess ==
  ASSUME NEW past, IsReplayed(past), phase = "evicting"
  PROVE  /\ totals = AggregateOf(StateOf(past).results)
         /\ \E trace \in Seq(SUBSET Experts), required \in SUBSET Experts :
              InAccess(past, trace, required)
BY DEF IsReplayed, BetweenWorkloads, BetweenEvents

LEMMA EvictReplayed ==
  ASSUME SafetyInv, NEW past \in Pasts, IsReplayed(past),
         NEW victim \in Experts, Evict(victim), UNCHANGED declared
  PROVE  IsReplayed(past)'
<1>1. /\ phase = "evicting" /\ phase' = "evicting" /\ totals' = totals /\ counters' = counters
  BY DEF Evict
<1>2. totals = AggregateOf(StateOf(past).results)
  BY <1>1, InsideAccess
<1>3. PICK trace \in Seq(SUBSET Experts), required \in SUBSET Experts :
        InAccess(past, trace, required)
  BY <1>1, InsideAccess
<1> DEFINE r == ReplayOf(past, trace)
<1>4. /\ declared = Append(past, Append(trace, required)) /\ required # {}
      /\ MidAccess(r.cache, required) /\ counters = r.counts
  BY <1>3 DEF InAccess
<1>5. r.cache \in Caches
  BY ReplayOfParts
<1>6. MidAccess(r.cache, required)'
  BY <1>4, <1>5, AccessEvicts
<1>7. InAccess(past, trace, required)'
  BY <1>1, <1>4, <1>6 DEF InAccess
<1>8. totals' = AggregateOf(StateOf(past).results)
  BY <1>1, <1>2
<1> QED
  BY <1>7, <1>8 DEF IsReplayed

LEMMA FinishAccessReplayed ==
  ASSUME SafetyInv, NEW past \in Pasts, IsReplayed(past), FinishAccess, UNCHANGED declared
  PROVE  IsReplayed(past)'
<1>1. phase = "evicting" /\ phase' = "ready" /\ totals' = totals
  BY DEF FinishAccess
<1>2. totals = AggregateOf(StateOf(past).results)
  BY <1>1, InsideAccess
<1>3. PICK trace \in Seq(SUBSET Experts), required \in SUBSET Experts :
        InAccess(past, trace, required)
  BY <1>1, InsideAccess
<1> DEFINE r == ReplayOf(past, trace)
           longer == Append(trace, required)
           s == ReplayOf(past, longer)
<1>4. /\ declared = Append(past, longer) /\ required # {}
      /\ MidAccess(r.cache, required) /\ counters = r.counts
  BY <1>3 DEF InAccess
<1>5. r.cache \in Caches /\ r.counts \in CountsSet /\ r = [cache |-> r.cache, counts |-> r.counts]
  BY ReplayOfParts
<1>6. s = ReplayEvent(Policy, Capacity, r, required) /\ longer \in Seq(SUBSET Experts)
  BY ReplayOfEvent
<1> HIDE DEF r, s, longer
<1>7. Follows(s.cache)' /\ counters' = s.counts
  BY <1>4, <1>5, <1>6, AccessFinishes
<1>8. BetweenEvents(past, longer)'
  BY <1>1, <1>4, <1>7 DEF BetweenEvents, s
<1>9. totals' = AggregateOf(StateOf(past).results)
  BY <1>1, <1>2
<1> QED
  BY <1>6, <1>8, <1>9 DEF IsReplayed

LEMMA EndWorkloadReplayed ==
  ASSUME NEW past \in Pasts, IsReplayed(past), EndWorkload, UNCHANGED declared
  PROVE  \E longer \in Pasts : IsReplayed(longer)'
<1>1. /\ phase = "ready" /\ phase' = "idle" /\ totals' = Merge(totals, counters)
      /\ UNCHANGED <<entries, clock>>
  BY DEF EndWorkload, cacheVars, Overall
<1>2. totals = AggregateOf(StateOf(past).results)
      /\ \E trace \in Seq(SUBSET Experts) : BetweenEvents(past, trace)
  BY <1>1 DEF IsReplayed, BetweenWorkloads, InAccess
<1>3. PICK trace \in Seq(SUBSET Experts) : BetweenEvents(past, trace)
  BY <1>2
<1> DEFINE r == ReplayOf(past, trace)
           longer == Append(past, trace)
           after == StateOf(longer)
<1>4. declared = longer /\ Follows(r.cache) /\ counters = r.counts
  BY <1>3 DEF BetweenEvents
<1>5. /\ after.cache = r.cache
      /\ AggregateOf(after.results) = Merge(AggregateOf(StateOf(past).results), r.counts)
  BY StateOfWorkload
<1>6. longer \in Pasts
  BY SuiteOfOneMore
<1> HIDE DEF r, longer, after
<1>7. totals' = AggregateOf(after.results)
  BY <1>1, <1>2, <1>4, <1>5
<1>8. Follows(after.cache)'
  BY <1>1, <1>4, <1>5 DEF Follows, SameEntry, resident
<1>9. BetweenWorkloads(longer)'
  BY <1>1, <1>4, <1>8 DEF BetweenWorkloads, after
<1>10. IsReplayed(longer)'
  BY <1>7, <1>9 DEF IsReplayed, after
<1> QED
  BY <1>6, <1>10

LEMMA UnchangedReplayed ==
  ASSUME NEW past \in Pasts, IsReplayed(past), UNCHANGED gridVars
  PROVE  IsReplayed(past)'
<1>1. /\ phase' = phase /\ declared' = declared /\ totals' = totals /\ counters' = counters
      /\ entries' = entries /\ clock' = clock /\ access' = access /\ resident' = resident
  BY DEF gridVars, vars, cacheVars, resident
<1>2. \A cache : Follows(cache) => Follows(cache)'
  BY <1>1 DEF Follows, SameEntry
<1>3. \A cache, required : MidAccess(cache, required) => MidAccess(cache, required)'
  BY <1>1 DEF MidAccess, SameEntry, Gone
<1>4. BetweenWorkloads(past) => BetweenWorkloads(past)'
  BY <1>1, <1>2 DEF BetweenWorkloads
<1>5. ASSUME NEW trace PROVE BetweenEvents(past, trace) => BetweenEvents(past, trace)'
  BY <1>1, <1>2 DEF BetweenEvents
<1>6. ASSUME NEW trace, NEW required
      PROVE  InAccess(past, trace, required) => InAccess(past, trace, required)'
  BY <1>1, <1>3 DEF InAccess
<1> QED
  BY <1>1, <1>4, <1>5, <1>6 DEF IsReplayed

LEMMA NextReplayed ==
  ASSUME SafetyInv, StepsInv, [GridNext]_gridVars
  PROVE  StepsInv'
<1>1. PICK past \in Pasts : IsReplayed(past)
  BY DEF StepsInv
<1>2. (\E later \in Pasts : IsReplayed(later)') => StepsInv'
  BY DEF StepsInv
<1>3. CASE StartWorkload /\ declared' = Append(declared, << >>)
  BY <1>1, <1>2, <1>3, StartWorkloadReplayed
<1>4. CASE SkipEvent /\ RecordEvent({})
  BY <1>1, <1>2, <1>4, SkipEventReplayed
<1>5. CASE \E required \in SUBSET Experts : StartAccess(required) /\ RecordEvent(required)
  BY <1>1, <1>2, <1>5, StartAccessReplayed
<1>6. CASE \E victim \in Experts : Evict(victim) /\ UNCHANGED declared
  BY <1>1, <1>2, <1>6, EvictReplayed
<1>7. CASE FinishAccess /\ UNCHANGED declared
  BY <1>1, <1>2, <1>7, FinishAccessReplayed
<1>8. CASE EndWorkload /\ UNCHANGED declared
  BY <1>1, <1>2, <1>8, EndWorkloadReplayed
<1>9. CASE UNCHANGED gridVars
  BY <1>1, <1>2, <1>9, UnchangedReplayed
<1> QED
  BY <1>3, <1>4, <1>5, <1>6, <1>7, <1>8, <1>9 DEF GridNext

GridInv == SafetyInv /\ DeclaredInv /\ StepsInv

LEMMA GridRefinesCache == GridSpec => Spec
<1>1. GridInit => Init
  BY DEF GridInit
<1>2. [GridNext]_gridVars => [Next]_vars
  BY DEF GridNext, gridVars, Next
<1> QED
  BY <1>1, <1>2, PTL DEF GridSpec, Spec

LEMMA GridInvariant == GridSpec => []GridInv
<1>1. GridSpec => []SafetyInv
  BY GridRefinesCache, SafetyInvariant, PTL
<1>2. SafetyInv /\ StepsInv /\ [GridNext]_gridVars => StepsInv'
  BY NextReplayed
<1>3. GridSpec => []StepsInv
  BY <1>1, <1>2, InitReplayed, PTL DEF GridSpec
<1> QED
  BY <1>1, <1>3, DeclaredEventsFit, PTL DEF GridInv

(* In every reachable state the step-by-step cache is where the replay     *)
(* function is: there are workloads already complete, whose events replay  *)
(* through simulate_byte_trace of v04.py to exactly the clock, the bytes   *)
(* and the recency the cache has at its last boundary, and inside an       *)
(* access the experts evicted so far are the ones the function evicts.     *)
THEOREM StepsAreReplayed == GridSpec => []StepsInv
BY GridInvariant, PTL DEF GridInv


-----------------------------------------------------------------------------
(***************************************************************************)
(* What a replay counts whatever its policy and its capacity: its events   *)
(* and requests are those of the trace, and a request is a hit or a miss.  *)
(***************************************************************************)
Sizes(trace) == [i \in 1 .. Len(trace) |-> Cardinality(trace[i])]

CountsTrace(counts, trace) ==
  /\ counts.events = Len(trace)
  /\ IsSum(Sizes(trace), Len(trace), counts.requests)
  /\ counts.requests = counts.hits + counts.misses

LEMMA EventCounted ==
  ASSUME NEW policy, NEW capacity, NEW r \in Replays, NEW required \in SUBSET Experts
  PROVE  LET s == ReplayEvent(policy, capacity, r, required)
         IN  /\ s.counts.events = r.counts.events + 1
             /\ s.counts.requests = r.counts.requests + Cardinality(required)
             /\ r.counts.requests = r.counts.hits + r.counts.misses
                  => s.counts.requests = s.counts.hits + s.counts.misses
<1> DEFINE s == ReplayEvent(policy, capacity, r, required)
           ka == KeysOf(r.cache)
<1>1. r.counts \in CountsSet
  BY DEF Replays
<1>2. CASE required = {}
  <2>1. s.counts = [r.counts EXCEPT !.events = @ + 1]
    BY <1>2 DEF ReplayEvent, Replays
  <2> HIDE DEF s
  <2>2. /\ s.counts.events = r.counts.events + 1
        /\ s.counts.requests = r.counts.requests
        /\ s.counts.hits = r.counts.hits /\ s.counts.misses = r.counts.misses
    BY <1>1, <2>1 DEF CountsSet
  <2>3. Cardinality(required) = 0
    BY <1>2, FS_EmptySet
  <2>4. r.counts.requests \in Nat
    BY <1>1 DEF CountsSet
  <2> QED
    BY <2>2, <2>3, <2>4 DEF s
<1>3. CASE required # {}
  <2>1. /\ s.counts.events = r.counts.events + 1
        /\ s.counts.requests = r.counts.requests + Cardinality(required)
        /\ s.counts.hits = r.counts.hits + Cardinality(required \cap ka)
        /\ s.counts.misses = r.counts.misses + Cardinality(required \ ka)
    BY <1>3 DEF ReplayEvent
  <2> HIDE DEF s
  <2>2. /\ Cardinality(required) = Cardinality(required \cap ka) + Cardinality(required \ ka)
        /\ Cardinality(required) \in Nat
        /\ Cardinality(required \cap ka) \in Nat /\ Cardinality(required \ ka) \in Nat
    BY CountSplits
  <2>3. r.counts.requests \in Nat /\ r.counts.hits \in Nat /\ r.counts.misses \in Nat
    BY <1>1 DEF CountsSet
  <2> HIDE DEF ka
  <2> QED
    BY <2>1, <2>2, <2>3 DEF s
<1> QED
  BY <1>2, <1>3

LEMMA SizesType ==
  ASSUME NEW trace \in Seq(SUBSET Experts)
  PROVE  Sizes(trace) \in [1 .. Len(trace) -> Nat] /\ Len(trace) \in Nat
<1>1. Len(trace) \in Nat /\ \A i \in 1 .. Len(trace) : trace[i] \in SUBSET Experts
  BY LenProperties
<1>2. \A i \in 1 .. Len(trace) : Cardinality(trace[i]) \in Nat
  BY <1>1, Amounts
<1> QED
  BY <1>1, <1>2 DEF Sizes

LEMMA ReplayCountsTrace ==
  ASSUME NEW policy, NEW capacity, NEW cache \in Caches, NEW trace \in Seq(SUBSET Experts)
  PROVE  CountsTrace(Replay(policy, capacity, cache, trace).counts, trace)
<1> DEFINE n == Len(trace)
           sizes == Sizes(trace)
<1>1. PICK h : /\ ReplayChain(policy, capacity, cache, trace, h)
               /\ Replay(policy, capacity, cache, trace) = h[n]
  BY ReplayFollowsChain
<1>2. n \in Nat /\ \A i \in 1 .. n : trace[i] \in SUBSET Experts
  BY LenProperties
<1>3. /\ h \in [0 .. n -> Replays]
      /\ h[0] = [cache |-> cache, counts |-> CountsFrom(cache)]
      /\ \A i \in 1 .. n : h[i] = ReplayEvent(policy, capacity, h[i - 1], trace[i])
  BY <1>1 DEF ReplayChain
<1>4. sizes \in [1 .. n -> Nat] /\ \A i \in 1 .. n : sizes[i] = Cardinality(trace[i])
  BY SizesType DEF Sizes
<1> HIDE DEF n, sizes
<1> DEFINE good == {i \in Nat : /\ h[i].counts.events = i
                                /\ h[i].counts.requests = h[i].counts.hits + h[i].counts.misses}
<1>5. 0 \in good /\ h[0].counts.requests = 0
  BY <1>3 DEF CountsFrom
<1>6. ASSUME NEW i \in 1 .. n
      PROVE  /\ i - 1 \in good => i \in good
             /\ h[i].counts.requests = h[i - 1].counts.requests + sizes[i]
  <2>1. h[i - 1] \in Replays /\ trace[i] \in SUBSET Experts /\ i \in Nat
        /\ h[i] = ReplayEvent(policy, capacity, h[i - 1], trace[i])
    BY <1>2, <1>3
  <2>2. /\ h[i].counts.events = h[i - 1].counts.events + 1
        /\ h[i].counts.requests = h[i - 1].counts.requests + Cardinality(trace[i])
        /\ h[i - 1].counts.requests = h[i - 1].counts.hits + h[i - 1].counts.misses
             => h[i].counts.requests = h[i].counts.hits + h[i].counts.misses
    BY <2>1, EventCounted
  <2> QED
    BY <1>4, <2>1, <2>2
<1>7. n \in good
  <2>1. good \in SUBSET Nat
    OBVIOUS
  <2> HIDE DEF good
  <2>2. 0 .. n \in SUBSET good
    BY <1>2, <1>5, <1>6, <2>1, PrefixInduction
  <2> QED
    BY <1>2, <2>2
<1> DEFINE sum == [i \in 0 .. n |-> h[i].counts.requests]
<1>8. IsSum(sizes, n, h[n].counts.requests)
  <2>1. \A i \in 0 .. n : h[i].counts.requests \in Int
    BY <1>3 DEF Replays, CountsSet
  <2>2. sum \in [0 .. n -> Int]
    BY <2>1
  <2>3. sum[0] = 0 /\ sum[n] = h[n].counts.requests
    BY <1>2, <1>5
  <2>4. \A i \in 1 .. n : sum[i] = sum[i - 1] + sizes[i]
    <3>1. \A i \in 1 .. n : i - 1 \in 0 .. n /\ i \in 0 .. n
      BY <1>2
    <3>2. \A i \in 0 .. n : sum[i] = h[i].counts.requests
      OBVIOUS
    <3> HIDE DEF sum, good
    <3> QED
      BY <1>6, <3>1, <3>2
  <2> HIDE DEF sum
  <2> QED
    BY <2>2, <2>3, <2>4 DEF IsSum
<1>9. h[n].counts.events = n /\ h[n].counts.requests = h[n].counts.hits + h[n].counts.misses
  BY <1>7
<1> QED
  BY <1>1, <1>8, <1>9 DEF CountsTrace, n, sizes

\* A row of a cell has the counts of its workload's events.
LEMMA RowsCountTraces ==
  ASSUME NEW suite \in Seq(DeclaredSet), NEW mode, NEW policy, NEW capacity,
         NEW caches, NEW rows, LifecycleFacts(suite, mode, policy, capacity, caches, rows),
         NEW i \in 1 .. Len(suite)
  PROVE  /\ rows[i] \in RowSet(mode, policy, capacity)
         /\ rows[i].id = suite[i].id /\ rows[i].order = suite[i].order
         /\ rows[i].mode = mode /\ rows[i].policy = policy /\ rows[i].capacity = capacity
         /\ suite[i].events \in Seq(SUBSET Experts)
         /\ CountsTrace(rows[i].counts, suite[i].events)
         /\ rows[i].counts.requests \in Nat
<1> DEFINE start == StartCache(mode, caches[i - 1])
<1>1. Len(suite) \in Nat /\ suite[i] \in DeclaredSet
  BY LenProperties
<1>2. suite[i].events \in Seq(SUBSET Experts)
  BY <1>1 DEF DeclaredSet
<1>3. caches[i - 1] \in Caches
  <2>1. i - 1 \in 0 .. Len(suite)
    BY <1>1
  <2> QED
    BY <2>1 DEF LifecycleFacts
<1>4. start \in Caches
  BY <1>3, StartCacheType
<1> DEFINE r == Replay(policy, capacity, start, suite[i].events)
<1>5. rows[i] = WorkloadResult(mode, policy, capacity, suite[i], start, r)
  BY DEF LifecycleFacts, RowFor
<1>6. CountsTrace(r.counts, suite[i].events)
  BY <1>2, <1>4, ReplayCountsTrace
<1>7. rows[i] \in RowSet(mode, policy, capacity)
  BY <1>1, <1>4, <1>5, RowType
<1> HIDE DEF start, r
<1>8. /\ rows[i].id = suite[i].id /\ rows[i].order = suite[i].order
      /\ rows[i].mode = mode /\ rows[i].policy = policy /\ rows[i].capacity = capacity
      /\ rows[i].counts = r.counts
  BY <1>5 DEF WorkloadResult
<1>9. rows[i].counts.requests \in Nat
  BY <1>7 DEF RowSet, CountsSet
<1> QED
  BY <1>2, <1>6, <1>7, <1>8, <1>9


-----------------------------------------------------------------------------
(***************************************************************************)
(* The readers of the grid accept it.                                      *)
(***************************************************************************)
InOrder(suite) ==
  \A i, j \in 1 .. Len(suite) :
    i < j => suite[i].id # suite[j].id /\ suite[i].order < suite[j].order

\* what a row of workloads says of each of them
RowsAgree(suite, mode, policy, capacity, rows) ==
  /\ rows \in Seq(RowSet(mode, policy, capacity))
  /\ Len(rows) = Len(suite) /\ Len(suite) \in Nat
  /\ DOMAIN rows = 1 .. Len(suite)
  /\ \A i \in 1 .. Len(suite) :
       /\ rows[i] \in RowSet(mode, policy, capacity)
       /\ rows[i].id = suite[i].id /\ rows[i].order = suite[i].order
       /\ rows[i].mode = mode /\ rows[i].policy = policy /\ rows[i].capacity = capacity
       /\ suite[i].events \in Seq(SUBSET Experts)
       /\ CountsTrace(rows[i].counts, suite[i].events)
       /\ rows[i].counts.requests \in Nat

IsAccepted(suite, row) ==
  /\ RowsAgree(suite, row.mode, row.policy, row.capacity, row.workloads)
  /\ row.counts = AggregateOf(row.workloads)
  /\ \A field \in AddedFields : AddsUp(row.workloads, field)

LEMMA CellIsAccepted ==
  ASSUME NEW suite \in Seq(DeclaredSet), NEW mode, NEW policy, NEW capacity
  PROVE  IsAccepted(suite, SimulateWorkloads(suite, capacity, policy, mode))
<1> DEFINE row == SimulateWorkloads(suite, capacity, policy, mode)
<1>1. PICK caches : IsCell(suite, mode, policy, capacity, row, caches)
  BY SimulatedCell
<1> HIDE DEF row
<1>2. /\ row.mode = mode /\ row.policy = policy /\ row.capacity = capacity
      /\ LifecycleFacts(suite, mode, policy, capacity, caches, row.workloads)
      /\ row.counts = AggregateOf(row.workloads)
  BY <1>1 DEF IsCell
<1>3. /\ row.workloads \in Seq(RowSet(mode, policy, capacity))
      /\ Len(row.workloads) = Len(suite)
  BY <1>2 DEF LifecycleFacts
<1>4. \A field \in AddedFields : AddsUp(row.workloads, field)
  BY <1>3, AggregateAddsUp
<1>5. Len(suite) \in Nat /\ DOMAIN row.workloads = 1 .. Len(suite)
  BY <1>3, LenProperties
<1>6. RowsAgree(suite, mode, policy, capacity, row.workloads)
  BY <1>2, <1>3, <1>5, RowsCountTraces DEF RowsAgree
<1> QED
  BY <1>2, <1>4, <1>6 DEF IsAccepted, row

LEMMA AcceptedReconciles ==
  ASSUME NEW suite \in Seq(DeclaredSet), InOrder(suite), NEW row, IsAccepted(suite, row)
  PROVE  TransferReconciles(row) /\ SummaryReconciles(row)
<1> DEFINE n == Len(suite)
           ws == row.workloads
<1>1. /\ DOMAIN ws = 1 .. n /\ n \in Nat /\ Len(ws) = n
      /\ \A i \in 1 .. n :
           /\ ws[i].id = suite[i].id /\ ws[i].order = suite[i].order
           /\ ws[i].mode = row.mode /\ ws[i].policy = row.policy
           /\ ws[i].capacity = row.capacity
           /\ ws[i].counts.requests = ws[i].counts.hits + ws[i].counts.misses
  BY DEF IsAccepted, RowsAgree, CountsTrace
<1>2. \A field \in AddedFields : row.counts[field] = SumOf(row.workloads, field)
  BY DEF IsAccepted, AddsUp
<1>3. row.counts.requests = row.counts.hits + row.counts.misses
  <2>1. "requests" \in AddedFields /\ "hits" \in AddedFields /\ "misses" \in AddedFields
    BY DEF AddedFields
  <2> DEFINE a == Amount(ws, "hits")
             b == Amount(ws, "misses")
             c == Amount(ws, "requests")
  <2>2. /\ a \in [1 .. n -> Nat] /\ IsSum(a, n, row.counts.hits)
        /\ b \in [1 .. n -> Nat] /\ IsSum(b, n, row.counts.misses)
        /\ c \in [1 .. n -> Nat] /\ IsSum(c, n, row.counts.requests)
    <3>1. AddsUp(ws, "hits") /\ AddsUp(ws, "misses") /\ AddsUp(ws, "requests")
      BY <2>1 DEF IsAccepted
    <3>2. row.counts = AggregateOf(ws)
      BY DEF IsAccepted
    <3> QED
      BY <1>1, <3>1, <3>2 DEF AddsUp
  <2>3. \A i \in 1 .. n : c[i] = a[i] + b[i]
    BY <1>1 DEF Amount
  <2> DEFINE x == row.counts.hits
             y == row.counts.misses
             z == row.counts.requests
  <2>5. n \in Nat /\ IsSum(a, n, x) /\ IsSum(b, n, y) /\ IsSum(c, n, z)
    BY <1>1, <2>2
  <2> HIDE DEF a, b, c, n, ws, x, y, z
  <2>4. a \in [1 .. n -> Int] /\ b \in [1 .. n -> Int] /\ c \in [1 .. n -> Int]
    BY <2>2
  <2> QED
    <3>1. z = x + y
      BY <2>3, <2>4, <2>5, SumOfSums
    <3> QED
      BY <3>1 DEF x, y, z
<1>4. \A i, j \in DOMAIN ws : i < j => ws[i].order < ws[j].order /\ ws[i].id # ws[j].id
  BY <1>1 DEF InOrder
<1>5. \A i \in DOMAIN ws : IsOfParent(ws[i], row)
  BY <1>1 DEF IsOfParent, Cell
<1>6. TransferReconciles(row)
  BY <1>2, <1>4, <1>5 DEF TransferReconciles, AddedFields
<1>7. SummaryReconciles(row)
  BY <1>2, <1>3, <1>4, <1>5 DEF SummaryReconciles, AddedFields
<1> QED
  BY <1>6, <1>7

LEMMA TraceRequestsUnique ==
  ASSUME NEW trace \in Seq(SUBSET Experts), NEW c, NEW d,
         CountsTrace(c, trace), CountsTrace(d, trace)
  PROVE  c.events = d.events /\ c.requests = d.requests
<1>1. Sizes(trace) \in [1 .. Len(trace) -> Int] /\ Len(trace) \in Nat
  BY SizesType
<1> QED
  BY <1>1, SumUnique DEF CountsTrace

LEMMA SameSignature ==
  ASSUME NEW suite, NEW r, NEW s, IsAccepted(suite, r), IsAccepted(suite, s)
  PROVE  Signature(r) = Signature(s)
<1> DEFINE n == Len(suite)
<1>1. /\ DOMAIN r.workloads = 1 .. n /\ DOMAIN s.workloads = 1 .. n
      /\ \A i \in 1 .. n :
           /\ r.workloads[i].id = s.workloads[i].id
           /\ r.workloads[i].order = s.workloads[i].order
           /\ suite[i].events \in Seq(SUBSET Experts)
           /\ CountsTrace(r.workloads[i].counts, suite[i].events)
           /\ CountsTrace(s.workloads[i].counts, suite[i].events)
  BY DEF IsAccepted, RowsAgree
<1>2. \A i \in 1 .. n :
        /\ r.workloads[i].counts.events = s.workloads[i].counts.events
        /\ r.workloads[i].counts.requests = s.workloads[i].counts.requests
  <2> TAKE i \in 1 .. n
  <2> DEFINE c == r.workloads[i].counts
             d == s.workloads[i].counts
             trace == suite[i].events
  <2>1. trace \in Seq(SUBSET Experts) /\ CountsTrace(c, trace) /\ CountsTrace(d, trace)
    BY <1>1
  <2> HIDE DEF c, d, trace
  <2>2. c.events = d.events /\ c.requests = d.requests
    BY <2>1, TraceRequestsUnique
  <2> QED
    BY <2>2 DEF c, d
<1> QED
  BY <1>1, <1>2 DEF Signature

\* Every cell of the grid, and none twice.
LEMMA GridIsRectangle ==
  ASSUME NEW suite, NEW config, config.policies = ToSet(PolicyOrder), config.capacities # {}
  PROVE  LET rows == LifecycleGridOf(suite, config)
         IN  /\ IsRectangle(rows) /\ rows # {}
             /\ CapacitiesOf(rows) = config.capacities
<1> DEFINE rows == LifecycleGridOf(suite, config)
           P == ToSet(PolicyOrder)
           M == ToSet(CacheLifecycleModes)
           C == config.capacities
           Row(capacity, policy, mode) == SimulateWorkloads(suite, capacity, policy, mode)
<1>1. rows = {Row(capacity, policy, mode) : capacity \in C, policy \in P, mode \in M}
  BY DEF LifecycleGridOf
<1>2. \A capacity, policy, mode :
        LET row == Row(capacity, policy, mode)
        IN  row.mode = mode /\ row.policy = policy /\ row.capacity = capacity
  BY SimulationLabels
<1>3. P # {} /\ M # {}
  <2>1. P = {"lru", "lfu"}
    BY DEF ToSet, PolicyOrder
  <2>2. M = {"cold_per_workload", "persistent_sequence"}
    BY DEF ToSet, CacheLifecycleModes
  <2> QED
    BY <2>1, <2>2
<1> HIDE DEF P, M, C, Row
<1>4. C # {}
  BY DEF C
<1>5. rows # {}
  <2>1. PICK capacity \in C, policy \in P, mode \in M : TRUE
    BY <1>3, <1>4
  <2>2. Row(capacity, policy, mode) \in rows
    BY <1>1, <2>1
  <2> HIDE DEF rows
  <2> QED
    BY <2>2
<1>6. \A row \in rows : /\ row.mode \in M /\ row.policy \in P /\ row.capacity \in C
                        /\ row = Row(row.capacity, row.policy, row.mode)
  BY <1>1, <1>2
<1>7. \A capacity \in C, policy \in P, mode \in M :
        \E row \in rows : row.mode = mode /\ row.policy = policy /\ row.capacity = capacity
  BY <1>1, <1>2
<1> HIDE DEF rows
<1>8. Modes(rows) = M /\ Policies(rows) = P /\ CapacitiesOf(rows) = C
  <2>1. Modes(rows) = M
    BY <1>3, <1>4, <1>6, <1>7 DEF Modes
  <2>2. Policies(rows) = P
    BY <1>3, <1>4, <1>6, <1>7 DEF Policies
  <2>3. CapacitiesOf(rows) = C
    BY <1>3, <1>4, <1>6, <1>7 DEF CapacitiesOf
  <2> QED
    BY <2>1, <2>2, <2>3
<1>9. \A r, s \in rows : Cell(r) = Cell(s) => r = s
  <2> SUFFICES ASSUME NEW r \in rows, NEW s \in rows, Cell(r) = Cell(s) PROVE r = s
    OBVIOUS
  <2>1. r.mode = s.mode /\ r.policy = s.policy /\ r.capacity = s.capacity
    BY DEF Cell
  <2> QED
    BY <1>6, <2>1
<1>10. {Cell(row) : row \in rows} = M \X P \X C
  <2>1. \A row \in rows : Cell(row) \in M \X P \X C
    BY <1>6 DEF Cell
  <2>2. ASSUME NEW t \in M \X P \X C PROVE \E row \in rows : Cell(row) = t
    <3>1. t = <<t[1], t[2], t[3]>> /\ t[1] \in M /\ t[2] \in P /\ t[3] \in C
      OBVIOUS
    <3>2. PICK row \in rows : row.mode = t[1] /\ row.policy = t[2] /\ row.capacity = t[3]
      BY <1>7, <3>1
    <3> QED
      BY <3>1, <3>2 DEF Cell
  <2> QED
    BY <2>1, <2>2
<1>11. IsRectangle(rows)
  BY <1>8, <1>9, <1>10 DEF IsRectangle, P, M
<1> QED
  BY <1>5, <1>8, <1>11 DEF rows, C


-----------------------------------------------------------------------------
\* over a field of the estimates of workloads,
TotalOf(field, parts) == FoldLeft(LAMBDA sum, part : sum + part[field], 0, parts)

LEMMA SumOfParts ==
  ASSUME NEW n \in Nat, NEW parts, DOMAIN parts = 1 .. n, NEW field,
         \A i \in 1 .. n : parts[i][field] \in Int
  PROVE  IsSum([i \in 1 .. n |-> parts[i][field]], n, TotalOf(field, parts))
<1> DEFINE amount == [i \in 1 .. n |-> parts[i][field]]
           Rec(f, s) == IF s = {} THEN 0 ELSE f[s \ {Max(s)}] + parts[Max(s)][field]
           F == CHOOSE f : f = [s \in SUBSET DOMAIN parts |-> Rec(f, s)]
<1>1. TotalOf(field, parts) = F[DOMAIN parts]
  BY Zenon DEF TotalOf, FoldLeft, MapThenFoldSet
<1>2. amount \in [1 .. n -> Int]
  OBVIOUS
<1>3. ASSUME NEW s \in SUBSET (1 .. n), s # {}
      PROVE  amount[Max(s)] = parts[Max(s)][field]
  <2>1. Max(s) \in 1 .. n
    BY <1>3, LastPlace
  <2> QED
    BY <2>1
<1> HIDE DEF amount
<1>4. PICK f : IsSumFold(amount, n, f)
  BY <1>2, SumFoldIsDefined
<1>5. f = [s \in SUBSET (1 .. n) |-> Rec(f, s)]
  <2>1. \A s \in SUBSET (1 .. n) :
          Rec(f, s) = IF s = {} THEN 0 ELSE f[s \ {Max(s)}] + amount[Max(s)]
    BY <1>3
  <2> HIDE DEF Rec
  <2> QED
    BY <1>4, <2>1 DEF IsSumFold
<1>6. F = [s \in SUBSET (1 .. n) |-> Rec(F, s)]
  BY Zenon, <1>5
<1> HIDE DEF F
<1>7. IsSumFold(amount, n, F)
  <2>1. \A s \in SUBSET (1 .. n) :
          Rec(F, s) = IF s = {} THEN 0 ELSE F[s \ {Max(s)}] + amount[Max(s)]
    BY <1>3
  <2> HIDE DEF Rec
  <2>2. F = [s \in SUBSET (1 .. n) |->
               IF s = {} THEN 0 ELSE F[s \ {Max(s)}] + amount[Max(s)]]
    BY <1>6, <2>1
  <2> QED
    BY <2>2 DEF IsSumFold
<1>8. IsSum(amount, n, F[1 .. n])
  BY <1>2, <1>7, SumFoldIsSum
<1> QED
  BY <1>1, <1>8 DEF amount

\* and over the events of a trace.
RequestsOf(trace) ==
  FoldLeft(LAMBDA sum, required : sum + Cardinality(required), 0, trace)

LEMMA SumOfSizes ==
  ASSUME NEW trace \in Seq(SUBSET Experts)
  PROVE  IsSum(Sizes(trace), Len(trace), RequestsOf(trace))
<1> DEFINE n == Len(trace)
           amount == Sizes(trace)
           Rec(f, s) == IF s = {} THEN 0 ELSE f[s \ {Max(s)}] + Cardinality(trace[Max(s)])
           F == CHOOSE f : f = [s \in SUBSET DOMAIN trace |-> Rec(f, s)]
<1>1. RequestsOf(trace) = F[DOMAIN trace]
  BY Zenon DEF RequestsOf, FoldLeft, MapThenFoldSet
<1>2. n \in Nat /\ DOMAIN trace = 1 .. n /\ amount \in [1 .. n -> Int]
  BY SizesType, LenProperties
<1>3. ASSUME NEW s \in SUBSET (1 .. n), s # {}
      PROVE  amount[Max(s)] = Cardinality(trace[Max(s)])
  <2>1. Max(s) \in 1 .. n
    BY <1>2, <1>3, LastPlace
  <2> QED
    BY <2>1 DEF Sizes
<1> HIDE DEF amount, n
<1>4. PICK f : IsSumFold(amount, n, f)
  BY <1>2, SumFoldIsDefined
<1>5. f = [s \in SUBSET (1 .. n) |-> Rec(f, s)]
  <2>1. \A s \in SUBSET (1 .. n) :
          Rec(f, s) = IF s = {} THEN 0 ELSE f[s \ {Max(s)}] + amount[Max(s)]
    BY <1>3
  <2> HIDE DEF Rec
  <2> QED
    BY <1>4, <2>1 DEF IsSumFold
<1>6. F = [s \in SUBSET (1 .. n) |-> Rec(F, s)]
  BY Zenon, <1>2, <1>5
<1> HIDE DEF F
<1>7. IsSumFold(amount, n, F)
  <2>1. \A s \in SUBSET (1 .. n) :
          Rec(F, s) = IF s = {} THEN 0 ELSE F[s \ {Max(s)}] + amount[Max(s)]
    BY <1>3
  <2> HIDE DEF Rec
  <2>2. F = [s \in SUBSET (1 .. n) |->
               IF s = {} THEN 0 ELSE F[s \ {Max(s)}] + amount[Max(s)]]
    BY <1>6, <2>1
  <2> QED
    BY <2>2 DEF IsSumFold
<1>8. IsSum(amount, n, F[1 .. n])
  BY <1>2, <1>7, SumFoldIsSum
<1> QED
  BY <1>1, <1>2, <1>8 DEF amount, n

-----------------------------------------------------------------------------
(***************************************************************************)
(* The sum of fractions of one denominator, as the code takes it.          *)
(***************************************************************************)
Fractions == Int \X Int

LEMMA PlusType ==
  ASSUME NEW a \in Fractions, NEW b \in Fractions
  PROVE  Plus(a, b) \in Fractions
BY DEF Plus, Fractions

LEMMA FractionStep ==
  ASSUME NEW p \in Int, NEW q \in Int, NEW d \in Int, NEW g \in Int, NEW x \in Int,
         p * d = g * q
  PROVE  (p * d + x * q) * d = (g + x) * (q * d)
<1> DEFINE t == g * q
           u == x * q
<1>1. t \in Int /\ u \in Int
  OBVIOUS
<1>2. (g + x) * (q * d) = (t + u) * d
  OBVIOUS
<1> HIDE DEF u
<1>3. p * d + u = t + u
  OBVIOUS
<1> QED
  BY <1>2, <1>3 DEF u

FractionOf(field, parts) ==
  FoldLeft(LAMBDA sum, part : Plus(sum, part[field]), <<0, 1>>, parts)

LEMMA SumOfFractions ==
  ASSUME NEW n \in Nat, NEW parts, DOMAIN parts = 1 .. n, NEW field, NEW d \in Int,
         NEW x \in [1 .. n -> Int], \A i \in 1 .. n : parts[i][field] = <<x[i], d>>,
         NEW total, IsSum(x, n, total)
  PROVE  SameFraction(<<total, d>>, FractionOf(field, parts))
<1> DEFINE V == Fractions
           base == <<0, 1>>
           items == [i \in 1 .. n |-> parts[i][field]]
           step == [p \in V \X V |-> Plus(p[1], p[2])]
           Rec(f, s) == IF s = {} THEN base ELSE Plus(f[s \ {Max(s)}], parts[Max(s)][field])
           F == CHOOSE f : f = [s \in SUBSET DOMAIN parts |-> Rec(f, s)]
<1>1. FractionOf(field, parts) = F[DOMAIN parts]
  BY Zenon DEF FractionOf, FoldLeft, MapThenFoldSet
<1>2. items \in [1 .. n -> V] /\ \A i \in 1 .. n : items[i] = parts[i][field]
  <2>1. \A i \in 1 .. n : <<x[i], d>> \in Fractions
    BY DEF Fractions
  <2>2. \A i \in 1 .. n : parts[i][field] \in V
    BY <2>1
  <2> HIDE DEF V
  <2> QED
    BY <2>2
<1>3. base \in V
  BY DEF Fractions
<1>4. step \in [V \X V -> V]
  <2>1. \A p \in V \X V : Plus(p[1], p[2]) \in V
    BY PlusType
  <2> QED
    BY <2>1
<1>5. \A v \in V, e \in V : step[<<v, e>>] = Plus(v, e)
  OBVIOUS
<1> HIDE DEF V, items, base, step
<1>6. PICK f \in [SUBSET (1 .. n) -> V] : IsFold(step, base, items, n, f)
  BY <1>2, <1>3, <1>4, FoldIsDefined
<1>7. f = [s \in SUBSET (1 .. n) |-> Rec(f, s)]
  <2>1. ASSUME NEW s \in SUBSET (1 .. n), s # {}
        PROVE  f[s] = Plus(f[s \ {Max(s)}], parts[Max(s)][field])
    <3>1. Max(s) \in 1 .. n /\ s \ {Max(s)} \in SUBSET (1 .. n)
      BY <2>1, LastPlace
    <3>2. /\ f[s \ {Max(s)}] \in V /\ items[Max(s)] \in V
          /\ items[Max(s)] = parts[Max(s)][field]
      BY <1>2, <3>1
    <3>3. f[s] = step[<<f[s \ {Max(s)}], items[Max(s)]>>]
      BY <1>6, <2>1 DEF IsFold, FoldStep
    <3> QED
      BY <1>5, <3>2, <3>3
  <2>2. {} \in SUBSET (1 .. n) => f[{}] = base
    BY <1>6 DEF IsFold, FoldStep
  <2>3. \A s \in SUBSET (1 .. n) : f[s] = Rec(f, s)
    BY <2>1, <2>2
  <2> HIDE DEF Rec
  <2> QED
    BY <2>3
<1>8. F = [s \in SUBSET (1 .. n) |-> Rec(F, s)]
  BY Zenon, <1>7
<1>9. PICK h \in [0 .. n -> V] : IsChain(step, base, items, n, h)
  BY <1>2, <1>3, <1>4, ChainIsDefined
<1>10. \A i \in 1 .. n : h[i] = Plus(h[i - 1], <<x[i], d>>) /\ h[i - 1] \in V
  <2> TAKE i \in 1 .. n
  <2>1. h[i - 1] \in V /\ items[i] \in V /\ items[i] = <<x[i], d>>
    BY <1>2, <1>9
  <2> QED
    BY <1>5, <1>9, <2>1 DEF IsChain
<1> HIDE DEF F
<1>11. F[1 .. n] = h[n]
  <2>1. F[{}] = h[0]
    <3>1. {} \in SUBSET (1 .. n)
      OBVIOUS
    <3> QED
      BY <1>8, <1>9, <3>1 DEF IsChain
  <2>2. ASSUME NEW i \in 1 .. n, F[(1 .. i) \ {Max(1 .. i)}] = h[i - 1]
        PROVE  F[1 .. i] = h[i]
    <3>1. 1 .. i \in SUBSET (1 .. n) /\ i \in 1 .. i /\ i \in Nat \ {0}
      OBVIOUS
    <3>2. 1 .. i # {}
      BY Zenon, <3>1
    <3>3. Max(1 .. i) = i
      BY <3>1, LastOfPrefix
    <3>4. F[1 .. i] = Plus(h[i - 1], parts[i][field])
      BY <1>8, <2>2, <3>1, <3>2, <3>3
    <3> QED
      BY <1>10, <3>4
  <2> QED
    <3>1. n \in Nat
      OBVIOUS
    <3> HIDE DEF Rec
    <3> QED
      BY ONLY <2>1, <2>2, <3>1, FoldFollowsChain, ZenonT(30)
<1>12. PICK g \in [0 .. n -> Int] :
         g[0] = 0 /\ (\A i \in 1 .. n : g[i] = g[i - 1] + x[i]) /\ total = g[n]
  BY DEF IsSum
<1> DEFINE good == {i \in Nat : h[i][1] * d = g[i] * h[i][2]}
<1>13. 0 \in good
  <2>1. h[0] = <<0, 1>>
    BY <1>9 DEF IsChain, base
  <2> QED
    BY <1>12, <2>1
<1>14. ASSUME NEW i \in 1 .. n, i - 1 \in good PROVE i \in good
  <2> DEFINE p == h[i - 1][1]
             q == h[i - 1][2]
             gi == g[i - 1]
             xi == x[i]
  <2>1. i - 1 \in 0 .. n /\ i \in Nat
    OBVIOUS
  <2>2. p \in Int /\ q \in Int /\ gi \in Int /\ xi \in Int
    BY <1>10, <1>12, <2>1 DEF V, Fractions
  <2>3. p * d = gi * q
    BY <1>14
  <2>4. g[i] = gi + xi
    BY <1>12
  <2>5. h[i][1] = p * d + xi * q /\ h[i][2] = q * d
    BY <1>10 DEF Plus
  <2> HIDE DEF p, q, gi, xi, good
  <2>6. (p * d + xi * q) * d = (gi + xi) * (q * d)
    BY <2>2, <2>3, FractionStep
  <2>7. h[i][1] * d = g[i] * h[i][2]
    BY Zenon, <2>4, <2>5, <2>6
  <2> QED
    BY <2>1, <2>7 DEF good
<1>15. n \in good
  <2>1. good \in SUBSET Nat
    OBVIOUS
  <2> HIDE DEF good
  <2>2. 0 .. n \in SUBSET good
    BY <1>13, <1>14, <2>1, PrefixInduction
  <2> QED
    BY <2>2
<1>16. h[n][1] * d = total * h[n][2] /\ h[n][1] * d \in Int
  <2>1. n \in 0 .. n
    OBVIOUS
  <2>2. h[n][1] \in Int
    BY <1>9, <2>1 DEF V, Fractions
  <2> QED
    BY <1>12, <1>15, <2>2
<1>17. FractionOf(field, parts) = h[n]
  BY <1>1, <1>11
<1>18. SameFraction(<<total, d>>, h[n])
  BY <1>16 DEF SameFraction, AtMost
<1> QED
  BY Zenon, <1>17, <1>18


-----------------------------------------------------------------------------
(***************************************************************************)
(* The estimates of the workloads add up to that of their row.             *)
(***************************************************************************)
\* What an accepted row sums, with its workloads.
LEMMA RowSums ==
  ASSUME NEW suite, NEW row, IsAccepted(suite, row), NEW field \in AddedFields
  PROVE  LET n == Len(suite)
         IN  /\ n \in Nat /\ DOMAIN row.workloads = 1 .. n
             /\ Amount(row.workloads, field) \in [1 .. n -> Nat]
             /\ \A i \in 1 .. n : Amount(row.workloads, field)[i] = row.workloads[i].counts[field]
             /\ IsSum(Amount(row.workloads, field), n, row.counts[field])
             /\ row.counts[field] \in Nat
<1>1. /\ Len(row.workloads) = Len(suite) /\ Len(suite) \in Nat
      /\ DOMAIN row.workloads = 1 .. Len(suite)
      /\ AddsUp(row.workloads, field) /\ row.counts = AggregateOf(row.workloads)
  BY DEF IsAccepted, RowsAgree
<1> QED
  BY <1>1 DEF AddsUp, Amount

\* A field that is a multiple of one that adds up.
LEMMA MultipleReconciles ==
  ASSUME NEW n \in Nat, NEW a \in [1 .. n -> Int], NEW s, IsSum(a, n, s), NEW k \in Int,
         NEW c, \A i \in 1 .. n : c[i] = a[i] * k
  PROVE  IsSum(c, n, s * k)
<1>1. s \in Int
  BY SumType
<1>2. \A i \in 1 .. n : c[i] = k * a[i] + 0 * a[i]
  OBVIOUS
<1>3. 0 \in Int
  OBVIOUS
<1>4. IsSum(c, n, k * s + 0 * s)
  BY <1>2, <1>3, SumLinear
<1>5. k * s + 0 * s = s * k
  BY <1>1
<1> QED
  BY <1>4, <1>5

LEMMA Reordered ==
  ASSUME NEW x \in Int, NEW m \in Int, NEW ops \in Int, NEW lat \in Int, NEW w \in Int, NEW ns \in Int
  PROVE  x * ns + (m * ops * lat) * w = ns * x + (ops * lat * w) * m
OBVIOUS

EstimatesOf(row, profile, plan) ==
  [i \in DOMAIN row.workloads |-> EstimateWorkload(row.workloads[i], profile, plan)]

LEMMA WholeNumbersReconcile ==
  ASSUME NEW suite, NEW row, IsAccepted(suite, row),
         NEW profile, IsProfile(profile), NEW plan, IsPlan(plan),
         NEW field \in {"loads", "bytes", "operations"}
  PROVE  Estimate(row, profile, plan)[field] = TotalOf(field, EstimatesOf(row, profile, plan))
<1> DEFINE n == Len(suite)
           parts == EstimatesOf(row, profile, plan)
           a == Amount(row.workloads, "misses")
           b == Amount(row.workloads, "loaded")
           amount == [i \in 1 .. n |-> parts[i][field]]
           total == Estimate(row, profile, plan)[field]
           fold == TotalOf(field, parts)
           ops == plan.operations
<1>1. /\ n \in Nat /\ DOMAIN row.workloads = 1 .. n /\ ops \in Nat
      /\ a \in [1 .. n -> Nat] /\ IsSum(a, n, row.counts.misses)
      /\ \A i \in 1 .. n : a[i] = row.workloads[i].counts.misses
      /\ b \in [1 .. n -> Nat] /\ IsSum(b, n, row.counts.loaded)
      /\ \A i \in 1 .. n : b[i] = row.workloads[i].counts.loaded
  <2>1. "misses" \in AddedFields /\ "loaded" \in AddedFields
    BY DEF AddedFields
  <2> QED
    BY <2>1, RowSums DEF IsPlan
<1>2. /\ DOMAIN parts = 1 .. n
      /\ \A i \in 1 .. n :
           parts[i] = TransferAccounting(row.workloads[i].counts.misses,
                                         row.workloads[i].counts.loaded, profile, plan)
  BY <1>1 DEF EstimatesOf, EstimateWorkload
<1>3. \A i \in 1 .. n : /\ parts[i]["loads"] = a[i] /\ parts[i]["bytes"] = b[i]
                        /\ parts[i]["operations"] = a[i] * ops
  <2> TAKE i \in 1 .. n
  <2>1. /\ TransferAccounting(row.workloads[i].counts.misses,
                              row.workloads[i].counts.loaded, profile, plan).loads = a[i]
        /\ TransferAccounting(row.workloads[i].counts.misses,
                              row.workloads[i].counts.loaded, profile, plan).bytes = b[i]
        /\ TransferAccounting(row.workloads[i].counts.misses,
                              row.workloads[i].counts.loaded, profile, plan).operations
             = a[i] * ops
    BY <1>1 DEF TransferAccounting
  <2> HIDE DEF parts
  <2> QED
    BY <1>2, <2>1
<1>4. /\ Estimate(row, profile, plan)["loads"] = row.counts.misses
      /\ Estimate(row, profile, plan)["bytes"] = row.counts.loaded
      /\ Estimate(row, profile, plan)["operations"] = row.counts.misses * ops
  BY DEF Estimate, TransferAccounting
<1> HIDE DEF n, parts, a, b, ops
<1>5. \A i \in 1 .. n : a[i] \in Int /\ b[i] \in Int /\ a[i] * ops \in Int
  BY <1>1
<1>6. \A i \in 1 .. n : parts[i][field] \in Int
  BY <1>3, <1>5
<1>7. IsSum(amount, n, fold)
  BY <1>1, <1>2, <1>6, SumOfParts
<1>8. IsSum(amount, n, total)
  <2>1. a \in [1 .. n -> Int] /\ b \in [1 .. n -> Int] /\ ops \in Int /\ 1 \in Int
    BY <1>1
  <2>2. CASE field = "operations"
    <3>1. \A i \in 1 .. n : amount[i] = a[i] * ops
      BY <1>3, <2>2
    <3> HIDE DEF amount
    <3>2. IsSum(amount, n, row.counts.misses * ops)
      BY <1>1, <2>1, <3>1, MultipleReconciles
    <3> QED
      BY <1>4, <2>2, <3>2
  <2>3. CASE field = "loads"
    <3>1. \A i \in 1 .. n : amount[i] = a[i] * 1
      BY <1>3, <1>5, <2>3
    <3> HIDE DEF amount
    <3>2. IsSum(amount, n, row.counts.misses * 1)
      BY <1>1, <2>1, <3>1, MultipleReconciles
    <3>3. row.counts.misses \in Int
      BY <1>1, SumType
    <3>4. total = row.counts.misses * 1
      BY <1>4, <2>3, <3>3
    <3> HIDE DEF total
    <3> QED
      BY <3>2, <3>4
  <2>4. CASE field = "bytes"
    <3>1. \A i \in 1 .. n : amount[i] = b[i] * 1
      BY <1>3, <1>5, <2>4
    <3> HIDE DEF amount
    <3>2. IsSum(amount, n, row.counts.loaded * 1)
      BY <1>1, <2>1, <3>1, MultipleReconciles
    <3>3. row.counts.loaded \in Int
      BY <1>1, SumType
    <3>4. total = row.counts.loaded * 1
      BY <1>4, <2>4, <3>3
    <3> HIDE DEF total
    <3> QED
      BY <3>2, <3>4
  <2> QED
    BY <2>2, <2>3, <2>4
<1>9. amount \in [1 .. n -> Int]
  BY <1>6
<1> HIDE DEF amount, total, fold
<1>10. total = fold
  BY <1>1, <1>7, <1>8, <1>9, SumUnique
<1> QED
  BY <1>10 DEF total, fold, parts

LEMMA FractionsReconcile ==
  ASSUME NEW suite, NEW row, IsAccepted(suite, row),
         NEW profile, IsProfile(profile), NEW plan, IsPlan(plan),
         NEW field \in {"payload", "setup", "service"}
  PROVE  SameFraction(Estimate(row, profile, plan)[field],
                      FractionOf(field, EstimatesOf(row, profile, plan)))
<1> DEFINE n == Len(suite)
           parts == EstimatesOf(row, profile, plan)
           a == Amount(row.workloads, "misses")
           b == Amount(row.workloads, "loaded")
           ops == plan.operations
           lat == profile.setup
           w == profile.bandwidth
           ns == NsPerSecond
           S == row.counts.misses
           T == row.counts.loaded
           fold == FractionOf(field, parts)
<1>1. /\ n \in Nat /\ DOMAIN row.workloads = 1 .. n
      /\ ops \in Nat /\ lat \in Nat /\ w \in Nat /\ ns \in Nat
      /\ a \in [1 .. n -> Nat] /\ IsSum(a, n, S)
      /\ \A i \in 1 .. n : a[i] = row.workloads[i].counts.misses
      /\ b \in [1 .. n -> Nat] /\ IsSum(b, n, T)
      /\ \A i \in 1 .. n : b[i] = row.workloads[i].counts.loaded
  <2>1. "misses" \in AddedFields /\ "loaded" \in AddedFields
    BY DEF AddedFields
  <2> QED
    BY <2>1, RowSums, NsAssumption DEF IsPlan, IsProfile
<1>2. ASSUME NEW m, NEW x
      PROVE  LET t == TransferAccounting(m, x, profile, plan)
             IN  /\ t["payload"] = <<x, w>> /\ t["setup"] = <<m * ops * lat, ns>>
                 /\ t["service"] = <<x * ns + (m * ops * lat) * w, w * ns>>
  BY DEF TransferAccounting, Plus
<1>3. DOMAIN parts = 1 .. n
  BY <1>1 DEF EstimatesOf
<1>4. \A i \in 1 .. n : /\ parts[i]["payload"] = <<b[i], w>>
                        /\ parts[i]["setup"] = <<a[i] * ops * lat, ns>>
                        /\ parts[i]["service"] = <<b[i] * ns + (a[i] * ops * lat) * w, w * ns>>
  <2> TAKE i \in 1 .. n
  <2>1. parts[i] = TransferAccounting(a[i], b[i], profile, plan)
    BY <1>1 DEF EstimatesOf, EstimateWorkload
  <2> HIDE DEF parts, a, b, ops, lat, w, ns
  <2> QED
    BY <1>2, <2>1
<1>5. /\ Estimate(row, profile, plan)["payload"] = <<T, w>>
      /\ Estimate(row, profile, plan)["setup"] = <<S * ops * lat, ns>>
      /\ Estimate(row, profile, plan)["service"] = <<T * ns + (S * ops * lat) * w, w * ns>>
  <2>1. Estimate(row, profile, plan) = TransferAccounting(S, T, profile, plan)
    BY DEF Estimate
  <2> HIDE DEF a, b, ops, lat, w, ns, S, T
  <2> QED
    BY <1>2, <2>1
<1>6. a \in [1 .. n -> Int] /\ b \in [1 .. n -> Int]
      /\ \A i \in 1 .. n : a[i] \in Int /\ b[i] \in Int
  BY <1>1
<1>7. S \in Int /\ T \in Int
  BY <1>1, SumType
<1> HIDE DEF n, parts, a, b, ops, lat, w, ns, S, T
<1>8. CASE field = "payload"
  <2>1. \A i \in 1 .. n : parts[i][field] = <<b[i], w>>
    BY <1>4, <1>8
  <2>2. w \in Int
    BY <1>1
  <2>3. SameFraction(<<T, w>>, fold)
    BY <1>1, <1>3, <1>6, <2>1, <2>2, SumOfFractions
  <2> QED
    BY <1>5, <1>8, <2>3 DEF parts
<1>9. CASE field = "setup"
  <2> DEFINE x == [i \in 1 .. n |-> a[i] * (ops * lat)]
             X == S * (ops * lat)
  <2>1. ops * lat \in Int /\ ns \in Int
    BY <1>1
  <2>2. ASSUME NEW m \in Int PROVE m * ops * lat = m * (ops * lat) /\ m * (ops * lat) \in Int
    BY <1>1
  <2>3. x \in [1 .. n -> Int]
    BY <1>6, <2>2
  <2>4. \A i \in 1 .. n : x[i] = a[i] * (ops * lat)
    OBVIOUS
  <2>5. \A i \in 1 .. n : parts[i][field] = <<x[i], ns>>
    <3> TAKE i \in 1 .. n
    <3>1. a[i] * ops * lat = a[i] * (ops * lat)
      BY <1>6, <2>2
    <3> QED
      BY <1>4, <1>9, <2>4, <3>1
  <2>6. S * ops * lat = X
    BY <1>7, <2>2
  <2> HIDE DEF x, X
  <2>7. IsSum(x, n, X)
    <3> DEFINE k == ops * lat
    <3>1. k \in Int /\ \A i \in 1 .. n : x[i] = a[i] * k
      BY <2>1, <2>4
    <3>2. X = S * k
      BY DEF X
    <3> HIDE DEF k
    <3>3. IsSum(x, n, S * k)
      BY <1>1, <1>6, <3>1, MultipleReconciles
    <3> QED
      BY <3>2, <3>3
  <2>8. SameFraction(<<X, ns>>, fold)
    BY <1>1, <1>3, <2>1, <2>3, <2>5, <2>7, SumOfFractions
  <2>9. Estimate(row, profile, plan)[field] = <<X, ns>>
    BY <1>5, <1>9, <2>6
  <2> QED
    BY <2>8, <2>9 DEF parts
<1>10. CASE field = "service"
  <2> DEFINE k == ops * lat * w
             x == [i \in 1 .. n |-> ns * b[i] + k * a[i]]
             X == ns * T + k * S
  <2>1. k \in Int /\ ns \in Int
    <3>1. ops * lat \in Int
      BY <1>1
    <3> QED
      BY <1>1, <3>1
  <2>2. ASSUME NEW m \in Int, NEW y \in Int
        PROVE  y * ns + (m * ops * lat) * w = ns * y + k * m
    <3>1. ops \in Int /\ lat \in Int /\ w \in Int /\ ns \in Int
      BY <1>1
    <3> QED
      BY <3>1, Reordered
  <2>3. T * ns + (S * ops * lat) * w = X
    BY <1>7, <2>2
  <2>4. \A i \in 1 .. n : b[i] * ns + (a[i] * ops * lat) * w = x[i]
    BY <1>6, <2>2
  <2> HIDE DEF k
  <2>5. x \in [1 .. n -> Int]
    BY <1>6, <2>1
  <2>6. \A i \in 1 .. n : x[i] = ns * b[i] + k * a[i]
    OBVIOUS
  <2>7. w * ns \in Int
    BY <1>1
  <2> HIDE DEF x
  <2>8. IsSum(x, n, ns * T + k * S)
    BY <1>1, <1>6, <2>1, <2>6, SumLinear
  <2> HIDE DEF X
  <2>9. IsSum(x, n, X)
    BY <2>8 DEF X
  <2>10. \A i \in 1 .. n : parts[i][field] = <<x[i], w * ns>>
    BY <1>4, <1>10, <2>4
  <2> DEFINE d == w * ns
  <2>11. d \in Int /\ \A i \in 1 .. n : parts[i][field] = <<x[i], d>>
    BY <2>7, <2>10
  <2>12. Estimate(row, profile, plan)[field] = <<X, d>>
    BY <1>5, <1>10, <2>3
  <2> HIDE DEF d
  <2>13. SameFraction(<<X, d>>, fold)
    BY <1>1, <1>3, <2>5, <2>9, <2>11, SumOfFractions
  <2> QED
    BY <2>12, <2>13 DEF parts
<1> QED
  BY <1>8, <1>9, <1>10

LEMMA EstimateRowReconciles ==
  ASSUME NEW suite, NEW row, IsAccepted(suite, row),
         NEW profile, IsProfile(profile), NEW plan, IsPlan(plan)
  PROVE  EstimateReconciles(LifecycleEstimateRow(row, profile, plan))
<1> DEFINE est == LifecycleEstimateRow(row, profile, plan)
<1>1. est.estimate = Estimate(row, profile, plan) /\ est.workloads = EstimatesOf(row, profile, plan)
  BY DEF LifecycleEstimateRow, EstimatesOf
<1> HIDE DEF est
<1>2. \A field \in {"loads", "bytes", "operations"} :
        est.estimate[field] = TotalOf(field, est.workloads)
  BY <1>1, WholeNumbersReconcile, ZenonT(30)
<1>3. \A field \in {"payload", "setup", "service"} :
        SameFraction(est.estimate[field], FractionOf(field, est.workloads))
  BY <1>1, FractionsReconcile, Zenon
<1>4. EstimateReconciles(est)
  BY <1>2, <1>3, Zenon DEF EstimateReconciles, TotalOf, FractionOf
<1> QED
  BY <1>4 DEF est


-----------------------------------------------------------------------------
(***************************************************************************)
(* The aggregate hit rate lies between those of the workloads: a rate that *)
(* is at most that of every workload is at most their mediant.             *)
(***************************************************************************)
NoneBelow(n, h, r, p, q) == \A i \in 1 .. n : AtMost(<<p, q>>, <<h[i], r[i]>>)

NoneAbove(n, h, r, p, q) == \A i \in 1 .. n : AtMost(<<h[i], r[i]>>, <<p, q>>)

LEMMA MediantLies ==
  ASSUME NEW n \in Nat, NEW h \in [1 .. n -> Nat], NEW r \in [1 .. n -> Nat],
         NEW H, NEW R, IsSum(h, n, H), IsSum(r, n, R), NEW p \in Nat, NEW q \in Nat
  PROVE  /\ NoneBelow(n, h, r, p, q) => AtMost(<<p, q>>, <<H, R>>)
         /\ NoneAbove(n, h, r, p, q) => AtMost(<<H, R>>, <<p, q>>)
<1> DEFINE a == [i \in 1 .. n |-> r[i] * p]
           b == [i \in 1 .. n |-> h[i] * q]
<1>1. a \in [1 .. n -> Int] /\ b \in [1 .. n -> Int]
  <2>1. \A i \in 1 .. n : r[i] * p \in Int /\ h[i] * q \in Int
    <3> TAKE i \in 1 .. n
    <3>1. r[i] \in Nat /\ h[i] \in Nat
      OBVIOUS
    <3> QED
      BY <3>1, TimesNatural
  <2> QED
    BY <2>1
<1>2. h \in [1 .. n -> Int] /\ r \in [1 .. n -> Int] /\ p \in Int /\ q \in Int
  OBVIOUS
<1>3. \A i \in 1 .. n : a[i] = r[i] * p /\ b[i] = h[i] * q
  OBVIOUS
<1> HIDE DEF a, b
<1>4. IsSum(a, n, R * p) /\ IsSum(b, n, H * q)
  BY <1>2, <1>3, MultipleReconciles
<1>5. H \in Nat /\ R \in Nat
  BY SumNatural
<1>6. p * R = R * p
  BY <1>5
<1>7. \A i \in 1 .. n : p * r[i] = a[i] /\ h[i] * q = b[i]
  BY <1>3
<1>8. ASSUME NoneBelow(n, h, r, p, q)
      PROVE  AtMost(<<p, q>>, <<H, R>>)
  <2>1. \A i \in 1 .. n : a[i] <= b[i]
    <3> TAKE i \in 1 .. n
    <3>1. p * r[i] <= h[i] * q
      BY <1>8 DEF AtMost, NoneBelow
    <3> QED
      BY <1>7, <3>1
  <2>2. R * p <= H * q
    BY <1>1, <1>4, <2>1, SumMonotone
  <2> QED
    BY <1>6, <2>2 DEF AtMost
<1>9. ASSUME NoneAbove(n, h, r, p, q)
      PROVE  AtMost(<<H, R>>, <<p, q>>)
  <2>1. \A i \in 1 .. n : b[i] <= a[i]
    <3> TAKE i \in 1 .. n
    <3>1. h[i] * q <= p * r[i]
      BY <1>9 DEF AtMost, NoneAbove
    <3> QED
      BY <1>7, <3>1
  <2>2. H * q <= R * p
    BY <1>1, <1>4, <2>1, SumMonotone
  <2> QED
    BY <1>6, <2>2 DEF AtMost
<1> QED
  BY <1>8, <1>9

LEMMA RatesLieBetween ==
  ASSUME NEW suite, NEW row, IsAccepted(suite, row)
  PROVE  LET rate == <<row.counts.hits, row.counts.requests>>
             range == MetricRange(HitRates(row))
         IN  /\ \A v \in range.minimum : AtMost(v, rate)
             /\ \A v \in range.maximum : AtMost(rate, v)
<1> DEFINE n == Len(suite)
           h == Amount(row.workloads, "hits")
           m == Amount(row.workloads, "misses")
           r == Amount(row.workloads, "requests")
           H == row.counts.hits
           R == row.counts.requests
           values == HitRates(row)
           range == MetricRange(values)
<1>1. /\ n \in Nat /\ DOMAIN row.workloads = 1 .. n
      /\ h \in [1 .. n -> Nat] /\ IsSum(h, n, H)
      /\ r \in [1 .. n -> Nat] /\ IsSum(r, n, R)
      /\ m \in [1 .. n -> Nat]
      /\ \A i \in 1 .. n : h[i] = row.workloads[i].counts.hits
      /\ \A i \in 1 .. n : r[i] = row.workloads[i].counts.requests
      /\ \A i \in 1 .. n : m[i] = row.workloads[i].counts.misses
  <2>1. "hits" \in AddedFields /\ "requests" \in AddedFields /\ "misses" \in AddedFields
    BY DEF AddedFields
  <2> QED
    BY <2>1, RowSums
<1>2. \A i \in 1 .. n : row.workloads[i].counts.requests
                          = row.workloads[i].counts.hits + row.workloads[i].counts.misses
  BY DEF IsAccepted, RowsAgree, CountsTrace
<1>3. \A i \in 1 .. n : /\ h[i] \in Nat /\ r[i] \in Nat /\ m[i] \in Nat
                        /\ r[i] = h[i] + m[i]
                        /\ row.workloads[i].counts.hits = h[i]
                        /\ row.workloads[i].counts.requests = r[i]
  BY <1>1, <1>2
<1>4. values = {<<row.workloads[i].order, <<h[i], r[i]>>>> : i \in {j \in 1 .. n : r[j] > 0}}
  <2>1. {j \in DOMAIN row.workloads : row.workloads[j].counts.requests > 0}
          = {j \in 1 .. n : r[j] > 0}
    BY <1>1
  <2>2. \A i \in {j \in 1 .. n : r[j] > 0} :
          <<row.workloads[i].order,
            <<row.workloads[i].counts.hits, row.workloads[i].counts.requests>>>>
            = <<row.workloads[i].order, <<h[i], r[i]>>>>
    BY <1>1
  <2> HIDE DEF h, r, n
  <2> QED
    BY <2>1, <2>2 DEF HitRates
<1> HIDE DEF n, h, m, r, H, R, values
\* A rate among the workloads' that every other is compared with.
<1>5. ASSUME NEW v \in values
      PROVE  /\ v[2] = <<v[2][1], v[2][2]>> /\ v[2][1] \in Nat /\ v[2][2] \in Nat
  <2>1. PICK i \in 1 .. n : v = <<row.workloads[i].order, <<h[i], r[i]>>>>
    BY <1>4
  <2> QED
    BY <1>3, <2>1
<1>6. ASSUME NEW i \in 1 .. n
      PROVE  \/ \E w \in values : w[2] = <<h[i], r[i]>>
             \/ h[i] = 0 /\ r[i] = 0
  <2>1. CASE r[i] > 0
    <3>1. <<row.workloads[i].order, <<h[i], r[i]>>>> \in values
      BY <1>4, <2>1
    <3> QED
      BY <3>1
  <2>2. CASE ~ (r[i] > 0)
    BY <1>3, <2>2
  <2> QED
    BY <2>1, <2>2
<1>7. ASSUME NEW v \in values, \A w \in values : AtMost(v[2], w[2])
      PROVE  AtMost(v[2], <<H, R>>)
  <2> DEFINE p == v[2][1]
             q == v[2][2]
  <2>1. v[2] = <<p, q>> /\ p \in Nat /\ q \in Nat
    BY <1>5
  <2> HIDE DEF p, q
  <2>2. NoneBelow(n, h, r, p, q)
    <3> SUFFICES ASSUME NEW i \in 1 .. n PROVE AtMost(<<p, q>>, <<h[i], r[i]>>)
      BY DEF NoneBelow
    <3>1. CASE h[i] = 0 /\ r[i] = 0
      <4>1. p * 0 <= 0 * q
        BY <2>1
      <4> QED
        BY <3>1, <4>1 DEF AtMost
    <3>2. CASE \E w \in values : w[2] = <<h[i], r[i]>>
      BY <1>7, <2>1, <3>2
    <3> QED
      BY <1>6, <3>1, <3>2
  <2>3. AtMost(<<p, q>>, <<H, R>>)
    BY <1>1, <2>1, <2>2, MediantLies
  <2> QED
    BY <2>1, <2>3
<1>8. ASSUME NEW v \in values, \A w \in values : AtMost(w[2], v[2])
      PROVE  AtMost(<<H, R>>, v[2])
  <2> DEFINE p == v[2][1]
             q == v[2][2]
  <2>1. v[2] = <<p, q>> /\ p \in Nat /\ q \in Nat
    BY <1>5
  <2> HIDE DEF p, q
  <2>2. NoneAbove(n, h, r, p, q)
    <3> SUFFICES ASSUME NEW i \in 1 .. n PROVE AtMost(<<h[i], r[i]>>, <<p, q>>)
      BY DEF NoneAbove
    <3>1. CASE h[i] = 0 /\ r[i] = 0
      <4>1. 0 * q <= p * 0
        BY <2>1
      <4> QED
        BY <3>1, <4>1 DEF AtMost
    <3>2. CASE \E w \in values : w[2] = <<h[i], r[i]>>
      BY <1>8, <2>1, <3>2
    <3> QED
      BY <1>6, <3>1, <3>2
  <2>3. AtMost(<<H, R>>, <<p, q>>)
    BY <1>1, <2>1, <2>2, MediantLies
  <2> QED
    BY <2>1, <2>3
<1>9. /\ range.minimum = {v[2] : v \in {u \in values : \A w \in values : AtMost(u[2], w[2])}}
      /\ range.maximum = {v[2] : v \in {u \in values : \A w \in values : AtMost(w[2], u[2])}}
  BY DEF MetricRange
<1> HIDE DEF range
<1>10. \A v \in range.minimum : AtMost(v, <<H, R>>)
  BY <1>7, <1>9
<1>11. \A v \in range.maximum : AtMost(<<H, R>>, v)
  BY <1>8, <1>9
<1> QED
  BY <1>10, <1>11 DEF range, values, H, R


-----------------------------------------------------------------------------
(***************************************************************************)
(* The configuration that the analyses are asked for.                      *)
(***************************************************************************)
VersionThree == [Feasible EXCEPT !.version = 3]

LEMMA FeasibleConfig ==
  ASSUME DeclaredInv
  PROVE  /\ Capacity \in Feasible.capacities
         /\ IsFiniteSet(Feasible.capacities)
         /\ Feasible.policies = ToSet(PolicyOrder)
         /\ Feasible.version = Config.version
         /\ \A c \in Feasible.capacities, i \in DOMAIN declared : FitsCapacity(declared[i], c)
         /\ VersionThree.capacities = Feasible.capacities
         /\ VersionThree.policies = Feasible.policies
         /\ VersionThree.profiles = Feasible.profiles
         /\ VersionThree.plans = Feasible.plans
         /\ VersionThree.version = 3
<1>1. Feasible.capacities = {c \in Config.capacities :
                               \A i \in DOMAIN declared : FitsCapacity(declared[i], c)}
  BY DEF Feasible
<1>2. ASSUME NEW i \in DOMAIN declared PROVE FitsCapacity(declared[i], Capacity)
  <2>1. declared \in Seq(Seq(EventsThatFit))
    BY DEF DeclaredInv, DeclaredFits
  <2>2. declared[i] \in Seq(EventsThatFit)
    BY <2>1, LenProperties
  <2>3. \A j \in DOMAIN declared[i] : declared[i][j] \in EventsThatFit
    BY <2>2, LenProperties
  <2> QED
    BY <2>3 DEF FitsCapacity, EventsThatFit
<1>3. IsFiniteSet(Feasible.capacities)
  <2>1. Feasible.capacities \in SUBSET Config.capacities
    BY <1>1
  <2> QED
    BY <2>1, ConfigAssumption, FS_Subset
<1>4. /\ Feasible.policies = Config.policies /\ Feasible.version = Config.version
  BY DEF Feasible
<1>5. /\ VersionThree.capacities = Feasible.capacities
      /\ VersionThree.policies = Feasible.policies
      /\ VersionThree.profiles = Feasible.profiles
      /\ VersionThree.plans = Feasible.plans
  BY DEF VersionThree
<1>6. VersionThree.version = 3
  BY DEF VersionThree
<1> QED
  BY <1>1, <1>2, <1>3, <1>4, <1>5, <1>6, ConfigAssumption

LEMMA EnginesAccept ==
  ASSUME DeclaredInv
  PROVE  EngineAccepts(1, Feasible) /\ EngineAccepts(2, VersionThree)
<1>1. /\ Feasible.capacities # {} /\ Feasible.capacities \subseteq Nat \ {0}
      /\ Feasible.policies = Config.policies
      /\ Feasible.profiles = Config.profiles /\ Feasible.plans = Config.plans
      /\ Feasible.version = Config.version
  BY FeasibleParts, FeasibleConfig
<1>2. IsConfig(Config)
  BY ConfigAssumption
<1>3. HasValidFields(Feasible)
  BY <1>1, <1>2 DEF IsConfig, HasValidFields
<1>4. IsConfig(Feasible)
  BY <1>1, <1>2, <1>3 DEF IsConfig
<1>5. IsConfigV3(VersionThree)
  BY <1>3, FeasibleConfig DEF IsConfigV3, HasValidFields
<1> QED
  BY <1>4, <1>5 DEF EngineAccepts

\* A finite set of naturals has a greatest.
LEMMA FiniteIsBounded ==
  ASSUME NEW S \in SUBSET Nat, IsFiniteSet(S)
  PROVE  \E bound \in Nat : \A x \in S : x <= bound
<1>1. PICK n \in Nat : ExistsSurjection(1 .. n, S)
  BY FS_NatSurjection
<1>2. PICK f : f \in [1 .. n -> S] /\ \A x \in S : \E i \in 1 .. n : f[i] = x
  BY <1>1 DEF ExistsSurjection, Surjection
<1>3. f \in [1 .. n -> Nat]
  BY <1>2
<1>4. PICK bound \in Nat : \A i \in 1 .. n : f[i] <= bound
  BY <1>3, TermsAreBounded
<1> QED
  BY <1>2, <1>4

LEMMA GreatestCapacity ==
  ASSUME DeclaredInv
  PROVE  Max(Feasible.capacities) \in Feasible.capacities
<1>1. /\ Feasible.capacities \in SUBSET Nat /\ IsFiniteSet(Feasible.capacities)
      /\ Feasible.capacities # {}
  BY FeasibleParts, FeasibleConfig
<1>2. PICK bound \in Nat : \A x \in Feasible.capacities : x <= bound
  BY <1>1, FiniteIsBounded
<1> QED
  BY <1>1, <1>2, GreatestOfBounded


-----------------------------------------------------------------------------
(***************************************************************************)
(* The sweep of one workload.                                              *)
(***************************************************************************)
LEMMA DeclaredTrace ==
  ASSUME DeclaredInv, NEW i \in DOMAIN declared
  PROVE  /\ declared[i] \in Seq(SUBSET Experts)
         /\ \A c \in Feasible.capacities : FitsCapacity(declared[i], c)
<1>1. declared[i] \in Seq(SUBSET Experts)
  BY LenProperties DEF DeclaredInv, DeclaredTypeOK
<1> QED
  BY <1>1, FeasibleConfig

LEMMA SweepIsAccepted ==
  ASSUME DeclaredInv, NEW trace \in Seq(SUBSET Experts),
         \A c \in Feasible.capacities : FitsCapacity(trace, c)
  PROVE  SweepAccepts(trace, Feasible.capacities)
<1> DEFINE amounts == {0} \cup {Bytes(required) : required \in ToSet(trace)}
           C == Feasible.capacities
<1>1. C # {} /\ C \in SUBSET Nat /\ Max(C) \in C
  BY FeasibleConfig, FeasibleParts, GreatestCapacity
<1>2. ToSet(trace) = {trace[j] : j \in DOMAIN trace}
  BY DEF ToSet
<1>3. \A required \in ToSet(trace) :
        /\ required \in SUBSET Experts
        /\ \A c \in C : Bytes(required) <= c
  <2> TAKE required \in ToSet(trace)
  <2>1. PICK j \in DOMAIN trace : required = trace[j]
    BY <1>2
  <2>2. trace[j] \in SUBSET Experts
    BY LenProperties
  <2>3. \A c \in C : Bytes(trace[j]) <= c
    BY DEF FitsCapacity
  <2> QED
    BY <2>1, <2>2, <2>3
<1>4. \A required \in ToSet(trace) : Bytes(required) \in Nat
  BY <1>3, Amounts
<1>5. amounts \in SUBSET Nat /\ amounts # {}
  BY <1>4
<1>6. \A c \in C : \A x \in amounts : x <= c
  BY <1>1, <1>3
<1> HIDE DEF amounts, C
<1>7. ASSUME NEW c \in C PROVE c >= Max(amounts)
  <2>1. c \in Nat /\ \A x \in amounts : x <= c
    BY <1>1, <1>6
  <2>2. Max(amounts) \in amounts
    BY <1>5, <2>1, GreatestOfBounded
  <2>3. Max(amounts) \in Nat /\ Max(amounts) <= c
    BY <1>5, <2>1, <2>2
  <2> QED
    BY <2>1, <2>3
<1>8. ByteContext(trace).largest = Max(amounts)
  BY DEF ByteContext, amounts
<1>9. \A c \in C : c >= ByteContext(trace).largest
  BY <1>7, <1>8
<1>10. FitsCapacity(trace, Max(C))
  BY <1>1 DEF C
<1> QED
  BY <1>1, <1>9, <1>10 DEF SweepAccepts, C

\* What a simulation of one trace counts.
LEMMA SimulationCounts ==
  ASSUME NEW trace \in Seq(SUBSET Experts), NEW policy, NEW capacity
  PROVE  LET row == Simulate(policy, capacity, trace)
         IN  /\ row.policy = policy /\ row.capacity = capacity
             /\ row.counts = Replay(policy, capacity, NewCache, trace).counts
             /\ row.counts.events = Len(trace)
             /\ row.counts.requests = RequestsOf(trace)
             /\ row.counts.requests = row.counts.hits + row.counts.misses
<1> DEFINE row == Simulate(policy, capacity, trace)
           counts == Replay(policy, capacity, NewCache, trace).counts
<1>1. row.policy = policy /\ row.capacity = capacity /\ row.counts = counts
  BY Zenon DEF Simulate
<1>2. CountsTrace(counts, trace)
  BY NewCacheType, ReplayCountsTrace
<1> HIDE DEF row, counts
<1>3. Sizes(trace) \in [1 .. Len(trace) -> Int] /\ Len(trace) \in Nat
  BY SizesType
<1>4. IsSum(Sizes(trace), Len(trace), RequestsOf(trace))
  BY SumOfSizes
<1>5. /\ counts.events = Len(trace)
      /\ IsSum(Sizes(trace), Len(trace), counts.requests)
      /\ counts.requests = counts.hits + counts.misses
  BY <1>2 DEF CountsTrace
<1> DEFINE x == counts.requests
           y == RequestsOf(trace)
<1>6. IsSum(Sizes(trace), Len(trace), x) /\ IsSum(Sizes(trace), Len(trace), y)
  BY <1>4, <1>5
<1> HIDE DEF x, y
<1>7. x = y
  BY <1>3, <1>6, SumUnique
<1> QED
  BY <1>1, <1>5, <1>7 DEF row, counts, x, y

LEMMA EngineDerives ==
  ASSUME NEW trace \in Seq(SUBSET Experts), NEW config
  PROVE  DerivesFrom(trace, Engine(trace, config), config.capacities, config.policies)
<1> DEFINE rows == Engine(trace, config)
           P == config.policies
           C == config.capacities
           Row(policy, capacity) == Simulate(policy, capacity, trace)
<1>1. rows = {Row(policy, capacity) : policy \in P, capacity \in C}
  BY DEF Engine
<1>2. \A policy, capacity :
        LET row == Row(policy, capacity)
        IN  /\ row.policy = policy /\ row.capacity = capacity
            /\ row.counts.events = Len(trace)
            /\ row.counts.requests = RequestsOf(trace)
            /\ row.counts.requests = row.counts.hits + row.counts.misses
  BY SimulationCounts
<1> HIDE DEF rows, P, C, Row
<1>3. {<<row.policy, row.capacity>> : row \in rows} = P \X C
  <2>1. \A row \in rows : <<row.policy, row.capacity>> \in P \X C
    BY <1>1, <1>2
  <2>2. ASSUME NEW p \in P \X C PROVE \E row \in rows : <<row.policy, row.capacity>> = p
    <3>1. p = <<p[1], p[2]>> /\ p[1] \in P /\ p[2] \in C
      OBVIOUS
    <3>2. Row(p[1], p[2]) \in rows
      BY <1>1, <3>1
    <3>3. Row(p[1], p[2]).policy = p[1] /\ Row(p[1], p[2]).capacity = p[2]
      BY <1>2
    <3> QED
      BY <3>1, <3>2, <3>3
  <2> QED
    BY <2>1, <2>2
<1>4. \A row \in rows : /\ row.counts.events = Len(trace)
                        /\ row.counts.requests = RequestsOf(trace)
                        /\ row.counts.requests = row.counts.hits + row.counts.misses
  BY <1>1, <1>2
<1> QED
  BY <1>3, <1>4, Zenon DEF DerivesFrom, RequestsOf, rows, P, C

LEMMA ViewsAgree ==
  ASSUME DeclaredInv, NEW trace
  PROVE  Analysis(trace, Feasible) = StageQualifiedAnalysis(trace, VersionThree)
<1> DEFINE P == Feasible.policies
           C == Feasible.capacities
           F == Feasible.profiles
           L == Feasible.plans
           Row(policy, capacity) == Simulate(policy, capacity, trace)
<1>1. (IF Feasible.version = 1 THEN {DefaultPlan} ELSE Feasible.plans) = L
  BY FeasibleConfig, FeasibleParts, ConfigAssumption DEF IsConfig
<1>2. Analysis(trace, Feasible) =
        {SensitivityRow(Row(policy, capacity), profile, plan) :
           policy \in P, capacity \in C, profile \in F, plan \in L}
  <2> DEFINE plans == IF Feasible.version = 1 THEN {DefaultPlan} ELSE Feasible.plans
  <2>1. Analysis(trace, Feasible) =
          {SensitivityRow(Row(policy, capacity), profile, plan) :
             policy \in P, capacity \in C, profile \in F, plan \in plans}
    <3> HIDE DEF plans
    <3> QED
      BY DEF Analysis, SensitivitySweep, plans
  <2>2. plans = L
    BY <1>1
  <2> HIDE DEF plans, L
  <2> QED
    BY <2>1, <2>2
<1>3. Engine(trace, VersionThree) = {Row(policy, capacity) : policy \in P, capacity \in C}
  BY FeasibleConfig DEF Engine
<1>4. StageQualifiedAnalysis(trace, VersionThree) =
        {SensitivityRow(row, profile, plan) :
           row \in {Row(policy, capacity) : policy \in P, capacity \in C},
           profile \in F, plan \in L}
  <2> HIDE DEF Row
  <2>1. VersionThree.profiles = F /\ VersionThree.plans = L
    BY FeasibleConfig
  <2> HIDE DEF P, C, F, L
  <2> QED
    BY <1>3, <2>1 DEF StageQualifiedAnalysis, DerivedSensitivity
<1> HIDE DEF P, C, F, L, Row
<1> QED
  BY <1>2, <1>4

\* The rows of the grid and of the sweep of workload i name the same replay.
LEMMA ColdCellIsSimulation ==
  ASSUME NEW suite \in Seq(DeclaredSet), NEW policy, NEW capacity, NEW i \in 1 .. Len(suite)
  PROVE  SimulateWorkloads(suite, capacity, policy, "cold_per_workload").workloads[i].counts =
           Simulate(policy, capacity, suite[i].events).counts
<1> DEFINE row == SimulateWorkloads(suite, capacity, policy, "cold_per_workload")
<1>1. PICK caches : IsCell(suite, "cold_per_workload", policy, capacity, row, caches)
  BY SimulatedCell
<1> HIDE DEF row
<1>2. row.workloads[i] = RowFor(suite, "cold_per_workload", policy, capacity, caches, i)
  BY <1>1 DEF IsCell, LifecycleFacts
<1>3. StartCache("cold_per_workload", caches[i - 1]) = NewCache
  BY DEF StartCache
<1>4. row.workloads[i].counts = Replay(policy, capacity, NewCache, suite[i].events).counts
  BY <1>2, <1>3 DEF RowFor, WorkloadResult
<1>5. Simulate(policy, capacity, suite[i].events).counts
        = Replay(policy, capacity, NewCache, suite[i].events).counts
  BY Zenon DEF Simulate
<1> QED
  BY <1>4, <1>5 DEF row

LEMMA ColdRowsAgree ==
  ASSUME DeclaredInv, NEW i \in DOMAIN declared,
         NEW row \in LifecycleGridOf(Workloads, Feasible), row.mode = "cold_per_workload",
         NEW cell \in Analysis(declared[i], Feasible),
         Cell(row) = <<"cold_per_workload", cell.simulation.policy, cell.simulation.capacity>>
  PROVE  row.workloads[i].counts = cell.simulation.counts
<1>1. /\ Workloads \in Seq(DeclaredSet) /\ i \in 1 .. Len(Workloads)
      /\ Workloads[i].events = declared[i]
  BY WorkloadsType DEF DeclaredInv
<1>2. PICK capacity \in Feasible.capacities, policy \in Feasible.policies,
           mode \in ToSet(CacheLifecycleModes) :
           /\ row = SimulateWorkloads(Workloads, capacity, policy, mode)
           /\ row.mode = mode /\ row.policy = policy /\ row.capacity = capacity
  BY GridRow
<1>3. PICK p \in Feasible.policies, c \in Feasible.capacities :
        cell.simulation = Simulate(p, c, declared[i])
  BY DEF Analysis, SensitivitySweep, SensitivityRow
<1>4. cell.simulation.policy = p /\ cell.simulation.capacity = c
  <2>1. declared[i] \in Seq(SUBSET Experts)
    BY DeclaredTrace
  <2> QED
    BY <1>3, <2>1, SimulationCounts
<1>5. policy = p /\ capacity = c /\ mode = "cold_per_workload"
  BY <1>2, <1>4 DEF Cell
<1>6. row = SimulateWorkloads(Workloads, c, p, "cold_per_workload")
  BY <1>2, <1>5
<1> QED
  BY <1>1, <1>3, <1>6, ColdCellIsSimulation


-----------------------------------------------------------------------------
(***************************************************************************)
(* The cell that was replayed in steps.                                    *)
(***************************************************************************)
\* The last row of a lifecycle ends with what its cache holds.
LEMMA LastRowEnds ==
  ASSUME NEW suite \in Seq(DeclaredSet), suite # << >>, NEW mode, NEW policy, NEW capacity
  PROVE  LifecycleOf(mode, policy, capacity, suite).results[Len(suite)].ending
           = KeysOf(LifecycleOf(mode, policy, capacity, suite).cache)
<1> DEFINE n == Len(suite)
           state == LifecycleOf(mode, policy, capacity, suite)
<1>1. PICK h : /\ LifecycleChain(suite, mode, policy, capacity, h)
               /\ state = h[n]
  BY LifecycleFollowsChain
<1> DEFINE caches == [i \in 0 .. n |-> h[i].cache]
<1>2. LifecycleFacts(suite, mode, policy, capacity, caches, h[n].results)
  BY <1>1, ChainFacts
<1>3. n \in 1 .. n /\ n \in 0 .. n
  <2>1. n \in Nat /\ n # 0
    BY EmptySeq, LenProperties
  <2> QED
    BY <2>1
<1>4. caches[n] = h[n].cache
  BY <1>3
<1> HIDE DEF caches, state, n
<1>5. n = Len(suite)
  BY DEF n
<1>6. /\ h[n].results[n] = RowFor(suite, mode, policy, capacity, caches, n)
      /\ caches[n] = Replay(policy, capacity, StartCache(mode, caches[n - 1]),
                            suite[n].events).cache
  BY <1>2, <1>3, <1>5 DEF LifecycleFacts
<1>7. h[n].results[n].ending = KeysOf(caches[n])
  BY <1>6 DEF RowFor, WorkloadResult
<1> QED
  BY <1>1, <1>4, <1>7 DEF state, n

LEMMA ReplayedCellAgrees ==
  ASSUME DeclaredInv, StepsInv, AnalysisDue
  PROVE  /\ ReplayedCell \in LifecycleGridOf(Workloads, Feasible)
         /\ ReplayedCell.counts = totals
         /\ ReplayedCell.workloads[Len(declared)].ending = resident
         /\ ReplayedCell.sharedFinal \subseteq {resident}
<1>1. PICK past \in Pasts : IsReplayed(past)
  BY DEF StepsInv
<1>2. phase = "idle" /\ declared # << >>
  BY DEF AnalysisDue
<1>3. BetweenWorkloads(past) /\ totals = AggregateOf(StateOf(past).results)
  BY <1>1, <1>2 DEF IsReplayed, BetweenEvents, InAccess
<1>4. declared = past /\ KeysOf(StateOf(past).cache) = resident
  BY <1>3 DEF BetweenWorkloads, Follows
<1>5. Workloads = SuiteOf(past)
  BY <1>4 DEF Workloads, SuiteOf
<1> DEFINE state == StateOf(past)
           suite == SuiteOf(past)
<1>6. suite \in Seq(DeclaredSet) /\ Len(suite) = Len(declared) /\ suite # << >>
  <2>1. suite \in Seq(DeclaredSet) /\ Len(suite) = Len(past)
    BY SuiteType
  <2>2. Len(past) # 0
    <3>1. past \in Seq(Seq(SUBSET Experts)) /\ past # << >>
      BY <1>2, <1>4 DEF Pasts
    <3> QED
      BY <3>1, EmptySeq
  <2>3. Len(<< >>) = 0
    OBVIOUS
  <2> HIDE DEF suite
  <2> QED
    BY <1>4, <2>1, <2>2, <2>3
<1>7. state = LifecycleOf(Lifecycle, Policy, Capacity, suite)
  BY DEF StateOf
<1> HIDE DEF state, suite
<1>8. ReplayedCell = SimulationOf(Lifecycle, Policy, Capacity, state)
  BY <1>5, <1>7, SimulationIsLifecycle DEF ReplayedCell, suite
<1>9. /\ ReplayedCell.counts = AggregateOf(state.results)
      /\ ReplayedCell.workloads = state.results
      /\ ReplayedCell.sharedFinal \subseteq {KeysOf(state.cache)}
  BY <1>8 DEF SimulationOf
<1>10. state.results[Len(declared)].ending = KeysOf(state.cache)
  BY <1>6, <1>7, LastRowEnds
<1>11. ReplayedCell \in LifecycleGridOf(Workloads, Feasible)
  <2>1. Policy \in ToSet(PolicyOrder)
    BY PolicyAssumption DEF ToSet, PolicyOrder
  <2>2. Lifecycle \in ToSet(CacheLifecycleModes)
    BY LifecycleAssumption DEF ToSet, CacheLifecycleModes
  <2>3. Capacity \in Feasible.capacities /\ Feasible.policies = ToSet(PolicyOrder)
    BY FeasibleConfig
  <2> QED
    BY <2>1, <2>2, <2>3 DEF ReplayedCell, LifecycleGridOf
<1>12. /\ state.results = StateOf(past).results /\ state.cache = StateOf(past).cache
  BY DEF state
<1> HIDE DEF AnalysisDue
<1> QED
  BY <1>3, <1>4, <1>9, <1>10, <1>11, <1>12

-----------------------------------------------------------------------------
LEMMA WorkloadsInOrder ==
  ASSUME DeclaredInv, AnalysisDue
  PROVE  IsDeclared(Workloads) /\ InOrder(Workloads)
<1>1. /\ Workloads \in Seq(DeclaredSet) /\ Len(Workloads) = Len(declared)
      /\ DOMAIN Workloads = 1 .. Len(declared) /\ Len(declared) \in Nat
      /\ \A i \in 1 .. Len(declared) : Workloads[i].id = i /\ Workloads[i].order = i
  BY WorkloadsType DEF DeclaredInv
<1>2. Workloads # << >>
  <2>1. declared # << >> /\ declared \in Seq(Seq(SUBSET Experts))
    BY DEF AnalysisDue, DeclaredInv, DeclaredTypeOK
  <2>2. Len(declared) # 0
    BY <2>1, EmptySeq
  <2>3. Len(<< >>) = 0
    OBVIOUS
  <2> QED
    BY <1>1, <2>2, <2>3
<1>3. \A i, j \in 1 .. Len(declared) :
        i < j => Workloads[i].id # Workloads[j].id /\ Workloads[i].order < Workloads[j].order
  BY <1>1
<1> QED
  BY <1>1, <1>2, <1>3 DEF IsDeclared, InOrder

LEMMA GridIsAccepted ==
  ASSUME DeclaredInv, AnalysisDue
  PROVE  LET rows == LifecycleGridOf(Workloads, Feasible)
         IN  /\ \A row \in rows : IsAccepted(Workloads, row)
             /\ LifecycleRowsAccepted(rows) /\ GridAccepted(rows) /\ SummaryRowsAccepted(rows)
<1> DEFINE rows == LifecycleGridOf(Workloads, Feasible)
<1>1. Workloads \in Seq(DeclaredSet) /\ InOrder(Workloads)
  BY WorkloadsType, WorkloadsInOrder DEF DeclaredInv
<1>2. \A row \in rows : IsAccepted(Workloads, row)
  BY <1>1, GridRow, CellIsAccepted
<1>3. IsRectangle(rows) /\ rows # {} /\ CapacitiesOf(rows) \subseteq Nat \ {0}
  <2>1. /\ Feasible.policies = ToSet(PolicyOrder) /\ Feasible.capacities # {}
        /\ Feasible.capacities \subseteq Nat \ {0}
    BY FeasibleConfig, FeasibleParts
  <2> QED
    BY <2>1, GridIsRectangle
<1> HIDE DEF rows
<1>4. \A row \in rows : TransferReconciles(row) /\ SummaryReconciles(row)
  BY <1>1, <1>2, AcceptedReconciles
<1>5. \A r, s \in rows : Signature(r) = Signature(s)
  BY <1>2, SameSignature
<1> QED
  BY <1>2, <1>3, <1>4, <1>5
     DEF rows, LifecycleRowsAccepted, GridAccepted, SummaryRowsAccepted

LEMMA GridEstimatesReconcile ==
  ASSUME DeclaredInv, AnalysisDue,
         NEW est \in LifecycleEstimates(LifecycleGridOf(Workloads, Feasible),
                                        Feasible.profiles, Feasible.plans)
  PROVE  EstimateReconciles(est)
<1>1. PICK row \in LifecycleGridOf(Workloads, Feasible),
           profile \in Feasible.profiles, plan \in Feasible.plans :
        est = LifecycleEstimateRow(row, profile, plan)
  BY DEF LifecycleEstimates
<1>2. IsAccepted(Workloads, row) /\ IsProfile(profile) /\ IsPlan(plan)
  BY GridIsAccepted, FeasibleParts
<1> QED
  BY <1>1, <1>2, EstimateRowReconciles

LEMMA GridRatesLieBetween ==
  ASSUME DeclaredInv, AnalysisDue,
         NEW row \in LifecycleGridOf(Workloads, Feasible),
         NEW other \in LifecycleGridOf(Workloads, Feasible),
         NEW spread, spread = WorkloadSensitivity(other), Cell(row) = spread.cell
  PROVE  LET rate == <<row.counts.hits, row.counts.requests>>
         IN  /\ \A v \in spread.hitRate.minimum : AtMost(v, rate)
             /\ \A v \in spread.hitRate.maximum : AtMost(rate, v)
<1>1. spread.cell = Cell(other) /\ spread.hitRate = MetricRange(HitRates(other))
  BY DEF WorkloadSensitivity
<1>2. row = other
  BY <1>1, GridIsAccepted DEF LifecycleRowsAccepted, IsRectangle
<1>3. IsAccepted(Workloads, row)
  BY GridIsAccepted
<1> QED
  BY <1>1, <1>2, <1>3, RatesLieBetween

(***************************************************************************)
(* Every route to a cell of the lifecycle grid agrees (byte_cache.py,      *)
(* hardware_cost.py, sensitivity_summary.py, preflight.py): for every set  *)
(* of experts, suite of workloads and configuration, whatever the steps of *)
(* the replay, no reader of the grid can refuse it.                        *)
(***************************************************************************)
THEOREM GridRoutesAgree == GridSpec => []GridAgrees
<1>1. GridInv => GridAgrees
  <2> SUFFICES ASSUME GridInv, AnalysisDue PROVE GridAgrees
    BY DEF GridAgrees
  <2>1. DeclaredInv /\ StepsInv
    BY DEF GridInv
  <2> DEFINE rows == LifecycleGridOf(Workloads, Feasible)
             analysis == LifecycleAnalysis(Workloads, Feasible)
             cold == {row \in analysis.simulations : row.mode = "cold_per_workload"}
  <2>2. /\ analysis.simulations = rows
        /\ analysis.estimates = LifecycleEstimates(rows, Feasible.profiles, Feasible.plans)
        /\ analysis.summary.sensitivity = {WorkloadSensitivity(row) : row \in rows}
    BY DEF LifecycleAnalysis, LifecycleSummary
  <2>3. IsDeclared(Workloads)
    BY <2>1, WorkloadsInOrder
  <2>4. EngineAccepts(1, Feasible) /\ EngineAccepts(2, [Feasible EXCEPT !.version = 3])
    BY <2>1, EnginesAccept DEF VersionThree
  <2>5. /\ ReplayedCell \in rows /\ ReplayedCell.counts = totals
        /\ ReplayedCell.workloads[Len(declared)].ending = resident
        /\ ReplayedCell.sharedFinal \subseteq {resident}
    BY <2>1, ReplayedCellAgrees
  <2>6. LifecycleRowsAccepted(rows) /\ GridAccepted(rows) /\ SummaryRowsAccepted(rows)
    BY <2>1, GridIsAccepted
  <2>7. \A row \in analysis.estimates : EstimateReconciles(row)
    BY <2>1, <2>2, GridEstimatesReconcile
  <2>8. ASSUME NEW row \in rows, NEW spread \in analysis.summary.sensitivity,
               Cell(row) = spread.cell
        PROVE  /\ \A v \in spread.hitRate.minimum :
                    AtMost(v, <<row.counts.hits, row.counts.requests>>)
               /\ \A v \in spread.hitRate.maximum :
                    AtMost(<<row.counts.hits, row.counts.requests>>, v)
    <3>1. PICK other \in rows : spread = WorkloadSensitivity(other)
      BY <2>2
    <3> QED
      BY <2>1, <2>8, <3>1, GridRatesLieBetween
  <2>9. ASSUME NEW i \in DOMAIN declared
        PROVE  /\ SweepAccepts(declared[i], Feasible.capacities)
               /\ DerivesFrom(declared[i], Engine(declared[i], Feasible),
                              Feasible.capacities, Feasible.policies)
               /\ Analysis(declared[i], Feasible)
                    = StageQualifiedAnalysis(declared[i], [Feasible EXCEPT !.version = 3])
    <3>1. /\ declared[i] \in Seq(SUBSET Experts)
          /\ \A c \in Feasible.capacities : FitsCapacity(declared[i], c)
      BY <2>1, DeclaredTrace
    <3> QED
      BY <2>1, <3>1, SweepIsAccepted, EngineDerives, ViewsAgree DEF VersionThree
  <2>10. ASSUME NEW i \in DOMAIN declared, NEW row \in cold,
                NEW cell \in Analysis(declared[i], Feasible),
                Cell(row) = <<"cold_per_workload", cell.simulation.policy,
                              cell.simulation.capacity>>
         PROVE  row.workloads[i].counts = cell.simulation.counts
    <3>1. row \in rows /\ row.mode = "cold_per_workload"
      BY <2>2
    <3> QED
      BY <2>1, <2>10, <3>1, ColdRowsAgree
  <2> HIDE DEF analysis, rows
  <2> QED
    BY Zenon, <2>2, <2>3, <2>4, <2>5, <2>6, <2>7, <2>8, <2>9, <2>10 DEF GridAgrees, analysis
<1> QED
  BY <1>1, GridInvariant, PTL


=============================================================================
