---------------------------- MODULE CopyValidation ----------------------------
(***************************************************************************)
(* The runtime copy validation (runtime_copy_validation.py): the predictor,*)
(* which is one LRU replay of byte_cache.py, and the copy executor take the*)
(* events of one trace, and their counters are compared.  The two run in   *)
(* processes of their own, one after the other; here each works through an *)
(* event at its own pace and both take the next one together, so that the  *)
(* comparison can be made after every prefix of the trace.                 *)
(***************************************************************************)
EXTENDS CopyExecutor

\* CAPACITY_BYTES and SLOT_COUNT of the frozen protocol: one more slot would not
\* fit.  The executor accepts fewer, and then the two are different caches.
ASSUME ProtocolAssumption ==
  \A k \in Experts : Capacity < (SlotCount + 1) * Size[k]

VARIABLES
  entries, ticks, phase, access, counters, totals, starting, workloads, latest,
  log

Predictor == INSTANCE ByteCache WITH
  Policy <- "lru",
  Lifecycle <- "cold_per_workload",
  MaxWorkloads <- 1,
  clock <- ticks,
  touched <- latest

predictorVars ==
  <<entries, ticks, phase, access, counters, totals, starting, workloads, latest,
    log>>

validationVars == <<executorVars, predictorVars>>

ValidationInit == ExecutorInit /\ Predictor!Init

\* simulate_versioned_byte_cache and execute_independent_replay begin.
BeginReplay == Predictor!StartWorkload /\ UNCHANGED executorVars

UnassignedEvent == SkipUnassigned /\ Predictor!SkipEvent

RoutedEvent(k) == AssignedEvent(k) /\ Predictor!StartAccess({k})

PredictorWorks ==
  /\ UNCHANGED executorVars
  /\ \/ \E victim \in Experts : Predictor!Evict(victim)
     \/ Predictor!FinishAccess

ExecutorWorks == UNCHANGED predictorVars /\ (CopyComponent \/ Install)

ValidationNext ==
  \/ BeginReplay
  \/ UnassignedEvent
  \/ \E k \in Experts : RoutedEvent(k)
  \/ PredictorWorks
  \/ ExecutorWorks

ValidationSpec == ValidationInit /\ [][ValidationNext]_validationVars

-----------------------------------------------------------------------------
(***************************************************************************)
(* Properties.                                                             *)
(***************************************************************************)

(***************************************************************************)
(* _comparison_checks says AGREEMENT after every event: the two replays    *)
(* count the same, hold the same experts and the same bytes, and the bytes *)
(* that were really copied are those the predictor said would be loaded.   *)
(***************************************************************************)
ComparisonAgrees ==
  Idle /\ phase = "ready" =>
    /\ counters.events = passed
    /\ counters.hits = counts.hits
    /\ counters.misses = counts.misses
    /\ counters.evictions = counts.evictions
    /\ DOMAIN entries = residents
    /\ counters.misses = counts.loads
    /\ counters.loaded = counts.bytes
    /\ counts.copies = Components * counts.loads

=============================================================================
