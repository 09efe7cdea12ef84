------------------------------ MODULE EntryParity ------------------------------
(***************************************************************************)
(* The entry-capacity replay of cache.py next to the byte-capacity replay  *)
(* of byte_cache.py over the same bundles, with experts of one byte each:  *)
(* two implementations of LRU and LFU, written independently of each other.*)
(* The byte replay takes a bundle when the entry replay has finished it.   *)
(***************************************************************************)
EXTENDS EntryCache

\* A byte capacity counts entries if every expert has one byte.
ASSUME UnitSizeAssumption == \A k \in Experts : Size[k] = 1

VARIABLES
  byteEntries,    \* the variables of the byte replay
  byteClock,
  bytePhase,
  byteAccess,
  byteCounters,
  byteTotals,
  byteStarting,
  byteWorkloads,
  byteTouched,
  byteLog

byteVars == <<byteEntries, byteClock, bytePhase, byteAccess, byteCounters,
              byteTotals, byteStarting, byteWorkloads, byteTouched, byteLog>>

parityVars == <<vars, byteVars>>

Lifecycle == "cold_per_workload"

LRUBytes == INSTANCE ByteCache WITH
  Policy <- "lru", MaxEvents <- MaxBundles, MaxWorkloads <- 1,
  entries <- byteEntries, clock <- byteClock, phase <- bytePhase,
  access <- byteAccess, counters <- byteCounters, totals <- byteTotals,
  starting <- byteStarting, workloads <- byteWorkloads,
  touched <- byteTouched, log <- byteLog

LFUBytes == INSTANCE ByteCache WITH
  Policy <- "lfu", MaxEvents <- MaxBundles, MaxWorkloads <- 1,
  entries <- byteEntries, clock <- byteClock, phase <- bytePhase,
  access <- byteAccess, counters <- byteCounters, totals <- byteTotals,
  starting <- byteStarting, workloads <- byteWorkloads,
  touched <- byteTouched, log <- byteLog

\* Fixed-frequency policies have no counterpart in bytes.
NoBytes == policy \in Fixed /\ UNCHANGED byteVars

-----------------------------------------------------------------------------
ParityInit == Init /\ LRUBytes!Init

SelectBundle(required) == Select(required) /\ UNCHANGED byteVars

BeginBoth ==
  /\ BeginReplay
  /\ \/ NoBytes
     \/ policy = "lru" /\ LRUBytes!StartWorkload
     \/ policy = "lfu" /\ LFUBytes!StartWorkload

\* Both replays are handed the bundle when both have finished the last one.
StartBoth(required, phase) ==
  /\ StartBundle(required, phase)
  /\ \/ NoBytes
     \/ policy = "lru" /\ LRUBytes!StartAccess(required)
     \/ policy = "lfu" /\ LFUBytes!StartAccess(required)

EntryWorks ==
  /\ \/ \E victim \in Experts : Evict(victim)
     \/ Touch
     \/ Displace
     \/ Restore
  /\ UNCHANGED byteVars

LRUBytesWork ==
  /\ policy = "lru"
  /\ stage = "ready"
  /\ \/ \E victim \in Experts : LRUBytes!Evict(victim)
     \/ LRUBytes!FinishAccess
  /\ UNCHANGED vars

LFUBytesWork ==
  /\ policy = "lfu"
  /\ stage = "ready"
  /\ \/ \E victim \in Experts : LFUBytes!Evict(victim)
     \/ LFUBytes!FinishAccess
  /\ UNCHANGED vars

ParityNext ==
  \/ \E required \in SUBSET Experts : SelectBundle(required)
  \/ BeginBoth
  \/ \E required \in SUBSET Experts, phase \in Phases : StartBoth(required, phase)
  \/ EntryWorks
  \/ LRUBytesWork
  \/ LFUBytesWork

ParitySpec == ParityInit /\ [][ParityNext]_parityVars

-----------------------------------------------------------------------------
(***************************************************************************)
(* Properties.                                                             *)
(***************************************************************************)

(***************************************************************************)
(* Whatever is replayed, the two modules of the repository that implement  *)
(* LRU and LFU agree after every bundle on what is resident and on all     *)
(* that they both count, ties and several victims in one bundle included.  *)
(***************************************************************************)
EntryAgreesWithBytes ==
  policy \in Dynamic /\ stage = "ready" /\ bytePhase = "ready" =>
    LET all == rows["combined"]
    IN  /\ resident = DOMAIN byteEntries
        /\ all.requests = byteCounters.requests
        /\ all.hits = byteCounters.hits
        /\ all.misses = byteCounters.misses
        /\ all.demand = byteCounters.loaded
        /\ all.evictions = byteCounters.evictions

=============================================================================
