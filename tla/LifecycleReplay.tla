--------------------------- MODULE LifecycleReplay ---------------------------
(***************************************************************************)
(* The byte-capacity simulations of byte_cache.py as functions of their    *)
(* input: one trace through a new cache, or declared workloads through a   *)
(* new cache each or one shared cache.  ByteCache has the same replay in   *)
(* steps; this is the form the sensitivity summary and the transfer costs  *)
(* consume, for every capacity, policy and lifecycle at once.              *)
(*                                                                         *)
(* An event is its set of required experts, {} if the token was left       *)
(* unassigned; a workload is [id, order, events].                          *)
(***************************************************************************)
EXTENDS ExpertBytes, SequencesExt

PolicyOrder == <<"lru", "lfu">>

CacheLifecycleModes == <<"cold_per_workload", "persistent_sequence">>

\* _new_policy.  LRU keeps a frequency too, and never looks at it.
NewCache == [entries |-> << >>, clock |-> 0]

KeysOf(cache) == DOMAIN cache.entries

\* Slip: the frequency decides whatever the policy.
GivenUpFirstByFrequency(policy, entries, j, k) ==
  \/ entries[j].frequency < entries[k].frequency
  \/ /\ entries[j].frequency = entries[k].frequency
     /\ Older([x \in DOMAIN entries |-> entries[x].last], j, k)

\* the order in which _evict_one takes its candidates
GivenUpFirst(policy, entries, j, k) ==
  \/ policy = "lfu" /\ entries[j].frequency < entries[k].frequency
  \/ /\ policy = "lfu" => entries[j].frequency = entries[k].frequency
     /\ Older([x \in DOMAIN entries |-> entries[x].last], j, k)

\* Slip: the required experts are not pinned while the others leave.
VictimsUnpinned(policy, capacity, cache, required) ==
  LET Before(k) == {j \in KeysOf(cache) : GivenUpFirst(policy, cache.entries, j, k)}
  IN  {k \in KeysOf(cache) :
         Bytes((KeysOf(cache) \ Before(k)) \cup required) > capacity}

\* An expert leaves if the event does not fit without its predecessors alone.
Victims(policy, capacity, cache, required) ==
  LET candidates == KeysOf(cache) \ required
      Before(k) == {j \in candidates : GivenUpFirst(policy, cache.entries, j, k)}
  IN  {k \in candidates :
         Bytes((KeysOf(cache) \ Before(k)) \cup required) > capacity}

\* the cache after access_bundle
Access(policy, capacity, cache, required) ==
  LET kept == KeysOf(cache) \ Victims(policy, capacity, cache, required)
      Uses(k) == IF k \in kept THEN cache.entries[k].frequency ELSE 0
  IN  [clock   |-> cache.clock + 1,
       entries |-> [k \in kept \cup required |->
                      IF k \in required
                        THEN [frequency |-> Uses(k) + 1, last |-> cache.clock + 1]
                        ELSE cache.entries[k]]]

CountsFrom(cache) ==
  [events |-> 0, requests |-> 0, hits |-> 0, misses |-> 0, loaded |-> 0,
   evictions |-> 0, evicted |-> 0, peak |-> Bytes(KeysOf(cache))]

\* one iteration of _replay_byte_cache, with what the access returns
ReplayEvent(policy, capacity, replay, required) ==
  LET before  == KeysOf(replay.cache)
      missing == required \ before
      victims == Victims(policy, capacity, replay.cache, required)
      next    == Access(policy, capacity, replay.cache, required)
      c       == replay.counts
  IN  IF required = {}
        THEN [replay EXCEPT !.counts.events = @ + 1]
        ELSE [cache  |-> next,
              counts |->
                [events    |-> c.events + 1,
                 requests  |-> c.requests + Cardinality(required),
                 hits      |-> c.hits + Cardinality(required \cap before),
                 misses    |-> c.misses + Cardinality(missing),
                 loaded    |-> c.loaded + Bytes(missing),
                 evictions |-> c.evictions + Cardinality(victims),
                 evicted   |-> c.evicted + Bytes(victims),
                 peak      |-> Max({c.peak, Bytes(KeysOf(next))})]]

\* _replay_byte_cache
Replay(policy, capacity, cache, events) ==
  FoldLeft(LAMBDA replay, required : ReplayEvent(policy, capacity, replay, required),
           [cache |-> cache, counts |-> CountsFrom(cache)], events)

\* _validate_required_by_event: every event fits the capacity on its own
FitsCapacity(events, capacity) ==
  \A i \in DOMAIN events : events[i] \subseteq Experts /\ Bytes(events[i]) <= capacity

(***************************************************************************)
(* simulate_byte_cache, and simulate_versioned_byte_cache on either format:*)
(* they differ in the keys, which are ranks here.                          *)
(***************************************************************************)
Simulate(policy, capacity, events) ==
  LET replay == Replay(policy, capacity, NewCache, events)
  IN  [policy |-> policy, capacity |-> capacity, counts |-> replay.counts,
       final |-> KeysOf(replay.cache)]

-----------------------------------------------------------------------------
\* _validate_workloads
IsDeclared(workloads) ==
  /\ workloads # << >>
  /\ \A i, j \in DOMAIN workloads :
       i < j => /\ workloads[i].id # workloads[j].id
                /\ workloads[i].order < workloads[j].order

\* ByteCacheWorkloadResult
WorkloadResult(mode, policy, capacity, workload, cache, replay) ==
  [id |-> workload.id, order |-> workload.order, mode |-> mode,
   policy |-> policy, capacity |-> capacity, counts |-> replay.counts,
   starting |-> KeysOf(cache), ending |-> KeysOf(replay.cache)]

SumOf(rows, field) ==
  FoldLeft(LAMBDA sum, row : sum + row.counts[field], 0, rows)

\* The aggregates of ByteCacheLifecycleSimulation: sums, but a maximal peak.
AggregateOf(rows) ==
  [field \in DOMAIN CountsFrom(NewCache) |->
     IF field = "peak"
       THEN Max({0} \cup {rows[i].counts.peak : i \in DOMAIN rows})
       ELSE SumOf(rows, field)]

\* simulate_byte_cache_workloads
SimulateWorkloads(workloads, capacity, policy, mode) ==
  LET StartOf(state) ==
        IF mode = "persistent_sequence" THEN state.cache ELSE NewCache
      After(state, workload) ==
        LET replay == Replay(policy, capacity, StartOf(state), workload.events)
        IN  [cache   |-> replay.cache,
             results |-> Append(state.results,
                                WorkloadResult(mode, policy, capacity, workload,
                                               StartOf(state), replay))]
      end == FoldLeft(After, [cache |-> NewCache, results |-> << >>], workloads)
  IN  [mode |-> mode, policy |-> policy, capacity |-> capacity,
       workloads |-> end.results, counts |-> AggregateOf(end.results),
       sharedFinal |-> IF mode = "persistent_sequence" THEN {KeysOf(end.cache)}
                                                       ELSE {}]

=============================================================================
