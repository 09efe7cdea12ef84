-------------------------- MODULE SensitivitySummary --------------------------
(***************************************************************************)
(* The comparisons drawn from a complete grid of lifecycle simulations     *)
(* (sensitivity_summary.py): adjacent capacities, the two policies at one  *)
(* capacity, and the spread of the workloads of one cell.  No simulation   *)
(* is run again.                                                           *)
(***************************************************************************)
EXTENDS TransferCosts

\* _validate_rows, with _validate_workload_parent
SummaryReconciles(row) ==
  /\ row.counts.requests = row.counts.hits + row.counts.misses
  /\ \A field \in {"events", "requests", "hits", "misses", "loaded",
                   "evictions", "evicted"} :
       row.counts[field] = SumOf(row.workloads, field)
  /\ \A i, j \in DOMAIN row.workloads :
       i < j => /\ row.workloads[i].order < row.workloads[j].order
                /\ row.workloads[i].id # row.workloads[j].id
  /\ \A i \in DOMAIN row.workloads : IsOfParent(row.workloads[i], row)

SummaryRowsAccepted(rows) ==
  /\ \A row \in rows : SummaryReconciles(row)
  /\ \A r, s \in rows : Signature(r) = Signature(s)

\* the checks of the grid itself
GridAccepted(rows) ==
  /\ rows # {}
  /\ CapacitiesOf(rows) \subseteq Nat \ {0}
  /\ IsRectangle(rows)

-----------------------------------------------------------------------------
Undefined == {}   \* None

\* _hit_rate_delta: a set with the difference, or empty without requests
HitRateDelta(baseline, comparison) ==
  IF baseline.counts.requests = 0 \/ comparison.counts.requests = 0
    THEN Undefined
    ELSE {Minus(<<comparison.counts.hits, comparison.counts.requests>>,
                <<baseline.counts.hits, baseline.counts.requests>>)}

\* the deltas of _adjacent_capacity_comparison
Deltas(baseline, comparison) ==
  [hits   |-> comparison.counts.hits - baseline.counts.hits,
   misses |-> comparison.counts.misses - baseline.counts.misses,
   loaded |-> comparison.counts.loaded - baseline.counts.loaded,
   hitRate |-> HitRateDelta(baseline, comparison)]

IsFlat(deltas) == deltas.hits = 0 /\ deltas.misses = 0 /\ deltas.loaded = 0

\* _adjacent_capacity_comparison
AdjacentComparison(lower, upper) ==
  [mode |-> lower.mode, policy |-> lower.policy, lower |-> lower.capacity,
   upper |-> upper.capacity, deltas |-> Deltas(lower, upper),
   flat |-> IsFlat(Deltas(lower, upper))]

AreAdjacent(lower, upper, capacities) ==
  /\ lower < upper
  /\ \A capacity \in capacities : ~ (lower < capacity /\ capacity < upper)

AdjacentComparisons(rows) ==
  {AdjacentComparison(pair[1], pair[2]) :
     pair \in {p \in rows \X rows :
                 /\ p[1].mode = p[2].mode /\ p[1].policy = p[2].policy
                 /\ AreAdjacent(p[1].capacity, p[2].capacity, CapacitiesOf(rows))}}

\* _same_capacity_policy_comparison: LFU against the LRU baseline
PolicyComparison(lru, lfu) ==
  [mode |-> lru.mode, capacity |-> lru.capacity, deltas |-> Deltas(lru, lfu)]

PolicyComparisons(rows) ==
  {PolicyComparison(pair[1], pair[2]) :
     pair \in {p \in rows \X rows :
                 /\ p[1].mode = p[2].mode /\ p[1].capacity = p[2].capacity
                 /\ p[1].policy = "lru" /\ p[2].policy = "lfu"}}

-----------------------------------------------------------------------------
(***************************************************************************)
(* _metric_range, of the pairs <<order, value>>: the extreme values, their *)
(* distance, and every workload that has them.                             *)
(***************************************************************************)
MetricRange(values) ==
  LET Least(v)    == \A w \in values : AtMost(v[2], w[2])
      Greatest(v) == \A w \in values : AtMost(w[2], v[2])
      least       == {v \in values : Least(v)}
      greatest    == {v \in values : Greatest(v)}
  IN  [minimum |-> {v[2] : v \in least}, maximum |-> {v[2] : v \in greatest},
       range |-> {Minus(w[2], v[2]) : v \in least, w \in greatest},
       minimumWorkloads |-> {v[1] : v \in least},
       maximumWorkloads |-> {v[1] : v \in greatest}]

MetricOf(row, field) ==
  {<<row.workloads[i].order, <<row.workloads[i].counts[field], 1>>>> :
     i \in DOMAIN row.workloads}

\* Workloads without a request have no hit rate.
HitRates(row) ==
  {<<row.workloads[i].order,
     <<row.workloads[i].counts.hits, row.workloads[i].counts.requests>>>> :
     i \in {j \in DOMAIN row.workloads : row.workloads[j].counts.requests > 0}}

\* _workload_sensitivity
WorkloadSensitivity(row) ==
  [cell |-> Cell(row), workloads |-> Len(row.workloads),
   defined |-> Cardinality(HitRates(row)),
   hitRate |-> MetricRange(HitRates(row)),
   misses |-> MetricRange(MetricOf(row, "misses")),
   loaded |-> MetricRange(MetricOf(row, "loaded"))]

\* summarize_lifecycle_sensitivity
LifecycleSummary(rows) ==
  [adjacent |-> AdjacentComparisons(rows), policies |-> PolicyComparisons(rows),
   sensitivity |-> {WorkloadSensitivity(row) : row \in rows}]

=============================================================================
