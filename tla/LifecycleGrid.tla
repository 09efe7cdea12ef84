---------------------------- MODULE LifecycleGrid ----------------------------
(***************************************************************************)
(* The stepwise cache of ByteCache beside the pre-flight analyses of the   *)
(* workloads it has replayed so far: every capacity, both policies and     *)
(* both lifecycles, their comparisons and their estimated costs.           *)
(***************************************************************************)
EXTENDS ByteCache, Preflight

CONSTANT Config     \* the pre-flight configuration

\* The cache that runs is one of the cells, and both policies are asked for.
ASSUME ConfigAssumption ==
  /\ IsConfig(Config)
  /\ IsFiniteSet(Config.capacities)
  /\ Config.policies = ToSet(PolicyOrder)
  /\ Capacity \in Config.capacities

VARIABLE declared   \* history: the events of each workload started

gridVars == <<vars, declared>>

GridInit == Init /\ declared = << >>

RecordEvent(required) ==
  declared' = [declared EXCEPT ![Len(declared)] = Append(@, required)]

GridNext ==
  \/ StartWorkload /\ declared' = Append(declared, << >>)
  \/ SkipEvent /\ RecordEvent({})
  \/ \E required \in SUBSET Experts :
       StartAccess(required) /\ RecordEvent(required)
  \/ \E victim \in Experts : Evict(victim) /\ UNCHANGED declared
  \/ FinishAccess /\ UNCHANGED declared
  \/ EndWorkload /\ UNCHANGED declared

GridSpec == GridInit /\ [][GridNext]_gridVars

-----------------------------------------------------------------------------
Workloads ==
  [i \in DOMAIN declared |-> [id |-> i, order |-> i, events |-> declared[i]]]

\* The configuration without the capacities some event does not fit.
Feasible ==
  [Config EXCEPT !.capacities =
     {c \in @ : \A i \in DOMAIN declared : FitsCapacity(declared[i], c)}]

AnalysisDue == phase = "idle" /\ declared # << >>

\* the cell that was replayed in steps
ReplayedCell == SimulateWorkloads(Workloads, Capacity, Policy, Lifecycle)

(***************************************************************************)
(* Every route to the same cell agrees.  The replay in steps and its cell  *)
(* of the grid have the same totals and final residency; each workload's   *)
(* own sweep, in either format, is its row of the cold lifecycle; both     *)
(* readers of the grid accept it; the estimates of the workloads add up to *)
(* that of the row exactly; and the aggregate hit rate lies between the    *)
(* extreme hit rates of the workloads.  None of the errors raised at       *)
(* hardware_cost.py:415 and sensitivity_summary.py:220-260 can occur.      *)
(***************************************************************************)
GridAgrees ==
  AnalysisDue =>
    LET analysis == LifecycleAnalysis(Workloads, Feasible)
        cold     == {row \in analysis.simulations : row.mode = "cold_per_workload"}
    IN  /\ IsDeclared(Workloads)
        /\ EngineAccepts(1, Feasible)
        /\ EngineAccepts(2, [Feasible EXCEPT !.version = 3])
        /\ ReplayedCell \in analysis.simulations
        /\ ReplayedCell.counts = totals
        /\ ReplayedCell.workloads[Len(declared)].ending = resident
        /\ ReplayedCell.sharedFinal \subseteq {resident}
        /\ LifecycleRowsAccepted(analysis.simulations)
        /\ GridAccepted(analysis.simulations)
        /\ SummaryRowsAccepted(analysis.simulations)
        /\ \A row \in analysis.estimates : EstimateReconciles(row)
        /\ \A row \in analysis.simulations, spread \in analysis.summary.sensitivity :
             Cell(row) = spread.cell /\ row.counts.requests > 0 =>
               LET rate == <<row.counts.hits, row.counts.requests>>
               IN  /\ \A v \in spread.hitRate.minimum : AtMost(v, rate)
                   /\ \A v \in spread.hitRate.maximum : AtMost(rate, v)
        /\ \A i \in DOMAIN declared :
             LET sweep == Analysis(declared[i], Feasible)
             IN  /\ SweepAccepts(declared[i], Feasible.capacities)
                 /\ DerivesFrom(declared[i], Engine(declared[i], Feasible),
                                Feasible.capacities, Feasible.policies)
                 /\ sweep = StageQualifiedAnalysis(declared[i],
                                                   [Feasible EXCEPT !.version = 3])
                 /\ \A row \in cold, cell \in sweep :
                      Cell(row) = <<"cold_per_workload", cell.simulation.policy,
                                    cell.simulation.capacity>>
                        => row.workloads[i].counts = cell.simulation.counts

(***************************************************************************)
(* For LRU a larger capacity never costs more: no hit is lost, no load is  *)
(* added, and the estimated service does not rise, under any profile and   *)
(* plan.  And a cache that persists never does worse than one that starts  *)
(* cold for every workload.  An LFU cache does not keep this promise.      *)
(***************************************************************************)
LRUNeverPaysMore ==
  AnalysisDue =>
    LET analysis == LifecycleAnalysis(Workloads, Feasible)
        LRU(rows) == {row \in rows : row.policy = "lru"}
        Dearer(a, b) ==
          \/ a.capacity < b.capacity /\ a.mode = b.mode
          \/ /\ a.capacity = b.capacity
             /\ a.mode = "cold_per_workload" /\ b.mode = "persistent_sequence"
    IN  /\ \A pair \in LRU(analysis.summary.adjacent) :
             /\ pair.deltas.hits >= 0
             /\ pair.deltas.hits + pair.deltas.misses = 0
             /\ pair.deltas.loaded <= 0
             /\ \A rate \in pair.deltas.hitRate : AtMost(<<0, 1>>, rate)
        /\ \A a, b \in LRU(analysis.estimates) :
             Dearer(a, b) /\ a.profile = b.profile /\ a.plan = b.plan =>
               AtMost(b.estimate.service, a.estimate.service)

=============================================================================
