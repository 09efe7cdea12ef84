---------------------------- MODULE TransferCosts ----------------------------
(***************************************************************************)
(* Estimated transfer service (hardware_cost.py): a demand load costs its  *)
(* bytes at an assumed bandwidth and an assumed number of operations at an *)
(* assumed setup latency.  Costs are exact fractions of a second.  A sweep *)
(* estimates the simulations of one trace, a matrix the lifecycle rows and *)
(* each of their workloads.                                                *)
(*                                                                         *)
(* A profile is [name, bandwidth, setup], a plan [name, operations].  Rows *)
(* are sets: the canonical order of the reports is left out.               *)
(***************************************************************************)
EXTENDS LifecycleReplay

CONSTANT NsPerSecond    \* _NS_PER_SECOND, 10^9 in the code

ASSUME NsAssumption == NsPerSecond \in Nat \ {0}

\* A fraction is <<numerator, denominator>>, not reduced.
Plus(a, b) == <<a[1] * b[2] + b[1] * a[2], a[2] * b[2]>>

Minus(a, b) == <<a[1] * b[2] - b[1] * a[2], a[2] * b[2]>>

AtMost(a, b) == a[1] * b[2] <= b[1] * a[2]

SameFraction(a, b) == AtMost(a, b) /\ AtMost(b, a)

-----------------------------------------------------------------------------
\* HardwareTransferProfile, TransferOperationPlan
IsProfile(profile) ==
  profile.bandwidth \in Nat \ {0} /\ profile.setup \in Nat

IsPlan(plan) == plan.operations \in Nat \ {0}

DefaultPlan == [name |-> "one-operation-per-logical-load", operations |-> 1]

\* _normalize_profiles, _normalize_transfer_operation_plans
NamedApart(values) ==
  /\ values # {}
  /\ \A a, b \in values : a.name = b.name => a = b

\* _estimate_transfer_accounting
TransferAccounting(loads, bytes, profile, plan) ==
  LET operations == loads * plan.operations
      payload    == <<bytes, profile.bandwidth>>
      setup      == <<operations * profile.setup, NsPerSecond>>
  IN  [loads |-> loads, bytes |-> bytes, operations |-> operations,
       payload |-> payload, setup |-> setup, service |-> Plus(payload, setup)]

\* estimate_transfer_cost: misses and demand loads are charged, evictions not
Estimate(row, profile, plan) ==
  TransferAccounting(row.counts.misses, row.counts.loaded, profile, plan)

EstimateWorkload(workload, profile, plan) ==
  TransferAccounting(workload.counts.misses, workload.counts.loaded, profile, plan)

-----------------------------------------------------------------------------
Modes(rows) == {row.mode : row \in rows}
Policies(rows) == {row.policy : row \in rows}
CapacitiesOf(rows) == {row.capacity : row \in rows}

Cell(row) == <<row.mode, row.policy, row.capacity>>

\* what every cell of a grid has in common
Signature(row) ==
  [i \in DOMAIN row.workloads |->
     <<row.workloads[i].order, row.workloads[i].id,
       row.workloads[i].counts.events, row.workloads[i].counts.requests>>]

IsOfParent(workload, row) ==
  /\ Cell(workload) = Cell(row)
  /\ workload.counts.requests = workload.counts.hits + workload.counts.misses

\* _validate_lifecycle_workload_reconciliation
TransferReconciles(row) ==
  /\ \A i, j \in DOMAIN row.workloads :
       i < j => \/ row.workloads[i].order < row.workloads[j].order
                \/ /\ row.workloads[i].order = row.workloads[j].order
                   /\ row.workloads[i].id < row.workloads[j].id
  /\ \A i \in DOMAIN row.workloads : IsOfParent(row.workloads[i], row)
  /\ \A field \in {"misses", "loaded"} :
       row.counts[field] = SumOf(row.workloads, field)

\* One row per cell, both lifecycles, and no cell missing.
IsRectangle(rows) ==
  /\ \A r, s \in rows : Cell(r) = Cell(s) => r = s
  /\ Policies(rows) \subseteq ToSet(PolicyOrder)
  /\ Modes(rows) = ToSet(CacheLifecycleModes)
  /\ {Cell(row) : row \in rows} =
       Modes(rows) \X Policies(rows) \X CapacitiesOf(rows)

\* _validate_lifecycle_rows
LifecycleRowsAccepted(rows) ==
  /\ rows # {}
  /\ CapacitiesOf(rows) \subseteq Nat \ {0}
  /\ \A row \in rows : TransferReconciles(row)
  /\ \A r, s \in rows : Signature(r) = Signature(s)
  /\ IsRectangle(rows)

\* _lifecycle_transfer_estimate_row
LifecycleEstimateRow(row, profile, plan) ==
  [mode |-> row.mode, policy |-> row.policy, capacity |-> row.capacity,
   profile |-> profile, plan |-> plan, estimate |-> Estimate(row, profile, plan),
   workloads |-> [i \in DOMAIN row.workloads |->
                    EstimateWorkload(row.workloads[i], profile, plan)]]

\* What that function raises over: a total that is not the sum of its workloads.
EstimateReconciles(row) ==
  /\ \A field \in {"loads", "bytes", "operations"} :
       row.estimate[field] =
         FoldLeft(LAMBDA sum, part : sum + part[field], 0, row.workloads)
  /\ \A field \in {"payload", "setup", "service"} :
       SameFraction(row.estimate[field],
                    FoldLeft(LAMBDA sum, part : Plus(sum, part[field]),
                             <<0, 1>>, row.workloads))

\* estimate_lifecycle_transfer_costs
LifecycleEstimates(rows, profiles, plans) ==
  {LifecycleEstimateRow(row, profile, plan) :
     row \in rows, profile \in profiles, plan \in plans}

-----------------------------------------------------------------------------
\* _workload_byte_context, _stage_qualified_workload_byte_context
ByteContext(events) ==
  LET keys == UNION ToSet(events)
  IN  [count |-> Cardinality(keys), bytes |-> Bytes(keys), keys |-> keys,
       largest |-> Max({0} \cup {Bytes(required) : required \in ToSet(events)})]

\* the capacities run_transfer_sensitivity_sweep does not refuse
SweepAccepts(events, capacities) ==
  /\ capacities # {}
  /\ FitsCapacity(events, Max(capacities))
  /\ \A capacity \in capacities : capacity >= ByteContext(events).largest

SensitivityRow(simulation, profile, plan) ==
  [simulation |-> simulation, profile |-> profile, plan |-> plan,
   estimate |-> Estimate(simulation, profile, plan)]

\* run_transfer_sensitivity_sweep, on a trace of format 1
SensitivitySweep(events, capacities, policies, profiles, plans) ==
  {SensitivityRow(Simulate(policy, capacity, events), profile, plan) :
     policy \in policies, capacity \in capacities, profile \in profiles,
     plan \in plans}

\* what derive_stage_qualified_transfer_sensitivity requires of simulations
DerivesFrom(events, simulations, capacities, policies) ==
  /\ {<<row.policy, row.capacity>> : row \in simulations} = policies \X capacities
  /\ \A row \in simulations :
       /\ row.counts.events = Len(events)
       /\ row.counts.requests =
            FoldLeft(LAMBDA sum, required : sum + Cardinality(required), 0, events)
       /\ row.counts.requests = row.counts.hits + row.counts.misses

\* derive_stage_qualified_transfer_sensitivity, on simulations already run
DerivedSensitivity(simulations, profiles, plans) ==
  {SensitivityRow(simulation, profile, plan) :
     simulation \in simulations, profile \in profiles, plan \in plans}

=============================================================================
