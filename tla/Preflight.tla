------------------------------ MODULE Preflight ------------------------------
(***************************************************************************)
(* The pre-flight analyses (preflight.py) and the configuration that asks  *)
(* for them (preflight_config.py): which capacities, policies, hardware    *)
(* profiles and operation plans a trace, or the workloads of a suite, are  *)
(* replayed and costed for.                                                *)
(*                                                                         *)
(* A configuration is [version, capacities, policies, profiles, plans];    *)
(* its expert sizes are the constant Size.  The routing summaries that the *)
(* results carry beside the transfer rows are in RoutingLocality.          *)
(***************************************************************************)
EXTENDS SensitivitySummary

\* _normalize_shared_config_fields
HasValidFields(config) ==
  /\ config.capacities # {} /\ config.capacities \subseteq Nat \ {0}
  /\ config.policies # {} /\ config.policies \subseteq ToSet(PolicyOrder)
  /\ NamedApart(config.profiles) /\ \A profile \in config.profiles : IsProfile(profile)
  /\ NamedApart(config.plans) /\ \A plan \in config.plans : IsPlan(plan)

\* PreflightConfig: version 1 knows the default plan only
IsConfig(config) ==
  /\ Experts # {}
  /\ HasValidFields(config)
  /\ config.version \in {1, 2}
  /\ config.version = 1 => config.plans = {DefaultPlan}

\* PreflightConfigV3
IsConfigV3(config) == HasValidFields(config) /\ config.version = 3

\* run_versioned_preflight_engine: format 2 goes with version 3, and only it
EngineAccepts(format, config) ==
  IF format = 2 THEN IsConfigV3(config) ELSE IsConfig(config)

Engine(events, config) ==
  {Simulate(policy, capacity, events) :
     policy \in config.policies, capacity \in config.capacities}

\* run_preflight_analysis
Analysis(events, config) ==
  SensitivitySweep(events, config.capacities, config.policies, config.profiles,
                   IF config.version = 1 THEN {DefaultPlan} ELSE config.plans)

\* run_stage_qualified_preflight_analysis
StageQualifiedAnalysis(events, config) ==
  DerivedSensitivity(Engine(events, config), config.profiles, config.plans)

\* the simulations of run_preflight_lifecycle_analysis
LifecycleGridOf(workloads, config) ==
  {SimulateWorkloads(workloads, capacity, policy, mode) :
     capacity \in config.capacities, policy \in config.policies,
     mode \in ToSet(CacheLifecycleModes)}

\* run_preflight_lifecycle_analysis
LifecycleAnalysis(workloads, config) ==
  LET simulations == LifecycleGridOf(workloads, config)
  IN  [simulations |-> simulations,
       summary     |-> LifecycleSummary(simulations),
       estimates   |-> LifecycleEstimates(simulations, config.profiles,
                                          config.plans)]

=============================================================================
