-------------------------- MODULE EvidenceCoverage --------------------------
(***************************************************************************)
(* The evidence diagnostics over several traces (evidence.py): what each   *)
(* workload contributes of the events and requests, phase by phase, which  *)
(* routed layers and experts it has reached, and what the workloads of one *)
(* format have in common.  A trace of format 1 never meets one of format 2.*)
(*                                                                         *)
(* A workload is [id, format, events, stages, experts, configured]: its    *)
(* trace, the stages with a profile, the configured experts of each stage  *)
(* (of stage "model" in format 1), and the routed layers the caller        *)
(* declares, {} if none.  Declared capture facts and the provenance fields *)
(* are left out.                                                           *)
(***************************************************************************)
EXTENDS RoutingLocality

\* _validate_configured_layers
ConfiguredLayersFit(workload) ==
    \A layer \in workload.configured :
        IF workload.format = 1 THEN layer \in Nat
        ELSE layer[1] \in workload.stages /\ layer[2] \in Nat

StageOf(format, layer) == IF format = 1 THEN "model" ELSE layer[1]

\* the phases of a trace, <<stage, phase>>, in _phase_coverage
PhaseKeys(workload) ==
    IF workload.format = 1
    THEN {<<"model", "prompt">>, <<"model", "generated">>}
    ELSE {key \in {<<"encoder", "source">>, <<"decoder", "decoder_prompt">>,
                   <<"decoder", "decoder_generated">>} : key[1] \in workload.stages}

\* the events of a phase; in format 2 those of its stage
EventsOfPhase(workload, key) ==
    SelectSeq(workload.events, LAMBDA event :
        event.phase = key[2] /\ (workload.format = 1 \/ event.stage = key[1]))

AssignedOf(events) == Cardinality({i \in DOMAIN events : events[i].experts # {}})

\* a count that only format 2 has, since format 1 leaves no token unassigned
OnlyInFormat2(format, count) == IF format = 1 THEN {} ELSE {count}

\* _phase_coverage, of one phase
PhaseCoverage(workload, key) ==
    LET events == EventsOfPhase(workload, key)
    IN  [events |-> Len(events), requests |-> Assignments(events),
         positions |-> {events[i].position : i \in DOMAIN events},
         assigned |-> OnlyInFormat2(workload.format, AssignedOf(events)),
         unassigned |->
            OnlyInFormat2(workload.format,
                          Cardinality({i \in DOMAIN events : events[i].experts = {}}))]

\* _expert_support
ExpertSupport(workload, layer) ==
    LET observed == ExpertsIn(AtLayer(workload.format, workload.events, layer))
    IN  [observed |-> observed,
         fraction |-> <<Cardinality(observed),
                        workload.experts[StageOf(workload.format, layer)]>>]

DecodePhase(format) == IF format = 1 THEN "generated" ELSE "decoder_generated"

\* LayerCoverage: empty sets and no fraction unless layers were declared
LayerCoverage(workload) ==
    LET observed == LayersOf(workload.format, workload.events)
        declared == workload.configured
    IN  [observed |-> observed,
         missing |-> declared \ observed,
         unexpected |-> IF declared = {} THEN {} ELSE observed \ declared,
         fraction |-> IF declared = {} THEN {}
                      ELSE {<<Cardinality(declared \cap observed), Cardinality(declared)>>}]

\* _summarize_workload
WorkloadEvidence(workload, totalEvents, totalRequests) ==
    [id |-> workload.id, format |-> workload.format,
     events |-> Len(workload.events), requests |-> Assignments(workload.events),
     eventShare |-> <<Len(workload.events), totalEvents>>,
     requestShare |-> IF totalRequests = 0 THEN {}
                      ELSE {<<Assignments(workload.events), totalRequests>>},
     phases |-> [key \in PhaseKeys(workload) |-> PhaseCoverage(workload, key)],
     decodePositions |-> Positions(workload.events, DecodePhase(workload.format)),
     layers |-> LayerCoverage(workload),
     support |-> [layer \in LayersOf(workload.format, workload.events) |->
                     ExpertSupport(workload, layer)]]

-----------------------------------------------------------------------------
Total(numbers) == FoldLeft(LAMBDA a, b : a + b, 0, numbers)

OfFormat(summaries, format) ==
    SelectSeq(summaries, LAMBDA summary : summary.format = format)

\* the total of a count that only format 2 has
TotalOfCounts(summaries, format, key, field) ==
    OnlyInFormat2(format, Total([i \in DOMAIN summaries |->
                              MapThenSumSet(LAMBDA n : n, summaries[i].phases[key][field])]))

\* _aggregate_phases, for a phase of a format
AggregatePhase(summaries, format, key) ==
    LET own == SelectSeq(summaries, LAMBDA summary :
                   summary.format = format /\ key \in DOMAIN summary.phases)
    IN  [workloads |-> Len(own),
         events |-> Total([i \in DOMAIN own |-> own[i].phases[key].events]),
         requests |-> Total([i \in DOMAIN own |-> own[i].phases[key].requests]),
         assigned |-> TotalOfCounts(own, format, key, "assigned"),
         unassigned |-> TotalOfCounts(own, format, key, "unassigned")]

AggregateKeys(summaries) ==
    UNION {{<<summaries[i].format, key>> : key \in DOMAIN summaries[i].phases} :
           i \in DOMAIN summaries}

\* _layer_comparisons: only formats with two workloads or more
LayerComparison(summaries, format) ==
    LET layers == {OfFormat(summaries, format)[i].layers.observed :
                      i \in DOMAIN OfFormat(summaries, format)}
    IN  IF Len(OfFormat(summaries, format)) < 2 THEN {}
        ELSE {[union |-> UNION layers,
               intersection |-> {layer \in UNION layers : \A s \in layers : layer \in s}]}

\* the workloads with the largest count, "events" or "requests"
Dominant(summaries, count) ==
    {summaries[i].id : i \in {j \in DOMAIN summaries :
        \A k \in DOMAIN summaries : summaries[k][count] <= summaries[j][count]}}

\* _warnings, except those about provenance
Warnings(summaries) ==
    (IF Len(summaries) = 1 THEN {<<"single_workload">>} ELSE {})
      \cup UNION {
        {<<code, summaries[i].id>> :
            code \in {c \in {"no_decode_routing", "configured_layers_not_fully_observed",
                             "zero_expert_requests"} :
                CASE c = "no_decode_routing" -> summaries[i].decodePositions = {}
                  [] c = "zero_expert_requests" -> summaries[i].requests = 0
                  [] OTHER -> summaries[i].layers.missing # {}}} :
        i \in DOMAIN summaries}

EvidenceAccepted(workloads) ==
    /\ workloads # <<>>
    /\ \A i \in DOMAIN workloads : ConfiguredLayersFit(workloads[i])
    /\ \A i, j \in DOMAIN workloads : i # j => workloads[i].id # workloads[j].id

\* analyze_evidence
Evidence(workloads) ==
    LET totalEvents == Total([i \in DOMAIN workloads |-> Len(workloads[i].events)])
        totalRequests == Total([i \in DOMAIN workloads |-> Assignments(workloads[i].events)])
        summaries == [i \in DOMAIN workloads |->
                         WorkloadEvidence(workloads[i], totalEvents, totalRequests)]
    IN  [events |-> totalEvents, requests |-> totalRequests, workloads |-> summaries,
         mostEvents |-> Dominant(summaries, "events"),
         mostRequests |-> IF totalRequests = 0 THEN {}
                          ELSE Dominant(summaries, "requests"),
         phases |-> [key \in AggregateKeys(summaries) |->
                        AggregatePhase(summaries, key[1], key[2])],
         comparisons |-> [format \in {1, 2} |-> LayerComparison(summaries, format)],
         warnings |-> Warnings(summaries)]
=============================================================================
