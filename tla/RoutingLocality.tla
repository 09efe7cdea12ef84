--------------------------- MODULE RoutingLocality ---------------------------
(***************************************************************************)
(* The descriptive summaries of a trace: how often each expert was chosen, *)
(* how much of its choice a layer repeats from one event to the next and   *)
(* how long an expert waits for its next use (analysis.py, format 1), and  *)
(* the share of the k most chosen experts of a layer (cross_model_         *)
(* locality.py, both formats).                                             *)
(*                                                                         *)
(* Means are left as sums and ratios as pairs; entropies, which the code   *)
(* computes in floating point, are left out.                               *)
(***************************************************************************)
EXTENDS RoutingTraces, Integers, FiniteSetsExt, SequencesExt

\* the identity of a routed layer, in either format
LayerOf(format, event) ==
    IF format = 1 THEN event.layer ELSE <<event.stage, event.layer>>

LayersOf(format, events) == {LayerOf(format, events[i]) : i \in DOMAIN events}

AtLayer(format, events, layer) ==
    SelectSeq(events, LAMBDA event : LayerOf(format, event) = layer)

ExpertsIn(events) == UNION {events[i].experts : i \in DOMAIN events}

Assignments(events) ==
    FoldLeft(LAMBDA sum, event : sum + Cardinality(event.experts), 0, events)

\* the frequency of each expert that was chosen at least once
Frequencies(events) ==
    [expert \in ExpertsIn(events) |->
        Cardinality({i \in DOMAIN events : expert \in events[i].experts})]

-----------------------------------------------------------------------------
Distance(a, b) == IF a >= b THEN a - b ELSE b - a

\* _summarize_frequency_concentration; share and Gini only for some support
Concentration(frequencies) ==
    LET support == DOMAIN frequencies
        total == MapThenSumSet(LAMBDA x : frequencies[x], support)
    IN  [support |-> Cardinality(support), total |-> total,
         maxShare |-> IF support = {} THEN {}
                      ELSE {<<Max({frequencies[x] : x \in support}), total>>},
         gini |-> IF support = {} THEN {}
                  ELSE {<<MapThenSumSet(LAMBDA pair : Distance(frequencies[pair[1]],
                                                               frequencies[pair[2]]),
                                        support \X support),
                          2 * Cardinality(support) * total>>}]

\* _summarize_consecutive_overlap, of the streams that an index set names
Overlap(streams) ==
    LET pairs == UNION {{<<s, i>> : i \in 1..Len(streams[s]) - 1} : s \in DOMAIN streams}
        Earlier(pair) == streams[pair[1]][pair[2]].experts
        Later(pair) == streams[pair[1]][pair[2] + 1].experts
        Kind(Is(_, _)) == Cardinality({pair \in pairs : Is(Earlier(pair), Later(pair))})
    IN  [comparisons |-> Cardinality(pairs),
         disjoint |-> Kind(LAMBDA a, b : a \cap b = {}),
         identical |-> Kind(LAMBDA a, b : a = b /\ a \cap b # {}),
         partial |-> Kind(LAMBDA a, b : a # b /\ a \cap b # {})]

(***************************************************************************)
(* _summarize_reuse_gaps: the first use of a key has no gap, any other the *)
(* number of events since the one before.                                  *)
(***************************************************************************)
ReuseGaps(selections) ==
    LET uses(key) == {i \in DOMAIN selections : key \in selections[i]}
        keys == UNION Range(selections)
        reuses == UNION {{<<key, i>> : i \in uses(key) \ {Min(uses(key))}} : key \in keys}
        gap(reuse) == reuse[2] - 1 - Max({i \in uses(reuse[1]) : i < reuse[2]})
        gaps == {gap(reuse) : reuse \in reuses}
    IN  [firstUses |-> Cardinality(keys), reuses |-> Cardinality(reuses),
         least |-> IF gaps = {} THEN {} ELSE {Min(gaps)},
         greatest |-> IF gaps = {} THEN {} ELSE {Max(gaps)},
         sum |-> MapThenSumSet(gap, reuses)]

-----------------------------------------------------------------------------
Stream(events, phase, layer) ==
    SelectSeq(events, LAMBDA event : event.phase = phase /\ event.layer = layer)

\* _phase_layer_summary, and LayerRoutingSummary without the last two fields
StreamSummary(stream) ==
    [events |-> Len(stream), assignments |-> Assignments(stream),
     unique |-> Cardinality(ExpertsIn(stream)),
     concentration |-> Concentration(Frequencies(stream)),
     overlap |-> Overlap(<<stream>>),
     gaps |-> ReuseGaps([i \in DOMAIN stream |-> stream[i].experts])]

LayerSummary(stream) ==
    [events |-> Len(stream), assignments |-> Assignments(stream),
     unique |-> Cardinality(ExpertsIn(stream)),
     concentration |-> Concentration(Frequencies(stream))]

\* an expert is known by its layer when streams meet
QualifiedExperts(event) == {event.layer} \X event.experts

PhaseSummary(events, phase) ==
    [events |-> Len(InPhase(events, phase)),
     assignments |-> Assignments(InPhase(events, phase))]

\* Slip: an expert has the same identity in every layer.
QualifiedSelectionsByExpert(events) == [i \in DOMAIN events |-> events[i].experts]

QualifiedSelections(events) == [i \in DOMAIN events |-> QualifiedExperts(events[i])]

\* analyze_routing
RoutingAnalysis(events) ==
    LET streams == {<<events[i].phase, events[i].layer>> : i \in DOMAIN events}
    IN  [events |-> Len(events), assignments |-> Assignments(events),
         keys |-> UNION {QualifiedExperts(events[i]) : i \in DOMAIN events},
         prompt |-> PhaseSummary(events, "prompt"),
         generated |-> PhaseSummary(events, "generated"),
         layers |-> [layer \in Layers(events) |->
                        LayerSummary(AtLayer(1, events, layer))],
         overlap |-> Overlap([s \in streams |-> Stream(events, s[1], s[2])]),
         gaps |-> ReuseGaps(QualifiedSelections(events)),
         phaseLayers |-> [s \in streams |-> StreamSummary(Stream(events, s[1], s[2]))]]

-----------------------------------------------------------------------------
\* _validate_top_k, with the bound of every layer
TopKAccepted(ranks, configured) ==
    ranks # {} /\ ranks \subseteq 1..configured

\* the rank order of _summarize_layer: most chosen first, then by expert
ChosenMore(events, a, b) ==
    LET times(x) == Cardinality({i \in DOMAIN events : x \in events[i].experts})
    IN  times(a) > times(b) \/ (times(a) = times(b) /\ a < b)

\* _summarize_layer, for one rank
TopShare(events, configured, k) ==
    LET experts == 0..configured - 1
        ranked == SetToSortSeq(experts, LAMBDA a, b : ChosenMore(events, a, b))
        top == Range(SubSeq(ranked, 1, k))
        chosen == MapThenSumSet(LAMBDA i : Cardinality(events[i].experts \cap top),
                                DOMAIN events)
    IN  [experts |-> top, chosen |-> chosen, total |-> Assignments(events),
         share |-> IF Assignments(events) = 0 THEN {}
                   ELSE {<<chosen, Assignments(events)>>}]

\* analyze_cross_model_locality; configured gives each layer its experts
CrossModelLocality(format, events, configured, ranks) ==
    [layer \in LayersOf(format, events) |->
        [k \in ranks |->
            TopShare(AtLayer(format, events, layer), configured[layer], k)]]
=============================================================================
