---------------------------- MODULE RoutingViews ----------------------------
(***************************************************************************)
(* The two simulation views of a format 1 trace (views.py): one bundle per *)
(* event, or the prompt events of a layer united in one bundle.  What a    *)
(* cache replay requests, the frontier derives and a benchmark counts is   *)
(* derived from these bundles.                                             *)
(***************************************************************************)
EXTENDS RoutingTraces, Integers, FiniteSetsExt, SequencesExt

NoPosition == -1

Bundle(events, phase, layer, position) ==
    [phase |-> phase, layer |-> layer, position |-> position,
     keys |-> UNION {{<<layer, expert>> : expert \in events[i].experts} :
                     i \in DOMAIN events},
     assignments |-> FoldLeft(LAMBDA sum, event : sum + Cardinality(event.experts),
                              0, events),
     positions |-> [i \in DOMAIN events |-> events[i].position]]

EventBundle(event) == Bundle(<<event>>, event.phase, event.layer, event.position)

EventBundles(events) == [i \in DOMAIN events |-> EventBundle(events[i])]

TokenLayerAtomic(events) == EventBundles(events)

PromptLayers(events) ==
    SetToSortSeq(Layers(InPhase(events, "prompt")), LAMBDA a, b : a < b)

OfLayer(events, layer) == SelectSeq(events, LAMBDA event : event.layer = layer)

LayerBundle(events, layer) ==
    Bundle(OfLayer(events, layer), "prompt", layer, NoPosition)

PrefillLayerUnion(events) ==
    LET prompt == InPhase(events, "prompt")
        layers == PromptLayers(events)
    IN  [i \in DOMAIN layers |-> LayerBundle(prompt, layers[i])]
          \o EventBundles(InPhase(events, "generated"))

-----------------------------------------------------------------------------
\* SimulationBundle: what its constructor requires in view `grouped' or not
IsBundle(bundle, grouped) ==
    LET union == grouped /\ bundle.phase = "prompt"
    IN  /\ bundle.keys # {}
        /\ \A key \in bundle.keys : key[1] = bundle.layer
        /\ union <=> (bundle.position = NoPosition)
        /\ bundle.assignments >= Cardinality(bundle.keys)
        /\ bundle.assignments >= Len(bundle.positions)
        /\ bundle.positions # <<>>
        /\ \A i, j \in DOMAIN bundle.positions :
              i < j => bundle.positions[i] < bundle.positions[j]
        /\ ~ union => bundle.positions = <<bundle.position>>
        /\ Len(bundle.positions) = 1 =>
              bundle.assignments = Cardinality(bundle.keys)

SourceEvents(bundles, phase) ==
    UNION {{<<bundles[i].positions[j], bundles[i].layer>> :
              j \in DOMAIN bundles[i].positions} :
           i \in {k \in DOMAIN bundles : bundles[k].phase = phase}}

SumOver(bundles, Value(_)) ==
    FoldLeft(LAMBDA sum, bundle : sum + Value(bundle), 0, bundles)

NumberOfEvents(bundles) == SumOver(bundles, LAMBDA bundle : Len(bundle.positions))

(***************************************************************************)
(* _validate_bundle_sequence, for the one prompt of a trace: the           *)
(* chronology of the view, and no event twice.                             *)
(***************************************************************************)
IsSequence(bundles, grouped) ==
    LET prompt == InPhase(bundles, "prompt")
        generated == InPhase(bundles, "generated")
        before == SourceEvents(bundles, "prompt")
        after == SourceEvents(bundles, "generated")
    IN  /\ NeverFollows(bundles, LAMBDA bundle : bundle.phase = "generated",
                                 LAMBDA bundle : bundle.phase = "prompt")
        /\ IF grouped
           THEN \A i, j \in DOMAIN prompt : i < j => prompt[i].layer < prompt[j].layer
           ELSE Ascending(bundles, "prompt", LayerMajor)
        /\ Ascending(bundles, "generated", TokenMajor)
        /\ Cardinality(before) = NumberOfEvents(prompt)
        /\ Cardinality(after) = Len(generated)
        /\ before \cap after = {}
        /\ \A a \in before, b \in after : a[1] < b[1]

\* _scope_summary
Scope(bundles) ==
    [bundles |-> Len(bundles),
     requests |-> SumOver(bundles, LAMBDA bundle : Cardinality(bundle.keys)),
     events |-> NumberOfEvents(bundles),
     assignments |-> SumOver(bundles, LAMBDA bundle : bundle.assignments),
     largest |-> Max({0} \cup {Cardinality(bundles[i].keys) : i \in DOMAIN bundles})]

\* summarize_bundles
Summary(bundles) ==
    [combined |-> Scope(bundles),
     prompt |-> Scope(InPhase(bundles, "prompt")),
     generated |-> Scope(InPhase(bundles, "generated"))]
=============================================================================
