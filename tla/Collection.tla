----------------------------- MODULE Collection -----------------------------
(***************************************************************************)
(* One loaded model in use: by arbitrary Granite collections one after the *)
(* other, by a V0.4 child, or by Switch collections.  The uses differ in   *)
(* the code that runs; which one it is is chosen in the initial state.     *)
(***************************************************************************)
EXTENDS V04Child, SwitchCollector, EvidenceCoverage

VARIABLE use

collectionVars == <<modelVars, run, child, probe, use>>

CollectionInit ==
    /\ ModelInit
    /\ RunInit
    /\ ProbeInit
    /\ ChildInit
    /\ use \in {"granite", "child", "switch"}
    /\ use # "child" => \A number \in ChildNumbers : child.number <= number

MayBegin == Len(uses) < MaxUses

GraniteUse ==
    /\ use = "granite"
    /\ \/ /\ MayBegin
          /\ \E tool \in Tools, prompt \in DOMAIN Prompts :
                \E horizon \in Horizons(tool) : Begin(tool, prompt, horizon)
          /\ UNCHANGED greedy
       \/ GraniteStep
    /\ UNCHANGED <<child, probe, use>>

ChildUse ==
    /\ use = "child"
    /\ ChildNext
    /\ UNCHANGED <<probe, use>>

SwitchUse ==
    /\ use = "switch"
    /\ \/ /\ MayBegin
          /\ \E prompt \in DOMAIN Prompts, horizon \in MaxSteps : BeginSwitch(prompt, horizon)
       \/ SwitchStep
    /\ UNCHANGED <<run, child, use>>

CollectionNext == GraniteUse \/ ChildUse \/ SwitchUse

\* A collection that has begun is computed to its end.
CollectionFairness ==
    /\ WF_collectionVars(use = "granite" /\ GraniteStep /\ UNCHANGED <<child, probe, use>>)
    /\ WF_collectionVars(use = "child" /\ ChildStep /\ UNCHANGED <<probe, use>>)
    /\ WF_collectionVars(use = "switch" /\ SwitchStep /\ UNCHANGED <<run, child, use>>)

CollectionSpec ==
    CollectionInit /\ [][CollectionNext]_collectionVars /\ CollectionFairness

-----------------------------------------------------------------------------
(***************************************************************************)
(* No collection leaves a hook on the model, however it ends: with an      *)
(* outcome, or by a failure while hooks are registered, a model call, or a *)
(* check (collector.py:369-391, 413-426; v04.py:283-306, 362-371).  What   *)
(* remains are hooks whose own removal failed, and those that a Switch     *)
(* dispatch check forgot (switch_collector.py:546-597).                    *)
(***************************************************************************)
NoHookLeftBehind ==
    (Idle /\ ProbeIdle) => hooked \subseteq stuck \cup dropped

\* Every Switch hook that can be removed is removed with its collection
\* (switch_collector.py:379, "Temporary observer").
HooksAreTemporary ==
    (Idle /\ ProbeIdle) => hooked \subseteq stuck

-----------------------------------------------------------------------------
\* how many candidates are fed, for a tool that stops at EOS or not
FedCount(continuation, horizon, stopping) ==
    CHOOSE n \in 0..horizon :
        /\ n = horizon \/ (stopping /\ continuation[n + 1] \in EosTokens)
        /\ \A k \in 1..n : stopping => continuation[k] \notin EosTokens

EventAt(phase, position, layer, token) ==
    [phase |-> phase, position |-> position, layer |-> layer, token |-> token,
     experts |-> Selected(Site("model", layer), token)]

PromptEvent(prompt, l, i) == EventAt("prompt", i - 1, l - 1, Prompts[prompt][i])

GeneratedEvent(prompt, fed, n, l) ==
    EventAt("generated", Len(Prompts[prompt]) + n - 1, l - 1, fed[n])

\* the events of a whole Granite run: layer by layer, then token by token
WholeRun(prompt, fed) ==
    RowByRow(RoutedLayers, Len(Prompts[prompt]), LAMBDA l, i : PromptEvent(prompt, l, i))
    \o RowByRow(Len(fed), RoutedLayers, LAMBDA n, l : GeneratedEvent(prompt, fed, n, l))

Ending(continuation, count, stopping) ==
    IF stopping /\ continuation[count + 1] \in EosTokens THEN continuation[count + 1] ELSE NoToken

IsWholeRun(outcome, continuation) ==
    LET count == FedCount(continuation, outcome.horizon, outcome.tool # "trace")
    IN  /\ outcome.input = Prompts[outcome.prompt]
        /\ outcome.fed = SubSeq(continuation, 1, count)
        /\ outcome.terminal =
              IF count = outcome.horizon THEN NoToken
              ELSE Ending(continuation, count, outcome.tool # "trace")
        /\ outcome.events = IF outcome.tool = "reference" THEN <<>>
                            ELSE WholeRun(outcome.prompt, outcome.fed)

SwitchEventAt(stage, phase, position, layer, token) ==
    [stage |-> stage, phase |-> phase, position |-> position, layer |-> layer,
     token |-> token, experts |-> Selected(Site(stage, layer), token)]

SourceEvent(prompt, l, i) ==
    SwitchEventAt("encoder", "source", i - 1, SparseLayers["encoder"][l], Prompts[prompt][i])

\* in the n-th call of the decoder: with its start token, then with those fed
DecoderEvent(fed, n, l) ==
    LET layer == SparseLayers["decoder"][l]
    IN  IF n = 1 THEN SwitchEventAt("decoder", "decoder_prompt", 0, layer, DecoderStart)
                 ELSE SwitchEventAt("decoder", "decoder_generated", n - 1, layer, fed[n - 1])

\* the events of a whole Switch run: layer by layer, then call by call
WholeSwitchRun(prompt, fed) ==
    RowByRow(Len(SparseLayers["encoder"]), Len(Prompts[prompt]),
             LAMBDA l, i : SourceEvent(prompt, l, i))
    \o RowByRow(Len(fed) + 1, Len(SparseLayers["decoder"]), LAMBDA n, l : DecoderEvent(fed, n, l))

IsWholeSwitchRun(outcome) ==
    LET count == FedCount(greedy, outcome.horizon, TRUE)
    IN  /\ outcome.fed = SubSeq(greedy, 1, count)
        /\ outcome.terminal = Ending(greedy, count, TRUE)
        /\ outcome.events = WholeSwitchRun(outcome.prompt, outcome.fed)

\* The model of a child may compute any of its behaviours in each of the runs.
Computed == IF use = "granite" THEN {greedy} ELSE Behaviours

GraniteOutcomesAreWhole ==
    use # "switch" =>
        \A i \in DOMAIN uses :
            /\ uses[i].kind # "rejected"
            /\ uses[i].kind = "outcome" =>
                  \E continuation \in Computed : IsWholeRun(uses[i], continuation)

SwitchOutcomesAreWhole ==
    use = "switch" =>
        \A i \in DOMAIN uses :
            /\ uses[i].kind # "rejected"
            /\ uses[i].kind = "outcome" => IsWholeSwitchRun(uses[i])

(***************************************************************************)
(* A collection that returns an outcome returns the whole run of the model *)
(* for its prompt: every layer of every position once, with the token of   *)
(* that position, up to the horizon or the EOS candidate and not beyond;   *)
(* and the outcome's own checks never reject it.  An earlier collection    *)
(* that failed or left hooks behind does not show (collector.py:395-408,   *)
(* 240-294; v04.py:308-361; switch_collector.py:245-375).                  *)
(***************************************************************************)
OutcomeIsWholeRun == GraniteOutcomesAreWhole /\ SwitchOutcomesAreWhole

(***************************************************************************)
(* A child that is accepted, though its model may have computed something  *)
(* else in any run, has in every run in either mode generated what Stage 1 *)
(* recorded for the prompt; its profiled runs have routed it so, its       *)
(* reference runs are unobserved; and no hook is left (v04.py:980-1133).   *)
(***************************************************************************)
ValidChildIsTrusted ==
    child.manifest.state = "valid" =>
        /\ hooked = {}
        /\ \A i \in DOMAIN child.manifest.runs :
              LET outcome == child.manifest.runs[i]
              IN  /\ outcome.fed = Trusted[outcome.prompt].fed
                  /\ outcome.terminal = Trusted[outcome.prompt].terminal
                  /\ outcome.events = IF outcome.tool = "reference" THEN <<>>
                                      ELSE Trusted[outcome.prompt].events

(***************************************************************************)
(* The manifest of a child that failed, at whatever point and for whatever *)
(* reason, is accepted by the validator that the set's own validation runs *)
(* on it (v04.py:1178-1195 against 1683-1739).                             *)
(***************************************************************************)
InvalidChildValidates ==
    child.manifest.state = "invalid" => InvalidRecordValid(child.manifest)

Traces == SelectSeq(uses, LAMBDA outcome :
    outcome.kind = "outcome" /\ outcome.tool # "reference")

FormatOf(outcome) == IF outcome.tool = "switch" THEN 2 ELSE 1

ModelLayers(format) ==
    IF format = 1 THEN 0..RoutedLayers - 1
    ELSE UNION {{stage} \X Range(SparseLayers[stage]) : stage \in DOMAIN SparseLayers}

\* a collected trace as a workload of the evidence diagnostics
WorkloadOf(outcome, id) ==
    LET stages == IF FormatOf(outcome) = 1 THEN {"model"} ELSE DOMAIN SparseLayers
    IN  [id |-> id, format |-> FormatOf(outcome), events |-> outcome.events,
         stages |-> stages, experts |-> [stage \in stages |-> NumExperts],
         configured |-> ModelLayers(FormatOf(outcome))]

KeysIn(bundles) == UNION {bundles[b].keys : b \in DOMAIN bundles}

\* Both views are valid, and account for the same events and working set.
ViewsConserve(events) ==
    LET atomic == TokenLayerAtomic(events)
        grouped == PrefillLayerUnion(events)
    IN  /\ \A b \in DOMAIN atomic : IsBundle(atomic[b], FALSE)
        /\ \A b \in DOMAIN grouped : IsBundle(grouped[b], TRUE)
        /\ IsSequence(atomic, FALSE) /\ IsSequence(grouped, TRUE)
        /\ \A scope \in {"combined", "prompt", "generated"} :
              /\ Summary(atomic)[scope].events = Summary(grouped)[scope].events
              /\ Summary(atomic)[scope].assignments = Summary(grouped)[scope].assignments
              /\ Summary(grouped)[scope].requests <= Summary(atomic)[scope].requests
        /\ Summary(atomic).combined.events = Len(events)
        /\ KeysIn(atomic) = KeysIn(grouped)

SumOfField(function, field) ==
    MapThenSumSet(LAMBDA x : function[x][field], DOMAIN function)

\* The summaries of layers, streams and reuse partition the same selections.
LocalityAgrees(events) ==
    LET analysis == RoutingAnalysis(events)
        top == CrossModelLocality(1, events, [layer \in ModelLayers(1) |-> NumExperts],
                                  {1, NumExperts})
    IN  /\ analysis.keys = KeysIn(TokenLayerAtomic(events))
        /\ analysis.gaps.firstUses = Cardinality(analysis.keys)
        /\ analysis.gaps.firstUses + analysis.gaps.reuses = analysis.assignments
        /\ SumOfField(analysis.layers, "unique") = Cardinality(analysis.keys)
        /\ SumOfField(analysis.layers, "assignments") = analysis.assignments
        /\ SumOfField(analysis.phaseLayers, "events") = analysis.events
        /\ analysis.prompt.events + analysis.generated.events = analysis.events
        /\ analysis.overlap.comparisons =
              analysis.events - Cardinality(DOMAIN analysis.phaseLayers)
        /\ MapThenSumSet(LAMBDA s : analysis.phaseLayers[s].gaps.reuses,
                         DOMAIN analysis.phaseLayers) <= analysis.gaps.reuses
        /\ \A layer \in DOMAIN top :
              LET concentration == analysis.layers[layer].concentration
              IN  /\ top[layer][1].share = concentration.maxShare
                  /\ top[layer][NumExperts].chosen = concentration.total

\* Phases and workloads partition the events, and every layer is observed.
EvidenceAgrees(workloads) ==
    LET evidence == Evidence(workloads)
    IN  /\ EvidenceAccepted(workloads)
        /\ SumOfField(evidence.phases, "events") = evidence.events
        /\ SumOfField(evidence.phases, "requests") = evidence.requests
        /\ \A key \in DOMAIN evidence.phases :
              LET phase == evidence.phases[key]
              IN  IF key[1] = 1 THEN phase.assigned \cup phase.unassigned = {}
                  ELSE \E n \in phase.assigned, m \in phase.unassigned :
                          n + m = phase.events
        /\ \A i \in DOMAIN workloads :
              LET summary == evidence.workloads[i]
              IN  /\ summary.layers.missing \cup summary.layers.unexpected = {}
                  /\ Cardinality(summary.decodePositions) = Len(Traces[i].fed)
                  /\ \A layer \in DOMAIN summary.support :
                        summary.support[layer].observed \subseteq 0..NumExperts - 1
        /\ \A format \in {1, 2} : \A both \in evidence.comparisons[format] :
              both.union = both.intersection

(***************************************************************************)
(* Everything that is derived from collected traces accounts for the same  *)
(* events and experts: the two simulation views (views.py:186-321,         *)
(* 321-393), the locality summaries by layer, by stream and by expert      *)
(* (analysis.py:148-368; cross_model_locality.py:196-248), and the         *)
(* evidence over all traces (evidence.py:355-653).                         *)
(***************************************************************************)
AccountsAgree ==
    (Idle /\ ProbeIdle /\ Traces # <<>>) =>
        /\ EvidenceAgrees([i \in DOMAIN Traces |-> WorkloadOf(Traces[i], i)])
        /\ \A i \in DOMAIN Traces : FormatOf(Traces[i]) = 1 =>
              ViewsConserve(Traces[i].events) /\ LocalityAgrees(Traces[i].events)

-----------------------------------------------------------------------------
\* Every collection that has begun ends, and every child.
EveryCollectionEnds ==
    /\ ~ Idle ~> Idle
    /\ ~ ProbeIdle ~> ProbeIdle
    /\ use = "child" ~> child.phase = "ended"
=============================================================================
