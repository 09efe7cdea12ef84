-------------------------- MODULE SwitchCollector --------------------------
(***************************************************************************)
(* collect_and_verify of switch_collector.py: a baseline generation without*)
(* hooks, the same generation observed, their comparison, and a dispatch   *)
(* check that counts the rows which reach the experts.  The outcome holds  *)
(* a trace of format 2.                                                    *)
(***************************************************************************)
EXTENDS ObservedModel, CollectionOutcomes

CONSTANTS
    SparseLayers,  \* for each stage, the layers that have experts
    DecoderStart,  \* the decoder start token
    MaxSteps       \* values of max_fed_back_non_eos_steps

\* The stages have sparse layers in the order of their blocks, at least one of
\* them; a Switch router assigns a token to one expert or, over capacity, to
\* none; no generation looks further than the continuations go.
ASSUME SwitchAssumption ==
    /\ SparseLayers \in [{"encoder", "decoder"} -> Seq(Nat)]
    /\ \A stage \in {"encoder", "decoder"} : \A i, j \in DOMAIN SparseLayers[stage] :
          i < j => SparseLayers[stage][i] < SparseLayers[stage][j]
    /\ SparseLayers["encoder"] # <<>> \/ SparseLayers["decoder"] # <<>>
    /\ DecoderStart \in Nat
    /\ MaxSteps \subseteq 0..Horizon
    /\ \A stage \in {"encoder", "decoder"}, token \in Tokens \cup {DecoderStart} :
          \A i \in DOMAIN SparseLayers[stage] :
             LET selected == Selected(Site(stage, SparseLayers[stage][i]), token)
             IN  selected \subseteq 0..NumExperts - 1 /\ Cardinality(selected) \in 0..1

VARIABLE probe  \* the locals of the collection under way

SitesOf(stage) == [i \in DOMAIN SparseLayers[stage] |-> Site(stage, SparseLayers[stage][i])]

AllSites == SitesOf("encoder") \o SitesOf("decoder")

\* what a generation returns
Generation == [events |-> <<>>, fed |-> <<>>, candidates |-> <<>>, terminal |-> NoToken]

AtRestProbe ==
    [phase |-> "idle", pass |-> "baseline", prompt |-> 1, horizon |-> 0,
     continuation |-> <<>>, exact |-> TRUE, baseline |-> Generation,
     current |-> Generation, input |-> <<>>, registered |-> 0,
     rows |-> [s \in {} |-> 0], checks |-> <<>>, failed |-> FALSE]

ProbeInit == probe = AtRestProbe

ProbeIdle == probe.phase = "idle"

Observed == probe.pass # "baseline"

Begins(pass) ==
    [probe EXCEPT !.pass = pass, !.current = Generation, !.input = Prompts[probe.prompt],
                  !.registered = 0,
                  !.phase = IF pass = "baseline" THEN "encoder" ELSE "register"]

BeginSwitch(prompt, horizon) ==
    /\ ProbeIdle
    /\ probe' = [AtRestProbe EXCEPT
                   !.phase = "encoder", !.prompt = prompt, !.horizon = horizon,
                   !.input = Prompts[prompt], !.continuation = greedy]
    /\ UNCHANGED modelVars

GiveUp == probe' = AtRestProbe /\ Record(Raised)

-----------------------------------------------------------------------------
(***************************************************************************)
(* _SwitchRouterCapture hooks every router; the dispatch check then hooks  *)
(* the experts of every site in a list of handles of its own.              *)
(***************************************************************************)
RegisterRouter ==
    /\ probe.phase = "register"
    /\ Register("router", AllSites[probe.registered + 1])
    /\ probe' = IF probe.registered + 1 < Len(AllSites)
                THEN [probe EXCEPT !.registered = @ + 1]
                ELSE [probe EXCEPT
                        !.registered = 0,
                        !.phase = IF probe.pass = "dispatch" THEN "experts" ELSE "encoder"]
    /\ UNCHANGED <<greedy, store, capture, stuck, dropped, uses>>

RouterRegistrationFails ==
    /\ probe.phase = "register"
    /\ \E failing \in MayFail(handles) : RemoveHandles(failing)
    /\ GiveUp
    /\ UNCHANGED <<greedy, capture, dropped>>

RegisterExperts ==
    /\ probe.phase = "experts"
    /\ Register("expert", AllSites[probe.registered + 1])
    /\ probe' = [probe EXCEPT
                   !.registered = @ + 1,
                   !.rows = [s \in Range(AllSites) |-> 0],
                   !.phase = IF probe.registered + 1 < Len(AllSites)
                             THEN "experts" ELSE "dispatch"]
    /\ UNCHANGED <<greedy, store, capture, stuck, dropped, uses>>

ExpertHandles == {h \in handles : h.kind = "expert"}

(***************************************************************************)
(* The capture was created before the try statement and is not entered     *)
(* yet: only the handles of the experts are removed.                       *)
(***************************************************************************)
ExpertRegistrationFails ==
    /\ probe.phase = "experts"
    /\ \E failing \in MayFail(ExpertHandles) :
          /\ hooked' = hooked \ (ExpertHandles \ failing)
          /\ stuck' = stuck \cup failing
    /\ dropped' = dropped \cup (handles \ ExpertHandles)
    /\ handles' = {}
    /\ GiveUp
    /\ UNCHANGED <<greedy, store, capture>>

-----------------------------------------------------------------------------
(***************************************************************************)
(* The encoder is called with the source, the decoder with its start token *)
(* and then with one fed token at a time; the dispatch check calls both.   *)
(***************************************************************************)
Called == IF probe.phase = "dispatch" THEN AllSites ELSE SitesOf(probe.phase)

TokensFor(site) ==
    IF probe.pass = "dispatch" /\ site.stage = "decoder" THEN <<DecoderStart>> ELSE probe.input

Seen(sites) == Observations(sites, TokensFor)

Assigned(site, tokens) == Cardinality({i \in DOMAIN tokens : Selected(site, tokens[i]) # {}})

CountRows(sites) ==
    [s \in DOMAIN probe.rows |->
        IF s \in Range(sites) /\ Hook("expert", s) \in hooked
        THEN probe.rows[s] + Assigned(s, TokensFor(s)) ELSE probe.rows[s]]

AfterStage(stage) == IF stage = "encoder" THEN "decoder" ELSE "choose"

AfterCall == IF Observed THEN "take" ELSE AfterStage(probe.phase)

Call ==
    /\ probe.phase \in {"encoder", "decoder", "dispatch"}
    /\ store' = IF Observed THEN store \o Seen(Called) ELSE store
    /\ probe' = [probe EXCEPT
                   !.phase = AfterCall, !.rows = CountRows(Called),
                   !.input = IF AfterCall = "decoder" THEN <<DecoderStart>> ELSE @]
    /\ UNCHANGED <<greedy, hooked, handles, capture, stuck, dropped, uses>>

CallFails ==
    /\ probe.phase \in {"encoder", "decoder", "dispatch"}
    /\ IF Observed
       THEN /\ \E reached \in 0..Len(Called) : store' = store \o Seen(SubSeq(Called, 1, reached))
            /\ probe' = [probe EXCEPT !.phase = "exit", !.failed = TRUE]
            /\ UNCHANGED uses
       ELSE GiveUp /\ UNCHANGED store
    /\ UNCHANGED <<greedy, hooked, handles, capture, stuck, dropped>>

-----------------------------------------------------------------------------
\* the stage that has been observed, and what its events are
Stage == store[1].site.stage

EventPhase ==
    IF Stage = "encoder" THEN "source"
    ELSE IF probe.current.candidates = <<>> THEN "decoder_prompt" ELSE "decoder_generated"

(***************************************************************************)
(* _events_from_switch_observations: post-capacity assignments in the order*)
(* of the callbacks, at the number of fed tokens.                          *)
(***************************************************************************)
SwitchEvent(observation, i) ==
    [stage |-> observation.site.stage, phase |-> EventPhase,
     position |-> (IF EventPhase = "decoder_generated" THEN Len(probe.current.fed) ELSE 0) + i - 1,
     layer |-> observation.site.layer, token |-> observation.tokens[i],
     experts |-> Selected(observation.site, observation.tokens[i])]

SwitchEvents ==
    RowByRow(Len(store), Len(probe.input), LAMBDA o, i : SwitchEvent(store[o], i))

\* the sites of the call, in this order, and no other
Expected == IF probe.pass = "dispatch" THEN AllSites ELSE SitesOf(Stage)

CameFrom(sites) == [o \in DOMAIN store |-> store[o].site] = sites

DispatchChecks ==
    [o \in DOMAIN store |->
        [site |-> store[o].site, rows |-> probe.rows[store[o].site],
         assigned |-> Assigned(store[o].site, store[o].tokens)]]

TakeObservations ==
    /\ probe.phase = "take"
    /\ store' = <<>>
    /\ probe' =
          IF store = <<>> \/ ~ CameFrom(Expected)
          THEN [probe EXCEPT !.phase = "exit", !.failed = TRUE]
          ELSE IF probe.pass = "dispatch"
          THEN [probe EXCEPT !.phase = "exit", !.checks = DispatchChecks]
          ELSE [probe EXCEPT !.phase = AfterStage(Stage), !.current.events = @ \o SwitchEvents,
                             !.input = IF Stage = "encoder" THEN <<DecoderStart>> ELSE @]
    /\ UNCHANGED <<greedy, hooked, handles, capture, stuck, dropped, uses>>

-----------------------------------------------------------------------------
NextCandidate == probe.continuation[Len(probe.current.fed) + 1]

WithNext == Append(probe.current.candidates, NextCandidate)

IsEos == NextCandidate \in EosTokens

AllFed == Len(probe.current.fed) = probe.horizon

AfterGeneration == IF Observed THEN "exit" ELSE "observe"

\* unlike Granite's, an EOS candidate at the horizon counts as emitted
EndGeneration ==
    /\ probe.phase = "choose"
    /\ IsEos \/ AllFed
    /\ probe' = [probe EXCEPT !.phase = AfterGeneration, !.current.candidates = WithNext,
                              !.current.terminal = IF IsEos THEN NextCandidate ELSE NoToken]
    /\ UNCHANGED modelVars

FeedDecoder ==
    /\ probe.phase = "choose"
    /\ ~ IsEos /\ ~ AllFed
    /\ probe' = [probe EXCEPT !.phase = "decoder", !.input = <<NextCandidate>>,
                              !.current.candidates = WithNext,
                              !.current.fed = Append(@, NextCandidate)]
    /\ UNCHANGED modelVars

(***************************************************************************)
(* The second generation, in which the model may behave differently.       *)
(***************************************************************************)
Observe ==
    /\ probe.phase = "observe"
    /\ \E continuation \in Continuations, exact \in BOOLEAN :
          probe' = [Begins("observed") EXCEPT !.baseline = probe.current,
                                              !.continuation = continuation,
                                              !.exact = exact]
    /\ NewCapture
    /\ UNCHANGED <<greedy, hooked, handles, stuck, dropped, uses>>

\* both contexts are left: the router hooks, then those of the experts
ExitProbe ==
    /\ probe.phase = "exit"
    /\ \E failing \in MayFail(handles) :
          /\ RemoveHandles(failing)
          /\ IF probe.failed \/ failing # {}
             THEN GiveUp
             ELSE /\ probe' = [probe EXCEPT
                                 !.phase = IF probe.pass = "observed" THEN "compare" ELSE "finish"]
                  /\ UNCHANGED uses
    /\ UNCHANGED <<greedy, capture, dropped>>

-----------------------------------------------------------------------------
\* _require_identical_runs
IdenticalRuns ==
    /\ probe.current.fed = probe.baseline.fed
    /\ probe.current.candidates = probe.baseline.candidates
    /\ probe.current.terminal = probe.baseline.terminal
    /\ probe.exact

Compare ==
    /\ probe.phase = "compare"
    /\ IF IdenticalRuns
       THEN /\ probe' = [Begins("dispatch") EXCEPT !.baseline = probe.current]
            /\ NewCapture
            /\ UNCHANGED uses
       ELSE GiveUp /\ UNCHANGED <<capture, store>>
    /\ UNCHANGED <<greedy, hooked, handles, stuck, dropped>>

Profile == [numExperts |-> NumExperts, perToken |-> 1, allowsUnassigned |-> TRUE]

SwitchOutcome ==
    [kind |-> "outcome", tool |-> "switch", prompt |-> probe.prompt,
     horizon |-> probe.horizon, input |-> Prompts[probe.prompt],
     events |-> probe.baseline.events, fed |-> probe.baseline.fed,
     candidates |-> probe.baseline.candidates, terminal |-> probe.baseline.terminal,
     exact |-> probe.exact]

\* SwitchDispatchCheck, RoutingTraceV2 and SwitchCollectionOutcome
SwitchAccepted(outcome) ==
    /\ \A c \in DOMAIN probe.checks : probe.checks[c].assigned = probe.checks[c].rows
    /\ IsTraceV2(outcome.events, [stage \in DOMAIN SparseLayers |-> Profile])
    /\ outcome.exact
    /\ Len(outcome.fed) <= outcome.horizon

Finish ==
    /\ probe.phase = "finish"
    /\ Record(IF SwitchAccepted(SwitchOutcome) THEN SwitchOutcome ELSE Rejected)
    /\ probe' = AtRestProbe
    /\ UNCHANGED <<greedy, hookVars>>

SwitchStep ==
    \/ RegisterRouter
    \/ RouterRegistrationFails
    \/ RegisterExperts
    \/ ExpertRegistrationFails
    \/ Call
    \/ CallFails
    \/ TakeObservations
    \/ EndGeneration
    \/ FeedDecoder
    \/ Observe
    \/ ExitProbe
    \/ Compare
    \/ Finish
=============================================================================
