-------------------------- MODULE GraniteCollector --------------------------
(***************************************************************************)
(* The collections of a Granite model: collect ("trace") and               *)
(* collect_stage1 ("stage1") of collector.py, and run_prompt of v04.py     *)
(* with and without observation ("profiled", "reference").  They share the *)
(* hook capture and the loop in which a candidate token is examined and    *)
(* then fed back.                                                          *)
(***************************************************************************)
EXTENDS ObservedModel, CollectionOutcomes

CONSTANTS
    RoutedLayers,  \* number of layers with a router
    NewTokens      \* values of max_new_tokens

\* Every router selects the given number of distinct experts (torch.topk), and
\* no collection looks further than the continuations go.
ASSUME GraniteAssumption ==
    /\ RoutedLayers \in Nat \ {0}
    /\ NewTokens \subseteq 0..Horizon
    /\ ExpertsPerToken \in Nat \ {0}
    /\ \A l \in 0..RoutedLayers - 1, token \in Tokens :
          LET selected == Selected(Site("model", l), token)
          IN  selected \subseteq 0..NumExperts - 1 /\ Cardinality(selected) = ExpertsPerToken

VARIABLE run  \* the locals of the collection under way

Tools == {"trace", "stage1", "reference", "profiled"}
V04Tools == {"reference", "profiled"}

Routers == [l \in 1..RoutedLayers |-> Site("model", l - 1)]

AtRest ==
    [phase |-> "idle", tool |-> "trace", prompt |-> 1, horizon |-> 0,
     input |-> <<>>, offset |-> 0, inPhase |-> "prompt",
     events |-> <<>>, fed |-> <<>>, candidates |-> <<>>, terminal |-> NoToken,
     registered |-> 0, failed |-> FALSE]

RunInit == run = AtRest

Idle == run.phase = "idle"

Observing == run.tool # "reference"

-----------------------------------------------------------------------------
(***************************************************************************)
(* run_prompt first looks whether an earlier collection has left a hook.   *)
(* Who begins a collection says which continuation the model computes.     *)
(***************************************************************************)
BeginsWithCarryover(tool) == tool \in V04Tools /\ hooked # {}

Begin(tool, prompt, horizon) ==
    /\ Idle
    /\ IF BeginsWithCarryover(tool)
       THEN /\ Record(Raised)
            /\ UNCHANGED run
       ELSE /\ run' = [AtRest EXCEPT
                         !.phase = IF tool = "reference" THEN "forward" ELSE "register",
                         !.tool = tool, !.prompt = prompt, !.horizon = horizon,
                         !.input = Prompts[prompt]]
            /\ UNCHANGED uses
    /\ IF BeginsWithCarryover(tool) \/ tool = "reference"
       THEN UNCHANGED <<capture, store>>
       ELSE NewCapture
    /\ UNCHANGED <<hooked, handles, stuck, dropped>>

\* _RouterHookCapture registers one hook for each router
RegisterHook ==
    /\ run.phase = "register"
    /\ Register("router", Routers[run.registered + 1])
    /\ run' = [run EXCEPT
                 !.registered = @ + 1,
                 !.phase = IF run.registered + 1 < RoutedLayers THEN "register"
                           ELSE IF run.tool = "profiled" THEN "assert" ELSE "forward"]
    /\ UNCHANGED <<greedy, store, capture, stuck, dropped, uses>>

\* Slip: a registration that fails leaves the hooks registered before it.
RegistrationFailsUncleaned ==
    /\ run.phase = "register"
    /\ handles' = {}
    /\ run' = AtRest
    /\ Record(Raised)
    /\ UNCHANGED <<greedy, hooked, store, capture, stuck, dropped>>

RegistrationFails ==
    /\ run.phase = "register"
    /\ \E failing \in MayFail(handles) : RemoveHandles(failing)
    /\ run' = AtRest
    /\ Record(Raised)
    /\ UNCHANGED <<greedy, capture, dropped>>

\* run_prompt: exactly one hook for each router, and it is the one installed
AssertHooks ==
    /\ run.phase = "assert"
    /\ LET installed == /\ \A l \in DOMAIN Routers :
                              Cardinality({h \in hooked : h.site = Routers[l]}) = 1
                        /\ hooked = handles
       IN  run' = [run EXCEPT !.phase = IF installed THEN "forward" ELSE "exit",
                              !.failed = ~ installed]
    /\ UNCHANGED modelVars

-----------------------------------------------------------------------------
\* a call of the model reaches its routers in the order of their layers
Forward ==
    /\ run.phase = "forward"
    /\ store' = store \o Observations(Routers, LAMBDA site : run.input)
    /\ run' = [run EXCEPT !.phase = IF Observing THEN "take" ELSE "choose"]
    /\ UNCHANGED <<greedy, hooked, handles, capture, stuck, dropped, uses>>

\* the call raises after it has reached some of them
ForwardFails ==
    /\ run.phase = "forward"
    /\ \E reached \in 0..RoutedLayers :
          store' = store \o Observations(SubSeq(Routers, 1, reached), LAMBDA site : run.input)
    /\ run' = [run EXCEPT !.phase = "exit", !.failed = TRUE]
    /\ UNCHANGED <<greedy, hooked, handles, capture, stuck, dropped, uses>>

(***************************************************************************)
(* _events_from_router_logits: layer by layer as captured, token by token. *)
(* Logits of another number of tokens than the input are refused.          *)
(***************************************************************************)
EventOf(observation, i) ==
    [phase |-> run.inPhase, position |-> run.offset + i - 1,
     layer |-> observation.site.layer, token |-> run.input[i],
     experts |-> Selected(observation.site, observation.tokens[i])]

EventsOf(observations) ==
    RowByRow(Len(observations), Len(run.input), LAMBDA o, i : EventOf(observations[o], i))

FitInput(observations) ==
    /\ observations # <<>>
    /\ \A o \in DOMAIN observations : Len(observations[o].tokens) = Len(run.input)

Take ==
    /\ run.phase = "take"
    /\ store' = <<>>
    /\ run' = IF FitInput(store)
              THEN [run EXCEPT !.phase = "choose", !.events = @ \o EventsOf(store)]
              ELSE [run EXCEPT !.phase = "exit", !.failed = TRUE]
    /\ UNCHANGED <<greedy, hooked, handles, capture, stuck, dropped, uses>>

-----------------------------------------------------------------------------
(***************************************************************************)
(* The candidate is the greedy token after what has been fed.  At the      *)
(* horizon nothing more is fed, whatever the candidate is; before it, an   *)
(* EOS candidate ends the collection unless collect feeds a fixed number.  *)
(***************************************************************************)
Candidate == greedy[Len(run.fed) + 1]

\* run_prompt records every candidate it decodes
WithCandidate == IF run.tool \in V04Tools THEN Append(run.candidates, Candidate)
                                          ELSE run.candidates

HorizonReached == Len(run.fed) = run.horizon

\* Slip: the candidate at the horizon is examined, too.
MeetsEosAnywhere == run.tool # "trace" /\ Candidate \in EosTokens

MeetsEos == run.tool # "trace" /\ ~ HorizonReached /\ Candidate \in EosTokens

StopAtHorizon ==
    /\ run.phase = "choose"
    /\ HorizonReached
    /\ ~ MeetsEos
    /\ run' = [run EXCEPT !.phase = "exit", !.candidates = WithCandidate]
    /\ UNCHANGED modelVars

StopAtEos ==
    /\ run.phase = "choose"
    /\ MeetsEos
    /\ run' = [run EXCEPT !.phase = "exit", !.candidates = WithCandidate,
                          !.terminal = Candidate]
    /\ UNCHANGED modelVars

\* the position of the token that is fed next
NextPosition == Len(Prompts[run.prompt]) + Len(run.fed)

FeedBack ==
    /\ run.phase = "choose"
    /\ ~ HorizonReached
    /\ ~ MeetsEos
    /\ run' = [run EXCEPT !.phase = "forward", !.candidates = WithCandidate,
                          !.fed = Append(@, Candidate), !.input = <<Candidate>>,
                          !.offset = NextPosition, !.inPhase = "generated"]
    /\ UNCHANGED modelVars

-----------------------------------------------------------------------------
\* __exit__; run_prompt compares the hooks of the model with the beginning
Exit ==
    /\ run.phase = "exit"
    /\ \E failing \in MayFail(handles) :
          /\ RemoveHandles(failing)
          /\ IF run.failed \/ failing # {}
             THEN /\ run' = AtRest
                  /\ Record(Raised)
             ELSE /\ run' = [run EXCEPT
                               !.phase = IF run.tool \in V04Tools THEN "lifecycle" ELSE "build"]
                  /\ UNCHANGED uses
    /\ UNCHANGED <<greedy, capture, dropped>>

CompareHooks ==
    /\ run.phase = "lifecycle"
    /\ IF hooked = {}
       THEN run' = [run EXCEPT !.phase = "build"] /\ UNCHANGED uses
       ELSE run' = AtRest /\ Record(Raised)
    /\ UNCHANGED <<greedy, hookVars>>

-----------------------------------------------------------------------------
Outcome ==
    [kind |-> "outcome", tool |-> run.tool, prompt |-> run.prompt,
     horizon |-> run.horizon, input |-> Prompts[run.prompt], events |-> run.events,
     fed |-> run.fed, candidates |-> run.candidates, terminal |-> run.terminal,
     position |-> IF run.terminal = NoToken THEN NoToken ELSE Len(run.fed),
     eosEmitted |-> run.terminal # NoToken,
     horizonExhausted |-> run.terminal = NoToken /\ HorizonReached]

\* what the constructors of the tool's result check
Accepted(outcome) ==
    /\ outcome.tool # "reference" =>
          IsTraceV1(outcome.events, NumExperts, ExpertsPerToken)
    /\ outcome.tool = "trace" => SuiteTrace(outcome)
    /\ outcome.tool = "stage1" =>
          EosAccounted(outcome, EosTokens, Horizon) /\ Stage1Trace(outcome)
    /\ outcome.tool \in V04Tools =>
          SemanticReconciles(outcome, Horizon) /\ EventsFitMode(outcome)

Build ==
    /\ run.phase = "build"
    /\ Record(IF Accepted(Outcome) THEN Outcome ELSE Rejected)
    /\ run' = AtRest
    /\ UNCHANGED <<greedy, hookVars>>

GraniteStep ==
    \/ RegisterHook
    \/ RegistrationFails
    \/ AssertHooks
    \/ Forward
    \/ ForwardFails
    \/ Take
    \/ StopAtHorizon
    \/ StopAtEos
    \/ FeedBack
    \/ Exit
    \/ CompareHooks
    \/ Build

Horizons(tool) == IF tool = "trace" THEN NewTokens ELSE {Horizon}
=============================================================================
