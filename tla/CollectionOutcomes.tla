------------------------- MODULE CollectionOutcomes -------------------------
(***************************************************************************)
(* What a finished collection must satisfy before it is used: the checks   *)
(* of Stage1CollectionOutcome, SemanticRecord and PromptRun, of the        *)
(* validators that read their records back, and of the comparisons between *)
(* collections of the same prompt (collector.py, stage1.py, v04.py,        *)
(* workflow.py).                                                           *)
(*                                                                         *)
(* An outcome has its tool, prompt, horizon, events, the tokens fed back,  *)
(* the candidates seen, and the terminal EOS token with its position.      *)
(***************************************************************************)
EXTENDS RoutingViews

NoToken == -1

Terminated(outcome) == outcome.terminal # NoToken

AtHorizon(outcome, horizon) == Len(outcome.fed) = horizon

(***************************************************************************)
(* Stage1CollectionOutcome, and _validate_eos_record for its record:       *)
(* exactly one of an EOS candidate and the exhausted horizon.              *)
(***************************************************************************)
EosAccounted(outcome, eos, horizon) ==
    /\ Len(outcome.fed) <= horizon
    /\ \A i \in DOMAIN outcome.fed : outcome.fed[i] \notin eos
    /\ outcome.eosEmitted # outcome.horizonExhausted
    /\ IF outcome.eosEmitted
       THEN /\ outcome.terminal \in eos
            /\ outcome.position = Len(outcome.fed)
       ELSE /\ ~ Terminated(outcome)
            /\ outcome.position = NoToken
            /\ AtHorizon(outcome, horizon)

\* _validate_stage1_trace
Stage1Trace(outcome) ==
    /\ IsWhole(outcome.events, Len(outcome.fed))
    /\ TokensMatch(outcome.events, outcome.fed)

\* _validate_trace_structure of the corpus workflow
SuiteTrace(outcome) == IsWhole(outcome.events, outcome.horizon)

(***************************************************************************)
(* SemanticRecord: every candidate but the last is fed; the last one is    *)
(* the terminal EOS or the candidate at the horizon.                       *)
(***************************************************************************)
SemanticReconciles(outcome, horizon) ==
    /\ outcome.eosEmitted # outcome.horizonExhausted
    /\ Len(outcome.candidates) = Len(outcome.fed) + 1
    /\ SubSeq(outcome.candidates, 1, Len(outcome.fed)) = outcome.fed
    /\ IF outcome.horizonExhausted
       THEN /\ AtHorizon(outcome, horizon)
            /\ ~ Terminated(outcome)
            /\ outcome.position = NoToken
       ELSE /\ outcome.terminal = Last(outcome.candidates)
            /\ outcome.position = Len(outcome.fed)

\* PromptRun
EventsFitMode(outcome) == outcome.events = <<>> <=> outcome.tool = "reference"

\* the fields that SemanticRecord compares
Semantic(outcome) ==
    [input |-> outcome.input, fed |-> outcome.fed, candidates |-> outcome.candidates,
     terminal |-> outcome.terminal, position |-> outcome.position,
     eosEmitted |-> outcome.eosEmitted, horizonExhausted |-> outcome.horizonExhausted]

\* Slip: what the two runs generated is not compared.
PairAgreesOnPrompt(reference, profiled) == reference.prompt = profiled.prompt

\* validate_prompt_pair
PairAgrees(reference, profiled) ==
    /\ reference.prompt = profiled.prompt
    /\ Semantic(reference) = Semantic(profiled)

\* _validate_profiled_against_trusted: Stage 1 recorded no candidates
MatchesTrusted(profiled, trusted) ==
    /\ profiled.input = trusted.input
    /\ profiled.fed = trusted.fed
    /\ profiled.terminal = trusted.terminal
    /\ profiled.position = trusted.position
    /\ profiled.eosEmitted = trusted.eosEmitted
    /\ profiled.horizonExhausted = trusted.horizonExhausted
    /\ profiled.events = trusted.events
=============================================================================
