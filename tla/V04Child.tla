------------------------------ MODULE V04Child ------------------------------
(***************************************************************************)
(* A child process of a V0.4 attempt (v04.py: collect_v04_child): it loads *)
(* the model, runs every prompt of its schedule in both modes, compares    *)
(* the two runs of each prompt and all profiled runs with the recorded     *)
(* Stage 1 repetition, and leaves a valid or an invalid manifest.  The     *)
(* parent may kill it at any time.                                         *)
(***************************************************************************)
EXTENDS GraniteCollector

CONSTANTS
    ChildNumbers,
    CalibrationIds,  \* prompts of the calibration, in order
    EvaluationIds,
    Behaviours,      \* continuations that the model may compute in a run
    Trusted          \* for each prompt, its outcome in the Stage 1 repetition

\* CALIBRATION_IDS and EVALUATION_IDS are fixed lists of distinct prompts.
ASSUME ChildAssumption ==
    /\ CalibrationIds \in Seq(DOMAIN Prompts) /\ EvaluationIds \in Seq(DOMAIN Prompts)
    /\ CalibrationIds # <<>>
    /\ IsInjective(CalibrationIds) /\ IsInjective(EvaluationIds)
    /\ Behaviours \subseteq Continuations

VARIABLE child

AllModes == <<"reference", "profiled">>

OddChild(number) == number \in {1, 3}

\* V04_MODES or, in an even child, reversed
Modes(straight) == IF straight THEN AllModes ELSE <<AllModes[2], AllModes[1]>>

CalibrationRuns == 2 * Len(CalibrationIds)

\* calibration_schedule: every prompt in the first mode, then in the second
CalibrationSchedule(number) ==
    LET count == Len(CalibrationIds)
    IN  [k \in 1..CalibrationRuns |->
            IF k <= count THEN <<CalibrationIds[k], Modes(OddChild(number))[1]>>
            ELSE <<CalibrationIds[k - count], Modes(OddChild(number))[2]>>]

\* evaluation_schedule: prompt by prompt, the first mode alternating
EvaluationModes(number, index) == Modes(OddChild(number) = (index % 2 = 1))

EvaluationSchedule(number) ==
    [k \in 1..2 * Len(EvaluationIds) |->
        LET index == (k + 1) \div 2
        IN  <<EvaluationIds[index], EvaluationModes(number, index)[k - 2 * (index - 1)]>>]

Schedule(number) == CalibrationSchedule(number) \o EvaluationSchedule(number)

-----------------------------------------------------------------------------
NoManifest == [state |-> "none"]

Started ==
    [loaded |-> FALSE, calibrated |-> 0, evaluated |-> 0, snapshot |-> FALSE,
     failurePhase |-> "model_load"]

ChildInit ==
    \E number \in ChildNumbers :
        child = [number |-> number, phase |-> "load", progress |-> Started,
                 manifest |-> NoManifest]

\* the exception handler of collect_v04_child
Fail(progress) ==
    child' = [child EXCEPT !.phase = "ended", !.progress = progress,
                           !.manifest = [state |-> "invalid", partial |-> progress]]

\* the revision, the parameters, and the available memory are accepted
LoadModel ==
    /\ child.phase = "load"
    /\ child' = [child EXCEPT !.phase = "start", !.progress.loaded = TRUE,
                              !.progress.failurePhase = "calibration"]
    /\ UNCHANGED <<modelVars, run>>

LoadFails ==
    /\ child.phase = "load"
    /\ Fail(child.progress)
    /\ UNCHANGED <<modelVars, run>>

-----------------------------------------------------------------------------
Evaluating == Len(uses) >= CalibrationRuns

AllRun == Len(uses) = Len(Schedule(child.number))

EnteringRun ==
    IF Evaluating THEN [child.progress EXCEPT !.failurePhase = "evaluation"]
                  ELSE child.progress

StartRun ==
    /\ child.phase = "start" /\ ~ AllRun
    /\ greedy' \in Behaviours
    /\ LET next == Schedule(child.number)[Len(uses) + 1]
       IN  Begin(next[2], next[1], Horizon)
    /\ child' = [child EXCEPT !.phase = "running", !.progress = EnteringRun]

\* _run_with_memory finds less than the abort floor, or clocks that went back
LowBeforeRun ==
    /\ child.phase = "start" /\ ~ AllRun
    /\ Fail(EnteringRun)
    /\ UNCHANGED <<modelVars, run>>

LowAfterRun ==
    /\ child.phase = "running" /\ Idle
    /\ Last(uses).kind = "outcome"
    /\ Fail(child.progress)
    /\ UNCHANGED <<modelVars, run>>

\* the first run of a prompt in a mode
FirstRun(outcomes, prompt, mode) ==
    outcomes[Min({i \in DOMAIN outcomes :
                    outcomes[i].prompt = prompt /\ outcomes[i].tool = mode})]

\* the runs of a prompt in both modes give the same result
Paired(outcomes, prompt) ==
    PairAgrees(FirstRun(outcomes, prompt, "reference"), FirstRun(outcomes, prompt, "profiled"))

Calibration(outcomes) == SubSeq(outcomes, 1, CalibrationRuns)
Evaluation(outcomes) == SubSeq(outcomes, CalibrationRuns + 1, Len(outcomes))

\* which comparison is due after the last run
PairsAgree ==
    CASE Len(uses) = CalibrationRuns ->
           \A i \in DOMAIN CalibrationIds : Paired(uses, CalibrationIds[i])
      [] Len(uses) > CalibrationRuns /\ (Len(uses) - CalibrationRuns) % 2 = 0 ->
           Paired(SubSeq(uses, Len(uses) - 1, Len(uses)), Last(uses).prompt)
      [] OTHER -> TRUE

\* Slip: the progress of the evaluation counts runs and not prompts.
CountedByRun ==
    IF Len(uses) <= CalibrationRuns
    THEN [child.progress EXCEPT !.calibrated = Len(uses), !.snapshot = TRUE]
    ELSE [child.progress EXCEPT !.evaluated = Len(uses) - CalibrationRuns]

(***************************************************************************)
(* A calibration run counts as soon as it has returned, an evaluation      *)
(* prompt when both its runs have been compared.                           *)
(***************************************************************************)
Counted ==
    IF Len(uses) <= CalibrationRuns
    THEN [child.progress EXCEPT !.calibrated = Len(uses), !.snapshot = TRUE]
    ELSE [child.progress EXCEPT !.evaluated = (Len(uses) - CalibrationRuns) \div 2]

\* Slip: an exception of a run is not handled.
EndRunThatReturned ==
    /\ child.phase = "running" /\ Idle
    /\ Last(uses).kind = "outcome"
    /\ IF PairsAgree
       THEN child' = [child EXCEPT !.phase = "start", !.progress = Counted]
       ELSE Fail(IF Len(uses) > CalibrationRuns THEN child.progress ELSE Counted)
    /\ UNCHANGED <<modelVars, run>>

EndRun ==
    /\ child.phase = "running" /\ Idle
    /\ CASE Last(uses).kind # "outcome" -> Fail(child.progress)
         [] Last(uses).kind = "outcome" /\ ~ PairsAgree ->
               Fail(IF Len(uses) > CalibrationRuns THEN child.progress ELSE Counted)
         [] OTHER -> child' = [child EXCEPT !.phase = "start", !.progress = Counted]
    /\ UNCHANGED <<modelVars, run>>

-----------------------------------------------------------------------------
\* _validate_profiled_against_trusted, over calibration and evaluation runs
ProfiledMatch(outcomes) ==
    LET profiled == {i \in DOMAIN outcomes : outcomes[i].tool = "profiled"}
        ids == CalibrationIds \o EvaluationIds
    IN  /\ Cardinality(profiled) = Len(ids)
        /\ \A i \in profiled :
              /\ outcomes[i].prompt = ids[Cardinality(profiled \cap 1..i)]
              /\ MatchesTrusted(outcomes[i], Trusted[outcomes[i].prompt])

Validating == [child.progress EXCEPT !.failurePhase = "validation"]

CompareTrusted ==
    /\ child.phase = "start" /\ AllRun
    /\ IF ProfiledMatch(uses)
       THEN child' = [child EXCEPT !.phase = "publish", !.progress = Validating]
       ELSE Fail(Validating)
    /\ UNCHANGED <<modelVars, run>>

PublishManifest ==
    /\ child.phase = "publish"
    /\ child' = [child EXCEPT !.phase = "recheck",
                   !.manifest = [state |-> "valid", number |-> child.number, runs |-> uses]]
    /\ UNCHANGED <<modelVars, run>>

\* writing the manifest fails
PublishFails ==
    /\ child.phase = "publish"
    /\ Fail(child.progress)
    /\ UNCHANGED <<modelVars, run>>

(***************************************************************************)
(* _validate_child_record: the runs are those of the schedule, in order,   *)
(* agree in pairs, and the profiled ones match the trusted repetition.     *)
(***************************************************************************)
ChildRecordValid(manifest) ==
    /\ manifest.state = "valid"
    /\ [i \in DOMAIN manifest.runs |-> <<manifest.runs[i].prompt, manifest.runs[i].tool>>]
          = Schedule(manifest.number)
    /\ \A i \in DOMAIN manifest.runs :
          /\ SemanticReconciles(manifest.runs[i], Horizon)
          /\ EventsFitMode(manifest.runs[i])
    /\ \A i \in DOMAIN CalibrationIds :
          Paired(Calibration(manifest.runs), CalibrationIds[i])
    /\ \A i \in DOMAIN EvaluationIds :
          Paired(Evaluation(manifest.runs), EvaluationIds[i])
    /\ ProfiledMatch(manifest.runs)

\* the manifest is read back; an invalid one replaces it if it is refused
Recheck ==
    /\ child.phase = "recheck"
    /\ IF ChildRecordValid(child.manifest)
       THEN child' = [child EXCEPT !.phase = "ended"]
       ELSE Fail(child.progress)
    /\ UNCHANGED <<modelVars, run>>

\* the parent's timeout
Kill ==
    /\ child.phase # "ended"
    /\ child' = [child EXCEPT !.phase = "ended"]
    /\ run' = AtRest
    /\ hooked' = {}
    /\ handles' = {}
    /\ UNCHANGED <<greedy, store, capture, stuck, dropped, uses>>

-----------------------------------------------------------------------------
(***************************************************************************)
(* _validate_invalid_child_record: which progress an invalid manifest may  *)
(* report.                                                                 *)
(***************************************************************************)
InvalidRecordValid(manifest) ==
    LET partial == manifest.partial
    IN  /\ manifest.state = "invalid"
        /\ partial.failurePhase \in {"model_load", "calibration", "evaluation", "validation"}
        /\ partial.calibrated <= CalibrationRuns
        /\ partial.evaluated <= Len(EvaluationIds)
        /\ IF partial.loaded
           THEN /\ partial.evaluated > 0 => partial.calibrated = CalibrationRuns
                /\ partial.calibrated + partial.evaluated > 0 => partial.snapshot
                /\ partial.failurePhase = "calibration" => partial.evaluated = 0
                /\ partial.failurePhase \in {"evaluation", "validation"} =>
                      partial.calibrated = CalibrationRuns
                /\ partial.failurePhase = "validation" =>
                      partial.evaluated = Len(EvaluationIds)
           ELSE /\ partial.calibrated + partial.evaluated = 0
                /\ ~ partial.snapshot
                /\ partial.failurePhase = "model_load"

ChildStep ==
    \/ LoadModel
    \/ LoadFails
    \/ StartRun
    \/ LowBeforeRun
    \/ GraniteStep /\ UNCHANGED child
    \/ LowAfterRun
    \/ EndRun
    \/ CompareTrusted
    \/ PublishManifest
    \/ PublishFails
    \/ Recheck

ChildNext == ChildStep \/ Kill
=============================================================================
