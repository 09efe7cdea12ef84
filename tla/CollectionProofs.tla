-------------------------- MODULE CollectionProofs --------------------------
(***************************************************************************)
(* Theorems about Collection, for every model: any prompts, continuations, *)
(* layers, horizons, and any number of collections and failing removals.   *)
(***************************************************************************)
EXTENDS Collection, SequenceTheorems, FiniteSetTheorems, TLAPS

(***************************************************************************)
(* Where a collection holds no handles: a Granite collection when it is    *)
(* idle or has left its context, a Switch collection also during the       *)
(* baseline generation.                                                    *)
(***************************************************************************)
RunHoldsNothing == run.phase \in {"idle", "lifecycle", "build"}

ProbeHoldsNothing ==
  probe.pass = "baseline" \/ probe.phase \in {"idle", "observe", "compare", "finish"}

\* The hooks that no handle is held of are accounted for.
HooksAccounted == hooked \subseteq handles \cup stuck \cup dropped

(***************************************************************************)
(* The inductive invariant.  A hook on the model is one that somebody has  *)
(* a handle of, or one that is accounted for; and handles are held only    *)
(* inside of a context.  That a Switch collection holds nothing while its  *)
(* pass is the baseline needs that it registers in the other passes only.  *)
(***************************************************************************)
HookInv ==
  /\ HooksAccounted
  /\ "phase" \in DOMAIN run
  /\ "phase" \in DOMAIN probe /\ "pass" \in DOMAIN probe
  /\ use # "switch" => ProbeIdle /\ (RunHoldsNothing => handles = {})
  /\ use = "switch" => Idle /\ (ProbeHoldsNothing => handles = {})
  /\ probe.phase \in {"register", "experts"} => probe.pass # "baseline"

LEMMA RegisterAccounts ==
  ASSUME NEW kind, NEW site, HooksAccounted, Register(kind, site),
         UNCHANGED <<stuck, dropped>>
  PROVE  HooksAccounted'
BY DEF HooksAccounted, Register

LEMMA RemoveAccounts ==
  ASSUME NEW failing, HooksAccounted, RemoveHandles(failing), UNCHANGED dropped
  PROVE  HooksAccounted' /\ handles' = {}
BY DEF HooksAccounted, RemoveHandles

LEMMA NothingHooked ==
  ASSUME HooksAccounted, UNCHANGED <<hooked, handles, stuck, dropped>>
  PROVE  HooksAccounted'
BY DEF HooksAccounted

-----------------------------------------------------------------------------
\* What a step of a Granite collection does to the hooks.
RunKeeps ==
  /\ HooksAccounted'
  /\ "phase" \in DOMAIN run'
  /\ (RunHoldsNothing => handles = {})'

LEMMA BeginKeeps ==
  ASSUME HooksAccounted, "phase" \in DOMAIN run, RunHoldsNothing => handles = {},
         NEW tool, NEW prompt, NEW horizon, Begin(tool, prompt, horizon)
  PROVE  RunKeeps
<1>1. HooksAccounted'
  BY NothingHooked DEF Begin
<1>2. handles' = {}
  BY DEF Begin, Idle, RunHoldsNothing
<1>3. "phase" \in DOMAIN run'
  BY DEF Begin, AtRest
<1> QED
  BY <1>1, <1>2, <1>3 DEF RunKeeps

LEMMA GraniteKeeps ==
  ASSUME HooksAccounted, "phase" \in DOMAIN run, RunHoldsNothing => handles = {},
         GraniteStep
  PROVE  RunKeeps
<1>0. "phase" \in DOMAIN AtRest
  BY DEF AtRest
<1>1. CASE RegisterHook
  <2>1. HooksAccounted'
    BY <1>1, RegisterAccounts DEF RegisterHook
  <2>2. "phase" \in DOMAIN run' /\ run'.phase \in {"register", "assert", "forward"}
    BY <1>1 DEF RegisterHook
  <2> QED
    BY <2>1, <2>2 DEF RunKeeps, RunHoldsNothing
<1>2. CASE RegistrationFails
  BY <1>0, <1>2, RemoveAccounts DEF RegistrationFails, RunKeeps
<1>3. CASE AssertHooks
  <2>1. HooksAccounted' /\ handles' = handles
    BY <1>3, NothingHooked DEF AssertHooks, modelVars
  <2>2. "phase" \in DOMAIN run' /\ run'.phase \in {"forward", "exit"}
    BY <1>3 DEF AssertHooks
  <2> QED
    BY <2>1, <2>2 DEF RunKeeps, RunHoldsNothing
<1>4. CASE Forward
  <2>1. HooksAccounted' /\ handles' = handles
    BY <1>4, NothingHooked DEF Forward
  <2>2. "phase" \in DOMAIN run' /\ run'.phase \in {"take", "choose"}
    BY <1>4 DEF Forward
  <2> QED
    BY <2>1, <2>2 DEF RunKeeps, RunHoldsNothing
<1>5. CASE ForwardFails
  <2>1. HooksAccounted' /\ handles' = handles
    BY <1>5, NothingHooked DEF ForwardFails
  <2>2. "phase" \in DOMAIN run' /\ run'.phase = "exit"
    BY <1>5 DEF ForwardFails
  <2> QED
    BY <2>1, <2>2 DEF RunKeeps, RunHoldsNothing
<1>6. CASE Take
  <2>1. HooksAccounted' /\ handles' = handles
    BY <1>6, NothingHooked DEF Take
  <2>2. "phase" \in DOMAIN run' /\ run'.phase \in {"choose", "exit"}
    BY <1>6 DEF Take
  <2> QED
    BY <2>1, <2>2 DEF RunKeeps, RunHoldsNothing
<1>7. CASE StopAtHorizon \/ StopAtEos \/ FeedBack
  <2>1. HooksAccounted' /\ handles' = handles
    BY <1>7, NothingHooked DEF StopAtHorizon, StopAtEos, FeedBack, modelVars
  <2>2. "phase" \in DOMAIN run' /\ run'.phase \in {"exit", "forward"}
    BY <1>7 DEF StopAtHorizon, StopAtEos, FeedBack
  <2> QED
    BY <2>1, <2>2 DEF RunKeeps, RunHoldsNothing
<1>8. CASE Exit
  <2>1. HooksAccounted' /\ handles' = {}
    BY <1>8, RemoveAccounts DEF Exit
  <2>2. "phase" \in DOMAIN run'
    BY <1>0, <1>8 DEF Exit
  <2> QED
    BY <2>1, <2>2 DEF RunKeeps
<1>9. CASE CompareHooks \/ Build
  <2>1. HooksAccounted' /\ handles' = handles
    BY <1>9, NothingHooked DEF CompareHooks, Build, hookVars
  <2>2. "phase" \in DOMAIN run'
    BY <1>0, <1>9 DEF CompareHooks, Build
  <2>3. RunHoldsNothing
    BY <1>9 DEF CompareHooks, Build, RunHoldsNothing
  <2> QED
    BY <2>1, <2>2, <2>3 DEF RunKeeps
<1> QED
  BY <1>1, <1>2, <1>3, <1>4, <1>5, <1>6, <1>7, <1>8, <1>9 DEF GraniteStep

-----------------------------------------------------------------------------
\* A child begins collections, lets them run, and otherwise keeps off them.
LEMMA ChildKeeps ==
  ASSUME HooksAccounted, "phase" \in DOMAIN run, RunHoldsNothing => handles = {},
         ChildNext
  PROVE  RunKeeps
<1>1. CASE StartRun
  BY <1>1, BeginKeeps DEF StartRun
<1>2. CASE GraniteStep
  BY <1>2, GraniteKeeps
<1>3. CASE UNCHANGED <<modelVars, run>>
  <2>1. HooksAccounted'
    BY <1>3, NothingHooked DEF modelVars
  <2> QED
    BY <1>3, <2>1 DEF RunKeeps, RunHoldsNothing, modelVars
<1>4. CASE Kill
  BY <1>4 DEF Kill, AtRest, RunKeeps, HooksAccounted
<1> QED
  BY <1>1, <1>2, <1>3, <1>4
     DEF ChildNext, ChildStep, LoadModel, LoadFails, LowBeforeRun, LowAfterRun, EndRun,
         CompareTrusted, PublishManifest, PublishFails, Recheck

-----------------------------------------------------------------------------
\* What a step of a Switch collection does to the hooks.
ProbeOK ==
  /\ "phase" \in DOMAIN probe /\ "pass" \in DOMAIN probe
  /\ ProbeHoldsNothing => handles = {}
  /\ probe.phase \in {"register", "experts"} => probe.pass # "baseline"

LEMMA AtRestHolds ==
  ASSUME probe' = AtRestProbe, handles' = {}
  PROVE  ProbeOK'
BY DEF AtRestProbe, ProbeOK

\* A step within a pass does not reach for handles.
LEMMA WithinPass ==
  ASSUME ProbeOK, "phase" \in DOMAIN probe', "pass" \in DOMAIN probe',
         probe'.pass = probe.pass, UNCHANGED handles,
         probe'.phase \notin {"idle", "observe", "compare", "finish", "register", "experts"}
  PROVE  ProbeOK'
BY DEF ProbeOK, ProbeHoldsNothing

\* A pass that observes begins when no handle is held.
LEMMA PassBegins ==
  ASSUME ProbeOK, ProbeHoldsNothing, UNCHANGED handles,
         "phase" \in DOMAIN probe', "pass" \in DOMAIN probe', probe'.pass # "baseline"
  PROVE  ProbeOK'
BY DEF ProbeOK, ProbeHoldsNothing

LEMMA SwitchKeeps ==
  ASSUME HooksAccounted, ProbeOK, SwitchStep
  PROVE  HooksAccounted' /\ ProbeOK'
<1>0. "phase" \in DOMAIN probe /\ "pass" \in DOMAIN probe
  BY DEF ProbeOK
<1>1. CASE RegisterRouter
  <2>1. HooksAccounted'
    BY <1>1, RegisterAccounts DEF RegisterRouter
  <2>2. /\ "phase" \in DOMAIN probe' /\ "pass" \in DOMAIN probe'
        /\ probe'.pass = probe.pass
        /\ probe'.phase \in {"register", "experts", "encoder"}
    BY <1>0, <1>1 DEF RegisterRouter
  <2>3. probe.pass # "baseline"
    BY <1>1 DEF RegisterRouter, ProbeOK
  <2> QED
    BY <2>1, <2>2, <2>3 DEF ProbeOK, ProbeHoldsNothing
<1>2. CASE RouterRegistrationFails
  BY <1>2, RemoveAccounts, AtRestHolds DEF RouterRegistrationFails, GiveUp
<1>3. CASE RegisterExperts
  <2>1. HooksAccounted'
    BY <1>3, RegisterAccounts DEF RegisterExperts
  <2>2. /\ "phase" \in DOMAIN probe' /\ "pass" \in DOMAIN probe'
        /\ probe'.pass = probe.pass
        /\ probe'.phase \in {"experts", "dispatch"}
    BY <1>0, <1>3 DEF RegisterExperts
  <2>3. probe.pass # "baseline"
    BY <1>3 DEF RegisterExperts, ProbeOK
  <2> QED
    BY <2>1, <2>2, <2>3 DEF ProbeOK, ProbeHoldsNothing
<1>4. CASE ExpertRegistrationFails
  <2>1. HooksAccounted'
    BY <1>4 DEF ExpertRegistrationFails, HooksAccounted
  <2> QED
    BY <1>4, <2>1, AtRestHolds DEF ExpertRegistrationFails, GiveUp
<1>5. CASE Call
  <2>1. HooksAccounted'
    BY <1>5, NothingHooked DEF Call
  <2>2. /\ "phase" \in DOMAIN probe' /\ "pass" \in DOMAIN probe'
        /\ probe'.pass = probe.pass
        /\ probe'.phase = AfterCall
    BY <1>0, <1>5 DEF Call
  <2>3. AfterCall \in {"take", "decoder", "choose"}
    BY DEF AfterCall, AfterStage
  <2> QED
    BY <1>5, <2>1, <2>2, <2>3, WithinPass DEF Call
<1>6. CASE CallFails
  <2>1. HooksAccounted'
    BY <1>6, NothingHooked DEF CallFails
  <2>2. CASE Observed
    <3>1. /\ "phase" \in DOMAIN probe' /\ "pass" \in DOMAIN probe'
          /\ probe'.pass = probe.pass
          /\ probe'.phase = "exit"
      BY <1>0, <1>6, <2>2 DEF CallFails
    <3> QED
      BY <1>6, <2>1, <3>1, WithinPass DEF CallFails
  <2>3. CASE ~ Observed
    <3>1. handles = {}
      BY <2>3 DEF Observed, ProbeOK, ProbeHoldsNothing
    <3> QED
      BY <1>6, <2>1, <2>3, <3>1, AtRestHolds DEF CallFails, GiveUp
  <2> QED
    BY <2>2, <2>3
<1>7. CASE TakeObservations
  <2>1. HooksAccounted'
    BY <1>7, NothingHooked DEF TakeObservations
  <2>2. /\ "phase" \in DOMAIN probe' /\ "pass" \in DOMAIN probe'
        /\ probe'.pass = probe.pass
        /\ probe'.phase \in {"exit", "decoder", "choose"}
    BY <1>0, <1>7 DEF TakeObservations, AfterStage
  <2> QED
    BY <1>7, <2>1, <2>2, WithinPass DEF TakeObservations
<1>8. CASE EndGeneration
  <2>1. HooksAccounted' /\ handles' = handles
    BY <1>8, NothingHooked DEF EndGeneration, modelVars
  <2>2. /\ "phase" \in DOMAIN probe' /\ "pass" \in DOMAIN probe'
        /\ probe'.pass = probe.pass
        /\ probe'.phase = AfterGeneration
    BY <1>0, <1>8 DEF EndGeneration
  <2>3. AfterGeneration = IF probe.pass # "baseline" THEN "exit" ELSE "observe"
    BY DEF AfterGeneration, Observed
  <2> QED
    BY <2>1, <2>2, <2>3 DEF ProbeOK, ProbeHoldsNothing
<1>9. CASE FeedDecoder
  <2>1. HooksAccounted' /\ handles' = handles
    BY <1>9, NothingHooked DEF FeedDecoder, modelVars
  <2>2. /\ "phase" \in DOMAIN probe' /\ "pass" \in DOMAIN probe'
        /\ probe'.pass = probe.pass
        /\ probe'.phase = "decoder"
    BY <1>0, <1>9 DEF FeedDecoder
  <2> QED
    BY <2>1, <2>2, WithinPass
<1>10. CASE Observe
  <2>1. HooksAccounted'
    BY <1>10, NothingHooked DEF Observe
  <2>2. /\ "phase" \in DOMAIN probe' /\ "pass" \in DOMAIN probe'
        /\ probe'.pass = "observed"
    BY <1>0, <1>10 DEF Observe, Begins
  <2>3. ProbeHoldsNothing
    BY <1>10 DEF Observe, ProbeHoldsNothing
  <2> QED
    BY <1>10, <2>1, <2>2, <2>3, PassBegins DEF Observe
<1>11. CASE ExitProbe
  <2>1. HooksAccounted' /\ handles' = {}
    BY <1>11, RemoveAccounts DEF ExitProbe
  <2>2. CASE probe' = AtRestProbe
    BY <2>1, <2>2, AtRestHolds
  <2>3. CASE probe' # AtRestProbe
    <3>1. /\ "phase" \in DOMAIN probe' /\ "pass" \in DOMAIN probe'
          /\ probe'.phase \in {"compare", "finish"}
      BY <1>0, <1>11, <2>3 DEF ExitProbe, GiveUp
    <3> QED
      BY <2>1, <3>1 DEF ProbeOK
  <2> QED
    BY <2>2, <2>3
<1>12. CASE Compare
  <2>1. HooksAccounted' /\ handles' = handles
    BY <1>12, NothingHooked DEF Compare
  <2>2. ProbeHoldsNothing
    BY <1>12 DEF Compare, ProbeHoldsNothing
  <2>3. CASE IdenticalRuns
    <3>1. /\ "phase" \in DOMAIN probe' /\ "pass" \in DOMAIN probe'
          /\ probe'.pass = "dispatch"
      BY <1>0, <1>12, <2>3 DEF Compare, Begins
    <3> QED
      BY <2>1, <2>2, <3>1, PassBegins
  <2>4. CASE ~ IdenticalRuns
    BY <1>12, <2>1, <2>2, <2>4, AtRestHolds DEF Compare, GiveUp, ProbeOK
  <2> QED
    BY <2>3, <2>4
<1>13. CASE Finish
  <2>1. HooksAccounted' /\ handles' = handles
    BY <1>13, NothingHooked DEF Finish, hookVars
  <2>2. handles = {}
    BY <1>13 DEF Finish, ProbeOK, ProbeHoldsNothing
  <2> QED
    BY <1>13, <2>1, <2>2, AtRestHolds DEF Finish
<1> QED
  BY <1>1, <1>2, <1>3, <1>4, <1>5, <1>6, <1>7, <1>8, <1>9, <1>10, <1>11, <1>12, <1>13
     DEF SwitchStep

LEMMA SwitchBegins ==
  ASSUME HooksAccounted, ProbeOK, NEW prompt, NEW horizon, BeginSwitch(prompt, horizon)
  PROVE  HooksAccounted' /\ ProbeOK'
<1>1. HooksAccounted' /\ handles' = handles
  BY NothingHooked DEF BeginSwitch, modelVars
<1>2. handles = {}
  BY DEF BeginSwitch, ProbeIdle, ProbeOK, ProbeHoldsNothing
<1>3. /\ "phase" \in DOMAIN probe' /\ "pass" \in DOMAIN probe'
      /\ probe'.phase = "encoder"
  BY DEF BeginSwitch, AtRestProbe
<1> QED
  BY <1>1, <1>2, <1>3 DEF ProbeOK

-----------------------------------------------------------------------------
LEMMA InitHooks == CollectionInit => HookInv
<1> SUFFICES ASSUME CollectionInit PROVE HookInv
  OBVIOUS
<1>1. hooked = {} /\ handles = {} /\ run = AtRest /\ probe = AtRestProbe
  BY DEF CollectionInit, ModelInit, RunInit, ProbeInit
<1>2. "phase" \in DOMAIN AtRest /\ AtRest.phase = "idle"
  BY DEF AtRest
<1>3. /\ "phase" \in DOMAIN AtRestProbe /\ "pass" \in DOMAIN AtRestProbe
      /\ AtRestProbe.phase = "idle"
  BY DEF AtRestProbe
<1> QED
  BY <1>1, <1>2, <1>3 DEF HookInv, HooksAccounted, Idle, ProbeIdle

LEMMA NextKeepsHooks ==
  ASSUME HookInv, [CollectionNext]_collectionVars
  PROVE  HookInv'
<1>1. /\ HooksAccounted
      /\ "phase" \in DOMAIN run
      /\ "phase" \in DOMAIN probe /\ "pass" \in DOMAIN probe
      /\ probe.phase \in {"register", "experts"} => probe.pass # "baseline"
  BY DEF HookInv
<1>2. CASE GraniteUse \/ ChildUse
  <2>1. /\ use # "switch" /\ UNCHANGED <<probe, use>>
        /\ ProbeIdle /\ (RunHoldsNothing => handles = {})
    BY <1>2 DEF GraniteUse, ChildUse, HookInv
  <2>2. RunKeeps
    BY <1>1, <1>2, <2>1, BeginKeeps, GraniteKeeps, ChildKeeps DEF GraniteUse, ChildUse
  <2> QED
    BY <1>1, <2>1, <2>2 DEF RunKeeps, HookInv, ProbeIdle
<1>3. CASE SwitchUse
  <2>1. /\ use = "switch" /\ UNCHANGED <<run, use>>
        /\ Idle /\ ProbeOK
    BY <1>1, <1>3 DEF SwitchUse, HookInv, ProbeOK
  <2>2. HooksAccounted' /\ ProbeOK'
    BY <1>1, <1>3, <2>1, SwitchKeeps, SwitchBegins DEF SwitchUse
  <2> QED
    BY <1>1, <2>1, <2>2 DEF ProbeOK, HookInv, Idle
<1>4. CASE UNCHANGED collectionVars
  BY <1>4 DEF collectionVars, modelVars, HookInv, HooksAccounted, RunHoldsNothing, ProbeHoldsNothing,
              Idle, ProbeIdle
<1> QED
  BY <1>2, <1>3, <1>4 DEF CollectionNext

LEMMA HookInvariant == CollectionSpec => []HookInv
<1> QED
  BY InitHooks, NextKeepsHooks, PTL DEF CollectionSpec

(***************************************************************************)
(* However collections end, and however often registrations, calls and     *)
(* removals fail, the hooks that stay on the model are those whose removal *)
(* failed and those that a dispatch check dropped; for any model.          *)
(***************************************************************************)
THEOREM CollectionLeavesNoHook == CollectionSpec => []NoHookLeftBehind
<1>1. HookInv => NoHookLeftBehind
  BY DEF HookInv, HooksAccounted, NoHookLeftBehind, RunHoldsNothing, ProbeHoldsNothing, Idle, ProbeIdle
<1> QED
  BY <1>1, HookInvariant, PTL

-----------------------------------------------------------------------------
(***************************************************************************)
(* A child runs a schedule in which every run has a partner: the run of    *)
(* the same prompt in the other mode.                                      *)
(***************************************************************************)
\* The length of the schedule.
TotalRuns == CalibrationRuns + 2 * Len(EvaluationIds)

Partner(i) ==
  IF i <= CalibrationRuns
  THEN IF i <= Len(CalibrationIds) THEN i + Len(CalibrationIds) ELSE i - Len(CalibrationIds)
  ELSE IF i % 2 = 1 THEN i + 1 ELSE i - 1

LEMMA ModesAreBoth ==
  ASSUME NEW straight \in BOOLEAN
  PROVE  /\ Modes(straight)[1] \in V04Tools /\ Modes(straight)[2] \in V04Tools
         /\ Modes(straight)[1] # Modes(straight)[2]
BY DEF Modes, AllModes, V04Tools

LEMMA CountsAreNumbers ==
  /\ Len(CalibrationIds) \in Nat \ {0} /\ Len(EvaluationIds) \in Nat
  /\ CalibrationRuns = Len(CalibrationIds) + Len(CalibrationIds)
  /\ TotalRuns = CalibrationRuns + 2 * Len(EvaluationIds)
  /\ CalibrationRuns \in Nat \ {0} /\ TotalRuns \in Nat
<1>1. Len(CalibrationIds) \in Nat \ {0} /\ Len(EvaluationIds) \in Nat
  BY ChildAssumption
<1> QED
  BY <1>1 DEF CalibrationRuns, TotalRuns

LEMMA ScheduleEntries ==
  ASSUME NEW number
  PROVE  /\ Len(Schedule(number)) = TotalRuns
         /\ \A k \in 1..TotalRuns :
               Schedule(number)[k] = IF k <= CalibrationRuns THEN CalibrationSchedule(number)[k]
                                     ELSE EvaluationSchedule(number)[k - CalibrationRuns]
<1> DEFINE calibration == CalibrationSchedule(number)
           evaluation == EvaluationSchedule(number)
<1>1. DOMAIN calibration = 1..CalibrationRuns /\ DOMAIN evaluation = 1..2 * Len(EvaluationIds)
  BY DEF CalibrationSchedule, EvaluationSchedule
<1>2. /\ calibration \in Seq(Range(calibration)) /\ Len(calibration) = CalibrationRuns
      /\ evaluation \in Seq(Range(evaluation)) /\ Len(evaluation) = 2 * Len(EvaluationIds)
  <2>1. calibration = [k \in 1..CalibrationRuns |-> calibration[k]]
    BY DEF CalibrationSchedule
  <2>2. evaluation = [k \in 1..2 * Len(EvaluationIds) |-> evaluation[k]]
    BY DEF EvaluationSchedule
  <2>3. \A k \in 1..CalibrationRuns : calibration[k] \in Range(calibration)
    BY <1>1 DEF Range
  <2>4. \A k \in 1..2 * Len(EvaluationIds) : evaluation[k] \in Range(evaluation)
    BY <1>1 DEF Range
  <2> HIDE DEF calibration, evaluation
  <2>5. CalibrationRuns \in Nat /\ 2 * Len(EvaluationIds) \in Nat
    BY CountsAreNumbers
  <2> QED
    BY <2>1, <2>2, <2>3, <2>4, <2>5, LenProperties
<1> HIDE DEF calibration, evaluation
<1>3. Schedule(number) = calibration \o evaluation
  BY DEF Schedule, calibration, evaluation
<1>4. /\ calibration \in Seq(Range(calibration) \cup Range(evaluation))
      /\ evaluation \in Seq(Range(calibration) \cup Range(evaluation))
  BY <1>2, SeqMonotonic
<1>5. /\ Len(Schedule(number)) = TotalRuns
      /\ \A k \in 1..TotalRuns :
            Schedule(number)[k] = IF k <= CalibrationRuns THEN calibration[k]
                                  ELSE evaluation[k - CalibrationRuns]
  <2>1. /\ Len(calibration \o evaluation) = Len(calibration) + Len(evaluation)
        /\ \A k \in 1..Len(calibration) + Len(evaluation) :
              (calibration \o evaluation)[k] = IF k <= Len(calibration) THEN calibration[k]
                                               ELSE evaluation[k - Len(calibration)]
    BY <1>4, ConcatProperties
  <2>2. Len(calibration) + Len(evaluation) = TotalRuns
    BY <1>2, CountsAreNumbers
  <2> QED
    BY <1>2, <1>3, <2>1, <2>2
<1> QED
  BY <1>5 DEF calibration, evaluation

LEMMA PartnerInRange ==
  ASSUME NEW i \in 1..TotalRuns
  PROVE  /\ Partner(i) \in 1..TotalRuns
         /\ Partner(i) <= CalibrationRuns <=> i <= CalibrationRuns
<1>1. TotalRuns % 2 = 0 /\ CalibrationRuns % 2 = 0
  BY CountsAreNumbers
<1> QED
  BY <1>1, CountsAreNumbers DEF Partner

\* The partner of a run is the run of the same prompt in the other mode.
LEMMA PartnerOnSchedule ==
  ASSUME NEW number, NEW i \in 1..TotalRuns
  PROVE  /\ Partner(i) \in 1..TotalRuns
         /\ Partner(i) <= CalibrationRuns <=> i <= CalibrationRuns
         /\ Schedule(number)[Partner(i)][1] = Schedule(number)[i][1]
         /\ Schedule(number)[i][2] \in V04Tools /\ Schedule(number)[Partner(i)][2] \in V04Tools
         /\ Schedule(number)[Partner(i)][2] # Schedule(number)[i][2]
<1>1. CASE i <= CalibrationRuns
  <2>0. OddChild(number) \in BOOLEAN
    BY DEF OddChild
  <2> DEFINE count == Len(CalibrationIds)
  <2>1. Partner(i) = IF i <= count THEN i + count ELSE i - count
    BY <1>1, CountsAreNumbers DEF Partner
  <2>2. /\ Partner(i) \in 1..CalibrationRuns
        /\ i <= count <=> Partner(i) > count
        /\ (IF i <= count THEN i ELSE i - count)
              = (IF Partner(i) <= count THEN Partner(i) ELSE Partner(i) - count)
    BY <1>1, <2>1, CountsAreNumbers
  <2>3. \A k \in 1..CalibrationRuns :
           /\ Schedule(number)[k][1] = CalibrationIds[IF k <= count THEN k ELSE k - count]
           /\ Schedule(number)[k][2] = Modes(OddChild(number))[IF k <= count THEN 1 ELSE 2]
    <3> TAKE k \in 1..CalibrationRuns
    <3>1. Schedule(number)[k] = CalibrationSchedule(number)[k]
      BY ScheduleEntries, CountsAreNumbers, SMTT(30)
    <3>2. CalibrationSchedule(number)[k]
             = IF k <= count THEN <<CalibrationIds[k], Modes(OddChild(number))[1]>>
               ELSE <<CalibrationIds[k - count], Modes(OddChild(number))[2]>>
      BY DEF CalibrationSchedule
    <3> QED
      BY <3>1, <3>2
  <2> HIDE DEF count
  <2> QED
    <3>1. i \in 1..CalibrationRuns /\ CalibrationRuns <= TotalRuns
      BY <1>1, CountsAreNumbers
    <3>2. Schedule(number)[Partner(i)][1] = Schedule(number)[i][1]
      BY <2>2, <2>3, <3>1
    <3>3. \/ /\ Schedule(number)[i][2] = Modes(OddChild(number))[1]
             /\ Schedule(number)[Partner(i)][2] = Modes(OddChild(number))[2]
          \/ /\ Schedule(number)[i][2] = Modes(OddChild(number))[2]
             /\ Schedule(number)[Partner(i)][2] = Modes(OddChild(number))[1]
      <4>1. CASE i <= count
        BY <2>2, <2>3, <3>1, <4>1, CountsAreNumbers DEF count
      <4>2. CASE ~ (i <= count)
        BY <2>2, <2>3, <3>1, <4>2, CountsAreNumbers DEF count
      <4> QED
        BY <4>1, <4>2
    <3> QED
      BY <1>1, <2>0, <2>2, <3>1, <3>2, <3>3, ModesAreBoth, CountsAreNumbers
<1>2. CASE i > CalibrationRuns
  <2> DEFINE k == i - CalibrationRuns
             p == Partner(i) - CalibrationRuns
  <2>1. k \in 1..2 * Len(EvaluationIds)
    BY <1>2, CountsAreNumbers
  <2>2. PICK m \in 1..Len(EvaluationIds) : k = 2 * m - 1 \/ k = 2 * m
    <3>1. /\ (k + 1) \div 2 \in 1..Len(EvaluationIds)
          /\ k = 2 * ((k + 1) \div 2) - 1 \/ k = 2 * ((k + 1) \div 2)
      BY <2>1, CountsAreNumbers
    <3> QED
      BY <3>1
  <2>3. Partner(i) = IF k = 2 * m - 1 THEN i + 1 ELSE i - 1
    BY <1>2, <2>1, <2>2, CountsAreNumbers DEF Partner
  <2>4. /\ p \in 1..2 * Len(EvaluationIds)
        /\ (p + 1) \div 2 = m /\ (k + 1) \div 2 = m
        /\ {p - 2 * (m - 1), k - 2 * (m - 1)} = {1, 2}
    <3>1. p = (4 * m - 1) - k
      BY <2>2, <2>3, CountsAreNumbers
    <3>2. p = 2 * m - 1 \/ p = 2 * m
      BY <2>2, <3>1
    <3> HIDE DEF p
    <3>3. (p + 1) \div 2 = m /\ (k + 1) \div 2 = m
      BY <2>2, <3>2
    <3> QED
      BY <2>1, <2>2, <3>1, <3>2, <3>3, CountsAreNumbers
  <2>5. \A x \in 1..2 * Len(EvaluationIds) :
           LET index == (x + 1) \div 2
           IN  /\ Schedule(number)[CalibrationRuns + x][1] = EvaluationIds[index]
               /\ Schedule(number)[CalibrationRuns + x][2]
                     = EvaluationModes(number, index)[x - 2 * (index - 1)]
    <3> TAKE x \in 1..2 * Len(EvaluationIds)
    <3> DEFINE index == (x + 1) \div 2
    <3>1. Schedule(number)[CalibrationRuns + x] = EvaluationSchedule(number)[x]
      <4>1. /\ CalibrationRuns + x \in 1..TotalRuns
            /\ ~ (CalibrationRuns + x <= CalibrationRuns)
            /\ (CalibrationRuns + x) - CalibrationRuns = x
        BY CountsAreNumbers
      <4> QED
        BY <4>1, ScheduleEntries
    <3>2. EvaluationSchedule(number)[x]
             = <<EvaluationIds[index], EvaluationModes(number, index)[x - 2 * (index - 1)]>>
      BY DEF EvaluationSchedule
    <3> QED
      BY <3>1, <3>2
  <2>6. \A index : EvaluationModes(number, index)[1] \in V04Tools
                   /\ EvaluationModes(number, index)[2] \in V04Tools
                   /\ EvaluationModes(number, index)[1] # EvaluationModes(number, index)[2]
    BY ModesAreBoth DEF EvaluationModes
  <2>7. i = CalibrationRuns + k /\ Partner(i) = CalibrationRuns + p
    BY <2>3, CountsAreNumbers
  <2> HIDE DEF k, p
  <2> QED
    <3>1. /\ Schedule(number)[i][1] = EvaluationIds[m]
          /\ Schedule(number)[i][2] = EvaluationModes(number, m)[k - 2 * (m - 1)]
      BY <2>1, <2>4, <2>5, <2>7
    <3>2. /\ Schedule(number)[Partner(i)][1] = EvaluationIds[m]
          /\ Schedule(number)[Partner(i)][2] = EvaluationModes(number, m)[p - 2 * (m - 1)]
      BY <2>4, <2>5, <2>7
    <3>3. \/ k - 2 * (m - 1) = 1 /\ p - 2 * (m - 1) = 2
          \/ k - 2 * (m - 1) = 2 /\ p - 2 * (m - 1) = 1
      BY <2>4
    <3>4. /\ Partner(i) \in 1..TotalRuns
          /\ ~ (Partner(i) <= CalibrationRuns)
      BY <2>4, <2>7, CountsAreNumbers
    <3> QED
      BY <1>2, <2>6, <3>1, <3>2, <3>3, <3>4, CountsAreNumbers
<1> QED
  BY <1>1, <1>2, CountsAreNumbers

-----------------------------------------------------------------------------
(***************************************************************************)
(* What the comparisons of a child establish: a calibration prompt has two *)
(* runs only, so the first run in a mode is the one that was scheduled;    *)
(* and two evaluation runs are compared as soon as both have returned.     *)
(***************************************************************************)
\* The prompt and the mode of a run.
Planned(i) == Schedule(child.number)[i]

\* An outcome of the collection that was scheduled.
FollowsPlan(i) ==
  /\ uses[i].kind = "outcome"
  /\ uses[i].prompt = Planned(i)[1]
  /\ uses[i].tool = Planned(i)[2]
  /\ EventsFitMode(uses[i])

Compared(i) == Semantic(uses[i]) = Semantic(uses[Partner(i)])

IsSequenceOf(s) == s \in Seq(Range(s))

\* Of a prompt with one run in a mode, the first run in that mode is that one.
LEMMA FirstRunIsUnique ==
  ASSUME NEW S, NEW outcomes \in Seq(S), NEW i \in 1..Len(outcomes),
         NEW prompt, NEW mode,
         outcomes[i].prompt = prompt, outcomes[i].tool = mode,
         \A j \in 1..Len(outcomes) :
            (outcomes[j].prompt = prompt /\ outcomes[j].tool = mode) => j = i
  PROVE  FirstRun(outcomes, prompt, mode) = outcomes[i]
<1>1. {j \in DOMAIN outcomes : outcomes[j].prompt = prompt /\ outcomes[j].tool = mode} = {i}
  BY LenProperties
<1>2. Min({i}) = i
  BY DEF Min
<1> QED
  BY <1>1, <1>2 DEF FirstRun

\* Of a prompt with two runs, the comparison is one of these two runs.
LEMMA PairIsCompared ==
  ASSUME NEW S, NEW outcomes \in Seq(S), NEW prompt, Paired(outcomes, prompt),
         NEW i \in 1..Len(outcomes), NEW j \in 1..Len(outcomes),
         outcomes[i].prompt = prompt, outcomes[j].prompt = prompt,
         outcomes[i].tool \in V04Tools, outcomes[j].tool \in V04Tools,
         outcomes[i].tool # outcomes[j].tool,
         \A k \in 1..Len(outcomes) : outcomes[k].prompt = prompt => k \in {i, j}
  PROVE  Semantic(outcomes[i]) = Semantic(outcomes[j])
<1>1. FirstRun(outcomes, prompt, outcomes[i].tool) = outcomes[i]
  BY FirstRunIsUnique
<1>2. FirstRun(outcomes, prompt, outcomes[j].tool) = outcomes[j]
  BY FirstRunIsUnique
<1> QED
  BY <1>1, <1>2 DEF Paired, PairAgrees, V04Tools

\* A calibration prompt is scheduled once in each mode.
LEMMA CalibrationPairsOnly ==
  ASSUME NEW number, NEW i \in 1..CalibrationRuns, NEW j \in 1..CalibrationRuns,
         Schedule(number)[i][1] = Schedule(number)[j][1]
  PROVE  /\ j \in {i, Partner(i)}
         /\ \E c \in 1..Len(CalibrationIds) : Schedule(number)[i][1] = CalibrationIds[c]
<1> DEFINE count == Len(CalibrationIds)
           Id(k) == IF k <= count THEN k ELSE k - count
<1>1. \A k \in 1..CalibrationRuns : Id(k) \in 1..count
  BY CountsAreNumbers
<1>2. \A k \in 1..CalibrationRuns : Schedule(number)[k][1] = CalibrationIds[Id(k)]
  <2> TAKE k \in 1..CalibrationRuns
  <2>1. Schedule(number)[k] = CalibrationSchedule(number)[k]
    BY ScheduleEntries, CountsAreNumbers
  <2>2. CalibrationSchedule(number)[k]
           = IF k <= count THEN <<CalibrationIds[k], Modes(OddChild(number))[1]>>
             ELSE <<CalibrationIds[k - count], Modes(OddChild(number))[2]>>
    BY DEF CalibrationSchedule
  <2> QED
    BY <2>1, <2>2
<1>3. Id(i) = Id(j)
  <2>1. DOMAIN CalibrationIds = 1..count
    BY ChildAssumption, LenProperties
  <2> QED
    BY <1>1, <1>2, <2>1, ChildAssumption DEF IsInjective
<1>4. j \in {i, Partner(i)}
  BY <1>3, CountsAreNumbers DEF Partner
<1> QED
  BY <1>1, <1>2, <1>4

\* Each calibration run has been compared with its partner.
LEMMA CalibrationIsCompared ==
  ASSUME IsSequenceOf(uses), Len(uses) = CalibrationRuns,
         \A i \in 1..CalibrationRuns : FollowsPlan(i),
         \A c \in DOMAIN CalibrationIds : Paired(uses, CalibrationIds[c]),
         NEW i \in 1..CalibrationRuns
  PROVE  Compared(i)
<1>0. i \in 1..TotalRuns
  BY CountsAreNumbers
<1> DEFINE j == Partner(i)
<1>1. /\ j \in 1..CalibrationRuns
      /\ Planned(j)[1] = Planned(i)[1]
      /\ Planned(i)[2] \in V04Tools /\ Planned(j)[2] \in V04Tools /\ Planned(j)[2] # Planned(i)[2]
  BY <1>0, PartnerOnSchedule, CountsAreNumbers DEF Planned
<1>2. Paired(uses, Planned(i)[1])
  <2>1. DOMAIN CalibrationIds = 1..Len(CalibrationIds)
    BY ChildAssumption, LenProperties
  <2> QED
    BY <2>1, CalibrationPairsOnly DEF Planned
<1>3. \A k \in 1..Len(uses) : uses[k].prompt = Planned(i)[1] => k \in {i, j}
  BY CalibrationPairsOnly DEF FollowsPlan, Planned
<1> HIDE DEF j
<1>4. Semantic(uses[i]) = Semantic(uses[j])
  BY <1>1, <1>2, <1>3, PairIsCompared DEF FollowsPlan, IsSequenceOf
<1> QED
  BY <1>4 DEF Compared, j

\* The last two runs are an evaluation prompt in both modes.
LEMMA EvaluationIsCompared ==
  ASSUME IsSequenceOf(uses), Len(uses) > CalibrationRuns, Len(uses) <= TotalRuns,
         (Len(uses) - CalibrationRuns) % 2 = 0,
         \A i \in 1..Len(uses) : FollowsPlan(i),
         Paired(SubSeq(uses, Len(uses) - 1, Len(uses)), Last(uses).prompt)
  PROVE  /\ Compared(Len(uses) - 1) /\ Compared(Len(uses))
         /\ Partner(Len(uses)) = Len(uses) - 1 /\ Partner(Len(uses) - 1) = Len(uses)
<1> DEFINE n == Len(uses)
           two == SubSeq(uses, n - 1, n)
<1>1. n \in Nat /\ n - 1 \in 1..TotalRuns /\ n \in 1..TotalRuns /\ n - 1 > CalibrationRuns
  BY CountsAreNumbers, LenProperties DEF IsSequenceOf
<1>2. Partner(n) = n - 1 /\ Partner(n - 1) = n
  <2>1. n % 2 = 0 /\ (n - 1) % 2 = 1
    BY <1>1, CountsAreNumbers
  <2> QED
    BY <1>1, <2>1, CountsAreNumbers DEF Partner
<1>3. /\ two \in Seq(Range(uses)) /\ Len(two) = 2
      /\ two[1] = uses[n - 1] /\ two[2] = uses[n]
  <2>1. \A k \in n - 1..n : uses[k] \in Range(uses)
    BY <1>1, CountsAreNumbers, ElementOfSeq DEF IsSequenceOf
  <2> HIDE DEF n
  <2>2. /\ two \in Seq(Range(uses)) /\ Len(two) = 2
        /\ two[1] = uses[(n - 1) + 1 - 1] /\ two[2] = uses[(n - 1) + 2 - 1]
    BY <1>1, <2>1, SubSeqProperties
  <2>3. (n - 1) + 1 - 1 = n - 1 /\ (n - 1) + 2 - 1 = n
    BY <1>1
  <2> QED
    BY <2>2, <2>3
<1>4. Last(uses) = uses[n]
  BY DEF Last
<1>5. /\ Planned(n - 1)[1] = Planned(n)[1]
      /\ Planned(n)[2] \in V04Tools /\ Planned(n - 1)[2] \in V04Tools
      /\ Planned(n - 1)[2] # Planned(n)[2]
  BY <1>1, <1>2, PartnerOnSchedule DEF Planned
<1>6. FollowsPlan(n - 1) /\ FollowsPlan(n)
  BY <1>1, CountsAreNumbers
<1> HIDE DEF n, two
<1>7. Semantic(two[1]) = Semantic(two[2])
  <2>1. Paired(two, uses[n].prompt)
    BY <1>4 DEF n, two
  <2>2. /\ 1 \in 1..Len(two) /\ 2 \in 1..Len(two)
        /\ \A k \in 1..Len(two) : two[k].prompt = uses[n].prompt => k \in {1, 2}
    BY <1>3
  <2> QED
    <3>1. /\ two[1].prompt = uses[n].prompt /\ two[2].prompt = uses[n].prompt
          /\ two[1].tool \in V04Tools /\ two[2].tool \in V04Tools
          /\ two[1].tool # two[2].tool
      BY <1>3, <1>5, <1>6 DEF FollowsPlan
    <3> QED
      BY <1>3, <2>1, <2>2, <3>1, PairIsCompared, SMTT(45)
<1> QED
  BY <1>2, <1>3, <1>7 DEF Compared, n

-----------------------------------------------------------------------------
(***************************************************************************)
(* A step of a collection leaves it under way, ends it without an outcome, *)
(* or records an outcome that its own checks have accepted.                *)
(***************************************************************************)
RunShape == {"phase", "tool", "prompt"} \subseteq DOMAIN run

Continues ==
  /\ uses' = uses
  /\ run.phase # "idle" /\ run'.phase # "idle"
  /\ run'.tool = run.tool /\ run'.prompt = run.prompt
  /\ (run'.phase = "build" /\ run.tool \in V04Tools) => hooked' = {}

RaisesOrRejects ==
  /\ run.phase # "idle" /\ run' = AtRest
  /\ \E o : uses' = Append(uses, o) /\ o.kind # "outcome"

Finishes ==
  /\ run.phase = "build" /\ run' = AtRest
  /\ uses' = Append(uses, Outcome) /\ Accepted(Outcome)
  /\ hooked' = hooked

LEMMA RestShape == {"phase", "tool", "prompt"} \subseteq DOMAIN AtRest /\ AtRest.phase = "idle"
BY DEF AtRest

LEMMA KindsDiffer == Raised.kind # "outcome" /\ Rejected.kind # "outcome"
BY DEF Raised, Rejected

LEMMA GraniteStepOutcomes ==
  ASSUME RunShape, GraniteStep
  PROVE  RunShape' /\ (Continues \/ RaisesOrRejects \/ Finishes)
<1>1. CASE RegisterHook \/ AssertHooks \/ Forward \/ ForwardFails \/ Take
           \/ StopAtHorizon \/ StopAtEos \/ FeedBack
  <2>1. /\ uses' = uses
        /\ run.phase \notin {"idle", "build"}
    BY <1>1 DEF RegisterHook, AssertHooks, Forward, ForwardFails, Take, StopAtHorizon,
                StopAtEos, FeedBack, modelVars
  <2>2. /\ run'.phase \in {"register", "assert", "forward", "exit", "take", "choose"}
        /\ run'.tool = run.tool /\ run'.prompt = run.prompt /\ DOMAIN run' = DOMAIN run
    <3>1. CASE RegisterHook
      BY <3>1 DEF RegisterHook, RunShape
    <3>2. CASE AssertHooks
      BY <3>2 DEF AssertHooks, RunShape
    <3>3. CASE Forward
      BY <3>3 DEF Forward, RunShape
    <3>4. CASE ForwardFails
      BY <3>4 DEF ForwardFails, RunShape
    <3>5. CASE Take
      BY <3>5 DEF Take, RunShape
    <3>6. CASE StopAtHorizon
      BY <3>6 DEF StopAtHorizon, RunShape
    <3>7. CASE StopAtEos
      BY <3>7 DEF StopAtEos, RunShape
    <3>8. CASE FeedBack
      BY <3>8 DEF FeedBack, RunShape
    <3> QED
      BY <1>1, <3>1, <3>2, <3>3, <3>4, <3>5, <3>6, <3>7, <3>8
  <2> QED
    BY <2>1, <2>2 DEF Continues, RunShape
<1>2. CASE RegistrationFails
  BY <1>2, RestShape, KindsDiffer DEF RegistrationFails, Record, RaisesOrRejects, RunShape
<1>3. CASE Exit
  <2>1. CASE run' = AtRest /\ Record(Raised)
    BY <1>3, <2>1, RestShape, KindsDiffer DEF Exit, Record, RaisesOrRejects, RunShape
  <2>2. CASE /\ run' = [run EXCEPT
                          !.phase = IF run.tool \in V04Tools THEN "lifecycle" ELSE "build"]
             /\ UNCHANGED uses
    <3>1. /\ run'.phase = IF run.tool \in V04Tools THEN "lifecycle" ELSE "build"
          /\ run'.tool = run.tool /\ run'.prompt = run.prompt /\ DOMAIN run' = DOMAIN run
      BY <2>2 DEF RunShape
    <3> QED
      BY <1>3, <2>2, <3>1 DEF Exit, Continues, RunShape
  <2> QED
    BY <1>3, <2>1, <2>2 DEF Exit
<1>4. CASE CompareHooks
  <2>1. CASE run' = AtRest /\ Record(Raised)
    BY <1>4, <2>1, RestShape, KindsDiffer DEF CompareHooks, Record, RaisesOrRejects, RunShape
  <2>2. CASE hooked = {} /\ run' = [run EXCEPT !.phase = "build"] /\ UNCHANGED uses
    <3>1. /\ run'.phase = "build"
          /\ run'.tool = run.tool /\ run'.prompt = run.prompt /\ DOMAIN run' = DOMAIN run
      BY <2>2 DEF RunShape
    <3> QED
      BY <1>4, <2>2, <3>1 DEF CompareHooks, hookVars, Continues, RunShape
  <2> QED
    BY <1>4, <2>1, <2>2 DEF CompareHooks
<1>5. CASE Build
  <2>1. CASE Accepted(Outcome)
    BY <1>5, <2>1, RestShape DEF Build, Record, Finishes, RunShape, hookVars
  <2>2. CASE ~ Accepted(Outcome)
    BY <1>5, <2>2, RestShape, KindsDiffer DEF Build, Record, RaisesOrRejects, RunShape
  <2> QED
    BY <2>1, <2>2
<1> QED
  BY <1>1, <1>2, <1>3, <1>4, <1>5 DEF GraniteStep

LEMMA BeginOutcomes ==
  ASSUME NEW tool \in V04Tools, NEW prompt, NEW horizon, Begin(tool, prompt, horizon)
  PROVE  /\ Idle /\ UNCHANGED hooked
         /\ \/ /\ uses' = uses /\ hooked = {}
               /\ run'.phase \in {"forward", "register"} /\ run'.tool = tool /\ run'.prompt = prompt
               /\ RunShape'
            \/ hooked # {} /\ UNCHANGED run /\ \E o : uses' = Append(uses, o) /\ o.kind # "outcome"
<1>1. CASE BeginsWithCarryover(tool)
  BY <1>1, KindsDiffer DEF Begin, BeginsWithCarryover, Record
<1>2. CASE ~ BeginsWithCarryover(tool)
  <2>1. run' = [AtRest EXCEPT
                  !.phase = IF tool = "reference" THEN "forward" ELSE "register",
                  !.tool = tool, !.prompt = prompt, !.horizon = horizon,
                  !.input = Prompts[prompt]]
    BY <1>2 DEF Begin
  <2>2. /\ run'.phase \in {"forward", "register"} /\ run'.tool = tool /\ run'.prompt = prompt
        /\ RunShape'
    BY <2>1 DEF AtRest, RunShape
  <2> QED
    BY <1>2, <2>2 DEF Begin, BeginsWithCarryover
<1> QED
  BY <1>1, <1>2

-----------------------------------------------------------------------------
(***************************************************************************)
(* The inductive invariant of a child.  In each of its phases it says how  *)
(* many runs have returned, that these are the first runs of the schedule, *)
(* that they agree in pairs as far as pairs are complete, what the         *)
(* progress reports of them, and that no hook is left; from "publish" on,  *)
(* that all profiled runs match Stage 1.  During a run the progress is     *)
(* still that of the runs before it.                                       *)
(***************************************************************************)
Report(loaded, calibrated, evaluated, snapshot, failurePhase) ==
  [loaded |-> loaded, calibrated |-> calibrated, evaluated |-> evaluated,
   snapshot |-> snapshot, failurePhase |-> failurePhase]

\* What is reported of n runs.
ProgressAfter(n, failurePhase) ==
  Report(TRUE, IF n <= CalibrationRuns THEN n ELSE CalibrationRuns,
         IF n <= CalibrationRuns THEN 0 ELSE (n - CalibrationRuns) \div 2,
         n > 0, failurePhase)

\* The phase that is reported between runs, and during run n + 1.
PhaseBefore(n) == IF n > CalibrationRuns THEN "evaluation" ELSE "calibration"
PhaseDuring(n) == IF n >= CalibrationRuns THEN "evaluation" ELSE "calibration"

\* The first n runs, compared as far as their pairs are complete.
RunsReturned(n) ==
  /\ \A i \in 1..n : FollowsPlan(i)
  /\ n >= CalibrationRuns => \A i \in 1..CalibrationRuns : Compared(i)
  /\ \A i \in CalibrationRuns + 1..n : Partner(i) <= n => Compared(i)

\* All runs have been compared, with each other and with Stage 1.
AllTrusted ==
  /\ hooked = {}
  /\ Len(uses) = TotalRuns
  /\ RunsReturned(TotalRuns)
  /\ \A i \in 1..TotalRuns :
        uses[i].tool = "profiled" => MatchesTrusted(uses[i], Trusted[uses[i].prompt])

LoadInv == child.phase = "load" =>
  /\ uses = <<>> /\ Idle /\ hooked = {}
  /\ child.progress = Started /\ child.manifest = NoManifest

StartInv == child.phase = "start" =>
  /\ Idle /\ hooked = {} /\ child.manifest = NoManifest
  /\ Len(uses) \in 0..TotalRuns
  /\ RunsReturned(Len(uses))
  /\ child.progress = ProgressAfter(Len(uses), PhaseBefore(Len(uses)))

RunningInv == child.phase = "running" =>
  LET returned == IF Idle THEN Len(uses) - 1 ELSE Len(uses)
  IN  /\ child.manifest = NoManifest
      /\ returned \in 0..TotalRuns - 1
      /\ RunsReturned(returned)
      /\ child.progress = ProgressAfter(returned, PhaseDuring(returned))
      /\ IF Idle
         THEN uses[Len(uses)].kind = "outcome" => hooked = {} /\ FollowsPlan(Len(uses))
         ELSE /\ run.prompt = Planned(Len(uses) + 1)[1]
              /\ run.tool = Planned(Len(uses) + 1)[2]
              /\ run.phase = "build" => hooked = {}

PublishInv == child.phase \in {"publish", "recheck"} =>
  /\ Idle /\ AllTrusted
  /\ child.progress = ProgressAfter(TotalRuns, "validation")
  /\ child.manifest = IF child.phase = "publish" THEN NoManifest
                      ELSE [state |-> "valid", number |-> child.number, runs |-> uses]

EndedInv == child.phase = "ended" =>
  /\ Idle
  /\ \/ child.manifest = NoManifest
     \/ child.manifest = [state |-> "valid", number |-> child.number, runs |-> uses] /\ AllTrusted
     \/ child.manifest.state = "invalid" /\ InvalidRecordValid(child.manifest)

ChildShape ==
  /\ {"number", "phase", "progress", "manifest"} \subseteq DOMAIN child
  /\ child.phase \in {"load", "start", "running", "publish", "recheck", "ended"}
  /\ RunShape /\ IsSequenceOf(uses)

ChildInv == ChildShape /\ LoadInv /\ StartInv /\ RunningInv /\ PublishInv /\ EndedInv

\* The reports of a child are those its validator admits.
LEMMA PartialValid ==
  ASSUME NEW n \in 0..TotalRuns,
         NEW failurePhase \in {"calibration", "evaluation", "validation"},
         failurePhase = "calibration" => n <= CalibrationRuns,
         failurePhase = "evaluation" => n >= CalibrationRuns,
         failurePhase = "validation" => n = TotalRuns
  PROVE  InvalidRecordValid([state |-> "invalid", partial |-> ProgressAfter(n, failurePhase)])
<1> DEFINE evaluated == IF n <= CalibrationRuns THEN 0 ELSE (n - CalibrationRuns) \div 2
           calibrated == IF n <= CalibrationRuns THEN n ELSE CalibrationRuns
<1>1. /\ calibrated \in 0..CalibrationRuns
      /\ evaluated \in 0..Len(EvaluationIds)
      /\ n >= CalibrationRuns <=> calibrated = CalibrationRuns
      /\ n <= CalibrationRuns => evaluated = 0
      /\ n = TotalRuns => evaluated = Len(EvaluationIds)
      /\ calibrated + evaluated > 0 => n > 0
      /\ evaluated > 0 => calibrated = CalibrationRuns
  <2>1. CASE n <= CalibrationRuns
    BY <2>1, CountsAreNumbers
  <2>2. CASE n > CalibrationRuns
    <3>1. PICK m \in 1..2 * Len(EvaluationIds) : m = n - CalibrationRuns
      <4>1. n - CalibrationRuns \in 1..2 * Len(EvaluationIds)
        BY <2>2, CountsAreNumbers
      <4> QED
        BY <4>1
    <3>2. /\ m \div 2 \in 0..Len(EvaluationIds)
          /\ m = 2 * Len(EvaluationIds) => m \div 2 = Len(EvaluationIds)
      <4>1. PICK e \in Nat : e = Len(EvaluationIds)
        BY CountsAreNumbers
      <4>2. m \in 1..2 * e
        BY <4>1
      <4>3. m \div 2 \in 0..e /\ (m = 2 * e => m \div 2 = e)
        BY <4>2
      <4> QED
        BY <4>1, <4>3
    <3>3. evaluated = m \div 2 /\ calibrated = CalibrationRuns
          /\ (n = TotalRuns => m = 2 * Len(EvaluationIds))
      BY <2>2, <3>1, CountsAreNumbers
    <3> HIDE DEF evaluated, calibrated
    <3> QED
      BY <2>2, <3>2, <3>3, CountsAreNumbers
  <2> QED
    BY <2>1, <2>2, CountsAreNumbers
<1>2. ProgressAfter(n, failurePhase)
        = Report(TRUE, calibrated, evaluated, n > 0, failurePhase)
  BY DEF ProgressAfter
<1> HIDE DEF evaluated, calibrated
<1> DEFINE partial == ProgressAfter(n, failurePhase)
           manifest == [state |-> "invalid", partial |-> partial]
<1>3. /\ partial.loaded /\ partial.snapshot = (n > 0) /\ partial.failurePhase = failurePhase
      /\ partial.calibrated = calibrated /\ partial.evaluated = evaluated
  BY <1>2 DEF Report
<1> HIDE DEF partial
<1>6. partial.snapshot <=> n > 0
  BY <1>3, Zenon
<1>4. manifest.state = "invalid" /\ manifest.partial = partial
  OBVIOUS
<1> HIDE DEF manifest
<1>5. InvalidRecordValid(manifest)
  BY <1>1, <1>3, <1>4, <1>6, CountsAreNumbers DEF InvalidRecordValid
<1> QED
  BY <1>5 DEF manifest, partial

\* One more run leaves what is known of the earlier ones.
LEMMA AppendKeeps ==
  ASSUME IsSequenceOf(uses), NEW o, uses' = Append(uses, o)
  PROVE  /\ IsSequenceOf(uses') /\ Len(uses) \in Nat
         /\ Len(uses') = Len(uses) + 1 /\ uses'[Len(uses) + 1] = o
         /\ \A i \in 1..Len(uses) : uses'[i] = uses[i]
<1> DEFINE S == Range(uses) \cup {o}
<1>1. uses \in Seq(S) /\ o \in S
  BY SeqMonotonic DEF IsSequenceOf
<1>2. /\ uses' \in Seq(S)
      /\ Len(uses') = Len(uses) + 1 /\ uses'[Len(uses) + 1] = o
      /\ \A i \in 1..Len(uses) : uses'[i] = uses[i]
  BY <1>1, AppendProperties
<1>3. IsSequenceOf(uses')
  <2>1. Len(uses') \in Nat /\ uses' = [i \in 1..Len(uses') |-> uses'[i]]
    BY <1>2, LenProperties
  <2>2. \A i \in 1..Len(uses') : uses'[i] \in Range(uses')
    BY <2>1 DEF Range
  <2> QED
    BY <2>1, <2>2, LenProperties DEF IsSequenceOf
<1> QED
  BY <1>1, <1>2, <1>3, LenProperties

LEMMA ReturnedKept ==
  ASSUME NEW CONSTANT n \in 0..TotalRuns, RunsReturned(n), child'.number = child.number,
         \A i \in 1..n : uses'[i] = uses[i]
  PROVE  RunsReturned(n)'
<1>1. (\A i \in 1..n : FollowsPlan(i))'
  BY DEF RunsReturned, FollowsPlan, Planned
<1>2. \A i \in 1..n : (Partner(i) \in 1..n /\ Compared(i)) =>
          Semantic(uses'[i]) = Semantic(uses'[Partner(i)])
  BY DEF Compared
<1>3. \A i \in 1..TotalRuns : /\ Partner(i) \in 1..TotalRuns
                              /\ Partner(i) <= CalibrationRuns <=> i <= CalibrationRuns
  BY PartnerInRange
<1>4. n >= CalibrationRuns => \A i \in 1..CalibrationRuns :
                                 Semantic(uses'[i]) = Semantic(uses'[Partner(i)])
  BY <1>2, <1>3, CountsAreNumbers DEF RunsReturned
<1>5. \A i \in CalibrationRuns + 1..n :
         Partner(i) <= n => Semantic(uses'[i]) = Semantic(uses'[Partner(i)])
  <2> SUFFICES ASSUME NEW i \in CalibrationRuns + 1..n, Partner(i) <= n
               PROVE  Semantic(uses'[i]) = Semantic(uses'[Partner(i)])
    OBVIOUS
  <2>1. i \in 1..n /\ i \in 1..TotalRuns
    BY CountsAreNumbers
  <2>2. Partner(i) \in 1..n
    BY <1>3, <2>1, CountsAreNumbers
  <2>3. Compared(i)
    BY DEF RunsReturned
  <2> QED
    BY <1>2, <2>1, <2>2, <2>3
<1> QED
  <2>1. (n >= CalibrationRuns => \A i \in 1..CalibrationRuns : Compared(i))'
    BY <1>4 DEF Compared
  <2>2. (\A i \in CalibrationRuns + 1..n : Partner(i) <= n => Compared(i))'
    BY <1>5 DEF Compared
  <2> QED
    BY <1>1, <2>1, <2>2 DEF RunsReturned

\* The pairs that are compared after the next run complete what is known.
LEMMA ReturnedNext ==
  ASSUME IsSequenceOf(uses), Len(uses) \in 1..TotalRuns,
         RunsReturned(Len(uses) - 1), FollowsPlan(Len(uses)), PairsAgree
  PROVE  RunsReturned(Len(uses))
<1> DEFINE n == Len(uses)
<1>0. n \in 1..TotalRuns /\ n - 1 \in Nat
  BY CountsAreNumbers
<1>1. \A i \in 1..n : FollowsPlan(i)
  BY <1>0, CountsAreNumbers DEF RunsReturned
<1>2. CASE n < CalibrationRuns
  BY <1>0, <1>1, <1>2, CountsAreNumbers DEF RunsReturned
<1>3. CASE n = CalibrationRuns
  <2>1. \A c \in DOMAIN CalibrationIds : Paired(uses, CalibrationIds[c])
    BY <1>3 DEF PairsAgree
  <2>2. \A i \in 1..CalibrationRuns : Compared(i)
    BY <1>1, <1>3, <2>1, CalibrationIsCompared
  <2> QED
    BY <1>0, <1>1, <1>3, <2>2, CountsAreNumbers DEF RunsReturned
<1>4. CASE n > CalibrationRuns
  <2>1. \A i \in 1..CalibrationRuns : Compared(i)
    BY <1>0, <1>4, CountsAreNumbers DEF RunsReturned
  <2>2. \A i \in CalibrationRuns + 1..n - 1 : Partner(i) <= n - 1 => Compared(i)
    BY DEF RunsReturned
  <2>3. CASE (n - CalibrationRuns) % 2 = 0
    <3>1. Paired(SubSeq(uses, n - 1, n), Last(uses).prompt)
      BY <1>0, <1>4, <2>3, CountsAreNumbers DEF PairsAgree
    <3>2. /\ Compared(n - 1) /\ Compared(n)
          /\ Partner(n) = n - 1 /\ Partner(n - 1) = n
      BY <1>0, <1>1, <1>4, <2>3, <3>1, EvaluationIsCompared
    <3>3. \A i \in CalibrationRuns + 1..n : Partner(i) <= n => Compared(i)
      <4> SUFFICES ASSUME NEW i \in CalibrationRuns + 1..n, Partner(i) <= n, i # n, i # n - 1
                   PROVE  Compared(i)
        BY <3>2
      <4>1. Partner(i) # n
        BY <1>0, CountsAreNumbers DEF Partner
      <4>2. Partner(i) \in 1..TotalRuns
        BY <1>0, PartnerInRange, CountsAreNumbers
      <4> QED
        BY <1>0, <2>2, <4>1, <4>2, CountsAreNumbers
    <3> QED
      BY <1>1, <2>1, <3>3 DEF RunsReturned
  <2>4. CASE (n - CalibrationRuns) % 2 # 0
    <3>1. n % 2 = 1
      BY <1>0, <1>4, <2>4, CountsAreNumbers
    <3>2. \A i \in CalibrationRuns + 1..n : Partner(i) <= n => Compared(i)
      <4> SUFFICES ASSUME NEW i \in CalibrationRuns + 1..n, Partner(i) <= n
                   PROVE  Compared(i)
        OBVIOUS
      <4>1. i # n
        BY <1>0, <1>4, <3>1, CountsAreNumbers DEF Partner
      <4>2. Partner(i) # n
        BY <1>0, <3>1, CountsAreNumbers DEF Partner
      <4>3. Partner(i) \in 1..TotalRuns
        BY <1>0, PartnerInRange, CountsAreNumbers
      <4> QED
        BY <1>0, <2>2, <4>1, <4>2, <4>3, CountsAreNumbers
    <3> QED
      BY <1>1, <2>1, <3>2 DEF RunsReturned
  <2> QED
    BY <2>3, <2>4
<1> QED
  BY <1>0, <1>2, <1>3, <1>4, CountsAreNumbers

-----------------------------------------------------------------------------
(***************************************************************************)
(* The progress that each step of a child reports.                         *)
(***************************************************************************)
LEMMA EmptyIsReturned == RunsReturned(0)
BY CountsAreNumbers DEF RunsReturned

\* What an assignment to its fields does to a report.
LEMMA PhaseReported ==
  ASSUME NEW p, NEW l, NEW c, NEW e, NEW s, NEW f, NEW x, p = Report(l, c, e, s, f)
  PROVE  [p EXCEPT !.failurePhase = x] = Report(l, c, e, s, x)
BY DEF Report

LEMMA EvaluatedReported ==
  ASSUME NEW p, NEW l, NEW c, NEW e, NEW s, NEW f, NEW x, p = Report(l, c, e, s, f)
  PROVE  [p EXCEPT !.evaluated = x] = Report(l, c, x, s, f)
BY DEF Report

LEMMA PhaseSteps ==
  ASSUME NEW n, NEW f, NEW p, NEW x, p = ProgressAfter(n, f)
  PROVE  [p EXCEPT !.failurePhase = x] = ProgressAfter(n, x)
<1> DEFINE c == IF n <= CalibrationRuns THEN n ELSE CalibrationRuns
           e == IF n <= CalibrationRuns THEN 0 ELSE (n - CalibrationRuns) \div 2
           s == n > 0
           t == TRUE
<1>1. p = Report(t, c, e, s, f) /\ ProgressAfter(n, x) = Report(t, c, e, s, x)
  BY DEF ProgressAfter
<1> HIDE DEF c, e, s, t
<1> QED
  BY <1>1, PhaseReported

LEMMA LoadedProgress ==
  ASSUME NEW p, p = Started
  PROVE  [p EXCEPT !.loaded = TRUE, !.failurePhase = "calibration"]
            = ProgressAfter(0, PhaseBefore(0))
<1>1. PhaseBefore(0) = "calibration" /\ 0 <= CalibrationRuns /\ (0 > 0) = FALSE
  BY CountsAreNumbers DEF PhaseBefore
<1> DEFINE t == TRUE
           no == FALSE
<1>2. ProgressAfter(0, PhaseBefore(0)) = Report(t, 0, 0, no, "calibration")
  BY <1>1 DEF ProgressAfter
<1>3. p = Report(no, 0, 0, no, "model_load")
  BY DEF Started, Report
<1> HIDE DEF t, no
<1>4. [p EXCEPT !.loaded = t, !.failurePhase = "calibration"] = Report(t, 0, 0, no, "calibration")
  <2> DEFINE q == [p EXCEPT !.loaded = t]
  <2>1. q = Report(t, 0, 0, no, "model_load")
    BY <1>3 DEF Report
  <2>2. [p EXCEPT !.loaded = t, !.failurePhase = "calibration"]
           = [q EXCEPT !.failurePhase = "calibration"]
    OBVIOUS
  <2> HIDE DEF q
  <2> QED
    BY <2>1, <2>2, PhaseReported
<1> QED
  BY <1>2, <1>4, Zenon DEF t

LEMMA CountedProgress ==
  ASSUME NEW n, NEW p, n = Len(uses), n \in 1..TotalRuns, p = child.progress,
         p = ProgressAfter(n - 1, PhaseDuring(n - 1))
  PROVE  Counted = ProgressAfter(n, PhaseBefore(n))
<1> DEFINE t == TRUE
<1>0. n \in Nat /\ (n > 0) = TRUE
  BY CountsAreNumbers
<1>1. CASE n <= CalibrationRuns
  <2> DEFINE s == n - 1 > 0
  <2>1. /\ PhaseDuring(n - 1) = "calibration" /\ PhaseBefore(n) = "calibration"
        /\ n - 1 <= CalibrationRuns
    BY <1>0, <1>1, CountsAreNumbers DEF PhaseDuring, PhaseBefore
  <2>2. Counted = [p EXCEPT !.calibrated = n, !.snapshot = t]
    BY <1>1, Zenon DEF Counted
  <2>3. p = Report(t, n - 1, 0, s, "calibration")
    BY <2>1 DEF ProgressAfter
  <2>4. ProgressAfter(n, "calibration") = Report(t, n, 0, t, "calibration")
    BY <1>0, <1>1 DEF ProgressAfter
  <2> HIDE DEF s, t
  <2> QED
    <3> DEFINE q == [p EXCEPT !.calibrated = n]
    <3>1. q = Report(t, n, 0, s, "calibration")
      BY <2>3 DEF Report
    <3>2. [p EXCEPT !.calibrated = n, !.snapshot = t] = [q EXCEPT !.snapshot = t]
      OBVIOUS
    <3> HIDE DEF q
    <3>3. [q EXCEPT !.snapshot = t] = Report(t, n, 0, t, "calibration")
      BY <3>1 DEF Report
    <3> QED
      BY <2>1, <2>2, <2>4, <3>2, <3>3
<1>2. CASE n > CalibrationRuns
  <2>1. /\ PhaseDuring(n - 1) = "evaluation" /\ PhaseBefore(n) = "evaluation"
        /\ (n - 1 > 0) = TRUE /\ ~ (n <= CalibrationRuns)
        /\ (IF n - 1 <= CalibrationRuns THEN n - 1 ELSE CalibrationRuns) = CalibrationRuns
    BY <1>0, <1>2, CountsAreNumbers DEF PhaseDuring, PhaseBefore
  <2> DEFINE x == (n - CalibrationRuns) \div 2
  <2>2. Counted = [p EXCEPT !.evaluated = x]
    BY <2>1 DEF Counted
  <2>3. PICK e : p = Report(t, CalibrationRuns, e, t, "evaluation")
    BY <2>1 DEF ProgressAfter
  <2>4. ProgressAfter(n, "evaluation") = Report(t, CalibrationRuns, x, t, "evaluation")
    BY <1>0, <2>1 DEF ProgressAfter
  <2> HIDE DEF x, t
  <2> QED
    BY <2>1, <2>2, <2>3, <2>4, EvaluatedReported
<1> QED
  BY <1>0, <1>1, <1>2, CountsAreNumbers

\* A child that fails at any of its steps leaves an invalid manifest that validates.
LEMMA FailKeeps ==
  ASSUME ChildShape, RunShape', IsSequenceOf(uses'), Idle',
         NEW progress, Fail(progress),
         InvalidRecordValid([state |-> "invalid", partial |-> progress])
  PROVE  ChildInv'
<1>1. /\ child'.phase = "ended"
      /\ child'.manifest = [state |-> "invalid", partial |-> progress]
      /\ DOMAIN child' = DOMAIN child
  BY DEF Fail, ChildShape
<1> DEFINE manifest == [state |-> "invalid", partial |-> progress]
<1>2. manifest.state = "invalid"
  OBVIOUS
<1> HIDE DEF manifest
<1>3. InvalidRecordValid(child'.manifest) /\ child'.manifest.state = "invalid"
  BY <1>1, <1>2 DEF manifest
<1>4. EndedInv'
  BY <1>1, <1>3 DEF EndedInv
<1>5. ChildShape'
  BY <1>1 DEF ChildShape
<1> QED
  BY <1>1, <1>4, <1>5 DEF ChildInv, LoadInv, StartInv, RunningInv, PublishInv

LEMMA StartedIsValid == InvalidRecordValid([state |-> "invalid", partial |-> Started])
<1> DEFINE manifest == [state |-> "invalid", partial |-> Started]
<1>1. manifest.state = "invalid" /\ manifest.partial = Started
  OBVIOUS
<1>2. /\ ~ Started.loaded /\ Started.calibrated = 0 /\ Started.evaluated = 0
      /\ ~ Started.snapshot /\ Started.failurePhase = "model_load"
  BY DEF Started
<1> HIDE DEF manifest
<1> QED
  <2>1. InvalidRecordValid(manifest)
    BY <1>1, <1>2, CountsAreNumbers DEF InvalidRecordValid
  <2> QED
    BY <2>1 DEF manifest

-----------------------------------------------------------------------------
(***************************************************************************)
(* The steps of a child, one lemma for each part of its life.              *)
(***************************************************************************)
LEMMA SameRunsReturned ==
  ASSUME NEW CONSTANT n \in 0..TotalRuns, RunsReturned(n), uses' = uses,
         child'.number = child.number
  PROVE  RunsReturned(n)'
BY ReturnedKept

LEMMA StartRunKeeps ==
  ASSUME ChildInv, StartRun
  PROVE  ChildInv'
<1> DEFINE next == Schedule(child.number)[Len(uses) + 1]
<1>1. /\ child.phase = "start" /\ ~ AllRun /\ Idle /\ hooked = {}
      /\ child.manifest = NoManifest /\ Len(uses) \in 0..TotalRuns
      /\ RunsReturned(Len(uses))
      /\ child.progress = ProgressAfter(Len(uses), PhaseBefore(Len(uses)))
  BY DEF StartRun, ChildInv, StartInv
<1>2. PICK n \in 0..TotalRuns - 1 : n = Len(uses)
  <2>1. Len(uses) # TotalRuns
    BY <1>1, ScheduleEntries DEF AllRun
  <2>2. Len(uses) \in 0..TotalRuns - 1
    BY <1>1, <2>1, CountsAreNumbers
  <2> QED
    BY <2>2
<1>3. n + 1 \in 1..TotalRuns /\ n \in 0..TotalRuns
  BY <1>2, CountsAreNumbers
<1>4. next[2] \in V04Tools
  BY <1>2, <1>3, PartnerOnSchedule
<1>5. Begin(next[2], next[1], Horizon)
  BY DEF StartRun
<1> HIDE DEF next
<1>6. /\ uses' = uses /\ UNCHANGED hooked /\ RunShape'
      /\ run'.phase \in {"forward", "register"} /\ run'.tool = next[2] /\ run'.prompt = next[1]
  BY <1>1, <1>4, <1>5, BeginOutcomes
<1>7. EnteringRun = ProgressAfter(n, PhaseDuring(n))
  <2>1. CASE n >= CalibrationRuns
    <3>1. EnteringRun = [child.progress EXCEPT !.failurePhase = "evaluation"]
      BY <1>2, <2>1 DEF EnteringRun, Evaluating
    <3> QED
      BY <1>1, <1>2, <2>1, <3>1, PhaseSteps DEF PhaseDuring
  <2>2. CASE ~ (n >= CalibrationRuns)
    BY <1>1, <1>2, <2>2, CountsAreNumbers DEF EnteringRun, Evaluating, PhaseDuring, PhaseBefore
  <2> QED
    BY <2>1, <2>2
<1>8. /\ DOMAIN child' = DOMAIN child /\ child'.phase = "running"
      /\ child'.number = child.number /\ child'.manifest = child.manifest
      /\ child'.progress = ProgressAfter(n, PhaseDuring(n))
  BY <1>7 DEF StartRun, ChildInv, ChildShape
<1>9. RunsReturned(n)'
  BY <1>1, <1>2, <1>3, <1>6, <1>8, SameRunsReturned
<1>10. RunningInv'
  <2>1. ~ Idle' /\ Len(uses') = n
    BY <1>2, <1>6 DEF Idle
  <2>2. /\ run'.prompt = (Planned(Len(uses) + 1)[1])'
        /\ run'.tool = (Planned(Len(uses) + 1)[2])'
        /\ run'.phase # "build"
    BY <1>6, <1>8 DEF Planned, next
  <2> QED
    BY <1>1, <1>2, <1>8, <1>9, <2>1, <2>2 DEF RunningInv
<1>11. ChildShape'
  BY <1>6, <1>8 DEF ChildInv, ChildShape
<1> QED
  BY <1>8, <1>10, <1>11 DEF ChildInv, LoadInv, StartInv, PublishInv, EndedInv

LEMMA GraniteKeepsChild ==
  ASSUME ChildInv, GraniteStep, UNCHANGED child
  PROVE  ChildInv'
<1>1. RunShape' /\ (Continues \/ RaisesOrRejects \/ Finishes)
  BY GraniteStepOutcomes DEF ChildInv, ChildShape
<1>2. ~ Idle
  BY <1>1 DEF Idle, Continues, RaisesOrRejects, Finishes
<1>3. child.phase = "running"
  BY <1>2 DEF ChildInv, ChildShape, LoadInv, StartInv, PublishInv, EndedInv
<1>4. PICK n \in 0..TotalRuns - 1 :
         /\ n = Len(uses) /\ child.manifest = NoManifest /\ RunsReturned(n)
         /\ child.progress = ProgressAfter(n, PhaseDuring(n))
         /\ run.prompt = Planned(n + 1)[1] /\ run.tool = Planned(n + 1)[2]
         /\ run.phase = "build" => hooked = {}
  BY <1>2, <1>3 DEF ChildInv, RunningInv
<1>5. n \in 0..TotalRuns /\ n + 1 \in 1..TotalRuns
  BY <1>4, CountsAreNumbers
<1>6. run.tool \in V04Tools
  BY <1>4, <1>5, PartnerOnSchedule DEF Planned
<1>7. CASE Continues
  <2>1. /\ uses' = uses /\ ~ Idle' /\ Len(uses') = n
        /\ run'.prompt = run.prompt /\ run'.tool = run.tool
        /\ run'.phase = "build" => hooked' = {}
    BY <1>4, <1>6, <1>7 DEF Continues, Idle
  <2>2. RunsReturned(n)'
    BY <1>4, <1>5, <2>1, SameRunsReturned
  <2>3. /\ run'.prompt = (Planned(Len(uses) + 1)[1])'
        /\ run'.tool = (Planned(Len(uses) + 1)[2])'
    BY <1>4, <2>1 DEF Planned
  <2>4. RunningInv'
    BY <1>4, <2>1, <2>2, <2>3 DEF RunningInv
  <2>5. ChildShape'
    BY <1>1, <2>1 DEF ChildInv, ChildShape
  <2> QED
    BY <1>3, <2>4, <2>5 DEF ChildInv, LoadInv, StartInv, PublishInv, EndedInv
<1>8. CASE RaisesOrRejects \/ Finishes
  <2>1. PICK o : uses' = Append(uses, o) /\ (o.kind = "outcome" => Finishes /\ o = Outcome)
    BY <1>8 DEF RaisesOrRejects, Finishes
  <2>2. run' = AtRest /\ Idle'
    BY <1>8, RestShape DEF RaisesOrRejects, Finishes, Idle
  <2>3. /\ IsSequenceOf(uses') /\ Len(uses') = n + 1 /\ uses'[n + 1] = o
        /\ \A i \in 1..n : uses'[i] = uses[i]
    BY <1>4, <2>1, AppendKeeps DEF ChildInv, ChildShape
  <2>4. RunsReturned(n)'
    BY <1>4, <1>5, <2>3, ReturnedKept
  <2>5. o.kind = "outcome" => hooked' = {} /\ FollowsPlan(n + 1)'
    <3> SUFFICES ASSUME o.kind = "outcome"
                 PROVE  hooked' = {} /\ FollowsPlan(n + 1)'
      OBVIOUS
    <3>1. Finishes /\ o = Outcome
      BY <2>1
    <3>2. hooked' = {}
      BY <1>4, <3>1 DEF Finishes
    <3>3. o.prompt = run.prompt /\ o.tool = run.tool
      BY <3>1 DEF Outcome
    <3>4. EventsFitMode(o)
      BY <1>6, <3>1, <3>3 DEF Finishes, Accepted
    <3> QED
      BY <1>4, <2>3, <3>2, <3>3, <3>4 DEF FollowsPlan, Planned
  <2>6. n = Len(uses') - 1
    BY <1>5, <2>3
  <2>7. uses'[Len(uses')].kind = "outcome" => hooked' = {} /\ FollowsPlan(Len(uses))'
    BY <2>3, <2>5
  <2>8. RunningInv'
    BY <1>4, <2>2, <2>4, <2>6, <2>7 DEF RunningInv
  <2>9. ChildShape'
    BY <1>1, <2>3 DEF ChildInv, ChildShape
  <2> QED
    BY <1>3, <2>8, <2>9 DEF ChildInv, LoadInv, StartInv, PublishInv, EndedInv
<1> QED
  BY <1>1, <1>7, <1>8

\* A step of the child only, which leaves the model and the runs alone.
LEMMA RunsUntouched ==
  ASSUME ChildShape, UNCHANGED <<modelVars, run>>
  PROVE  /\ RunShape' /\ IsSequenceOf(uses') /\ Idle' = Idle
         /\ uses' = uses /\ hooked' = hooked
BY DEF ChildShape, RunShape, Idle, modelVars

LEMMA LoadKeeps ==
  ASSUME ChildInv, LoadModel \/ LoadFails
  PROVE  ChildInv'
<1>1. /\ child.phase = "load" /\ UNCHANGED <<modelVars, run>>
      /\ uses = <<>> /\ Idle /\ hooked = {}
      /\ child.progress = Started /\ child.manifest = NoManifest
  BY DEF LoadModel, LoadFails, ChildInv, LoadInv
<1>2. /\ RunShape' /\ IsSequenceOf(uses') /\ Idle' /\ uses' = uses /\ hooked' = hooked
  BY <1>1, RunsUntouched DEF ChildInv
<1>3. CASE LoadModel
  <2> DEFINE p == child.progress
  <2>1. /\ DOMAIN child' = DOMAIN child /\ child'.phase = "start"
        /\ child'.number = child.number /\ child'.manifest = child.manifest
        /\ child'.progress = [p EXCEPT !.loaded = TRUE, !.failurePhase = "calibration"]
    BY <1>3 DEF LoadModel, ChildInv, ChildShape
  <2>2. child'.progress = ProgressAfter(0, PhaseBefore(0))
    BY <1>1, <2>1, LoadedProgress
  <2>3. Len(uses') = 0 /\ 0 \in 0..TotalRuns
    BY <1>1, <1>2, CountsAreNumbers
  <2>4. RunsReturned(0)'
    BY <2>1, <2>3, <1>2, EmptyIsReturned, SameRunsReturned
  <2>5. StartInv'
    BY <1>1, <1>2, <2>1, <2>2, <2>3, <2>4 DEF StartInv
  <2>6. ChildShape'
    BY <1>2, <2>1 DEF ChildInv, ChildShape
  <2> QED
    BY <2>1, <2>5, <2>6 DEF ChildInv, LoadInv, RunningInv, PublishInv, EndedInv
<1>4. CASE LoadFails
  BY <1>1, <1>2, <1>4, StartedIsValid, FailKeeps DEF LoadFails, ChildInv
<1> QED
  BY <1>3, <1>4

LEMMA LowKeeps ==
  ASSUME ChildInv, LowBeforeRun \/ LowAfterRun
  PROVE  ChildInv'
<1>1. UNCHANGED <<modelVars, run>>
  BY DEF LowBeforeRun, LowAfterRun
<1>2. /\ RunShape' /\ IsSequenceOf(uses') /\ Idle' = Idle
  BY <1>1, RunsUntouched DEF ChildInv
<1>3. CASE LowBeforeRun
  <2>1. /\ child.phase = "start" /\ Idle /\ Len(uses) \in 0..TotalRuns
        /\ child.progress = ProgressAfter(Len(uses), PhaseBefore(Len(uses)))
    BY <1>3 DEF LowBeforeRun, ChildInv, StartInv
  <2>2. PICK n \in 0..TotalRuns : n = Len(uses)
    BY <2>1
  <2>3. CASE n >= CalibrationRuns
    <3>1. EnteringRun = [child.progress EXCEPT !.failurePhase = "evaluation"]
      BY <2>2, <2>3 DEF EnteringRun, Evaluating
    <3>2. EnteringRun = ProgressAfter(n, "evaluation")
      BY <2>1, <2>2, <3>1, PhaseSteps
    <3>3. InvalidRecordValid([state |-> "invalid", partial |-> ProgressAfter(n, "evaluation")])
      BY <2>3, PartialValid
    <3> QED
      BY <1>2, <1>3, <2>1, <3>2, <3>3, FailKeeps DEF LowBeforeRun, ChildInv
  <2>4. CASE ~ (n >= CalibrationRuns)
    <3>1. EnteringRun = ProgressAfter(n, "calibration")
      BY <2>1, <2>2, <2>4, CountsAreNumbers DEF EnteringRun, Evaluating, PhaseBefore
    <3>2. n <= CalibrationRuns
      BY <2>2, <2>4, CountsAreNumbers
    <3>3. InvalidRecordValid([state |-> "invalid", partial |-> ProgressAfter(n, "calibration")])
      BY <3>2, PartialValid
    <3> QED
      BY <1>2, <1>3, <2>1, <3>1, <3>3, FailKeeps DEF LowBeforeRun, ChildInv
  <2> QED
    BY <2>3, <2>4
<1>4. CASE LowAfterRun
  <2>1. PICK n \in 0..TotalRuns - 1 : child.progress = ProgressAfter(n, PhaseDuring(n))
    BY <1>4 DEF LowAfterRun, ChildInv, RunningInv
  <2>2. InvalidRecordValid([state |-> "invalid", partial |-> ProgressAfter(n, PhaseDuring(n))])
    <3>1. /\ n \in 0..TotalRuns /\ PhaseDuring(n) \in {"calibration", "evaluation", "validation"}
          /\ PhaseDuring(n) = "calibration" => n <= CalibrationRuns
          /\ PhaseDuring(n) = "evaluation" => n >= CalibrationRuns
          /\ PhaseDuring(n) # "validation"
      BY CountsAreNumbers DEF PhaseDuring
    <3> QED
      BY <3>1, PartialValid
  <2> QED
    BY <1>2, <1>4, <2>1, <2>2, FailKeeps DEF LowAfterRun, ChildInv
<1> QED
  BY <1>3, <1>4

LEMMA EndRunKeeps ==
  ASSUME ChildInv, EndRun
  PROVE  ChildInv'
<1>1. child.phase = "running" /\ Idle /\ UNCHANGED <<modelVars, run>>
  BY DEF EndRun
<1>2. /\ RunShape' /\ IsSequenceOf(uses') /\ Idle' /\ uses' = uses /\ hooked' = hooked
  BY <1>1, RunsUntouched DEF ChildInv
<1>3. /\ child.manifest = NoManifest
      /\ Len(uses) - 1 \in 0..TotalRuns - 1
      /\ RunsReturned(Len(uses) - 1)
      /\ child.progress = ProgressAfter(Len(uses) - 1, PhaseDuring(Len(uses) - 1))
      /\ uses[Len(uses)].kind = "outcome" => hooked = {} /\ FollowsPlan(Len(uses))
  BY <1>1 DEF ChildInv, RunningInv
<1>4. PICK n \in 1..TotalRuns : n = Len(uses)
  <2>1. Len(uses) \in Nat
    BY LenProperties DEF ChildInv, ChildShape, IsSequenceOf
  <2>2. Len(uses) \in 1..TotalRuns
    BY <1>3, <2>1, CountsAreNumbers
  <2> QED
    BY <2>2
<1>5. n - 1 \in 0..TotalRuns /\ n \in 0..TotalRuns
  BY CountsAreNumbers
<1>6. Counted = ProgressAfter(n, PhaseBefore(n))
  BY <1>3, <1>4, CountedProgress
<1>7. InvalidRecordValid([state |-> "invalid", partial |-> child.progress])
  <2>1. /\ PhaseDuring(n - 1) \in {"calibration", "evaluation", "validation"}
        /\ PhaseDuring(n - 1) = "calibration" => n - 1 <= CalibrationRuns
        /\ PhaseDuring(n - 1) = "evaluation" => n - 1 >= CalibrationRuns
        /\ PhaseDuring(n - 1) # "validation"
    BY <1>5, CountsAreNumbers DEF PhaseDuring
  <2>2. InvalidRecordValid([state |-> "invalid",
                            partial |-> ProgressAfter(n - 1, PhaseDuring(n - 1))])
    BY <1>5, <2>1, PartialValid
  <2> QED
    BY <1>3, <1>4, <2>2
<1>8. InvalidRecordValid([state |-> "invalid", partial |-> Counted])
  <2>1. /\ PhaseBefore(n) \in {"calibration", "evaluation", "validation"}
        /\ PhaseBefore(n) = "calibration" => n <= CalibrationRuns
        /\ PhaseBefore(n) = "evaluation" => n >= CalibrationRuns
        /\ PhaseBefore(n) # "validation"
    BY <1>5, CountsAreNumbers DEF PhaseBefore
  <2>2. InvalidRecordValid([state |-> "invalid", partial |-> ProgressAfter(n, PhaseBefore(n))])
    BY <1>5, <2>1, PartialValid
  <2> QED
    BY <1>6, <2>2
<1>9. \/ Last(uses).kind # "outcome" /\ Fail(child.progress)
      \/ ~ PairsAgree /\ Fail(IF Len(uses) > CalibrationRuns THEN child.progress ELSE Counted)
      \/ /\ Last(uses).kind = "outcome" /\ PairsAgree
         /\ child' = [child EXCEPT !.phase = "start", !.progress = Counted]
  BY DEF EndRun
<1>10. CASE \E progress \in {child.progress, Counted} : Fail(progress)
  BY <1>2, <1>7, <1>8, <1>10, FailKeeps DEF ChildInv
<1>11. CASE /\ Last(uses).kind = "outcome" /\ PairsAgree
            /\ child' = [child EXCEPT !.phase = "start", !.progress = Counted]
  <2>1. /\ DOMAIN child' = DOMAIN child /\ child'.phase = "start"
        /\ child'.number = child.number /\ child'.manifest = child.manifest
        /\ child'.progress = ProgressAfter(n, PhaseBefore(n))
    BY <1>6, <1>11 DEF ChildInv, ChildShape
  <2>2. hooked = {} /\ FollowsPlan(Len(uses))
    BY <1>3, <1>11 DEF Last
  <2>3. RunsReturned(n)
    BY <1>3, <1>4, <1>11, <2>2, ReturnedNext DEF ChildInv, ChildShape
  <2>4. RunsReturned(n)'
    BY <1>2, <1>5, <2>1, <2>3, SameRunsReturned
  <2>5. StartInv'
    BY <1>2, <1>3, <1>4, <1>5, <2>1, <2>2, <2>4 DEF StartInv
  <2>6. ChildShape'
    BY <1>2, <2>1 DEF ChildInv, ChildShape
  <2> QED
    BY <2>1, <2>5, <2>6 DEF ChildInv, LoadInv, RunningInv, PublishInv, EndedInv
<1> QED
  BY <1>9, <1>10, <1>11

LEMMA TrustedKept ==
  ASSUME AllTrusted, uses' = uses, hooked' = {}, child'.number = child.number
  PROVE  AllTrusted'
<1>1. TotalRuns \in 0..TotalRuns
  BY CountsAreNumbers
<1>2. RunsReturned(TotalRuns)'
  BY <1>1, SameRunsReturned DEF AllTrusted
<1> QED
  BY <1>2 DEF AllTrusted

LEMMA ValidatingIsValid ==
  InvalidRecordValid([state |-> "invalid", partial |-> ProgressAfter(TotalRuns, "validation")])
<1>1. TotalRuns \in 0..TotalRuns /\ "validation" \in {"calibration", "evaluation", "validation"}
  BY CountsAreNumbers
<1> QED
  BY <1>1, PartialValid

LEMMA CompareKeeps ==
  ASSUME ChildInv, CompareTrusted
  PROVE  ChildInv'
<1>1. /\ child.phase = "start" /\ AllRun /\ UNCHANGED <<modelVars, run>>
      /\ Idle /\ hooked = {} /\ child.manifest = NoManifest
      /\ RunsReturned(Len(uses))
      /\ child.progress = ProgressAfter(Len(uses), PhaseBefore(Len(uses)))
  BY DEF CompareTrusted, ChildInv, StartInv
<1>2. /\ RunShape' /\ IsSequenceOf(uses') /\ Idle' /\ uses' = uses /\ hooked' = hooked
  BY <1>1, RunsUntouched DEF ChildInv
<1>3. Len(uses) = TotalRuns
  BY <1>1, ScheduleEntries DEF AllRun
<1>4. Validating = ProgressAfter(TotalRuns, "validation")
  BY <1>1, <1>3, PhaseSteps DEF Validating
<1>5. CASE ~ ProfiledMatch(uses)
  BY <1>2, <1>4, <1>5, ValidatingIsValid, FailKeeps DEF CompareTrusted, ChildInv
<1>6. CASE ProfiledMatch(uses)
  <2>1. /\ DOMAIN child' = DOMAIN child /\ child'.phase = "publish"
        /\ child'.number = child.number /\ child'.manifest = child.manifest
        /\ child'.progress = Validating
    BY <1>6 DEF CompareTrusted, ChildInv, ChildShape
  <2>2. DOMAIN uses = 1..TotalRuns
    BY <1>3, LenProperties DEF ChildInv, ChildShape, IsSequenceOf
  <2>3. \A i \in 1..TotalRuns :
           uses[i].tool = "profiled" => MatchesTrusted(uses[i], Trusted[uses[i].prompt])
    BY <1>6, <2>2 DEF ProfiledMatch
  <2>4. AllTrusted
    BY <1>1, <1>3, <2>3 DEF AllTrusted
  <2>5. PublishInv'
    BY <1>1, <1>2, <1>4, <2>1, <2>4, TrustedKept DEF PublishInv
  <2>6. ChildShape'
    BY <1>2, <2>1 DEF ChildInv, ChildShape
  <2> QED
    BY <2>1, <2>5, <2>6 DEF ChildInv, LoadInv, StartInv, RunningInv, EndedInv
<1> QED
  BY <1>5, <1>6

LEMMA PublishKeeps ==
  ASSUME ChildInv, PublishManifest \/ PublishFails \/ Recheck
  PROVE  ChildInv'
<1>1. /\ child.phase \in {"publish", "recheck"} /\ UNCHANGED <<modelVars, run>>
      /\ Idle /\ AllTrusted
      /\ child.progress = ProgressAfter(TotalRuns, "validation")
      /\ child.manifest = IF child.phase = "publish" THEN NoManifest
                          ELSE [state |-> "valid", number |-> child.number, runs |-> uses]
  BY DEF PublishManifest, PublishFails, Recheck, ChildInv, PublishInv
<1>2. /\ RunShape' /\ IsSequenceOf(uses') /\ Idle' /\ uses' = uses /\ hooked' = hooked
  BY <1>1, RunsUntouched DEF ChildInv
<1>3. CASE Fail(child.progress)
  BY <1>1, <1>2, <1>3, ValidatingIsValid, FailKeeps DEF ChildInv
<1>4. CASE PublishManifest
  <2>1. /\ DOMAIN child' = DOMAIN child /\ child'.phase = "recheck"
        /\ child'.number = child.number /\ child'.progress = child.progress
        /\ child'.manifest = [state |-> "valid", number |-> child.number, runs |-> uses]
    BY <1>4 DEF PublishManifest, ChildInv, ChildShape
  <2>2. AllTrusted'
    BY <1>1, <1>2, <2>1, TrustedKept DEF AllTrusted
  <2>3. PublishInv'
    BY <1>1, <1>2, <2>1, <2>2 DEF PublishInv
  <2>4. ChildShape'
    BY <1>2, <2>1 DEF ChildInv, ChildShape
  <2> QED
    BY <2>1, <2>3, <2>4 DEF ChildInv, LoadInv, StartInv, RunningInv, EndedInv
<1>5. CASE child.phase = "recheck" /\ child' = [child EXCEPT !.phase = "ended"]
  <2>1. /\ DOMAIN child' = DOMAIN child /\ child'.phase = "ended"
        /\ child'.number = child.number /\ child'.manifest = child.manifest
    BY <1>5 DEF ChildInv, ChildShape
  <2>2. AllTrusted'
    BY <1>1, <1>2, <2>1, TrustedKept DEF AllTrusted
  <2>3. EndedInv'
    BY <1>1, <1>2, <1>5, <2>1, <2>2 DEF EndedInv
  <2>4. ChildShape'
    BY <1>2, <2>1 DEF ChildInv, ChildShape
  <2> QED
    BY <2>1, <2>3, <2>4 DEF ChildInv, LoadInv, StartInv, RunningInv, PublishInv
<1> QED
  BY <1>3, <1>4, <1>5 DEF PublishFails, Recheck

LEMMA KillKeeps ==
  ASSUME ChildInv, Kill
  PROVE  ChildInv'
<1>1. /\ DOMAIN child' = DOMAIN child /\ child'.phase = "ended"
      /\ child'.number = child.number /\ child'.manifest = child.manifest
      /\ child.phase # "ended" /\ run' = AtRest /\ uses' = uses /\ hooked' = {}
  BY DEF Kill, ChildInv, ChildShape
<1>2. RunShape' /\ Idle'
  BY <1>1, RestShape DEF RunShape, Idle
<1>3. \/ child.manifest = NoManifest
      \/ child.manifest = [state |-> "valid", number |-> child.number, runs |-> uses] /\ AllTrusted
  BY <1>1 DEF ChildInv, ChildShape, LoadInv, StartInv, RunningInv, PublishInv
<1>4. EndedInv'
  BY <1>1, <1>2, <1>3, TrustedKept DEF EndedInv
<1>5. ChildShape'
  BY <1>1, <1>2 DEF ChildInv, ChildShape
<1> QED
  BY <1>1, <1>4, <1>5 DEF ChildInv, LoadInv, StartInv, RunningInv, PublishInv

LEMMA ChildStepKeeps ==
  ASSUME ChildInv, ChildNext
  PROVE  ChildInv'
BY StartRunKeeps, GraniteKeepsChild, LoadKeeps, LowKeeps, EndRunKeeps, CompareKeeps,
   PublishKeeps, KillKeeps DEF ChildNext, ChildStep

-----------------------------------------------------------------------------
\* A child is at work only where the model is used by one.
UseInv ==
  /\ use = "child" => ChildInv
  /\ use # "child" => child.manifest = NoManifest

LEMMA InitUse == CollectionInit => UseInv
<1> SUFFICES ASSUME CollectionInit PROVE UseInv
  OBVIOUS
<1>1. PICK number \in ChildNumbers :
         child = [number |-> number, phase |-> "load", progress |-> Started,
                  manifest |-> NoManifest]
  BY DEF CollectionInit, ChildInit
<1>2. uses = <<>> /\ run = AtRest /\ hooked = {}
  BY DEF CollectionInit, ModelInit, RunInit
<1>3. RunShape /\ Idle
  BY <1>2, RestShape DEF RunShape, Idle
<1>4. IsSequenceOf(uses)
  BY <1>2, EmptySeq DEF IsSequenceOf
<1>5. ChildShape
  BY <1>1, <1>3, <1>4 DEF ChildShape
<1>6. LoadInv
  BY <1>1, <1>2, <1>3 DEF LoadInv
<1> QED
  BY <1>1, <1>5, <1>6 DEF UseInv, ChildInv, StartInv, RunningInv, PublishInv, EndedInv

LEMMA NextKeepsUse ==
  ASSUME UseInv, [CollectionNext]_collectionVars
  PROVE  UseInv'
<1>1. CASE GraniteUse \/ SwitchUse
  BY <1>1 DEF GraniteUse, SwitchUse, UseInv
<1>2. CASE ChildUse
  BY <1>2, ChildStepKeeps DEF ChildUse, UseInv
<1>3. CASE UNCHANGED collectionVars
  BY <1>3 DEF collectionVars, modelVars, UseInv, ChildInv, ChildShape, RunShape, LoadInv, StartInv,
              RunningInv, PublishInv, EndedInv, Idle, AllTrusted, RunsReturned, FollowsPlan,
              Planned, Compared
<1> QED
  BY <1>1, <1>2, <1>3 DEF CollectionNext

LEMMA UseInvariant == CollectionSpec => []UseInv
<1> QED
  BY InitUse, NextKeepsUse, PTL DEF CollectionSpec

\* Whatever manifest there is, is one of these.
LEMMA ManifestIs ==
  ASSUME UseInv
  PROVE  \/ child.manifest.state = "none"
         \/ /\ child.manifest.state = "valid" /\ child.manifest.runs = uses
            /\ AllTrusted /\ IsSequenceOf(uses)
         \/ child.manifest.state = "invalid" /\ InvalidRecordValid(child.manifest)
<1>1. NoManifest.state = "none"
  BY DEF NoManifest
<1>2. CASE use # "child"
  BY <1>1, <1>2 DEF UseInv
<1>3. CASE use = "child"
  BY <1>1, <1>3 DEF UseInv, ChildInv, ChildShape, LoadInv, StartInv, RunningInv, PublishInv, EndedInv
<1> QED
  BY <1>2, <1>3

(***************************************************************************)
(* The manifest of a child that fails, wherever and for whatever reason,   *)
(* is accepted by the validator of the set: what it reports of its runs    *)
(* fits the phase in which it says it failed, for schedules of any length. *)
(***************************************************************************)
THEOREM InvalidChildReports == CollectionSpec => []InvalidChildValidates
<1>1. UseInv => InvalidChildValidates
  BY ManifestIs DEF InvalidChildValidates
<1> QED
  BY <1>1, UseInvariant, PTL

(***************************************************************************)
(* In a valid child every run, in both modes and of every prompt, is what  *)
(* Stage 1 recorded, whatever the model computed in each of them: the      *)
(* profiled runs were compared with Stage 1, and each reference run with a *)
(* profiled one.  The reference runs are unobserved and no hook is left.   *)
(***************************************************************************)
THEOREM ValidChildMatches == CollectionSpec => []ValidChildIsTrusted
<1>1. ASSUME UseInv PROVE ValidChildIsTrusted
  <2> SUFFICES ASSUME child.manifest.state = "valid"
               PROVE  /\ hooked = {}
                      /\ \A i \in DOMAIN child.manifest.runs :
                            LET outcome == child.manifest.runs[i]
                            IN  /\ outcome.fed = Trusted[outcome.prompt].fed
                                /\ outcome.terminal = Trusted[outcome.prompt].terminal
                                /\ outcome.events = IF outcome.tool = "reference" THEN <<>>
                                                    ELSE Trusted[outcome.prompt].events
    BY DEF ValidChildIsTrusted
  <2>1. child.manifest.runs = uses /\ AllTrusted /\ IsSequenceOf(uses)
    BY <1>1, ManifestIs
  <2>2. DOMAIN uses = 1..TotalRuns
    BY <2>1, LenProperties DEF AllTrusted, IsSequenceOf
  <2>3. \A i \in 1..TotalRuns : FollowsPlan(i)
    BY <2>1 DEF AllTrusted, RunsReturned
  <2>4. \A i \in 1..TotalRuns : Compared(i)
    <3> TAKE i \in 1..TotalRuns
    <3>1. Partner(i) <= TotalRuns
      BY PartnerInRange, CountsAreNumbers
    <3>2. RunsReturned(TotalRuns)
      BY <2>1 DEF AllTrusted
    <3> QED
      BY <3>1, <3>2, CountsAreNumbers DEF RunsReturned
  <2>5. ASSUME NEW i \in 1..TotalRuns
        PROVE  /\ uses[i].fed = Trusted[uses[i].prompt].fed
               /\ uses[i].terminal = Trusted[uses[i].prompt].terminal
               /\ uses[i].events = IF uses[i].tool = "reference" THEN <<>>
                                   ELSE Trusted[uses[i].prompt].events
    <3> DEFINE j == Partner(i)
    <3>1. /\ j \in 1..TotalRuns
          /\ Planned(j)[1] = Planned(i)[1]
          /\ Planned(i)[2] \in V04Tools /\ Planned(j)[2] \in V04Tools
          /\ Planned(j)[2] # Planned(i)[2]
      BY PartnerInRange, PartnerOnSchedule DEF Planned
    <3>2. Semantic(uses[i]) = Semantic(uses[j])
      BY <2>4 DEF Compared
    <3> HIDE DEF j
    <3>3. /\ uses[i].tool \in V04Tools /\ uses[j].tool \in V04Tools
          /\ uses[i].tool # uses[j].tool /\ uses[i].prompt = uses[j].prompt
      BY <2>3, <3>1 DEF FollowsPlan
    <3>4. uses[i].fed = uses[j].fed /\ uses[i].terminal = uses[j].terminal
      BY <3>2 DEF Semantic
    <3>5. CASE uses[i].tool = "profiled"
      BY <2>1, <3>5 DEF AllTrusted, MatchesTrusted
    <3>6. CASE uses[i].tool = "reference"
      <4>1. uses[j].tool = "profiled"
        BY <3>3, <3>6 DEF V04Tools
      <4>2. /\ uses[j].fed = Trusted[uses[j].prompt].fed
            /\ uses[j].terminal = Trusted[uses[j].prompt].terminal
        BY <2>1, <3>1, <4>1 DEF AllTrusted, MatchesTrusted
      <4>3. uses[i].events = <<>>
        BY <2>3, <3>6 DEF FollowsPlan, EventsFitMode
      <4> QED
        BY <3>3, <3>4, <3>6, <4>2, <4>3
    <3> QED
      BY <3>3, <3>5, <3>6 DEF V04Tools
  <2> QED
    BY <2>1, <2>2, <2>5 DEF AllTrusted
<1> QED
  BY <1>1, UseInvariant, PTL

-----------------------------------------------------------------------------
(***************************************************************************)
(* The whole run of a Granite collection.  Its events fill a table for the *)
(* prompt and one for what is fed back; positions of tables are quotients  *)
(* and remainders.                                                         *)
(***************************************************************************)
\* Division with remainder.
LEMMA Quotient ==
  ASSUME NEW n \in Nat \ {0}, NEW k \in Nat
  PROVE  /\ k \div n \in Nat /\ k % n \in 0..n - 1
         /\ k = (k \div n) * n + (k % n)
OBVIOUS

\* The row and the column of a place in a table with rows of n,
LEMMA RowOf ==
  ASSUME NEW n \in Nat \ {0}, NEW a \in Nat, NEW i \in 0..n - 1
  PROVE  (a * n + i) \div n = a /\ (a * n + i) % n = i
OBVIOUS

\* the order of places,
LEMMA RowMajor ==
  ASSUME NEW n \in Nat \ {0}, NEW a \in Nat, NEW b \in Nat, NEW i \in 0..n - 1, NEW j \in 0..n - 1,
         a * n + i < b * n + j
  PROVE  a < b \/ (a = b /\ i < j)
<1>1. ASSUME b < a PROVE FALSE
  <2>1. PICK d \in Nat : a = b + 1 + d
    BY <1>1
  <2>2. a * n = b * n + n + d * n
    BY <2>1
  <2> QED
    BY <2>2
<1> QED
  BY <1>1

\* and the rows of a table that is no longer than that.
LEMMA RowBelow ==
  ASSUME NEW n \in Nat \ {0}, NEW rows \in Nat, NEW k \in 1..rows * n
  PROVE  /\ (k - 1) \div n \in 0..rows - 1 /\ (k - 1) % n \in 0..n - 1
         /\ k - 1 = ((k - 1) \div n) * n + ((k - 1) % n)
<1>1. k - 1 \in Nat /\ rows * n \in Nat /\ k - 1 < rows * n
  OBVIOUS
<1> DEFINE a == (k - 1) \div n
           i == (k - 1) % n
<1>2. a \in Nat /\ i \in 0..n - 1 /\ k - 1 = a * n + i
  BY <1>1, Quotient
<1> HIDE DEF a, i
<1>3. a * n + i < rows * n + 0
  BY <1>1, <1>2
<1>4. a < rows \/ (a = rows /\ i < 0)
  BY <1>2, <1>3, RowMajor
<1> QED
  BY <1>2, <1>4 DEF a, i

\* If all positions are hit, the k-th is k.
LEMMA NthOfAll ==
  ASSUME NEW n \in Nat, NEW k \in 1..n
  PROVE  Nth(1..n, k) = k
<1>1. \A i \in 1..n : ((1..n) \cap (1..i)) = 1..i
  OBVIOUS
<1>2. \A i \in 1..n : Cardinality(1..i) = i
  BY FS_Interval
<1> QED
  BY <1>1, <1>2 DEF Nth

\* A call observes every router that has the hook of this capture.
LEMMA AllObserved ==
  ASSUME \A l \in 1..RoutedLayers : Hook("router", Routers[l]) \in hooked
  PROVE  Observations(Routers, LAMBDA site : run.input)
           = [l \in 1..RoutedLayers |-> [site |-> Routers[l], tokens |-> run.input]]
<1>0. RoutedLayers \in Nat
  BY GraniteAssumption
<1>1. DOMAIN Routers = 1..RoutedLayers
  BY DEF Routers
<1>2. {i \in DOMAIN Routers : Hook("router", Routers[i]) \in hooked} = 1..RoutedLayers
  BY <1>1
<1>3. Cardinality(1..RoutedLayers) = RoutedLayers
  BY <1>0, FS_Interval
<1> QED
  BY <1>0, <1>2, <1>3, NthOfAll DEF Observations

Events == {EventAt(phase, position, layer, token) :
              phase \in {"prompt", "generated"}, position \in Nat, layer \in Nat, token \in Nat}

PromptPart(prompt) ==
  RowByRow(RoutedLayers, Len(Prompts[prompt]), LAMBDA l, i : PromptEvent(prompt, l, i))

GeneratedPart(prompt, fed) ==
  RowByRow(Len(fed), RoutedLayers, LAMBDA n, l : GeneratedEvent(prompt, fed, n, l))

LEMMA WholeIsParts ==
  ASSUME NEW prompt, NEW fed
  PROVE  WholeRun(prompt, fed) = PromptPart(prompt) \o GeneratedPart(prompt, fed)
BY DEF WholeRun, PromptPart, GeneratedPart

LEMMA Arithmetic ==
  ASSUME NEW n \in Nat \ {0}, NEW rows \in Nat
  PROVE  rows * n \in Nat /\ n * rows = rows * n
OBVIOUS

\* The entries of the first part: layer by layer, token by token;
LEMMA PromptEntry ==
  ASSUME NEW prompt \in DOMAIN Prompts
  PROVE  /\ PromptPart(prompt) \in Seq(Events)
         /\ Len(PromptPart(prompt)) = RoutedLayers * Len(Prompts[prompt])
         /\ \A k \in 1..RoutedLayers * Len(Prompts[prompt]) :
               \E l \in 0..RoutedLayers - 1, i \in 0..Len(Prompts[prompt]) - 1 :
                  /\ k - 1 = l * Len(Prompts[prompt]) + i
                  /\ PromptPart(prompt)[k] = EventAt("prompt", i, l, Prompts[prompt][i + 1])
<1> DEFINE tokens == Prompts[prompt]
           n == Len(tokens)
           rows == RoutedLayers
<1>1. tokens \in Seq(Nat) /\ n \in Nat \ {0} /\ rows \in Nat
  BY ModelAssumption, GraniteAssumption, EmptySeq, LenProperties
<1>2. rows * n \in Nat
  BY <1>1, Arithmetic
<1>3. PromptPart(prompt) =
        [k \in 1..rows * n |->
           PromptEvent(prompt, ((k - 1) \div n) + 1, ((k - 1) % n) + 1)]
  BY DEF PromptPart, RowByRow
<1>4. ASSUME NEW k \in 1..rows * n
      PROVE  \E l \in 0..rows - 1, i \in 0..n - 1 :
                /\ k - 1 = l * n + i
                /\ PromptPart(prompt)[k] = EventAt("prompt", i, l, tokens[i + 1])
  <2> DEFINE l == (k - 1) \div n
             i == (k - 1) % n
  <2>1. l \in 0..rows - 1 /\ i \in 0..n - 1 /\ k - 1 = l * n + i
    BY <1>1, RowBelow
  <2>2. PromptPart(prompt)[k] = PromptEvent(prompt, l + 1, i + 1)
    BY <1>3
  <2> HIDE DEF l, i, n, tokens
  <2>3. i + 1 - 1 = i /\ l + 1 - 1 = l
    BY <1>1, <2>1
  <2> QED
    BY <2>1, <2>2, <2>3 DEF PromptEvent, tokens
<1>5. ASSUME NEW k \in 1..rows * n
      PROVE  PromptPart(prompt)[k] \in Events
  <2>1. PICK l \in 0..rows - 1, i \in 0..n - 1 :
           PromptPart(prompt)[k] = EventAt("prompt", i, l, tokens[i + 1])
    BY <1>4
  <2>2. tokens[i + 1] \in Nat /\ i \in Nat /\ l \in Nat
    <3>1. i + 1 \in 1..n
      BY <1>1
    <3> QED
      BY <1>1, <3>1, ElementOfSeq
  <2> QED
    BY <2>1, <2>2 DEF Events
<1>6. PromptPart(prompt) \in [1..rows * n -> Events]
  BY <1>3, <1>5
<1>7. PromptPart(prompt) \in Seq(Events) /\ Len(PromptPart(prompt)) = rows * n
  BY <1>2, <1>6
<1> QED
  BY <1>4, <1>7

\* and of the second: step by step, layer by layer.
LEMMA GeneratedEntry ==
  ASSUME NEW prompt \in DOMAIN Prompts, NEW fed \in Seq(Nat)
  PROVE  /\ GeneratedPart(prompt, fed) \in Seq(Events)
         /\ Len(GeneratedPart(prompt, fed)) = Len(fed) * RoutedLayers
         /\ \A k \in 1..Len(fed) * RoutedLayers :
               \E s \in 0..Len(fed) - 1, l \in 0..RoutedLayers - 1 :
                  /\ k - 1 = s * RoutedLayers + l
                  /\ GeneratedPart(prompt, fed)[k]
                       = EventAt("generated", Len(Prompts[prompt]) + s, l, fed[s + 1])
<1> DEFINE n == RoutedLayers
           rows == Len(fed)
           length == Len(Prompts[prompt])
<1>1. n \in Nat \ {0} /\ rows \in Nat /\ length \in Nat
  BY ModelAssumption, GraniteAssumption, LenProperties
<1>2. rows * n \in Nat
  BY <1>1, Arithmetic
<1>3. GeneratedPart(prompt, fed) =
        [k \in 1..rows * n |->
           GeneratedEvent(prompt, fed, ((k - 1) \div n) + 1, ((k - 1) % n) + 1)]
  BY DEF GeneratedPart, RowByRow
<1>4. ASSUME NEW k \in 1..rows * n
      PROVE  \E s \in 0..rows - 1, l \in 0..n - 1 :
                /\ k - 1 = s * n + l
                /\ GeneratedPart(prompt, fed)[k] = EventAt("generated", length + s, l, fed[s + 1])
  <2> DEFINE s == (k - 1) \div n
             l == (k - 1) % n
  <2>1. s \in 0..rows - 1 /\ l \in 0..n - 1 /\ k - 1 = s * n + l
    BY <1>1, RowBelow
  <2>2. GeneratedPart(prompt, fed)[k] = GeneratedEvent(prompt, fed, s + 1, l + 1)
    BY <1>3
  <2> HIDE DEF l, s, n, length
  <2>3. length + (s + 1) - 1 = length + s /\ l + 1 - 1 = l
    BY <1>1, <2>1
  <2> QED
    BY <2>1, <2>2, <2>3 DEF GeneratedEvent, length
<1>5. ASSUME NEW k \in 1..rows * n
      PROVE  GeneratedPart(prompt, fed)[k] \in Events
  <2>1. PICK s \in 0..rows - 1, l \in 0..n - 1 :
           GeneratedPart(prompt, fed)[k] = EventAt("generated", length + s, l, fed[s + 1])
    BY <1>4
  <2>2. fed[s + 1] \in Nat /\ length + s \in Nat /\ l \in Nat
    <3>1. s + 1 \in 1..rows
      BY <1>1
    <3> QED
      BY <1>1, <3>1, ElementOfSeq
  <2>3. EventAt("generated", length + s, l, fed[s + 1]) \in Events
    <3> DEFINE p == length + s
               t == fed[s + 1]
    <3>1. p \in Nat /\ t \in Nat /\ l \in Nat
      BY <2>2
    <3> HIDE DEF p, t
    <3>2. EventAt("generated", p, l, t) \in Events
      BY <3>1 DEF Events
    <3> QED
      BY <3>2 DEF p, t
  <2> QED
    BY <2>1, <2>3
<1>6. GeneratedPart(prompt, fed) \in [1..rows * n -> Events]
  BY <1>3, <1>5
<1>7. GeneratedPart(prompt, fed) \in Seq(Events) /\ Len(GeneratedPart(prompt, fed)) = rows * n
  BY <1>2, <1>6
<1> QED
  BY <1>4, <1>7

\* what a call that reaches every router leaves
Reached == [l \in 1..RoutedLayers |-> [site |-> Routers[l], tokens |-> run.input]]

LEMMA ReachedLength == Len(Reached) = RoutedLayers
<1>1. RoutedLayers \in Nat
  BY GraniteAssumption
<1> QED
  BY <1>1 DEF Reached

\* Before anything is fed back, the whole run is that of the prompt,
LEMMA NoStepsYet ==
  ASSUME NEW prompt \in DOMAIN Prompts
  PROVE  /\ GeneratedPart(prompt, <<>>) = <<>>
         /\ WholeRun(prompt, <<>>) = PromptPart(prompt)
<1>0. <<>> \in Seq(Nat) /\ Len(<<>>) = 0
  OBVIOUS
<1>1. GeneratedPart(prompt, <<>>) \in Seq(Events) /\ Len(GeneratedPart(prompt, <<>>)) = 0 * RoutedLayers
  BY <1>0, GeneratedEntry
<1>2. 0 * RoutedLayers = 0
  BY GraniteAssumption
<1>3. GeneratedPart(prompt, <<>>) = <<>>
  BY <1>1, <1>2, EmptySeq
<1> QED
  BY <1>3, WholeIsParts, PromptEntry, ConcatEmptySeq

\* which is what the first call leaves.
LEMMA PromptTaken ==
  ASSUME NEW prompt \in DOMAIN Prompts,
         run.input = Prompts[prompt], run.offset = 0, run.inPhase = "prompt"
  PROVE  EventsOf(Reached) = PromptPart(prompt)
<1> DEFINE n == Len(Prompts[prompt])
<1>1. n \in Nat \ {0} /\ RoutedLayers \in Nat \ {0}
  BY ModelAssumption, GraniteAssumption, EmptySeq, LenProperties
<1>2. EventsOf(Reached)
        = [k \in 1..RoutedLayers * n |-> EventOf(Reached[((k - 1) \div n) + 1], ((k - 1) % n) + 1)]
  BY ReachedLength DEF EventsOf, RowByRow
<1>3. PromptPart(prompt)
        = [k \in 1..RoutedLayers * n |-> PromptEvent(prompt, ((k - 1) \div n) + 1, ((k - 1) % n) + 1)]
  BY DEF PromptPart, RowByRow
<1>4. ASSUME NEW o \in 1..RoutedLayers, NEW i \in 1..n
      PROVE  EventOf(Reached[o], i) = PromptEvent(prompt, o, i)
  <2>1. Reached[o] = [site |-> Site("model", o - 1), tokens |-> Prompts[prompt]]
    BY DEF Reached, Routers
  <2>2. run.offset + i - 1 = i - 1
    BY <1>1
  <2> DEFINE p == i - 1
             l == o - 1
  <2>3. Site("model", l).layer = l
    BY DEF Site
  <2> HIDE DEF p, l
  <2>4. EventOf([site |-> Site("model", l), tokens |-> Prompts[prompt]], i)
          = EventAt("prompt", p, l, Prompts[prompt][i])
    BY <2>2, <2>3 DEF EventOf, EventAt, p
  <2> QED
    BY <2>1, <2>4 DEF PromptEvent, p, l
<1> HIDE DEF n
<1>5. ASSUME NEW k \in 1..RoutedLayers * n
      PROVE  EventOf(Reached[((k - 1) \div n) + 1], ((k - 1) % n) + 1)
               = PromptEvent(prompt, ((k - 1) \div n) + 1, ((k - 1) % n) + 1)
  <2>1. (k - 1) \div n \in 0..RoutedLayers - 1 /\ (k - 1) % n \in 0..n - 1
    BY <1>1, RowBelow
  <2>2. ((k - 1) \div n) + 1 \in 1..RoutedLayers /\ ((k - 1) % n) + 1 \in 1..n
    BY <1>1, <2>1
  <2> QED
    BY <1>4, <2>2
<1> QED
  BY <1>2, <1>3, <1>5

\* A later call leaves the layers of one more step.
LEMMA StepTaken ==
  ASSUME NEW prompt \in DOMAIN Prompts, NEW old \in Seq(Nat), NEW c \in Nat,
         run.input = <<c>>, run.offset = Len(Prompts[prompt]) + Len(old),
         run.inPhase = "generated"
  PROVE  /\ EventsOf(Reached) \in Seq(Events)
         /\ GeneratedPart(prompt, Append(old, c)) = GeneratedPart(prompt, old) \o EventsOf(Reached)
<1> DEFINE n == RoutedLayers
           length == Len(Prompts[prompt])
           new == Append(old, c)
           m == Len(old)
<1>1. n \in Nat \ {0} /\ length \in Nat /\ m \in Nat
  BY ModelAssumption, GraniteAssumption, EmptySeq, LenProperties
<1>2. new \in Seq(Nat) /\ Len(new) = m + 1 /\ new[m + 1] = c /\ \A s \in 1..m : new[s] = old[s]
  BY AppendProperties
<1>3. EventsOf(Reached)
        = [k \in 1..n * 1 |-> EventOf(Reached[((k - 1) \div 1) + 1], ((k - 1) % 1) + 1)]
  BY ReachedLength DEF EventsOf, RowByRow
<1>4. ASSUME NEW k \in 1..n
      PROVE  EventsOf(Reached)[k] = EventAt("generated", length + m, k - 1, c)
  <2>1. ((k - 1) \div 1) + 1 = k /\ ((k - 1) % 1) + 1 = 1 /\ n * 1 = n
    BY <1>1
  <2>2. EventsOf(Reached)[k] = EventOf(Reached[k], 1)
    BY <1>3, <2>1
  <2>3. Reached[k] = [site |-> Site("model", k - 1), tokens |-> <<c>>]
    BY DEF Reached, Routers
  <2> DEFINE p == length + m
             l == k - 1
  <2>4. run.offset + 1 - 1 = p
    BY <1>1
  <2>5. Site("model", l).layer = l /\ <<c>>[1] = c
    BY DEF Site
  <2> HIDE DEF p, l
  <2>6. EventOf([site |-> Site("model", l), tokens |-> <<c>>], 1) = EventAt("generated", p, l, c)
    BY <2>4, <2>5 DEF EventOf, EventAt
  <2> QED
    BY <2>2, <2>3, <2>6 DEF p, l
<1>5. EventsOf(Reached) \in Seq(Events) /\ Len(EventsOf(Reached)) = n
  <2>1. n * 1 = n
    BY <1>1
  <2>2. ASSUME NEW k \in 1..n PROVE EventsOf(Reached)[k] \in Events
    <3> DEFINE p == length + m
               l == k - 1
    <3>1. p \in Nat /\ l \in Nat
      BY <1>1
    <3> HIDE DEF p, l
    <3>2. EventAt("generated", p, l, c) \in Events
      BY <3>1 DEF Events
    <3> QED
      BY <1>4, <3>2 DEF p, l
  <2>3. EventsOf(Reached) \in [1..n -> Events]
    BY <1>3, <2>1, <2>2
  <2> QED
    BY <1>1, <2>3
<1>6. /\ GeneratedPart(prompt, old) \in Seq(Events)
      /\ Len(GeneratedPart(prompt, old)) = m * n
      /\ GeneratedPart(prompt, new) \in Seq(Events)
      /\ Len(GeneratedPart(prompt, new)) = (m + 1) * n
  BY <1>2, GeneratedEntry
<1>7. m * n \in Nat /\ (m + 1) * n = m * n + n
  BY <1>1
<1>8. n = RoutedLayers /\ length = Len(Prompts[prompt])
      /\ \A k \in 1..m * n :
            \E s \in 0..m - 1, l \in 0..n - 1 :
               /\ k - 1 = s * n + l
               /\ GeneratedPart(prompt, old)[k] = EventAt("generated", length + s, l, old[s + 1])
  BY GeneratedEntry
<1>9. \A k \in 1..(m + 1) * n :
          \E s \in 0..m, l \in 0..n - 1 :
             /\ k - 1 = s * n + l
             /\ GeneratedPart(prompt, new)[k] = EventAt("generated", length + s, l, new[s + 1])
  <2>1. Len(new) - 1 = m
    BY <1>1, <1>2
  <2> HIDE DEF new, m
  <2>2. new \in Seq(Nat)
    BY <1>2
  <2>3. \A k \in 1..Len(new) * n :
          \E s \in 0..Len(new) - 1, l \in 0..n - 1 :
             /\ k - 1 = s * n + l
             /\ GeneratedPart(prompt, new)[k] = EventAt("generated", length + s, l, new[s + 1])
    BY <2>2, GeneratedEntry
  <2> QED
    BY <1>2, <2>1, <2>3
<1> DEFINE both == GeneratedPart(prompt, old) \o EventsOf(Reached)
           oldPart == GeneratedPart(prompt, old)
           newPart == GeneratedPart(prompt, new)
           added == EventsOf(Reached)
<1> HIDE DEF new, n, m, length, oldPart, newPart, added
<1>10. /\ both \in Seq(Events) /\ Len(both) = m * n + n
       /\ \A k \in 1..m * n + n :
             both[k] = IF k <= m * n THEN oldPart[k] ELSE added[k - m * n]
  <2>1. oldPart \in Seq(Events) /\ Len(oldPart) = m * n
        /\ added \in Seq(Events) /\ Len(added) = n
    BY <1>5, <1>6 DEF oldPart, added
  <2>2. /\ oldPart \o added \in Seq(Events) /\ Len(oldPart \o added) = Len(oldPart) + Len(added)
        /\ \A k \in 1..Len(oldPart) + Len(added) :
              (oldPart \o added)[k]
                = IF k <= Len(oldPart) THEN oldPart[k] ELSE added[k - Len(oldPart)]
    <3>1. \A p, q \in Seq(Events) :
             /\ p \o q \in Seq(Events) /\ Len(p \o q) = Len(p) + Len(q)
             /\ \A k \in 1..Len(p) + Len(q) :
                   (p \o q)[k] = IF k <= Len(p) THEN p[k] ELSE q[k - Len(p)]
      BY ConcatProperties
    <3> HIDE DEF both
    <3> QED
      BY <2>1, <3>1
  <2>3. both = oldPart \o added
    BY DEF oldPart, added
  <2> HIDE DEF both
  <2> QED
    BY <2>1, <2>2, <2>3
<1> HIDE DEF both
<1>11. ASSUME NEW k \in 1..m * n + n
       PROVE  newPart[k] = both[k]
  <2>1. PICK s \in 0..m, l \in 0..n - 1 :
           /\ k - 1 = s * n + l
           /\ newPart[k] = EventAt("generated", length + s, l, new[s + 1])
    BY <1>7, <1>9 DEF newPart
  <2>2. (k - 1) \div n = s /\ (k - 1) % n = l
    <3>1. s \in Nat
      BY <1>1
    <3> QED
      BY <1>1, <2>1, <3>1, RowOf
  <2>3. CASE k <= m * n
    <3>1. PICK t \in 0..m - 1, j \in 0..n - 1 :
             /\ k - 1 = t * n + j
             /\ oldPart[k] = EventAt("generated", length + t, j, old[t + 1])
      <4>1. k \in 1..m * n
        BY <1>7, <2>3
      <4> QED
        BY <1>8, <4>1 DEF oldPart
    <3>2. (k - 1) \div n = t /\ (k - 1) % n = j
      <4>1. t \in Nat
        BY <1>1
      <4> QED
        BY <1>1, <3>1, <4>1, RowOf
    <3>3. s = t /\ l = j
      BY <2>2, <3>2
    <3>4. s + 1 \in 1..m
      BY <1>1, <3>1, <3>3
    <3>5. new[s + 1] = old[t + 1]
      BY <1>2, <3>3, <3>4
    <3>6. both[k] = oldPart[k]
      BY <1>10, <2>3
    <3> QED
      BY <2>1, <3>1, <3>3, <3>5, <3>6
  <2>4. CASE k > m * n
    <3>1. PICK j \in 0..n - 1 : k - 1 = m * n + j
      <4>1. PICK p \in Nat : p = m * n
        BY <1>7
      <4>2. k - 1 - p \in 0..n - 1 /\ k - 1 = p + (k - 1 - p)
        BY <1>1, <2>4, <4>1
      <4> QED
        BY <4>1, <4>2
    <3>2. (k - 1) \div n = m /\ (k - 1) % n = j
      BY <1>1, <3>1, RowOf
    <3>3. s = m /\ l = j
      BY <2>2, <3>2
    <3>4. k - m * n \in 1..n /\ (k - m * n) - 1 = j
      <4>1. PICK p \in Nat : p = m * n
        BY <1>7
      <4> QED
        BY <1>1, <3>1, <4>1
    <3>5. added[k - m * n] = EventAt("generated", length + m, j, c)
      BY <1>4, <3>4 DEF added
    <3>6. both[k] = added[k - m * n]
      BY <1>7, <1>10, <2>4
    <3> QED
      BY <1>2, <2>1, <3>3, <3>5, <3>6
  <2> QED
    BY <1>7, <2>3, <2>4
<1>12. newPart = both
  <2>1. newPart \in Seq(Events) /\ Len(newPart) = m * n + n
    BY <1>6, <1>7 DEF newPart
  <2> QED
    BY <1>10, <1>11, <2>1, SeqEqual
<1> QED
  BY <1>5, <1>12 DEF newPart, both, new, added

\* Sequences of events may be concatenated in either order of grouping.
LEMMA EventsConcat ==
  ASSUME NEW p \in Seq(Events), NEW g \in Seq(Events), NEW e \in Seq(Events)
  PROVE  p \o (g \o e) = (p \o g) \o e
  BY ConcatAssociative

LEMMA WholeRunGrows ==
  ASSUME NEW prompt \in DOMAIN Prompts, NEW old \in Seq(Nat), NEW c \in Nat,
         run.input = <<c>>, run.offset = Len(Prompts[prompt]) + Len(old),
         run.inPhase = "generated"
  PROVE  WholeRun(prompt, Append(old, c)) = WholeRun(prompt, old) \o EventsOf(Reached)
<1>1. /\ PromptPart(prompt) \in Seq(Events)
      /\ GeneratedPart(prompt, old) \in Seq(Events)
  BY PromptEntry, GeneratedEntry
<1>2. EventsOf(Reached) \in Seq(Events)
  BY StepTaken
<1> DEFINE new == Append(old, c)
<1>3. GeneratedPart(prompt, new) = GeneratedPart(prompt, old) \o EventsOf(Reached)
  BY StepTaken
<1>4. /\ WholeRun(prompt, new) = PromptPart(prompt) \o GeneratedPart(prompt, new)
      /\ WholeRun(prompt, old) = PromptPart(prompt) \o GeneratedPart(prompt, old)
  BY WholeIsParts
<1> HIDE DEF new
<1>5. WholeRun(prompt, new) = WholeRun(prompt, old) \o EventsOf(Reached)
  <2> DEFINE p == PromptPart(prompt)
             g == GeneratedPart(prompt, old)
             e == EventsOf(Reached)
  <2>1. p \in Seq(Events) /\ g \in Seq(Events) /\ e \in Seq(Events)
    BY <1>1, <1>2
  <2>2. WholeRun(prompt, new) = p \o (g \o e) /\ WholeRun(prompt, old) = p \o g
    BY <1>3, <1>4
  <2> HIDE DEF p, g, e
  <2>3. p \o (g \o e) = (p \o g) \o e
    BY <2>1, EventsConcat
  <2>4. WholeRun(prompt, new) = WholeRun(prompt, old) \o e
    BY <2>2, <2>3, Zenon
  <2> QED
    BY <2>4 DEF e
<1> QED
  BY <1>5 DEF new

-----------------------------------------------------------------------------
(***************************************************************************)
(* The inductive invariant of a Granite collection under way.  What is fed *)
(* is the beginning of the greedy continuation; the events are those of    *)
(* all that was fed before the current input while its call is due, and    *)
(* include its own afterwards; every hook that is due is installed, so     *)
(* that a call reaches every router; and the loop has ended for the reason *)
(* that the terminal token says.                                           *)
(***************************************************************************)
RunFields == {"phase", "tool", "prompt", "horizon", "input", "offset", "inPhase", "events",
              "fed", "candidates", "terminal", "registered", "failed"}

Setting ==
  /\ run.tool \in Tools /\ run.prompt \in DOMAIN Prompts
  /\ run.horizon \in 0..Horizon
  /\ run.tool # "trace" => run.horizon = Horizon

FedGreedily ==
  /\ run.fed \in Seq(Nat) /\ Len(run.fed) <= run.horizon
  /\ \A i \in 1..Len(run.fed) :
        run.fed[i] = greedy[i] /\ (run.tool # "trace" => greedy[i] \notin EosTokens)

\* the events of the current input are still to come
Due ==
  \/ /\ run.fed = <<>> /\ run.events = <<>>
     /\ run.input = Prompts[run.prompt] /\ run.offset = 0 /\ run.inPhase = "prompt"
  \/ \E old \in Seq(Nat), c \in Nat :
        /\ run.fed = Append(old, c)
        /\ run.events = IF Observing THEN WholeRun(run.prompt, old) ELSE <<>>
        /\ run.input = <<c>> /\ run.inPhase = "generated"
        /\ run.offset = Len(Prompts[run.prompt]) + Len(old)

\* or have been taken
Taken == run.events = IF Observing THEN WholeRun(run.prompt, run.fed) ELSE <<>>

HooksInstalled ==
  Observing =>
    /\ run.phase = "register" => run.registered \in 0..RoutedLayers - 1
    /\ run.phase # "register" => run.registered = RoutedLayers
    /\ \A l \in 1..run.registered : Hook("router", Routers[l]) \in hooked

CandidatesFed ==
  /\ run.candidates = IF run.tool \in V04Tools THEN run.fed ELSE <<>>
  /\ run.terminal = NoToken

\* how the loop ends
LoopEnded ==
  /\ run.candidates = IF run.tool \in V04Tools THEN Append(run.fed, Candidate) ELSE <<>>
  /\ IF HorizonReached THEN run.terminal = NoToken
     ELSE run.tool # "trace" /\ Candidate \in EosTokens /\ run.terminal = Candidate

RunInv ==
  /\ RunFields \subseteq DOMAIN run
  /\ run.phase # "idle" => Setting /\ FedGreedily /\ greedy \in Continuations
  /\ run.phase \in {"register", "assert", "forward", "take"} => Due
  /\ run.phase \in {"register", "assert", "forward", "take", "choose"} =>
        HooksInstalled /\ CandidatesFed
  /\ run.phase \in {"register", "assert", "forward", "choose"} /\ Observing => store = <<>>
  /\ run.phase = "take" => Observing /\ store = Reached
  /\ run.phase = "choose" => Taken
  /\ run.phase = "exit" /\ ~ run.failed => Taken /\ LoopEnded
  /\ run.phase \in {"lifecycle", "build"} => Taken /\ LoopEnded

\* Nothing is asked of a collection that has ended.
LEMMA RestRuns ==
  ASSUME run' = AtRest
  PROVE  RunInv'
<1>1. /\ RunFields \subseteq DOMAIN run'
      /\ run'.phase = "idle"
  BY DEF AtRest, RunFields
<1> QED
  BY <1>1 DEF RunInv

\* The steps of a collection.
LEMMA BeginRuns ==
  ASSUME RunInv, greedy' \in Continuations, NEW tool \in Tools, NEW prompt \in DOMAIN Prompts,
         NEW horizon \in 0..Horizon, tool # "trace" => horizon = Horizon,
         Begin(tool, prompt, horizon)
  PROVE  RunInv' /\ uses' \in {uses, Append(uses, Raised)}
<1>1. CASE BeginsWithCarryover(tool)
  <2>1. run' = run /\ run.phase = "idle"
    BY <1>1 DEF Begin, Idle
  <2> QED
    BY <1>1, <2>1 DEF Begin, RunInv, Record
<1>2. CASE ~ BeginsWithCarryover(tool)
  <2>1. uses' = uses
    BY <1>2 DEF Begin
  <2>2. /\ RunFields \subseteq DOMAIN run'
        /\ run'.phase = IF tool = "reference" THEN "forward" ELSE "register"
        /\ run'.tool = tool /\ run'.prompt = prompt /\ run'.horizon = horizon
        /\ run'.input = Prompts[prompt] /\ run'.offset = 0 /\ run'.inPhase = "prompt"
        /\ run'.events = <<>> /\ run'.fed = <<>> /\ run'.candidates = <<>>
        /\ run'.terminal = NoToken /\ run'.registered = 0
    BY <1>2 DEF Begin, AtRest, RunFields
  <2>3. Setting'
    BY <2>2 DEF Setting
  <2>4. FedGreedily'
    BY <2>2, ModelAssumption DEF FedGreedily
  <2>5. Due' /\ CandidatesFed'
    BY <2>2 DEF Due, CandidatesFed
  <2>6. HooksInstalled'
    BY <2>2, GraniteAssumption DEF HooksInstalled, Observing
  <2>7. Observing' => store' = <<>>
    BY <1>2, <2>2 DEF Begin, NewCapture, Observing
  <2> QED
    BY <2>1, <2>2, <2>3, <2>4, <2>5, <2>6, <2>7 DEF RunInv
<1> QED
  BY <1>1, <1>2

LEMMA RegisterRuns ==
  ASSUME RunInv, RegisterHook
  PROVE  RunInv'
<1>1. /\ RunFields \subseteq DOMAIN run /\ run.phase = "register"
      /\ Setting /\ FedGreedily /\ greedy \in Continuations /\ Due /\ HooksInstalled /\ CandidatesFed
  BY DEF RunInv, RegisterHook
<1>2. /\ RunFields \subseteq DOMAIN run'
      /\ run'.phase \in {"register", "assert", "forward"}
      /\ run'.phase = "register" <=> run.registered + 1 < RoutedLayers
      /\ run'.registered = run.registered + 1
      /\ run'.tool = run.tool /\ run'.prompt = run.prompt /\ run'.horizon = run.horizon
      /\ run'.input = run.input /\ run'.offset = run.offset /\ run'.inPhase = run.inPhase
      /\ run'.events = run.events /\ run'.fed = run.fed /\ run'.candidates = run.candidates
      /\ run'.terminal = run.terminal
  BY <1>1 DEF RegisterHook, RunFields
<1>3. greedy' = greedy /\ store' = store /\ capture' = capture
  BY DEF RegisterHook
<1>4. Setting' /\ FedGreedily' /\ Due' /\ CandidatesFed'
  BY <1>1, <1>2, <1>3 DEF Setting, FedGreedily, Due, CandidatesFed, Observing
<1>5. HooksInstalled'
  <2> SUFFICES ASSUME Observing'
               PROVE  /\ run'.phase = "register" => run'.registered \in 0..RoutedLayers - 1
                      /\ run'.phase # "register" => run'.registered = RoutedLayers
                      /\ \A l \in 1..run'.registered : Hook("router", Routers[l])' \in hooked'
    BY DEF HooksInstalled
  <2>1. Observing
    BY <1>2 DEF Observing
  <2>2. /\ run.registered \in 0..RoutedLayers - 1
        /\ \A l \in 1..run.registered : Hook("router", Routers[l]) \in hooked
    BY <1>1, <2>1 DEF HooksInstalled
  <2>3. \A l \in 1..run.registered + 1 : Hook("router", Routers[l]) \in hooked'
    BY <2>2 DEF RegisterHook, Register
  <2>4. \A l \in 1..run.registered + 1 : Hook("router", Routers[l])' = Hook("router", Routers[l])
    BY <1>3 DEF Hook, Routers
  <2> QED
    BY <1>2, <2>2, <2>3, <2>4, GraniteAssumption
<1>6. Observing' => store' = <<>>
  BY <1>1, <1>2, <1>3 DEF RunInv, Observing
<1> QED
  BY <1>1, <1>2, <1>3, <1>4, <1>5, <1>6 DEF RunInv

LEMMA AssertRuns ==
  ASSUME RunInv, AssertHooks
  PROVE  RunInv'
<1>1. /\ RunFields \subseteq DOMAIN run /\ run.phase = "assert"
      /\ Setting /\ FedGreedily /\ greedy \in Continuations /\ Due /\ HooksInstalled /\ CandidatesFed
  BY DEF RunInv, AssertHooks
<1>2. /\ RunFields \subseteq DOMAIN run'
      /\ run'.phase = "forward" \/ (run'.phase = "exit" /\ run'.failed)
      /\ run'.registered = run.registered
      /\ run'.tool = run.tool /\ run'.prompt = run.prompt /\ run'.horizon = run.horizon
      /\ run'.input = run.input /\ run'.offset = run.offset /\ run'.inPhase = run.inPhase
      /\ run'.events = run.events /\ run'.fed = run.fed /\ run'.candidates = run.candidates
      /\ run'.terminal = run.terminal
  BY <1>1 DEF AssertHooks, RunFields
<1>3. greedy' = greedy /\ store' = store /\ capture' = capture /\ hooked' = hooked
  BY DEF AssertHooks, modelVars
<1>4. Setting' /\ FedGreedily' /\ Due' /\ CandidatesFed'
  BY <1>1, <1>2, <1>3 DEF Setting, FedGreedily, Due, CandidatesFed, Observing
<1>5. HooksInstalled'
  BY <1>1, <1>2, <1>3 DEF HooksInstalled, Observing, Hook
<1>6. Observing' => store' = <<>>
  BY <1>1, <1>2, <1>3 DEF RunInv, Observing
<1> QED
  BY <1>1, <1>2, <1>3, <1>4, <1>5, <1>6 DEF RunInv

LEMMA ForwardRuns ==
  ASSUME RunInv, Forward
  PROVE  RunInv'
<1>1. /\ RunFields \subseteq DOMAIN run /\ run.phase = "forward"
      /\ Setting /\ FedGreedily /\ greedy \in Continuations /\ Due /\ HooksInstalled /\ CandidatesFed
      /\ Observing => store = <<>>
  BY DEF RunInv, Forward
<1>2. /\ RunFields \subseteq DOMAIN run'
      /\ run'.phase = IF Observing THEN "take" ELSE "choose"
      /\ run'.registered = run.registered
      /\ run'.tool = run.tool /\ run'.prompt = run.prompt /\ run'.horizon = run.horizon
      /\ run'.input = run.input /\ run'.offset = run.offset /\ run'.inPhase = run.inPhase
      /\ run'.events = run.events /\ run'.fed = run.fed /\ run'.candidates = run.candidates
      /\ run'.terminal = run.terminal
  BY <1>1 DEF Forward, RunFields
<1>3. greedy' = greedy /\ capture' = capture /\ hooked' = hooked
  BY DEF Forward
<1>4. Setting' /\ FedGreedily' /\ Due' /\ CandidatesFed'
  BY <1>1, <1>2, <1>3 DEF Setting, FedGreedily, Due, CandidatesFed, Observing
<1>5. HooksInstalled'
  BY <1>1, <1>2, <1>3 DEF HooksInstalled, Observing, Hook
<1>6. Observing => store' = Reached'
  <2> HAVE Observing
  <2>1. \A l \in 1..RoutedLayers : Hook("router", Routers[l]) \in hooked
    BY <1>1 DEF HooksInstalled
  <2>2. store' = <<>> \o Reached
    BY <1>1, <2>1, AllObserved DEF Forward, Reached
  <2>3. Reached \in Seq(Range(Reached))
    <3>1. Reached \in [1..RoutedLayers -> Range(Reached)]
      BY DEF Reached, Range
    <3> QED
      BY <3>1, GraniteAssumption
  <2>4. <<>> \o Reached = Reached
    BY <2>3, ConcatEmptySeq
  <2>5. Reached' = Reached
    BY <1>2 DEF Reached
  <2> QED
    BY <2>2, <2>4, <2>5
<1>7. ~ Observing => Taken'
  BY <1>1, <1>2 DEF Due, Taken, Observing
<1> QED
  BY <1>1, <1>2, <1>3, <1>4, <1>5, <1>6, <1>7 DEF RunInv, Observing

LEMMA ForwardFailsRuns ==
  ASSUME RunInv, ForwardFails
  PROVE  RunInv'
<1>1. /\ RunFields \subseteq DOMAIN run /\ run.phase = "forward"
      /\ Setting /\ FedGreedily /\ greedy \in Continuations
  BY DEF RunInv, ForwardFails
<1>2. /\ RunFields \subseteq DOMAIN run'
      /\ run'.phase = "exit" /\ run'.failed
      /\ run'.tool = run.tool /\ run'.prompt = run.prompt /\ run'.horizon = run.horizon
      /\ run'.fed = run.fed /\ greedy' = greedy
  BY <1>1 DEF ForwardFails, RunFields
<1>3. Setting' /\ FedGreedily'
  BY <1>1, <1>2 DEF Setting, FedGreedily
<1> QED
  BY <1>1, <1>2, <1>3 DEF RunInv

LEMMA TakeRuns ==
  ASSUME RunInv, Take
  PROVE  RunInv'
<1>1. /\ RunFields \subseteq DOMAIN run /\ run.phase = "take"
      /\ Setting /\ FedGreedily /\ greedy \in Continuations /\ Due /\ HooksInstalled /\ CandidatesFed
      /\ Observing /\ store = Reached
  BY DEF RunInv, Take
<1>2. FitInput(store)
  <2>1. Len(Reached) = RoutedLayers /\ RoutedLayers # 0
    BY ReachedLength, GraniteAssumption
  <2>2. Reached # <<>>
    BY <2>1, EmptySeq
  <2>3. \A o \in DOMAIN Reached : Len(Reached[o].tokens) = Len(run.input)
    BY DEF Reached
  <2> QED
    BY <1>1, <2>2, <2>3 DEF FitInput
<1>3. /\ RunFields \subseteq DOMAIN run'
      /\ run'.phase = "choose"
      /\ run'.registered = run.registered
      /\ run'.tool = run.tool /\ run'.prompt = run.prompt /\ run'.horizon = run.horizon
      /\ run'.fed = run.fed /\ run'.candidates = run.candidates
      /\ run'.terminal = run.terminal
      /\ run'.events = run.events \o EventsOf(store)
  BY <1>1, <1>2 DEF Take, RunFields
<1>4. greedy' = greedy /\ capture' = capture /\ hooked' = hooked /\ store' = <<>>
  BY DEF Take
<1>5. Setting' /\ FedGreedily' /\ CandidatesFed'
  BY <1>1, <1>3, <1>4 DEF Setting, FedGreedily, CandidatesFed
<1>6. HooksInstalled'
  BY <1>1, <1>3, <1>4 DEF HooksInstalled, Observing, Hook
<1>7. run.events \o EventsOf(store) = WholeRun(run.prompt, run.fed)
  <2>0. run.prompt \in DOMAIN Prompts
    BY <1>1 DEF Setting
  <2>1. CASE /\ run.fed = <<>> /\ run.events = <<>>
             /\ run.input = Prompts[run.prompt] /\ run.offset = 0 /\ run.inPhase = "prompt"
    <3>1. EventsOf(store) = PromptPart(run.prompt)
      BY <1>1, <2>0, <2>1, PromptTaken
    <3>2. PromptPart(run.prompt) \in Seq(Events)
      BY <2>0, PromptEntry
    <3>3. <<>> \o PromptPart(run.prompt) = PromptPart(run.prompt)
      BY <3>2, ConcatEmptySeq
    <3>4. WholeRun(run.prompt, <<>>) = PromptPart(run.prompt)
      BY <2>0, NoStepsYet
    <3> QED
      BY <2>1, <3>1, <3>3, <3>4
  <2>2. CASE \E old \in Seq(Nat), c \in Nat :
               /\ run.fed = Append(old, c)
               /\ run.events = IF Observing THEN WholeRun(run.prompt, old) ELSE <<>>
               /\ run.input = <<c>> /\ run.inPhase = "generated"
               /\ run.offset = Len(Prompts[run.prompt]) + Len(old)
    <3>1. PICK old \in Seq(Nat), c \in Nat :
               /\ run.fed = Append(old, c)
               /\ run.events = WholeRun(run.prompt, old)
               /\ run.input = <<c>> /\ run.inPhase = "generated"
               /\ run.offset = Len(Prompts[run.prompt]) + Len(old)
      BY <1>1, <2>2
    <3>2. WholeRun(run.prompt, Append(old, c)) = WholeRun(run.prompt, old) \o EventsOf(Reached)
      BY <2>0, <3>1, WholeRunGrows
    <3> QED
      BY <1>1, <3>1, <3>2
  <2> QED
    BY <1>1, <2>1, <2>2 DEF Due
<1>8. Taken'
  BY <1>1, <1>3, <1>7 DEF Taken, Observing
<1> QED
  BY <1>1, <1>3, <1>4, <1>5, <1>6, <1>8 DEF RunInv

\* What holds when a candidate is examined.
LEMMA AtChoice ==
  ASSUME RunInv, run.phase = "choose"
  PROVE  /\ RunFields \subseteq DOMAIN run
         /\ Setting /\ FedGreedily /\ greedy \in Continuations /\ HooksInstalled /\ CandidatesFed /\ Taken
         /\ Observing => store = <<>>
         /\ WithCandidate = IF run.tool \in V04Tools THEN Append(run.fed, Candidate) ELSE <<>>
<1>1. /\ RunFields \subseteq DOMAIN run
      /\ Setting /\ FedGreedily /\ greedy \in Continuations /\ HooksInstalled /\ CandidatesFed /\ Taken
      /\ Observing => store = <<>>
  BY DEF RunInv
<1> QED
  BY <1>1 DEF WithCandidate, CandidatesFed

LEMMA StopRuns ==
  ASSUME RunInv, StopAtHorizon \/ StopAtEos
  PROVE  RunInv'
<1>1. run.phase = "choose"
  BY DEF StopAtHorizon, StopAtEos
<1>2. /\ RunFields \subseteq DOMAIN run'
      /\ run'.phase = "exit"
      /\ run'.tool = run.tool /\ run'.prompt = run.prompt /\ run'.horizon = run.horizon
      /\ run'.fed = run.fed /\ run'.events = run.events
      /\ run'.candidates = WithCandidate
      /\ run'.terminal = IF StopAtHorizon THEN run.terminal ELSE Candidate
      /\ greedy' = greedy
  BY <1>1, AtChoice DEF StopAtHorizon, StopAtEos, RunFields, modelVars, HorizonReached, MeetsEos
<1>3. Setting' /\ FedGreedily' /\ Taken'
  BY <1>1, <1>2, AtChoice DEF Setting, FedGreedily, Taken, Observing
<1>4. Candidate' = Candidate /\ HorizonReached' = HorizonReached
  BY <1>2 DEF Candidate, HorizonReached
<1>5. LoopEnded'
  <2>1. run'.candidates = IF run'.tool \in V04Tools THEN Append(run'.fed, Candidate) ELSE <<>>
    BY <1>1, <1>2, AtChoice
  <2>2. IF HorizonReached THEN run'.terminal = NoToken
        ELSE run'.tool # "trace" /\ Candidate \in EosTokens /\ run'.terminal = Candidate
    BY <1>1, <1>2, AtChoice DEF StopAtHorizon, StopAtEos, MeetsEos, CandidatesFed
  <2> QED
    BY <1>4, <2>1, <2>2 DEF LoopEnded
<1> QED
  BY <1>1, <1>2, <1>3, <1>5, AtChoice DEF RunInv

LEMMA FeedRuns ==
  ASSUME RunInv, FeedBack
  PROVE  RunInv'
<1>1. run.phase = "choose" /\ ~ HorizonReached /\ ~ MeetsEos
  BY DEF FeedBack
<1>2. /\ RunFields \subseteq DOMAIN run'
      /\ run'.phase = "forward"
      /\ run'.tool = run.tool /\ run'.prompt = run.prompt /\ run'.horizon = run.horizon
      /\ run'.fed = Append(run.fed, Candidate) /\ run'.events = run.events
      /\ run'.candidates = WithCandidate /\ run'.terminal = run.terminal
      /\ run'.input = <<Candidate>> /\ run'.offset = NextPosition /\ run'.inPhase = "generated"
      /\ run'.registered = run.registered
  BY <1>1, AtChoice DEF FeedBack, RunFields
<1>3. greedy' = greedy /\ store' = store /\ capture' = capture /\ hooked' = hooked
  BY DEF FeedBack, modelVars
<1>4. /\ run.fed \in Seq(Nat) /\ Len(run.fed) < run.horizon /\ run.horizon \in 0..Horizon
      /\ Candidate \in Nat
      /\ run.tool # "trace" => Candidate \notin EosTokens
  <2>1. run.fed \in Seq(Nat) /\ Len(run.fed) \in Nat /\ Len(run.fed) <= run.horizon
        /\ run.horizon \in 0..Horizon /\ Horizon \in Nat
        /\ greedy \in Seq(Nat) /\ Len(greedy) = Horizon + 1
    BY <1>1, AtChoice, ModelAssumption, LenProperties DEF FedGreedily, Setting
  <2>2. Len(run.fed) + 1 \in 1..Len(greedy)
    BY <2>1
  <2>3. Candidate \in Nat
    BY <2>1, <2>2, ElementOfSeq DEF Candidate
  <2> QED
    BY <1>1, <2>1, <2>3 DEF HorizonReached, MeetsEos
<1>5. Setting'
  BY <1>1, <1>2, AtChoice DEF Setting
<1>6. FedGreedily'
  <2>1. /\ run'.fed \in Seq(Nat) /\ Len(run'.fed) = Len(run.fed) + 1
        /\ run'.fed[Len(run.fed) + 1] = Candidate
        /\ \A i \in 1..Len(run.fed) : run'.fed[i] = run.fed[i]
    BY <1>2, <1>4, AppendProperties
  <2>2. Len(run.fed) \in Nat /\ Len(run'.fed) <= run'.horizon
    BY <1>2, <1>4, <2>1, LenProperties
  <2>3. ASSUME NEW i \in 1..Len(run'.fed)
        PROVE  run'.fed[i] = greedy[i] /\ (run.tool # "trace" => greedy[i] \notin EosTokens)
    <3>1. CASE i = Len(run.fed) + 1
      BY <1>4, <2>1, <3>1 DEF Candidate
    <3>2. CASE i \in 1..Len(run.fed)
      BY <1>1, <2>1, <3>2, AtChoice DEF FedGreedily
    <3> QED
      BY <2>1, <2>2, <3>1, <3>2
  <2> QED
    BY <1>2, <1>3, <2>1, <2>2, <2>3 DEF FedGreedily
<1>7. Due'
  <2>1. run.events = IF Observing THEN WholeRun(run.prompt, run.fed) ELSE <<>>
    BY <1>1, AtChoice DEF Taken
  <2>2. run'.offset = Len(Prompts[run'.prompt]) + Len(run.fed)
    BY <1>2 DEF NextPosition
  <2> QED
    BY <1>2, <1>4, <2>1, <2>2 DEF Due, Observing
<1>8. HooksInstalled' /\ CandidatesFed'
  BY <1>1, <1>2, <1>3, AtChoice DEF HooksInstalled, CandidatesFed, Observing, Hook
<1>9. Observing' => store' = <<>>
  BY <1>1, <1>2, <1>3, AtChoice DEF Observing
<1> QED
  BY <1>1, <1>2, <1>3, <1>5, <1>6, <1>7, <1>8, <1>9, AtChoice DEF RunInv

LEMMA EndRuns ==
  ASSUME RunInv, RegistrationFails \/ Exit \/ CompareHooks \/ Build
  PROVE  RunInv'
<1>1. CASE run' = AtRest
  BY <1>1, RestRuns
<1>2. CASE run' # AtRest
  <2>1. /\ RunFields \subseteq DOMAIN run /\ Setting /\ FedGreedily /\ greedy \in Continuations
        /\ Taken /\ LoopEnded
    BY <1>2 DEF RunInv, RegistrationFails, Exit, CompareHooks, Build
  <2>2. /\ RunFields \subseteq DOMAIN run'
        /\ run'.phase \in {"lifecycle", "build"}
        /\ run'.tool = run.tool /\ run'.prompt = run.prompt /\ run'.horizon = run.horizon
        /\ run'.fed = run.fed /\ run'.events = run.events /\ run'.candidates = run.candidates
        /\ run'.terminal = run.terminal /\ greedy' = greedy
    BY <1>2, <2>1 DEF RegistrationFails, Exit, CompareHooks, Build, RunFields
  <2>3. Setting' /\ FedGreedily' /\ Taken'
    BY <2>1, <2>2 DEF Setting, FedGreedily, Taken, Observing
  <2>4. Candidate' = Candidate /\ HorizonReached' = HorizonReached
    BY <2>2 DEF Candidate, HorizonReached
  <2>5. LoopEnded'
    BY <2>1, <2>2, <2>4 DEF LoopEnded
  <2> QED
    BY <2>1, <2>2, <2>3, <2>5 DEF RunInv
<1> QED
  BY <1>1, <1>2

LEMMA GraniteRuns ==
  ASSUME RunInv, GraniteStep
  PROVE  RunInv'
BY RegisterRuns, EndRuns, AssertRuns, ForwardRuns, ForwardFailsRuns, TakeRuns, StopRuns, FeedRuns
   DEF GraniteStep

\* What a step records.
LEMMA GraniteRecords ==
  ASSUME GraniteStep
  PROVE  /\ greedy' = greedy
         /\ \/ uses' \in {uses, Append(uses, Raised)}
            \/ /\ run.phase = "build"
               /\ uses' = Append(uses, IF Accepted(Outcome) THEN Outcome ELSE Rejected)
BY DEF GraniteStep, RegisterHook, RegistrationFails, AssertHooks, Forward, ForwardFails, Take,
       StopAtHorizon, StopAtEos, FeedBack, Exit, CompareHooks, Build, Record, modelVars, RemoveHandles

-----------------------------------------------------------------------------
(***************************************************************************)
(* A whole run is a trace that every tool accepts.  Each of its events has *)
(* a place, in the prompt at a layer and a token, or after it at a step    *)
(* and a layer, and the places determine the order.                        *)
(***************************************************************************)
\* A place in the table is one of its entries.
LEMMA RowWithin ==
  ASSUME NEW n \in Nat \ {0}, NEW rows \in Nat, NEW a \in 0..rows - 1, NEW i \in 0..n - 1
  PROVE  a * n + i + 1 \in 1..rows * n
<1>1. PICK d \in Nat : rows = a + 1 + d
  <2>1. rows - a - 1 \in Nat /\ rows = a + 1 + (rows - a - 1)
    OBVIOUS
  <2> QED
    BY <2>1
<1>2. rows * n = a * n + n + d * n /\ a * n \in Nat /\ d * n \in Nat
  <2>1. a \in Nat
    OBVIOUS
  <2> QED
    BY <1>1, <2>1
<1> QED
  BY <1>2

PromptAt(prompt, fed, k, l, i) ==
  /\ l \in 0..RoutedLayers - 1 /\ i \in 0..Len(Prompts[prompt]) - 1
  /\ k = l * Len(Prompts[prompt]) + i + 1
  /\ WholeRun(prompt, fed)[k] = EventAt("prompt", i, l, Prompts[prompt][i + 1])

GeneratedAt(prompt, fed, k, s, l) ==
  /\ s \in 0..Len(fed) - 1 /\ l \in 0..RoutedLayers - 1
  /\ k = RoutedLayers * Len(Prompts[prompt]) + (s * RoutedLayers + l) + 1
  /\ WholeRun(prompt, fed)[k] = EventAt("generated", Len(Prompts[prompt]) + s, l, fed[s + 1])

\* The two parts one after the other.
LEMMA WholeSize ==
  ASSUME NEW prompt \in DOMAIN Prompts, NEW fed \in Seq(Nat)
  PROVE  /\ WholeRun(prompt, fed) \in Seq(Events)
         /\ DOMAIN WholeRun(prompt, fed)
              = 1..RoutedLayers * Len(Prompts[prompt]) + Len(fed) * RoutedLayers
         /\ Len(WholeRun(prompt, fed))
              = RoutedLayers * Len(Prompts[prompt]) + Len(fed) * RoutedLayers
         /\ RoutedLayers * Len(Prompts[prompt]) \in Nat /\ Len(fed) * RoutedLayers \in Nat
         /\ \A k \in 1..RoutedLayers * Len(Prompts[prompt]) :
               WholeRun(prompt, fed)[k] = PromptPart(prompt)[k]
         /\ \A k \in 1..Len(fed) * RoutedLayers :
               WholeRun(prompt, fed)[RoutedLayers * Len(Prompts[prompt]) + k]
                 = GeneratedPart(prompt, fed)[k]
<1> DEFINE p == PromptPart(prompt)
           g == GeneratedPart(prompt, fed)
           a == RoutedLayers * Len(Prompts[prompt])
           b == Len(fed) * RoutedLayers
<1>1. p \in Seq(Events) /\ Len(p) = a /\ g \in Seq(Events) /\ Len(g) = b
  BY PromptEntry, GeneratedEntry
<1>2. WholeRun(prompt, fed) = p \o g
  BY WholeIsParts
<1>3. a \in Nat /\ b \in Nat
  BY <1>1, LenProperties
<1> HIDE DEF p, g, a, b
<1>4. /\ p \o g \in Seq(Events) /\ Len(p \o g) = a + b
      /\ \A k \in 1..a + b : (p \o g)[k] = IF k <= a THEN p[k] ELSE g[k - a]
  BY <1>1, ConcatProperties
<1>5. DOMAIN (p \o g) = 1..a + b
  BY <1>4, LenProperties
<1>6. \A k \in 1..a : (p \o g)[k] = p[k]
  BY <1>3, <1>4
<1>7. ASSUME NEW k \in 1..b PROVE (p \o g)[a + k] = g[k]
  <2>1. a + k \in 1..a + b /\ ~ (a + k <= a) /\ (a + k) - a = k
    BY <1>3
  <2> QED
    BY <1>4, <2>1
<1> QED
  BY <1>2, <1>3, <1>4, <1>5, <1>6, <1>7 DEF p, g, a, b

LEMMA SizesAreNumbers ==
  ASSUME NEW prompt \in DOMAIN Prompts, NEW fed \in Seq(Nat)
  PROVE  /\ Len(Prompts[prompt]) \in Nat \ {0} /\ RoutedLayers \in Nat \ {0} /\ Len(fed) \in Nat
         /\ Prompts[prompt] \in Seq(Nat)
BY ModelAssumption, GraniteAssumption, EmptySeq, LenProperties

\* Every event of a whole run has its place,
LEMMA EventHasPlace ==
  ASSUME NEW prompt \in DOMAIN Prompts, NEW fed \in Seq(Nat),
         NEW k \in DOMAIN WholeRun(prompt, fed)
  PROVE  \/ \E l, i : PromptAt(prompt, fed, k, l, i)
         \/ \E s, l : GeneratedAt(prompt, fed, k, s, l)
<1> DEFINE a == RoutedLayers * Len(Prompts[prompt])
           b == Len(fed) * RoutedLayers
           n == Len(Prompts[prompt])
           R == RoutedLayers
<1>1. /\ a \in Nat /\ b \in Nat /\ k \in 1..a + b
      /\ \A j \in 1..a : WholeRun(prompt, fed)[j] = PromptPart(prompt)[j]
      /\ \A j \in 1..b : WholeRun(prompt, fed)[a + j] = GeneratedPart(prompt, fed)[j]
  BY WholeSize
<1>2. n \in Nat \ {0} /\ R \in Nat \ {0}
  BY SizesAreNumbers
<1>3. /\ \A j \in 1..a : \E l \in 0..R - 1, i \in 0..n - 1 :
            j - 1 = l * n + i /\ PromptPart(prompt)[j] = EventAt("prompt", i, l, Prompts[prompt][i + 1])
      /\ \A j \in 1..b : \E s \in 0..Len(fed) - 1, l \in 0..R - 1 :
            /\ j - 1 = s * R + l
            /\ GeneratedPart(prompt, fed)[j] = EventAt("generated", n + s, l, fed[s + 1])
  BY PromptEntry, GeneratedEntry
<1>4. CASE k <= a
  <2>1. k \in 1..a
    BY <1>1, <1>4
  <2>2. PICK l \in 0..R - 1, i \in 0..n - 1 :
            k - 1 = l * n + i /\ PromptPart(prompt)[k] = EventAt("prompt", i, l, Prompts[prompt][i + 1])
    BY <1>3, <2>1
  <2>3. k = l * n + i + 1
    <3>1. PICK p \in Int : p = l * n
      BY <1>2
    <3> QED
      BY <1>2, <2>1, <2>2, <3>1
  <2>4. PromptAt(prompt, fed, k, l, i)
    BY <1>1, <2>1, <2>2, <2>3 DEF PromptAt
  <2> QED
    BY <2>4
<1>5. CASE k > a
  <2> DEFINE j == k - a
  <2>1. j \in 1..b /\ k = a + j
    BY <1>1, <1>5
  <2> HIDE DEF j
  <2>2. PICK s \in 0..Len(fed) - 1, l \in 0..R - 1 :
            /\ j - 1 = s * R + l
            /\ GeneratedPart(prompt, fed)[j] = EventAt("generated", n + s, l, fed[s + 1])
    BY <1>3, <2>1
  <2>3. k = a + (s * R + l) + 1
    <3>1. PICK p \in Int : p = s * R + l
      BY <2>1, <2>2
    <3> QED
      BY <1>1, <2>1, <2>2, <3>1
  <2>4. GeneratedAt(prompt, fed, k, s, l)
    BY <1>1, <2>1, <2>2, <2>3 DEF GeneratedAt
  <2> QED
    BY <2>4
<1> QED
  BY <1>1, <1>4, <1>5

\* and at every place there is an event.
LEMMA PromptPlaceTaken ==
  ASSUME NEW prompt \in DOMAIN Prompts, NEW fed \in Seq(Nat),
         NEW l \in 0..RoutedLayers - 1, NEW i \in 0..Len(Prompts[prompt]) - 1
  PROVE  \E k \in DOMAIN WholeRun(prompt, fed) : PromptAt(prompt, fed, k, l, i)
<1> DEFINE a == RoutedLayers * Len(Prompts[prompt])
           n == Len(Prompts[prompt])
           R == RoutedLayers
           k == l * n + i + 1
<1>1. n \in Nat \ {0} /\ R \in Nat \ {0} /\ l \in Nat /\ i \in 0..n - 1
  BY SizesAreNumbers
<1>2. k \in 1..a
  BY <1>1, RowWithin
<1>3. k \in DOMAIN WholeRun(prompt, fed) /\ WholeRun(prompt, fed)[k] = PromptPart(prompt)[k]
  <2> HIDE DEF k
  <2> QED
    BY <1>2, WholeSize
<1>4. PICK m \in 0..R - 1, j \in 0..n - 1 :
         k - 1 = m * n + j /\ PromptPart(prompt)[k] = EventAt("prompt", j, m, Prompts[prompt][j + 1])
  <2> HIDE DEF k
  <2> QED
    BY <1>2, PromptEntry
<1>5. m = l /\ j = i
  <2>1. k - 1 = l * n + i
    <3>1. PICK p \in Int : p = l * n
      BY <1>1
    <3> QED
      BY <1>1, <3>1
  <2>2. (k - 1) \div n = l /\ (k - 1) % n = i
    <3> HIDE DEF k, n
    <3> QED
      BY <1>1, <2>1, RowOf
  <2>3. (k - 1) \div n = m /\ (k - 1) % n = j
    <3> HIDE DEF k, n
    <3>1. m \in Nat
      BY <1>1
    <3> QED
      BY <1>1, <1>4, <3>1, RowOf
  <2> QED
    BY <2>2, <2>3
<1>6. PromptAt(prompt, fed, k, l, i)
  BY <1>3, <1>4, <1>5 DEF PromptAt
<1> QED
  BY <1>3, <1>6

LEMMA GeneratedPlaceTaken ==
  ASSUME NEW prompt \in DOMAIN Prompts, NEW fed \in Seq(Nat),
         NEW s \in 0..Len(fed) - 1, NEW l \in 0..RoutedLayers - 1
  PROVE  \E k \in DOMAIN WholeRun(prompt, fed) : GeneratedAt(prompt, fed, k, s, l)
<1> DEFINE a == RoutedLayers * Len(Prompts[prompt])
           n == Len(Prompts[prompt])
           R == RoutedLayers
           k == s * R + l + 1
           b == Len(fed) * RoutedLayers
<1>1. n \in Nat \ {0} /\ R \in Nat \ {0} /\ s \in Nat /\ Len(fed) \in Nat /\ l \in Nat
  BY SizesAreNumbers
<1>2. k \in 1..b
  BY <1>1, RowWithin
<1>3. a \in Nat /\ b \in Nat
  BY WholeSize
<1>4. /\ a + k \in DOMAIN WholeRun(prompt, fed)
      /\ WholeRun(prompt, fed)[a + k] = GeneratedPart(prompt, fed)[k]
  <2> HIDE DEF k
  <2>1. a + k \in 1..a + b
    BY <1>2, <1>3
  <2> QED
    BY <1>2, <2>1, WholeSize
<1>5. PICK t \in 0..Len(fed) - 1, m \in 0..R - 1 :
         /\ k - 1 = t * R + m
         /\ GeneratedPart(prompt, fed)[k] = EventAt("generated", n + t, m, fed[t + 1])
  <2> HIDE DEF k
  <2> QED
    BY <1>2, GeneratedEntry
<1>6. k - 1 = s * R + l /\ a + k = a + (s * R + l) + 1
  <2>1. PICK p \in Int : p = s * R
    BY <1>1
  <2> QED
    BY <1>1, <1>3, <2>1
<1>7. t = s /\ m = l
  <2>1. (k - 1) \div R = s /\ (k - 1) % R = l
    <3> HIDE DEF k
    <3> QED
      BY <1>1, <1>6, RowOf
  <2>2. (k - 1) \div R = t /\ (k - 1) % R = m
    <3> HIDE DEF k
    <3>1. t \in Nat
      BY <1>1
    <3> QED
      BY <1>1, <1>5, <3>1, RowOf
  <2> QED
    BY <2>1, <2>2
<1>8. GeneratedAt(prompt, fed, a + k, s, l)
  BY <1>4, <1>5, <1>6, <1>7 DEF GeneratedAt
<1> QED
  BY <1>4, <1>8

\* a collection of the model's tokens is routed as GraniteAssumption says
Routable(prompt, fed) == \A i \in 1..Len(fed) : fed[i] \in Tokens

\* The fields of the event at a place.
LEMMA PromptFields ==
  ASSUME NEW prompt \in DOMAIN Prompts, NEW fed \in Seq(Nat), NEW k, NEW l, NEW i,
         PromptAt(prompt, fed, k, l, i)
  PROVE  LET event == WholeRun(prompt, fed)[k]
         IN  /\ event.phase = "prompt" /\ event.position = i /\ event.layer = l
             /\ event.token = Prompts[prompt][i + 1]
             /\ event.experts = Selected(Site("model", l), Prompts[prompt][i + 1])
             /\ l \in 0..RoutedLayers - 1 /\ i \in 0..Len(Prompts[prompt]) - 1
BY DEF PromptAt, EventAt

LEMMA GeneratedFields ==
  ASSUME NEW prompt \in DOMAIN Prompts, NEW fed \in Seq(Nat), NEW k, NEW s, NEW l,
         GeneratedAt(prompt, fed, k, s, l)
  PROVE  LET event == WholeRun(prompt, fed)[k]
         IN  /\ event.phase = "generated" /\ event.position = Len(Prompts[prompt]) + s
             /\ event.layer = l /\ event.token = fed[s + 1]
             /\ event.experts = Selected(Site("model", l), fed[s + 1])
             /\ s \in 0..Len(fed) - 1 /\ l \in 0..RoutedLayers - 1
BY DEF GeneratedAt, EventAt

\* As many distinct experts as the router selects.
LEMMA RoutedExperts ==
  ASSUME NEW l \in 0..RoutedLayers - 1, NEW token \in Tokens
  PROVE  /\ Selected(Site("model", l), token) \subseteq 0..NumExperts - 1
         /\ Cardinality(Selected(Site("model", l), token)) = ExpertsPerToken
         /\ Selected(Site("model", l), token) # {}
<1>1. /\ Selected(Site("model", l), token) \subseteq 0..NumExperts - 1
      /\ Cardinality(Selected(Site("model", l), token)) = ExpertsPerToken
      /\ ExpertsPerToken # 0
  BY GraniteAssumption
<1>2. Cardinality({}) = 0
  BY FS_EmptySet
<1> QED
  BY <1>1, <1>2

\* Every event is well formed.
LEMMA EventsAreEvents ==
  ASSUME NEW prompt \in DOMAIN Prompts, NEW fed \in Seq(Nat), Routable(prompt, fed),
         NEW k \in DOMAIN WholeRun(prompt, fed)
  PROVE  LET event == WholeRun(prompt, fed)[k]
         IN  /\ IsEvent(event)
             /\ event.experts \subseteq 0..NumExperts - 1
             /\ Cardinality(event.experts) = ExpertsPerToken
<1>0. /\ Len(Prompts[prompt]) \in Nat /\ RoutedLayers \in Nat /\ Len(fed) \in Nat
      /\ Prompts[prompt] \in Seq(Nat)
  BY SizesAreNumbers
<1>1. CASE \E l, i : PromptAt(prompt, fed, k, l, i)
  <2>1. PICK l, i : PromptAt(prompt, fed, k, l, i)
    BY <1>1
  <2>2. l \in 0..RoutedLayers - 1 /\ i \in 0..Len(Prompts[prompt]) - 1
    BY <2>1 DEF PromptAt
  <2>3. i + 1 \in 1..Len(Prompts[prompt]) /\ i \in Nat /\ l \in Nat
    BY <1>0, <2>2
  <2>4. Prompts[prompt][i + 1] \in Nat
    BY <1>0, <2>3, ElementOfSeq
  <2>5. Prompts[prompt][i + 1] \in Tokens
    <3>1. i + 1 \in DOMAIN Prompts[prompt]
      BY <1>0, <2>3, LenProperties
    <3> QED
      BY <3>1 DEF Tokens
  <2> DEFINE event == WholeRun(prompt, fed)[k]
             token == Prompts[prompt][i + 1]
  <2>6. /\ event.phase = "prompt" /\ event.position = i /\ event.layer = l
        /\ event.token = token /\ event.experts = Selected(Site("model", l), token)
    BY <2>1, PromptFields
  <2>7. token \in Nat /\ token \in Tokens
    BY <2>4, <2>5
  <2> HIDE DEF event, token
  <2>8. /\ IsEvent(event)
        /\ event.experts \subseteq 0..NumExperts - 1
        /\ Cardinality(event.experts) = ExpertsPerToken
    BY <2>2, <2>3, <2>6, <2>7, RoutedExperts DEF IsEvent
  <2> QED
    BY <2>8 DEF event
<1>2. CASE \E s, l : GeneratedAt(prompt, fed, k, s, l)
  <2>1. PICK s, l : GeneratedAt(prompt, fed, k, s, l)
    BY <1>2
  <2>2. l \in 0..RoutedLayers - 1 /\ s \in 0..Len(fed) - 1
    BY <2>1 DEF GeneratedAt
  <2>3. s + 1 \in 1..Len(fed) /\ Len(Prompts[prompt]) + s \in Nat /\ l \in Nat
    BY <1>0, <2>2
  <2>4. fed[s + 1] \in Nat
    BY <1>0, <2>3, ElementOfSeq
  <2>5. fed[s + 1] \in Tokens
    BY <2>3 DEF Routable
  <2> DEFINE event == WholeRun(prompt, fed)[k]
             token == fed[s + 1]
  <2>6. /\ event.phase = "generated" /\ event.position = Len(Prompts[prompt]) + s
        /\ event.layer = l /\ event.token = token
        /\ event.experts = Selected(Site("model", l), token)
    BY <2>1, GeneratedFields
  <2>7. token \in Nat /\ token \in Tokens
    BY <2>4, <2>5
  <2> HIDE DEF event, token
  <2>8. /\ IsEvent(event)
        /\ event.experts \subseteq 0..NumExperts - 1
        /\ Cardinality(event.experts) = ExpertsPerToken
    BY <2>2, <2>3, <2>6, <2>7, RoutedExperts DEF IsEvent
  <2> QED
    BY <2>8 DEF event
<1> QED
  BY <1>1, <1>2, EventHasPlace

\* The order of events is that of their places.
LEMMA PromptOrder ==
  ASSUME NEW prompt \in DOMAIN Prompts, NEW fed \in Seq(Nat),
         NEW j, NEW k, NEW l, NEW i, NEW m, NEW q,
         PromptAt(prompt, fed, j, l, i), PromptAt(prompt, fed, k, m, q)
  PROVE  /\ j \in Nat /\ k \in Nat
         /\ j < k => l < m \/ (l = m /\ i < q)
         /\ l = m /\ i = q => j = k
<1> DEFINE n == Len(Prompts[prompt])
<1>1. n \in Nat \ {0} /\ RoutedLayers \in Nat
  BY SizesAreNumbers
<1>2. /\ l \in 0..RoutedLayers - 1 /\ m \in 0..RoutedLayers - 1 /\ i \in 0..n - 1 /\ q \in 0..n - 1
      /\ j = l * n + i + 1 /\ k = m * n + q + 1
  BY DEF PromptAt
<1> HIDE DEF n
<1>3. l \in Nat /\ m \in Nat /\ i \in Nat /\ q \in Nat
  BY <1>1, <1>2
<1>4. PICK a \in Nat, b \in Nat : a = l * n + i /\ b = m * n + q
  <2>1. l * n + i \in Nat /\ m * n + q \in Nat
    BY <1>1, <1>3
  <2> QED
    BY <2>1
<1>5. j = a + 1 /\ k = b + 1
  BY <1>1, <1>2, <1>3, <1>4
<1>6. a < b => l < m \/ (l = m /\ i < q)
  BY <1>1, <1>2, <1>3, <1>4, RowMajor
<1> QED
  BY <1>2, <1>4, <1>5, <1>6

LEMMA GeneratedOrder ==
  ASSUME NEW prompt \in DOMAIN Prompts, NEW fed \in Seq(Nat),
         NEW j, NEW k, NEW s, NEW l, NEW t, NEW m,
         GeneratedAt(prompt, fed, j, s, l), GeneratedAt(prompt, fed, k, t, m)
  PROVE  /\ j \in Nat /\ k \in Nat
         /\ j < k => s < t \/ (s = t /\ l < m)
         /\ s = t /\ l = m => j = k
<1> DEFINE n == RoutedLayers
           before == RoutedLayers * Len(Prompts[prompt])
<1>1. n \in Nat \ {0} /\ Len(fed) \in Nat /\ before \in Nat
  BY SizesAreNumbers, WholeSize
<1>2. /\ l \in 0..n - 1 /\ m \in 0..n - 1 /\ s \in 0..Len(fed) - 1 /\ t \in 0..Len(fed) - 1
      /\ j = before + (s * n + l) + 1 /\ k = before + (t * n + m) + 1
  BY DEF GeneratedAt
<1> HIDE DEF n, before
<1>3. l \in Nat /\ m \in Nat /\ s \in Nat /\ t \in Nat
  BY <1>1, <1>2
<1>4. PICK a \in Nat, b \in Nat : a = s * n + l /\ b = t * n + m
  <2>1. s * n + l \in Nat /\ t * n + m \in Nat
    BY <1>1, <1>3
  <2> QED
    BY <2>1
<1>5. j = before + a + 1 /\ k = before + b + 1
  BY <1>2, <1>4
<1>6. a < b => s < t \/ (s = t /\ l < m)
  BY <1>1, <1>2, <1>3, <1>4, RowMajor
<1>7. s = t /\ l = m => a = b
  BY <1>4
<1> QED
  BY <1>1, <1>5, <1>6, <1>7

LEMMA PromptComesFirst ==
  ASSUME NEW prompt \in DOMAIN Prompts, NEW fed \in Seq(Nat),
         NEW j, NEW k, NEW l, NEW i, NEW s, NEW m,
         PromptAt(prompt, fed, j, l, i), GeneratedAt(prompt, fed, k, s, m)
  PROVE  j \in Nat /\ k \in Nat /\ j < k /\ i < Len(Prompts[prompt]) + s
<1> DEFINE n == Len(Prompts[prompt])
           before == RoutedLayers * n
<1>1. n \in Nat \ {0} /\ RoutedLayers \in Nat \ {0} /\ Len(fed) \in Nat /\ before \in Nat
  BY SizesAreNumbers, WholeSize
<1>2. l \in 0..RoutedLayers - 1 /\ i \in 0..n - 1 /\ j = l * n + i + 1
  BY DEF PromptAt
<1>3. /\ s \in 0..Len(fed) - 1 /\ m \in 0..RoutedLayers - 1
      /\ k = before + (s * RoutedLayers + m) + 1
  BY DEF GeneratedAt
<1>4. j \in 1..before
  BY <1>1, <1>2, RowWithin
<1>5. s * RoutedLayers + m \in Nat
  BY <1>1, <1>3
<1> HIDE DEF n, before
<1>6. PICK b \in Nat : b = s * RoutedLayers + m
  BY <1>5
<1>7. j < k /\ k \in Nat
  BY <1>1, <1>3, <1>4, <1>6
<1>8. i < n + s
  BY <1>1, <1>2, <1>3
<1> QED
  BY <1>4, <1>7, <1>8 DEF n

\* RoutingTraceV1 accepts a whole run,
LEMMA WholeRunIsTrace ==
  ASSUME NEW prompt \in DOMAIN Prompts, NEW fed \in Seq(Nat), Routable(prompt, fed)
  PROVE  IsTraceV1(WholeRun(prompt, fed), NumExperts, ExpertsPerToken)
<1> DEFINE events == WholeRun(prompt, fed)
           n == Len(Prompts[prompt])
           P(k, l, i) == PromptAt(prompt, fed, k, l, i)
           G(k, s, l) == GeneratedAt(prompt, fed, k, s, l)
<1>1. \A k \in DOMAIN events : (\E l, i : P(k, l, i)) \/ (\E s, l : G(k, s, l))
  BY EventHasPlace
<1>2. ASSUME NEW k, NEW l, NEW i, P(k, l, i)
      PROVE  events[k].phase = "prompt" /\ events[k].position = i /\ events[k].layer = l
  BY <1>2, PromptFields
<1>3. ASSUME NEW k, NEW s, NEW l, G(k, s, l)
      PROVE  events[k].phase = "generated" /\ events[k].position = n + s /\ events[k].layer = l
  BY <1>3, GeneratedFields
<1>4. ASSUME NEW k, NEW l, NEW i, P(k, l, i)
      PROVE  l \in Nat /\ i \in Nat /\ i < n
  BY <1>4, SizesAreNumbers DEF PromptAt
<1>5. ASSUME NEW k, NEW s, NEW l, G(k, s, l)
      PROVE  s \in Nat /\ l \in Nat
  BY <1>5, SizesAreNumbers DEF GeneratedAt
<1>6. n \in Nat
  BY SizesAreNumbers
<1>7. ASSUME NEW j, NEW k, NEW l, NEW i, NEW m, NEW q, P(j, l, i), P(k, m, q)
      PROVE  j \in Nat /\ k \in Nat /\ (j < k => l < m \/ (l = m /\ i < q)) /\ (l = m /\ i = q => j = k)
  BY <1>7, PromptOrder
<1>8. ASSUME NEW j, NEW k, NEW s, NEW l, NEW t, NEW m, G(j, s, l), G(k, t, m)
      PROVE  j \in Nat /\ k \in Nat /\ (j < k => s < t \/ (s = t /\ l < m)) /\ (s = t /\ l = m => j = k)
  BY <1>8, GeneratedOrder
<1>9. ASSUME NEW j, NEW k, NEW l, NEW i, NEW s, NEW m, P(j, l, i), G(k, s, m)
      PROVE  j \in Nat /\ k \in Nat /\ j < k
  BY <1>9, PromptComesFirst
<1>10. events # <<>>
  <2>1. \E k \in DOMAIN events : P(k, 0, 0)
    <3>1. 0 \in 0..RoutedLayers - 1 /\ 0 \in 0..n - 1
      BY SizesAreNumbers
    <3> QED
      BY <3>1, PromptPlaceTaken
  <2> QED
    BY <2>1
<1>11. \A k \in DOMAIN events :
          /\ IsEvent(events[k])
          /\ events[k].experts \subseteq 0..NumExperts - 1
          /\ Cardinality(events[k].experts) = ExpertsPerToken
  BY EventsAreEvents
<1> HIDE DEF events, n, P, G
<1>12. ASSUME NEW j \in DOMAIN events, NEW k \in DOMAIN events
       PROVE  /\ j # k => <<events[j].position, events[j].layer>>
                            # <<events[k].position, events[k].layer>>
              /\ j < k => ~ (events[j].phase = "generated" /\ events[k].phase = "prompt")
              /\ (j < k /\ <<events[j].phase, events[j].layer>> = <<events[k].phase, events[k].layer>>)
                   => events[j].position < events[k].position
              /\ (events[j].phase = "prompt" /\ events[k].phase = "generated")
                   => events[j].position < events[k].position
              /\ (j < k /\ events[j].phase = "prompt" /\ events[k].phase = "prompt")
                   => ~ Before(<<events[k].layer, events[k].position>>,
                               <<events[j].layer, events[j].position>>)
              /\ (j < k /\ events[j].phase = "generated" /\ events[k].phase = "generated")
                   => ~ Before(<<events[k].position, events[k].layer>>,
                               <<events[j].position, events[j].layer>>)
  <2>1. CASE (\E l, i : P(j, l, i)) /\ (\E l, i : P(k, l, i))
    <3>1. PICK l, i, m, q : P(j, l, i) /\ P(k, m, q)
      BY <2>1
    <3>2. /\ j \in Nat /\ k \in Nat /\ (j < k => l < m \/ (l = m /\ i < q)) /\ (l = m /\ i = q => j = k)
          /\ l \in Nat /\ m \in Nat /\ i \in Nat /\ q \in Nat
      BY <3>1, <1>4, <1>7
    <3> QED
      BY <3>1, <3>2, <1>2 DEF Before
  <2>2. CASE (\E s, l : G(j, s, l)) /\ (\E s, l : G(k, s, l))
    <3>1. PICK s, l, t, m : G(j, s, l) /\ G(k, t, m)
      BY <2>2
    <3>2. /\ j \in Nat /\ k \in Nat /\ (j < k => s < t \/ (s = t /\ l < m)) /\ (s = t /\ l = m => j = k)
          /\ l \in Nat /\ m \in Nat /\ s \in Nat /\ t \in Nat
      BY <3>1, <1>5, <1>8
    <3>3. /\ events[j].phase = "generated" /\ events[j].position = n + s /\ events[j].layer = l
          /\ events[k].phase = "generated" /\ events[k].position = n + t /\ events[k].layer = m
      BY <3>1, <1>3
    <3> QED
      BY <3>2, <3>3, <1>6 DEF Before
  <2>3. CASE (\E l, i : P(j, l, i)) /\ (\E s, l : G(k, s, l))
    <3>1. PICK l, i, s, m : P(j, l, i) /\ G(k, s, m)
      BY <2>3
    <3>2. j \in Nat /\ k \in Nat /\ j < k /\ i \in Nat /\ i < n /\ s \in Nat
      BY <3>1, <1>4, <1>5, <1>9
    <3>3. /\ events[j].phase = "prompt" /\ events[j].position = i
          /\ events[k].phase = "generated" /\ events[k].position = n + s
      BY <3>1, <1>2, <1>3
    <3> QED
      BY <3>2, <3>3, <1>6
  <2>4. CASE (\E s, l : G(j, s, l)) /\ (\E l, i : P(k, l, i))
    <3>1. PICK l, i, s, m : P(k, l, i) /\ G(j, s, m)
      BY <2>4
    <3>2. j \in Nat /\ k \in Nat /\ k < j /\ i \in Nat /\ i < n /\ s \in Nat
      BY <3>1, <1>4, <1>5, <1>9
    <3>3. /\ events[k].phase = "prompt" /\ events[k].position = i
          /\ events[j].phase = "generated" /\ events[j].position = n + s
      BY <3>1, <1>2, <1>3
    <3> QED
      BY <3>2, <3>3, <1>6
  <2> QED
    BY <1>1, <2>1, <2>2, <2>3, <2>4
<1>13. IsTraceV1(events, NumExperts, ExpertsPerToken)
  <2>1. DistinctEvents(events, LAMBDA event : <<event.position, event.layer>>)
    BY <1>12 DEF DistinctEvents
  <2>2. NeverFollows(events, LAMBDA event : event.phase = "generated",
                             LAMBDA event : event.phase = "prompt")
    BY <1>12 DEF NeverFollows
  <2>3. StreamsIncrease(events, LAMBDA event : <<event.phase, event.layer>>)
    BY <1>12 DEF StreamsIncrease
  <2>4. AllBefore(Positions(events, "prompt"), Positions(events, "generated"))
    BY <1>12 DEF AllBefore, Positions
  <2>5. Ascending(events, "prompt", LayerMajor) /\ Ascending(events, "generated", TokenMajor)
    BY <1>12 DEF Ascending, LayerMajor, TokenMajor
  <2> QED
    BY <1>10, <1>11, <2>1, <2>2, <2>3, <2>4, <2>5 DEF IsTraceV1
<1> QED
  BY <1>13 DEF events

\* its positions are those of the prompt and then of the steps,
LEMMA WholeRunPositions ==
  ASSUME NEW prompt \in DOMAIN Prompts, NEW fed \in Seq(Nat)
  PROVE  LET n == Len(Prompts[prompt])
             events == WholeRun(prompt, fed)
         IN  /\ n \in Nat \ {0}
             /\ Positions(events, "prompt") = 0..n - 1
             /\ Cardinality(Positions(events, "prompt")) = n
             /\ Positions(events, "generated") = {n + step : step \in 0..Len(fed) - 1}
             /\ Layers(events) \subseteq 0..RoutedLayers - 1
<1> DEFINE events == WholeRun(prompt, fed)
           n == Len(Prompts[prompt])
           P(k, l, i) == PromptAt(prompt, fed, k, l, i)
           G(k, s, l) == GeneratedAt(prompt, fed, k, s, l)
<1>1. \A k \in DOMAIN events : (\E l, i : P(k, l, i)) \/ (\E s, l : G(k, s, l))
  BY EventHasPlace
<1>2. ASSUME NEW k, NEW l, NEW i, P(k, l, i)
      PROVE  /\ events[k].phase = "prompt" /\ events[k].position = i /\ events[k].layer = l
             /\ l \in 0..RoutedLayers - 1 /\ i \in 0..n - 1
  BY <1>2, PromptFields
<1>3. ASSUME NEW k, NEW s, NEW l, G(k, s, l)
      PROVE  /\ events[k].phase = "generated" /\ events[k].position = n + s /\ events[k].layer = l
             /\ s \in 0..Len(fed) - 1 /\ l \in 0..RoutedLayers - 1
  BY <1>3, GeneratedFields
<1>4. \A l \in 0..RoutedLayers - 1, i \in 0..n - 1 : \E k \in DOMAIN events : P(k, l, i)
  BY PromptPlaceTaken
<1>5. \A s \in 0..Len(fed) - 1, l \in 0..RoutedLayers - 1 : \E k \in DOMAIN events : G(k, s, l)
  BY GeneratedPlaceTaken
<1>6. n \in Nat \ {0} /\ 0 \in 0..RoutedLayers - 1
  BY SizesAreNumbers
<1> HIDE DEF events, n, P, G
<1>7. Positions(events, "prompt") = 0..n - 1
  <2>1. ASSUME NEW i \in 0..n - 1 PROVE i \in Positions(events, "prompt")
    BY <1>2, <1>4, <1>6 DEF Positions
  <2>2. ASSUME NEW p \in Positions(events, "prompt") PROVE p \in 0..n - 1
    BY <1>1, <1>2, <1>3 DEF Positions
  <2> QED
    BY <2>1, <2>2
<1>8. Cardinality(0..n - 1) = n
  BY <1>6, FS_Interval
<1>9. Positions(events, "generated") = {n + step : step \in 0..Len(fed) - 1}
  <2>1. ASSUME NEW s \in 0..Len(fed) - 1 PROVE n + s \in Positions(events, "generated")
    <3>1. PICK k \in DOMAIN events : G(k, s, 0)
      BY <1>5, <1>6
    <3>2. events[k].phase = "generated" /\ events[k].position = n + s
      BY <1>3, <3>1
    <3> QED
      BY <3>2 DEF Positions
  <2>2. ASSUME NEW p \in Positions(events, "generated")
        PROVE  p \in {n + step : step \in 0..Len(fed) - 1}
    <3>1. PICK k \in DOMAIN events : events[k].phase = "generated" /\ events[k].position = p
      BY DEF Positions
    <3>2. PICK s, l : G(k, s, l)
      BY <1>1, <1>2, <3>1
    <3>3. p = n + s /\ s \in 0..Len(fed) - 1
      BY <1>3, <3>1, <3>2
    <3> QED
      BY <3>3
  <2> QED
    BY <2>1, <2>2
<1>10. Layers(events) \subseteq 0..RoutedLayers - 1
  BY <1>1, <1>2, <1>3 DEF Layers
<1> QED
  BY <1>6, <1>7, <1>8, <1>9, <1>10 DEF events, n

\* and the checks on whole runs accept it, too.
LEMMA WholeRunIsWhole ==
  ASSUME NEW prompt \in DOMAIN Prompts, NEW fed \in Seq(Nat)
  PROVE  /\ IsWhole(WholeRun(prompt, fed), Len(fed))
         /\ TokensMatch(WholeRun(prompt, fed), fed)
<1> DEFINE events == WholeRun(prompt, fed)
           n == Len(Prompts[prompt])
           P(k, l, i) == PromptAt(prompt, fed, k, l, i)
           G(k, s, l) == GeneratedAt(prompt, fed, k, s, l)
<1>1. \A k \in DOMAIN events : (\E l, i : P(k, l, i)) \/ (\E s, l : G(k, s, l))
  BY EventHasPlace
<1>2. ASSUME NEW k, NEW l, NEW i, P(k, l, i)
      PROVE  /\ events[k].phase = "prompt" /\ events[k].position = i /\ events[k].layer = l
             /\ events[k].token = Prompts[prompt][i + 1]
             /\ l \in 0..RoutedLayers - 1 /\ i \in 0..n - 1
  BY <1>2, PromptFields
<1>3. ASSUME NEW k, NEW s, NEW l, G(k, s, l)
      PROVE  /\ events[k].phase = "generated" /\ events[k].position = n + s /\ events[k].layer = l
             /\ events[k].token = fed[s + 1]
             /\ s \in 0..Len(fed) - 1 /\ l \in 0..RoutedLayers - 1
  BY <1>3, GeneratedFields
<1>4. \A l \in 0..RoutedLayers - 1, i \in 0..n - 1 : \E k \in DOMAIN events : P(k, l, i)
  BY PromptPlaceTaken
<1>5. \A s \in 0..Len(fed) - 1, l \in 0..RoutedLayers - 1 : \E k \in DOMAIN events : G(k, s, l)
  BY GeneratedPlaceTaken
<1>6. /\ n \in Nat \ {0}
      /\ Positions(events, "prompt") = 0..n - 1
      /\ Cardinality(Positions(events, "prompt")) = n
      /\ Positions(events, "generated") = {n + step : step \in 0..Len(fed) - 1}
      /\ Layers(events) \subseteq 0..RoutedLayers - 1
  BY WholeRunPositions
<1>7. Len(fed) \in Nat
  BY SizesAreNumbers
<1> HIDE DEF events, n, P, G
<1>8. ASSUME NEW k \in DOMAIN events, NEW layer \in Layers(events)
      PROVE  \E j \in DOMAIN events :
                /\ events[j].layer = layer
                /\ events[j].position = events[k].position
                /\ events[j].phase = events[k].phase
  <2>1. layer \in 0..RoutedLayers - 1
    BY <1>6
  <2>2. CASE \E l, i : P(k, l, i)
    <3>1. PICK l, i : P(k, l, i)
      BY <2>2
    <3>2. PICK j \in DOMAIN events : P(j, layer, i)
      BY <1>2, <1>4, <2>1, <3>1
    <3> QED
      BY <1>2, <3>1, <3>2
  <2>3. CASE \E s, l : G(k, s, l)
    <3>1. PICK s, l : G(k, s, l)
      BY <2>3
    <3>2. PICK j \in DOMAIN events : G(j, s, layer)
      BY <1>3, <1>5, <2>1, <3>1
    <3> QED
      BY <1>3, <3>1, <3>2
  <2> QED
    BY <1>1, <2>2, <2>3
<1>9. IsWhole(events, Len(fed))
  <2>1. Positions(events, "prompt") # {}
    <3>1. 0 \in 0..n - 1
      BY <1>6
    <3> QED
      BY <1>6, <3>1
  <2> QED
    BY <1>6, <1>8, <2>1 DEF IsWhole
<1>10. ASSUME NEW j \in DOMAIN events, NEW k \in DOMAIN events
       PROVE  /\ events[j].position = events[k].position => events[j].token = events[k].token
              /\ events[j].phase = "generated" => events[j].token = fed[events[j].position - n + 1]
  <2>1. \A q \in DOMAIN events :
           \/ \E i \in 0..n - 1 : /\ events[q].phase = "prompt" /\ events[q].position = i
                                  /\ events[q].token = Prompts[prompt][i + 1]
           \/ \E s \in 0..Len(fed) - 1 :
                 /\ events[q].phase = "generated" /\ events[q].position = n + s
                 /\ events[q].token = fed[s + 1]
    <3> TAKE q \in DOMAIN events
    <3>1. CASE \E l, i : P(q, l, i)
      BY <1>2, <3>1
    <3>2. CASE \E s, l : G(q, s, l)
      BY <1>3, <3>2
    <3> QED
      BY <1>1, <3>1, <3>2
  <2>2. \A s, t \in 0..Len(fed) - 1 : n + s - n + 1 = s + 1 /\ (n + s = n + t => s = t)
    BY <1>6, <1>7
  <2>3. \A i \in 0..n - 1, s \in 0..Len(fed) - 1 : n + s # i
    BY <1>6, <1>7
  <2>4. events[j].phase = "generated" => events[j].token = fed[events[j].position - n + 1]
    <3> HAVE events[j].phase = "generated"
    <3>1. PICK s \in 0..Len(fed) - 1 : events[j].position = n + s /\ events[j].token = fed[s + 1]
      BY <2>1
    <3>2. (n + s) - n + 1 = s + 1
      BY <1>6, <1>7
    <3>3. events[j].position - n + 1 = (n + s) - n + 1
      BY <3>1
    <3> QED
      BY <3>1, <3>2, <3>3
  <2>5. ASSUME events[j].position = events[k].position
        PROVE  events[j].token = events[k].token
    BY <2>1, <2>2, <2>3, <2>5, SMTT(30)
  <2> QED
    BY <2>4, <2>5
<1>11. TokensMatch(events, fed)
  BY <1>6, <1>10 DEF TokensMatch
<1> QED
  BY <1>9, <1>11 DEF events

-----------------------------------------------------------------------------
(***************************************************************************)
(* The outcome that is built is the whole run, and its checks accept it.   *)
(***************************************************************************)
\* The number of fed tokens is determined by the continuation.
LEMMA FedCountIs ==
  ASSUME NEW continuation, NEW horizon \in Nat, NEW stopping \in BOOLEAN, NEW n \in 0..horizon,
         n = horizon \/ (stopping /\ continuation[n + 1] \in EosTokens),
         \A k \in 1..n : stopping => continuation[k] \notin EosTokens
  PROVE  FedCount(continuation, horizon, stopping) = n
<1> DEFINE Counts(m) == /\ m = horizon \/ (stopping /\ continuation[m + 1] \in EosTokens)
                        /\ \A k \in 1..m : stopping => continuation[k] \notin EosTokens
<1>1. Counts(n)
  OBVIOUS
<1>2. ASSUME NEW m \in 0..horizon, Counts(m) PROVE m = n
  <2>1. CASE m < n
    <3>1. m # horizon /\ m + 1 \in 1..n
      BY <2>1
    <3> QED
      BY <1>2, <3>1
  <2>2. CASE n < m
    <3>1. n # horizon /\ n + 1 \in 1..m
      BY <2>2
    <3> QED
      BY <1>2, <3>1
  <2> QED
    BY <2>1, <2>2
<1>3. FedCount(continuation, horizon, stopping) = CHOOSE m \in 0..horizon : Counts(m)
  BY DEF FedCount
<1> HIDE DEF Counts
<1> QED
  BY <1>1, <1>2, <1>3

\* What holds when the outcome is built.
LEMMA AtBuild ==
  ASSUME RunInv, run.phase = "build"
  PROVE  /\ Setting /\ FedGreedily /\ greedy \in Continuations /\ Taken /\ LoopEnded
         /\ run.prompt \in DOMAIN Prompts /\ run.fed \in Seq(Nat) /\ Len(run.fed) \in 0..run.horizon
         /\ run.horizon \in 0..Horizon /\ Horizon \in Nat
         /\ Routable(run.prompt, run.fed)
         /\ greedy \in Seq(Nat) /\ Len(greedy) = Horizon + 1
         /\ Candidate = greedy[Len(run.fed) + 1] /\ Candidate \in Nat
<1>1. Setting /\ FedGreedily /\ greedy \in Continuations /\ Taken /\ LoopEnded
  BY DEF RunInv
<1>2. /\ run.prompt \in DOMAIN Prompts /\ run.fed \in Seq(Nat) /\ Len(run.fed) \in 0..run.horizon
      /\ run.horizon \in 0..Horizon /\ Horizon \in Nat
      /\ greedy \in Seq(Nat) /\ Len(greedy) = Horizon + 1
  BY <1>1, ModelAssumption, LenProperties DEF Setting, FedGreedily
<1>3. ASSUME NEW i \in 1..Len(run.fed) PROVE run.fed[i] \in Tokens
  <2>1. run.fed[i] = greedy[i] /\ i \in DOMAIN greedy
    BY <1>1, <1>2, LenProperties DEF FedGreedily
  <2> QED
    BY <1>1, <2>1 DEF Tokens
<1>4. Len(run.fed) + 1 \in 1..Len(greedy)
  BY <1>2
<1>5. Candidate = greedy[Len(run.fed) + 1] /\ Candidate \in Nat
  BY <1>2, <1>4, ElementOfSeq DEF Candidate
<1> QED
  BY <1>1, <1>2, <1>3, <1>5 DEF Routable

\* The fields of the outcome.
LEMMA OutcomeFields ==
  /\ Outcome.kind = "outcome" /\ Outcome.tool = run.tool /\ Outcome.prompt = run.prompt
  /\ Outcome.horizon = run.horizon /\ Outcome.input = Prompts[run.prompt]
  /\ Outcome.events = run.events /\ Outcome.fed = run.fed
  /\ Outcome.candidates = run.candidates /\ Outcome.terminal = run.terminal
  /\ Outcome.position = IF run.terminal = NoToken THEN NoToken ELSE Len(run.fed)
  /\ Outcome.eosEmitted = (run.terminal # NoToken)
  /\ Outcome.horizonExhausted = (run.terminal = NoToken /\ HorizonReached)
<1> DEFINE emitted == run.terminal # NoToken
           exhausted == run.terminal = NoToken /\ HorizonReached
           position == IF run.terminal = NoToken THEN NoToken ELSE Len(run.fed)
<1>1. Outcome =
        [kind |-> "outcome", tool |-> run.tool, prompt |-> run.prompt,
         horizon |-> run.horizon, input |-> Prompts[run.prompt], events |-> run.events,
         fed |-> run.fed, candidates |-> run.candidates, terminal |-> run.terminal,
         position |-> position, eosEmitted |-> emitted, horizonExhausted |-> exhausted]
  BY DEF Outcome
<1> HIDE DEF emitted, exhausted, position
<1>2. /\ Outcome.kind = "outcome" /\ Outcome.tool = run.tool /\ Outcome.prompt = run.prompt
      /\ Outcome.horizon = run.horizon /\ Outcome.input = Prompts[run.prompt]
      /\ Outcome.events = run.events /\ Outcome.fed = run.fed
      /\ Outcome.candidates = run.candidates /\ Outcome.terminal = run.terminal
      /\ Outcome.position = position /\ Outcome.eosEmitted = emitted
      /\ Outcome.horizonExhausted = exhausted
  BY <1>1
<1>3. Outcome.eosEmitted = (run.terminal # NoToken)
  BY <1>2, Zenon DEF emitted
<1>4. Outcome.horizonExhausted = (run.terminal = NoToken /\ HorizonReached)
  BY <1>2, Zenon DEF exhausted
<1>5. Outcome.position = IF run.terminal = NoToken THEN NoToken ELSE Len(run.fed)
  BY <1>2 DEF position
<1> QED
  BY <1>2, <1>3, <1>4, <1>5, Zenon

\* It is the whole run of the greedy continuation.
LEMMA OutcomeWhole ==
  ASSUME RunInv, run.phase = "build"
  PROVE  IsWholeRun(Outcome, greedy)
<1> DEFINE n == Len(run.fed)
           stopping == run.tool # "trace"
<1>1. /\ run.fed \in Seq(Nat) /\ n \in 0..run.horizon /\ run.horizon \in Nat /\ n \in Nat
      /\ greedy \in Seq(Nat) /\ n <= Len(greedy)
      /\ \A i \in 1..n : run.fed[i] = greedy[i] /\ (stopping => greedy[i] \notin EosTokens)
  <2>1. /\ FedGreedily
        /\ run.fed \in Seq(Nat) /\ n \in 0..run.horizon /\ run.horizon \in 0..Horizon
        /\ Horizon \in Nat /\ greedy \in Seq(Nat) /\ Len(greedy) = Horizon + 1
    BY AtBuild
  <2> QED
    BY <2>1 DEF FedGreedily
<1>2. n = run.horizon \/ (stopping /\ greedy[n + 1] \in EosTokens)
  BY AtBuild DEF LoopEnded, HorizonReached
<1>3. FedCount(greedy, run.horizon, stopping) = n
  <2> HIDE DEF n, stopping
  <2>1. stopping \in BOOLEAN
    BY DEF stopping
  <2> QED
    BY <1>1, <1>2, <2>1, FedCountIs
<1>4. run.fed = SubSeq(greedy, 1, n)
  <2> DEFINE s == SubSeq(greedy, 1, n)
  <2>1. \A i \in 1..n : greedy[i] \in Nat
    BY <1>1, ElementOfSeq
  <2>2. /\ s \in Seq(Nat) /\ Len(s) = n
        /\ \A i \in 1..n - 1 + 1 : s[i] = greedy[1 + i - 1]
    <3> HIDE DEF n
    <3>1. Len(s) = IF 1 <= n THEN n - 1 + 1 ELSE 0
      BY <1>1, <2>1, SubSeqProperties
    <3> QED
      BY <1>1, <2>1, <3>1, SubSeqProperties
  <2>3. \A i \in 1..n : s[i] = run.fed[i]
    <3> HIDE DEF s, n
    <3> TAKE i \in 1..n
    <3>1. i \in 1..n - 1 + 1 /\ 1 + i - 1 = i
      BY <1>1
    <3> QED
      BY <1>1, <2>2, <3>1
  <2> HIDE DEF s
  <2> QED
    BY <1>1, <2>2, <2>3, SeqEqual DEF s
<1>5. run.terminal = IF n = run.horizon THEN NoToken ELSE Ending(greedy, n, stopping)
  BY AtBuild DEF LoopEnded, HorizonReached, Ending
<1>6. run.events = IF run.tool = "reference" THEN <<>> ELSE WholeRun(run.prompt, run.fed)
  BY AtBuild DEF Taken, Observing
<1> HIDE DEF n
<1> QED
  BY <1>3, <1>4, <1>5, <1>6, OutcomeFields DEF IsWholeRun

\* It passes the checks of the tool that built it.
LEMMA OutcomeAccepted ==
  ASSUME RunInv, run.phase = "build"
  PROVE  Accepted(Outcome)
<1> DEFINE n == Len(run.fed)
<1>1. /\ run.prompt \in DOMAIN Prompts /\ run.fed \in Seq(Nat) /\ n \in 0..run.horizon
      /\ Routable(run.prompt, run.fed) /\ run.tool \in Tools
      /\ run.horizon \in Nat /\ n \in Nat
      /\ run.tool # "trace" => run.horizon = Horizon
  BY AtBuild DEF Setting
<1>2. run.tool # "reference" => run.events = WholeRun(run.prompt, run.fed)
  BY AtBuild DEF Taken, Observing
<1>3. ASSUME run.tool # "reference"
      PROVE  IsTraceV1(Outcome.events, NumExperts, ExpertsPerToken)
  BY <1>1, <1>2, <1>3, OutcomeFields, WholeRunIsTrace
<1>4. ASSUME run.tool = "trace"
      PROVE  SuiteTrace(Outcome)
  <2>1. n = run.horizon
    BY <1>4, AtBuild DEF LoopEnded, HorizonReached
  <2>2. IsWhole(WholeRun(run.prompt, run.fed), n)
    BY <1>1, WholeRunIsWhole
  <2> QED
    BY <1>2, <1>4, <2>1, <2>2, OutcomeFields DEF SuiteTrace
<1>5. /\ HorizonReached => run.terminal = NoToken
      /\ ~ HorizonReached => run.terminal \in EosTokens /\ run.terminal # NoToken
      /\ ~ HorizonReached => run.terminal = Candidate
      /\ HorizonReached <=> n = run.horizon
      /\ run.candidates = IF run.tool \in V04Tools THEN Append(run.fed, Candidate) ELSE <<>>
  BY AtBuild DEF LoopEnded, HorizonReached, NoToken
<1>6. IF HorizonReached
      THEN Outcome.eosEmitted = FALSE /\ Outcome.horizonExhausted = TRUE
      ELSE Outcome.eosEmitted = TRUE /\ Outcome.horizonExhausted = FALSE
  <2>1. CASE HorizonReached
    <3>1. (run.terminal # NoToken) = FALSE /\ (run.terminal = NoToken /\ HorizonReached) = TRUE
      BY <1>5, <2>1, Zenon
    <3> QED
      BY <2>1, <3>1, OutcomeFields, Zenon
  <2>2. CASE ~ HorizonReached
    <3>1. (run.terminal # NoToken) = TRUE /\ (run.terminal = NoToken /\ HorizonReached) = FALSE
      BY <1>5, <2>2, Zenon
    <3> QED
      BY <2>2, <3>1, OutcomeFields, Zenon
  <2> QED
    BY <2>1, <2>2
<1>7. ASSUME run.tool = "stage1"
      PROVE  EosAccounted(Outcome, EosTokens, Horizon) /\ Stage1Trace(Outcome)
  <2>1. run.horizon = Horizon
    BY <1>1, <1>7
  <2>2. \A i \in DOMAIN run.fed : run.fed[i] \notin EosTokens
    <3>1. DOMAIN run.fed = 1..n
      BY <1>1, LenProperties
    <3> QED
      BY <1>7, <3>1, AtBuild DEF FedGreedily
  <2>3. EosAccounted(Outcome, EosTokens, Horizon)
    BY <1>1, <1>5, <1>6, <2>1, <2>2, OutcomeFields DEF EosAccounted, Terminated, AtHorizon
  <2>4. Stage1Trace(Outcome)
    BY <1>1, <1>2, <1>7, OutcomeFields, WholeRunIsWhole DEF Stage1Trace
  <2> QED
    BY <2>3, <2>4
<1>8. ASSUME run.tool \in V04Tools
      PROVE  SemanticReconciles(Outcome, Horizon) /\ EventsFitMode(Outcome)
  <2>1. run.horizon = Horizon
    BY <1>1, <1>8 DEF V04Tools
  <2>2. run.candidates = Append(run.fed, Candidate) /\ Candidate \in Nat
    BY <1>5, <1>8, AtBuild
  <2>3. /\ run.candidates \in Seq(Nat) /\ Len(run.candidates) = n + 1
        /\ run.candidates[n + 1] = Candidate
        /\ \A i \in 1..n : run.candidates[i] = run.fed[i]
    BY <1>1, <2>2, AppendProperties
  <2>4. SubSeq(run.candidates, 1, n) = run.fed
    <3> DEFINE c == run.candidates
               s == SubSeq(c, 1, n)
    <3>1. \A i \in 1..n : c[i] \in Nat /\ c[i] = run.fed[i]
      BY <1>1, <2>3, ElementOfSeq
    <3> HIDE DEF n, c
    <3>2. /\ s \in Seq(Nat) /\ Len(s) = n
          /\ \A i \in 1..n - 1 + 1 : s[i] = c[1 + i - 1]
      <4>1. Len(s) = IF 1 <= n THEN n - 1 + 1 ELSE 0
        BY <1>1, <3>1, SubSeqProperties
      <4> QED
        BY <1>1, <3>1, <4>1, SubSeqProperties
    <3> HIDE DEF s
    <3>3. \A i \in 1..n : s[i] = run.fed[i]
      <4> TAKE i \in 1..n
      <4>1. i \in 1..n - 1 + 1 /\ 1 + i - 1 = i
        BY <1>1
      <4> QED
        BY <3>1, <3>2, <4>1
    <3> HIDE DEF s
    <3>4. s = run.fed
      BY <1>1, <3>2, <3>3, SeqEqual DEF n
    <3> QED
      BY <3>4 DEF s, c, n
  <2>5. Last(run.candidates) = Candidate
    BY <2>3 DEF Last
  <2>6. SemanticReconciles(Outcome, Horizon)
    BY <1>1, <1>5, <1>6, <2>1, <2>3, <2>4, <2>5, OutcomeFields
       DEF SemanticReconciles, Terminated, AtHorizon
  <2>7. EventsFitMode(Outcome)
    <3>1. WholeRun(run.prompt, run.fed) # <<>>
      BY <1>1, WholeRunIsTrace DEF IsTraceV1
    <3>2. run.tool = "reference" => run.events = <<>>
      BY AtBuild DEF Taken, Observing
    <3>3. Outcome.events = <<>> <=> run.tool = "reference"
      BY <1>2, <3>1, <3>2, OutcomeFields
    <3> QED
      BY <3>3, OutcomeFields DEF EventsFitMode
  <2> QED
    BY <2>6, <2>7
<1> QED
  BY <1>3, <1>4, <1>7, <1>8, OutcomeFields DEF Accepted

-----------------------------------------------------------------------------
(***************************************************************************)
(* Whole outcomes as an invariant of all uses of the model.                *)
(***************************************************************************)
WholeOutcomes ==
  /\ RunInv /\ greedy \in Continuations /\ IsSequenceOf(uses)
  /\ use = "switch" => Idle
  /\ use = "child" /\ ~ Idle => greedy \in Behaviours
  /\ GraniteOutcomesAreWhole

\* A collection leaves the earlier outcomes, and adds at most a whole one.
LEMMA OutcomesGrow ==
  ASSUME IsSequenceOf(uses), GraniteOutcomesAreWhole, use' = use,
         use = "granite" => greedy' = greedy,
         \/ uses' \in {uses, Append(uses, Raised)}
         \/ \E o : /\ uses' = Append(uses, o) /\ o.kind # "rejected"
                   /\ \E continuation \in Computed : IsWholeRun(o, continuation)
  PROVE  IsSequenceOf(uses') /\ GraniteOutcomesAreWhole'
<1> DEFINE Fine(o) == /\ o.kind # "rejected"
                      /\ o.kind = "outcome" =>
                            \E continuation \in Computed : IsWholeRun(o, continuation)
<1>1. Computed' = Computed
  BY DEF Computed
<1>2. use # "switch" => \A i \in DOMAIN uses : Fine(uses[i])
  BY DEF GraniteOutcomesAreWhole
<1>3. Fine(Raised)
  BY DEF Raised
<1>4. uses' = uses \/ \E o : uses' = Append(uses, o) /\ Fine(o)
  BY <1>3
<1> HIDE DEF Fine
<1>5. CASE uses' = uses
  <2>1. IsSequenceOf(uses') /\ (use # "switch" => \A i \in DOMAIN uses' : Fine(uses'[i]))
    BY <1>2, <1>5
  <2> QED
    BY <1>1, <2>1 DEF GraniteOutcomesAreWhole, Fine
<1>6. CASE \E o : uses' = Append(uses, o) /\ Fine(o)
  <2>1. PICK o : uses' = Append(uses, o) /\ Fine(o)
    BY <1>6
  <2>2. /\ IsSequenceOf(uses') /\ Len(uses) \in Nat
        /\ Len(uses') = Len(uses) + 1 /\ uses'[Len(uses) + 1] = o
        /\ \A i \in 1..Len(uses) : uses'[i] = uses[i]
    BY <2>1, AppendKeeps
  <2>3. DOMAIN uses = 1..Len(uses) /\ DOMAIN uses' = 1..Len(uses')
    BY <2>2, LenProperties DEF IsSequenceOf
  <2>4. use # "switch" => \A i \in DOMAIN uses' : Fine(uses'[i])
    <3> SUFFICES ASSUME use # "switch", NEW i \in DOMAIN uses' PROVE Fine(uses'[i])
      OBVIOUS
    <3>1. CASE i = Len(uses) + 1
      BY <2>1, <2>2, <3>1
    <3>2. CASE i \in 1..Len(uses)
      BY <1>2, <2>2, <2>3, <3>2
    <3> QED
      BY <2>2, <2>3, <3>1, <3>2
  <2> QED
    BY <1>1, <2>2, <2>4 DEF GraniteOutcomesAreWhole, Fine
<1> QED
  BY <1>4, <1>5, <1>6

\* What other uses do does not touch a run that is at rest,
LEMMA RestingRun ==
  ASSUME RunInv, Idle, run' = run
  PROVE  RunInv'
BY DEF RunInv, Idle

\* nor does a step that leaves the model alone.
LEMMA SameRun ==
  ASSUME RunInv, UNCHANGED <<modelVars, run>>
  PROVE  RunInv'
BY DEF RunInv, modelVars, Setting, FedGreedily, Due, HooksInstalled, CandidatesFed, Taken,
       LoopEnded, Observing, Hook, Reached, Candidate, HorizonReached

\* A step of a collection, and the beginning of one.
LEMMA StepIsWhole ==
  ASSUME WholeOutcomes, GraniteStep, use # "switch", use' = use,
         use = "granite" \/ use = "child"
  PROVE  WholeOutcomes'
<1>1. RunInv' /\ greedy' = greedy
  BY GraniteRuns, GraniteRecords DEF WholeOutcomes
<1>2. ~ Idle
  BY DEF Idle, GraniteStep, RegisterHook, RegistrationFails, AssertHooks, Forward, ForwardFails,
         Take, StopAtHorizon, StopAtEos, FeedBack, Exit, CompareHooks, Build
<1>3. greedy \in Computed
  BY <1>2 DEF WholeOutcomes, Computed
<1>4. \/ uses' \in {uses, Append(uses, Raised)}
      \/ \E o : /\ uses' = Append(uses, o) /\ o.kind # "rejected"
                /\ \E continuation \in Computed : IsWholeRun(o, continuation)
  <2>1. CASE uses' \in {uses, Append(uses, Raised)}
    BY <2>1
  <2>2. CASE /\ run.phase = "build"
             /\ uses' = Append(uses, IF Accepted(Outcome) THEN Outcome ELSE Rejected)
    <3>1. Accepted(Outcome) /\ IsWholeRun(Outcome, greedy)
      BY <2>2, OutcomeAccepted, OutcomeWhole DEF WholeOutcomes
    <3>2. Outcome.kind # "rejected"
      BY OutcomeFields
    <3> QED
      BY <1>3, <2>2, <3>1, <3>2
  <2> QED
    BY <2>1, <2>2, GraniteRecords
<1>5. IsSequenceOf(uses') /\ GraniteOutcomesAreWhole'
  BY <1>1, <1>4, OutcomesGrow DEF WholeOutcomes
<1>6. use' = "child" /\ ~ Idle' => greedy' \in Behaviours
  BY <1>1, <1>2 DEF WholeOutcomes
<1> QED
  BY <1>1, <1>5, <1>6 DEF WholeOutcomes

LEMMA BeginIsWhole ==
  ASSUME WholeOutcomes, use # "switch", use' = use, greedy' \in Continuations,
         use = "granite" => greedy' = greedy,
         use = "child" => greedy' \in Behaviours,
         NEW tool \in Tools, NEW prompt \in DOMAIN Prompts, NEW horizon \in 0..Horizon,
         tool # "trace" => horizon = Horizon, Begin(tool, prompt, horizon)
  PROVE  WholeOutcomes'
<1>1. RunInv' /\ uses' \in {uses, Append(uses, Raised)}
  BY BeginRuns DEF WholeOutcomes
<1>2. IsSequenceOf(uses') /\ GraniteOutcomesAreWhole'
  BY <1>1, OutcomesGrow DEF WholeOutcomes
<1> QED
  BY <1>1, <1>2 DEF WholeOutcomes

\* The prompts of a schedule are prompts.
LEMMA PlannedPrompt ==
  ASSUME NEW number, NEW k \in 1..TotalRuns
  PROVE  Schedule(number)[k][1] \in DOMAIN Prompts
<1>1. CalibrationIds \in Seq(DOMAIN Prompts) /\ EvaluationIds \in Seq(DOMAIN Prompts)
  BY ChildAssumption
<1>2. CASE k <= CalibrationRuns
  <2>1. Schedule(number)[k] = CalibrationSchedule(number)[k] /\ k \in 1..CalibrationRuns
    BY <1>2, ScheduleEntries, CountsAreNumbers
  <2>2. CASE k <= Len(CalibrationIds)
    <3>1. CalibrationSchedule(number)[k][1] = CalibrationIds[k]
      BY <2>1, <2>2 DEF CalibrationSchedule
    <3>2. k \in 1..Len(CalibrationIds)
      BY <2>1, <2>2, CountsAreNumbers
    <3> QED
      BY <1>1, <2>1, <3>1, <3>2, ElementOfSeq
  <2>3. CASE ~ (k <= Len(CalibrationIds))
    <3>1. CalibrationSchedule(number)[k][1] = CalibrationIds[k - Len(CalibrationIds)]
      BY <2>1, <2>3 DEF CalibrationSchedule
    <3>2. k - Len(CalibrationIds) \in 1..Len(CalibrationIds)
      BY <2>1, <2>3, CountsAreNumbers
    <3> QED
      BY <1>1, <2>1, <3>1, <3>2, ElementOfSeq
  <2> QED
    BY <2>2, <2>3
<1>3. CASE ~ (k <= CalibrationRuns)
  <2> DEFINE m == k - CalibrationRuns
             index == (m + 1) \div 2
  <2>1. Schedule(number)[k] = EvaluationSchedule(number)[m] /\ m \in 1..2 * Len(EvaluationIds)
    BY <1>3, ScheduleEntries, CountsAreNumbers
  <2>2. EvaluationSchedule(number)[m][1] = EvaluationIds[index]
    BY <2>1 DEF EvaluationSchedule
  <2>3. index \in 1..Len(EvaluationIds)
    <3>1. PICK e \in Nat : e = Len(EvaluationIds)
      BY CountsAreNumbers
    <3>2. m \in 1..2 * e
      BY <2>1, <3>1
    <3> HIDE DEF m
    <3> QED
      BY <3>1, <3>2
  <2> HIDE DEF index, m
  <2> QED
    BY <1>1, <2>1, <2>2, <2>3, ElementOfSeq
<1> QED
  BY <1>2, <1>3

\* The steps of a child.
LEMMA ChildIsWhole ==
  ASSUME WholeOutcomes, UseInv, use = "child", use' = use, ChildNext
  PROVE  WholeOutcomes'
<1>1. CASE StartRun
  <2> DEFINE next == Schedule(child.number)[Len(uses) + 1]
  <2>1. /\ child.phase = "start" /\ ~ AllRun /\ Len(uses) \in 0..TotalRuns
    BY <1>1 DEF StartRun, UseInv, ChildInv, StartInv
  <2>2. Len(uses) + 1 \in 1..TotalRuns
    BY <2>1, ScheduleEntries, CountsAreNumbers DEF AllRun
  <2>3. next[2] \in V04Tools /\ next[1] \in DOMAIN Prompts
    BY <2>2, PartnerOnSchedule, PlannedPrompt
  <2>4. Begin(next[2], next[1], Horizon) /\ greedy' \in Behaviours
    BY <1>1 DEF StartRun
  <2> HIDE DEF next
  <2>5. next[2] \in Tools /\ Horizon \in 0..Horizon /\ greedy' \in Continuations
    BY <2>3, <2>4, ModelAssumption, ChildAssumption, SMTT(30) DEF Tools, V04Tools
  <2> QED
    BY <2>3, <2>4, <2>5, BeginIsWhole
<1>2. CASE GraniteStep /\ UNCHANGED child
  BY <1>2, StepIsWhole
<1>3. CASE Kill
  <2>1. run' = AtRest /\ greedy' = greedy /\ uses' = uses
    BY <1>3 DEF Kill
  <2>2. RunInv' /\ Idle'
    BY <2>1, RestRuns, RestShape DEF Idle
  <2>3. IsSequenceOf(uses') /\ GraniteOutcomesAreWhole'
    BY <2>1, OutcomesGrow DEF WholeOutcomes
  <2> QED
    BY <2>1, <2>2, <2>3 DEF WholeOutcomes
<1>4. CASE UNCHANGED <<modelVars, run>>
  <2>1. RunInv'
    BY <1>4, SameRun DEF WholeOutcomes
  <2>2. IsSequenceOf(uses') /\ GraniteOutcomesAreWhole'
    BY <1>4, OutcomesGrow DEF WholeOutcomes, modelVars
  <2> QED
    BY <1>4, <2>1, <2>2 DEF WholeOutcomes, modelVars, Idle
<1> QED
  BY <1>1, <1>2, <1>3, <1>4
     DEF ChildNext, ChildStep, LoadModel, LoadFails, LowBeforeRun, LowAfterRun, EndRun,
         CompareTrusted, PublishManifest, PublishFails, Recheck

LEMMA NextIsWhole ==
  ASSUME WholeOutcomes, HookInv, UseInv, [CollectionNext]_collectionVars
  PROVE  WholeOutcomes'
<1>1. CASE GraniteUse
  <2>1. CASE GraniteStep
    BY <1>1, <2>1, StepIsWhole DEF GraniteUse
  <2>2. CASE ~ GraniteStep
    <3>0. PICK tool \in Tools, prompt \in DOMAIN Prompts :
             (\E horizon \in Horizons(tool) : Begin(tool, prompt, horizon)) /\ greedy' = greedy
      BY <1>1, <2>2 DEF GraniteUse
    <3>1. PICK horizon \in Horizons(tool) : Begin(tool, prompt, horizon)
      BY <3>0
    <3>2. horizon \in 0..Horizon /\ (tool # "trace" => horizon = Horizon)
      BY ModelAssumption, GraniteAssumption DEF Horizons
    <3> QED
      BY <1>1, <3>0, <3>1, <3>2, BeginIsWhole DEF GraniteUse, WholeOutcomes
  <2> QED
    BY <2>1, <2>2
<1>2. CASE ChildUse
  BY <1>2, ChildIsWhole DEF ChildUse
<1>3. CASE SwitchUse
  <2>1. run' = run /\ use' = use /\ use = "switch" /\ greedy' = greedy
    BY <1>3 DEF SwitchUse, BeginSwitch, SwitchStep, modelVars, RegisterRouter,
                RouterRegistrationFails, RegisterExperts, ExpertRegistrationFails, Call, CallFails,
                TakeObservations, EndGeneration, FeedDecoder, Observe, ExitProbe, Compare, Finish
  <2>2. RunInv'
    BY <2>1, RestingRun DEF WholeOutcomes
  <2>3. uses' = uses \/ \E o : uses' = Append(uses, o)
    BY <1>3 DEF SwitchUse, BeginSwitch, SwitchStep, modelVars, RegisterRouter,
                RouterRegistrationFails, RegisterExperts, ExpertRegistrationFails, Call, CallFails,
                TakeObservations, EndGeneration, FeedDecoder, Observe, ExitProbe, Compare, Finish,
                GiveUp, Record
  <2>4. IsSequenceOf(uses')
    BY <2>3, AppendKeeps DEF WholeOutcomes
  <2> QED
    BY <2>1, <2>2, <2>4 DEF WholeOutcomes, GraniteOutcomesAreWhole, Idle
<1>4. CASE UNCHANGED collectionVars
  <2>1. RunInv'
    BY <1>4, SameRun DEF WholeOutcomes, collectionVars
  <2>2. IsSequenceOf(uses') /\ GraniteOutcomesAreWhole'
    BY <1>4, OutcomesGrow DEF WholeOutcomes, modelVars, collectionVars
  <2> QED
    BY <1>4, <2>1, <2>2 DEF WholeOutcomes, modelVars, collectionVars, Idle
<1> QED
  BY <1>1, <1>2, <1>3, <1>4 DEF CollectionNext

LEMMA InitIsWhole == CollectionInit => WholeOutcomes
<1> SUFFICES ASSUME CollectionInit PROVE WholeOutcomes
  OBVIOUS
<1>1. uses = <<>> /\ run = AtRest /\ greedy \in Continuations
  BY DEF CollectionInit, ModelInit, RunInit
<1>2. RunFields \subseteq DOMAIN run /\ run.phase = "idle"
  BY <1>1 DEF AtRest, RunFields
<1>3. RunInv /\ Idle
  BY <1>2 DEF RunInv, Idle
<1>4. IsSequenceOf(uses) /\ DOMAIN uses = {}
  BY <1>1, EmptySeq DEF IsSequenceOf
<1> QED
  BY <1>1, <1>3, <1>4 DEF WholeOutcomes, GraniteOutcomesAreWhole

(***************************************************************************)
(* A Granite collection that returns an outcome returns the whole run of   *)
(* the model for its prompt, and no collection, also of a child, is        *)
(* rejected by its own checks: for any prompts, continuations, EOS tokens, *)
(* layers, horizons, and any failures before it.                           *)
(***************************************************************************)
THEOREM GraniteOutcomesWhole == CollectionSpec => []GraniteOutcomesAreWhole
<1>1. WholeOutcomes => GraniteOutcomesAreWhole
  BY DEF WholeOutcomes
<1>2. CollectionInit => WholeOutcomes
  BY InitIsWhole
<1>3. WholeOutcomes /\ HookInv /\ UseInv /\ [CollectionNext]_collectionVars => WholeOutcomes'
  BY NextIsWhole
<1> QED
  BY <1>1, <1>2, <1>3, HookInvariant, UseInvariant, PTL DEF CollectionSpec

-----------------------------------------------------------------------------
(***************************************************************************)
(* The whole run of a Switch collection.  Its events fill a table of the   *)
(* sparse layers of the encoder and the source, and one of the calls of    *)
(* the decoder and its sparse layers; a call of the decoder adds one row.  *)
(***************************************************************************)
\* the sparse layers of the two stages
Enc == SparseLayers["encoder"]
Dec == SparseLayers["decoder"]

\* events of format 2
SwitchEventsOf == {SwitchEventAt(stage, phase, position, layer, token) :
    stage \in {"encoder", "decoder"}, phase \in {"source", "decoder_prompt", "decoder_generated"},
    position \in Nat, layer \in Nat, token \in Nat}

\* the events of the encoder, and of the calls of the decoder
SourcePart(prompt) ==
  RowByRow(Len(Enc), Len(Prompts[prompt]), LAMBDA l, i : SourceEvent(prompt, l, i))

DecoderPart(fed) ==
  RowByRow(Len(fed) + 1, Len(Dec), LAMBDA n, l : DecoderEvent(fed, n, l))

\* what the last of the calls leaves
DecoderRow(fed) == [l \in 1..Len(Dec) |-> DecoderEvent(fed, Len(fed) + 1, l)]

\* The two parts of a whole run, and their entries.
LEMMA SwitchWholeIsParts ==
  ASSUME NEW prompt, NEW fed
  PROVE  WholeSwitchRun(prompt, fed) = SourcePart(prompt) \o DecoderPart(fed)
BY DEF WholeSwitchRun, SourcePart, DecoderPart, Enc, Dec

LEMMA LayersAreNumbers ==
  /\ Enc \in Seq(Nat) /\ Len(Enc) \in Nat /\ DOMAIN Enc = 1..Len(Enc)
  /\ Dec \in Seq(Nat) /\ Len(Dec) \in Nat /\ DOMAIN Dec = 1..Len(Dec)
  /\ Len(Enc) + Len(Dec) # 0
  /\ DecoderStart \in Nat
<1>1. Enc \in Seq(Nat) /\ Dec \in Seq(Nat) /\ (Enc # <<>> \/ Dec # <<>>)
  BY SwitchAssumption DEF Enc, Dec
<1> QED
  BY <1>1, LenProperties, EmptySeq, SwitchAssumption

LEMMA SourceEventIs ==
  ASSUME NEW prompt \in DOMAIN Prompts,
         NEW l \in 0..Len(Enc) - 1, NEW i \in 0..Len(Prompts[prompt]) - 1
  PROVE  /\ SourceEvent(prompt, l + 1, i + 1)
              = SwitchEventAt("encoder", "source", i, Enc[l + 1], Prompts[prompt][i + 1])
         /\ SourceEvent(prompt, l + 1, i + 1) \in SwitchEventsOf
<1> DEFINE tokens == Prompts[prompt]
           layer == Enc[l + 1]
           token == tokens[i + 1]
<1>1. tokens \in Seq(Nat) /\ Len(tokens) \in Nat /\ i \in Nat
  BY ModelAssumption, LenProperties
<1>2. l + 1 \in 1..Len(Enc) /\ i + 1 \in 1..Len(tokens) /\ i + 1 - 1 = i
  BY <1>1, LayersAreNumbers
<1>3. layer \in Nat /\ token \in Nat
  BY <1>1, <1>2, LayersAreNumbers, ElementOfSeq
<1>4. SourceEvent(prompt, l + 1, i + 1) = SwitchEventAt("encoder", "source", i, layer, token)
  BY <1>2 DEF SourceEvent, Enc
<1> HIDE DEF layer, token
<1>5. SwitchEventAt("encoder", "source", i, layer, token) \in SwitchEventsOf
  BY <1>1, <1>3 DEF SwitchEventsOf
<1> QED
  BY <1>4, <1>5 DEF layer, token

\* the token of a call of the decoder, and what its events are
FedAt(fed, s) == IF s = 0 THEN DecoderStart ELSE fed[s]
PhaseAt(s) == IF s = 0 THEN "decoder_prompt" ELSE "decoder_generated"

LEMMA DecoderEventIs ==
  ASSUME NEW fed \in Seq(Nat), NEW s \in 0..Len(fed), NEW l \in 0..Len(Dec) - 1
  PROVE  /\ DecoderEvent(fed, s + 1, l + 1)
              = SwitchEventAt("decoder", PhaseAt(s), s, Dec[l + 1], FedAt(fed, s))
         /\ DecoderEvent(fed, s + 1, l + 1) \in SwitchEventsOf
<1> DEFINE layer == Dec[l + 1]
           token == FedAt(fed, s)
           phase == PhaseAt(s)
<1>1. Len(fed) \in Nat /\ s \in Nat /\ l + 1 \in 1..Len(Dec)
  BY LayersAreNumbers, LenProperties
<1>2. layer \in Nat
  BY <1>1, LayersAreNumbers, ElementOfSeq
<1>3. token \in Nat
  <2>1. CASE s = 0
    BY <2>1, LayersAreNumbers DEF FedAt
  <2>2. CASE s # 0
    <3>1. s \in 1..Len(fed)
      BY <1>1, <2>2
    <3> QED
      BY <2>2, <3>1, ElementOfSeq DEF FedAt
  <2> QED
    BY <2>1, <2>2
<1>4. s + 1 - 1 = s /\ (s + 1 = 1 <=> s = 0)
  BY <1>1
<1>5. DecoderEvent(fed, s + 1, l + 1) = SwitchEventAt("decoder", phase, s, layer, token)
  <2>1. CASE s = 0
    BY <1>4, <2>1 DEF DecoderEvent, Dec, PhaseAt, FedAt
  <2>2. CASE s # 0
    BY <1>4, <2>2 DEF DecoderEvent, Dec, PhaseAt, FedAt
  <2> QED
    BY <2>1, <2>2
<1>6. phase \in {"source", "decoder_prompt", "decoder_generated"}
  BY DEF PhaseAt
<1> HIDE DEF layer, token, phase
<1>7. SwitchEventAt("decoder", phase, s, layer, token) \in SwitchEventsOf
  BY <1>1, <1>2, <1>3, <1>6 DEF SwitchEventsOf
<1> QED
  BY <1>5, <1>7 DEF layer, token, phase

\* The entries in the order of the tables.
LEMMA SourceEntry ==
  ASSUME NEW prompt \in DOMAIN Prompts
  PROVE  /\ SourcePart(prompt) \in Seq(SwitchEventsOf)
         /\ Len(SourcePart(prompt)) = Len(Enc) * Len(Prompts[prompt])
         /\ \A k \in 1..Len(Enc) * Len(Prompts[prompt]) :
               \E l \in 0..Len(Enc) - 1, i \in 0..Len(Prompts[prompt]) - 1 :
                  /\ k - 1 = l * Len(Prompts[prompt]) + i
                  /\ SourcePart(prompt)[k]
                       = SwitchEventAt("encoder", "source", i, Enc[l + 1], Prompts[prompt][i + 1])
<1> DEFINE n == Len(Prompts[prompt])
           rows == Len(Enc)
<1>1. n \in Nat \ {0} /\ rows \in Nat
  BY ModelAssumption, LayersAreNumbers, EmptySeq, LenProperties
<1>2. rows * n \in Nat
  BY <1>1, Arithmetic
<1>3. SourcePart(prompt) =
        [k \in 1..rows * n |-> SourceEvent(prompt, ((k - 1) \div n) + 1, ((k - 1) % n) + 1)]
  BY DEF SourcePart, RowByRow
<1>4. ASSUME NEW k \in 1..rows * n
      PROVE  \E l \in 0..rows - 1, i \in 0..n - 1 :
                /\ k - 1 = l * n + i
                /\ SourcePart(prompt)[k]
                     = SwitchEventAt("encoder", "source", i, Enc[l + 1], Prompts[prompt][i + 1])
                /\ SourcePart(prompt)[k] \in SwitchEventsOf
  <2> DEFINE l == (k - 1) \div n
             i == (k - 1) % n
  <2>1. l \in 0..rows - 1 /\ i \in 0..n - 1 /\ k - 1 = l * n + i
    BY <1>1, RowBelow
  <2>2. SourcePart(prompt)[k] = SourceEvent(prompt, l + 1, i + 1)
    BY <1>3
  <2> HIDE DEF l, i
  <2> QED
    BY <2>1, <2>2, SourceEventIs
<1>5. SourcePart(prompt) \in [1..rows * n -> SwitchEventsOf]
  <2>1. \A k \in 1..rows * n : SourcePart(prompt)[k] \in SwitchEventsOf
    BY <1>4
  <2> QED
    BY <1>3, <2>1
<1>6. SourcePart(prompt) \in Seq(SwitchEventsOf) /\ Len(SourcePart(prompt)) = rows * n
  BY <1>2, <1>5
<1> QED
  BY <1>4, <1>6

LEMMA DecoderEntry ==
  ASSUME NEW fed \in Seq(Nat)
  PROVE  /\ DecoderPart(fed) \in Seq(SwitchEventsOf)
         /\ Len(DecoderPart(fed)) = (Len(fed) + 1) * Len(Dec)
         /\ \A k \in 1..(Len(fed) + 1) * Len(Dec) :
               \E s \in 0..Len(fed), l \in 0..Len(Dec) - 1 :
                  /\ k - 1 = s * Len(Dec) + l
                  /\ DecoderPart(fed)[k]
                       = SwitchEventAt("decoder", PhaseAt(s), s, Dec[l + 1], FedAt(fed, s))
<1> DEFINE n == Len(Dec)
           rows == Len(fed) + 1
<1>1. n \in Nat /\ rows \in Nat /\ rows - 1 = Len(fed)
  BY LayersAreNumbers, LenProperties
<1>2. rows * n \in Nat /\ (n = 0 => rows * n = 0)
  BY <1>1
<1>3. DecoderPart(fed) =
        [k \in 1..rows * n |-> DecoderEvent(fed, ((k - 1) \div n) + 1, ((k - 1) % n) + 1)]
  BY DEF DecoderPart, RowByRow
<1>4. ASSUME NEW k \in 1..rows * n
      PROVE  \E s \in 0..Len(fed), l \in 0..n - 1 :
                /\ k - 1 = s * n + l
                /\ DecoderPart(fed)[k]
                     = SwitchEventAt("decoder", PhaseAt(s), s, Dec[l + 1], FedAt(fed, s))
                /\ DecoderPart(fed)[k] \in SwitchEventsOf
  <2> DEFINE s == (k - 1) \div n
             l == (k - 1) % n
  <2>0. n # 0
    <3> HIDE DEF n, rows
    <3> QED
      BY <1>2
  <2>1. s \in 0..Len(fed) /\ l \in 0..n - 1 /\ k - 1 = s * n + l
    <3> HIDE DEF n, rows
    <3> QED
      BY <1>1, <2>0, RowBelow
  <2>2. DecoderPart(fed)[k] = DecoderEvent(fed, s + 1, l + 1)
    BY <1>3
  <2> HIDE DEF l, s
  <2> QED
    BY <2>1, <2>2, DecoderEventIs
<1>5. DecoderPart(fed) \in [1..rows * n -> SwitchEventsOf]
  <2>1. \A k \in 1..rows * n : DecoderPart(fed)[k] \in SwitchEventsOf
    BY <1>4
  <2> HIDE DEF rows, n
  <2> QED
    BY <1>3, <2>1
<1>6. DecoderPart(fed) \in Seq(SwitchEventsOf) /\ Len(DecoderPart(fed)) = rows * n
  <2> HIDE DEF rows, n
  <2> QED
    BY <1>2, <1>5
<1> QED
  BY <1>4, <1>6

\* A call of the decoder adds its row,
LEMMA DecoderRowIs ==
  ASSUME NEW fed \in Seq(Nat)
  PROVE  /\ DecoderRow(fed) \in Seq(SwitchEventsOf)
         /\ Len(DecoderRow(fed)) = Len(Dec)
         /\ \A l \in 0..Len(Dec) - 1 :
               DecoderRow(fed)[l + 1]
                 = SwitchEventAt("decoder", PhaseAt(Len(fed)), Len(fed), Dec[l + 1],
                                 FedAt(fed, Len(fed)))
<1> DEFINE n == Len(Dec)
           last == Len(fed)
<1>1. n \in Nat /\ last \in 0..Len(fed)
  BY LayersAreNumbers, LenProperties
<1>2. ASSUME NEW l \in 0..n - 1
      PROVE  /\ DecoderRow(fed)[l + 1]
                  = SwitchEventAt("decoder", PhaseAt(last), last, Dec[l + 1], FedAt(fed, last))
             /\ DecoderRow(fed)[l + 1] \in SwitchEventsOf
  <2>1. l + 1 \in 1..n
    BY <1>1
  <2>2. DecoderRow(fed)[l + 1] = DecoderEvent(fed, last + 1, l + 1)
    BY <2>1 DEF DecoderRow
  <2> QED
    BY <1>1, <2>2, DecoderEventIs
<1>3. \A l \in 1..n : DecoderRow(fed)[l] \in SwitchEventsOf
  <2> TAKE l \in 1..n
  <2>1. l - 1 \in 0..n - 1 /\ l = (l - 1) + 1
    BY <1>1
  <2> DEFINE m == l - 1
  <2>2. m \in 0..n - 1 /\ l = m + 1
    BY <2>1
  <2> HIDE DEF m
  <2> QED
    BY <1>2, <2>2
<1>4. DecoderRow(fed) \in [1..n -> SwitchEventsOf]
  BY <1>3 DEF DecoderRow
<1> QED
  BY <1>1, <1>2, <1>4

\* to those of the calls before it;
LEMMA DecoderGrows ==
  ASSUME NEW old \in Seq(Nat), NEW c \in Nat
  PROVE  DecoderPart(Append(old, c)) = DecoderPart(old) \o DecoderRow(Append(old, c))
<1> DEFINE new == Append(old, c)
           n == Len(Dec)
           m == Len(old) + 1
           oldPart == DecoderPart(old)
           newPart == DecoderPart(new)
           added == DecoderRow(new)
           At(fed, s, l) == SwitchEventAt("decoder", PhaseAt(s), s, Dec[l + 1], FedAt(fed, s))
<1>1. /\ new \in Seq(Nat) /\ Len(new) = m
      /\ \A s \in 1..m - 1 : new[s] = old[s]
      /\ n \in Nat /\ m \in Nat \ {0} /\ Len(old) = m - 1
  BY AppendProperties, LayersAreNumbers, LenProperties
<1>2. \A s \in 0..m - 1 : FedAt(new, s) = FedAt(old, s)
  <2> HIDE DEF new, m
  <2> QED
    BY <1>1 DEF FedAt
<1>3. /\ oldPart \in Seq(SwitchEventsOf) /\ Len(oldPart) = m * n
      /\ \A k \in 1..m * n : \E s \in 0..m - 1, l \in 0..n - 1 :
            k - 1 = s * n + l /\ oldPart[k] = At(old, s, l)
  <2>1. /\ DecoderPart(old) \in Seq(SwitchEventsOf) /\ Len(DecoderPart(old)) = (Len(old) + 1) * Len(Dec)
        /\ \A k \in 1..(Len(old) + 1) * Len(Dec) :
             \E s \in 0..Len(old), l \in 0..Len(Dec) - 1 :
               k - 1 = s * Len(Dec) + l /\ DecoderPart(old)[k] = At(old, s, l)
    BY DecoderEntry
  <2> QED
    BY <1>1, <2>1
<1>4. /\ newPart \in Seq(SwitchEventsOf) /\ Len(newPart) = (m + 1) * n
      /\ \A k \in 1..(m + 1) * n : \E s \in 0..m, l \in 0..n - 1 :
            k - 1 = s * n + l /\ newPart[k] = At(new, s, l)
  <2> HIDE DEF new, m
  <2>1. /\ DecoderPart(new) \in Seq(SwitchEventsOf) /\ Len(DecoderPart(new)) = (Len(new) + 1) * Len(Dec)
        /\ \A k \in 1..(Len(new) + 1) * Len(Dec) :
             \E s \in 0..Len(new), l \in 0..Len(Dec) - 1 :
               k - 1 = s * Len(Dec) + l /\ DecoderPart(new)[k] = At(new, s, l)
    BY <1>1, DecoderEntry
  <2> QED
    BY <1>1, <2>1
<1>5. /\ added \in Seq(SwitchEventsOf) /\ Len(added) = n
      /\ \A l \in 0..n - 1 : added[l + 1] = At(new, m, l)
  <2> HIDE DEF new, m
  <2>1. /\ DecoderRow(new) \in Seq(SwitchEventsOf)
        /\ Len(DecoderRow(new)) = Len(Dec)
        /\ \A l \in 0..Len(Dec) - 1 : DecoderRow(new)[l + 1] = At(new, Len(new), l)
    BY <1>1, DecoderRowIs
  <2> QED
    BY <1>1, <2>1
<1> DEFINE both == oldPart \o added
<1> HIDE DEF new, n, m, oldPart, newPart, added
<1>7. m * n \in Nat /\ (m + 1) * n = m * n + n
  BY <1>1
<1>10. /\ both \in Seq(SwitchEventsOf) /\ Len(both) = m * n + n
       /\ \A k \in 1..m * n + n :
             both[k] = IF k <= m * n THEN oldPart[k] ELSE added[k - m * n]
  <2>1. /\ oldPart \in Seq(SwitchEventsOf) /\ Len(oldPart) = m * n
        /\ added \in Seq(SwitchEventsOf) /\ Len(added) = n
    BY <1>3, <1>5
  <2> QED
    BY <2>1, ConcatProperties
<1> HIDE DEF both, At
<1>11. ASSUME NEW k \in 1..m * n + n
       PROVE  newPart[k] = both[k]
  <2>0. n # 0
    <3> SUFFICES ASSUME n = 0 PROVE FALSE
      OBVIOUS
    <3>1. m * n + n = 0
      BY <1>1
    <3> QED
      BY <3>1
  <2>1. PICK s \in 0..m, l \in 0..n - 1 : k - 1 = s * n + l /\ newPart[k] = At(new, s, l)
    BY <1>4, <1>7
  <2>2. (k - 1) \div n = s /\ (k - 1) % n = l
    <3>1. s \in Nat /\ n \in Nat \ {0}
      BY <1>1, <2>0
    <3> QED
      BY <2>1, <3>1, RowOf
  <2>3. CASE k <= m * n
    <3>1. PICK t \in 0..m - 1, j \in 0..n - 1 : k - 1 = t * n + j /\ oldPart[k] = At(old, t, j)
      <4>1. k \in 1..m * n
        BY <1>7, <2>3
      <4> QED
        BY <1>3, <4>1
    <3>2. (k - 1) \div n = t /\ (k - 1) % n = j
      <4>1. t \in Nat /\ n \in Nat \ {0}
        BY <1>1, <2>0
      <4> QED
        BY <3>1, <4>1, RowOf
    <3>3. s = t /\ l = j
      BY <2>2, <3>2
    <3>4. At(new, s, l) = At(old, t, j)
      BY <1>2, <3>3 DEF At
    <3>5. both[k] = oldPart[k]
      BY <1>10, <2>3
    <3> QED
      BY <2>1, <3>1, <3>4, <3>5
  <2>4. CASE k > m * n
    <3>1. PICK j \in 0..n - 1 : k - 1 = m * n + j
      <4>1. PICK p \in Nat : p = m * n
        BY <1>7
      <4>2. k - 1 - p \in 0..n - 1 /\ k - 1 = p + (k - 1 - p)
        BY <1>1, <2>4, <4>1
      <4> QED
        BY <4>1, <4>2
    <3>2. (k - 1) \div n = m /\ (k - 1) % n = j
      <4>1. n \in Nat \ {0} /\ m \in Nat
        BY <1>1, <2>0
      <4> QED
        BY <3>1, <4>1, RowOf
    <3>3. s = m /\ l = j
      BY <2>2, <3>2
    <3>4. k - m * n = j + 1
      <4>1. PICK p \in Nat : p = m * n
        BY <1>7
      <4> QED
        BY <1>1, <3>1, <4>1
    <3>5. both[k] = added[j + 1]
      BY <1>7, <1>10, <2>4, <3>4
    <3> QED
      BY <1>5, <2>1, <3>3, <3>5
  <2> QED
    BY <1>7, <2>3, <2>4
<1>12. newPart = both
  <2>1. newPart \in Seq(SwitchEventsOf) /\ Len(newPart) = m * n + n
    BY <1>4, <1>7
  <2> QED
    BY <1>10, <1>11, <2>1, SeqEqual
<1> QED
  BY <1>12 DEF newPart, both, new, added, oldPart

\* the first call makes the first row.
LEMMA DecoderBegins == DecoderPart(<<>>) = DecoderRow(<<>>)
<1> DEFINE n == Len(Dec)
           none == <<>>
           part == DecoderPart(none)
           added == DecoderRow(none)
           At(s, l) == SwitchEventAt("decoder", PhaseAt(s), s, Dec[l + 1], FedAt(none, s))
<1>1. none \in Seq(Nat) /\ Len(none) = 0 /\ n \in Nat
  BY LayersAreNumbers
<1>2. /\ part \in Seq(SwitchEventsOf) /\ Len(part) = n
      /\ \A k \in 1..n : \E s \in 0..0, l \in 0..n - 1 :
            k - 1 = s * n + l /\ part[k] = At(s, l)
  <2> HIDE DEF none
  <2>1. /\ DecoderPart(none) \in Seq(SwitchEventsOf) /\ Len(DecoderPart(none)) = (Len(none) + 1) * Len(Dec)
        /\ \A k \in 1..(Len(none) + 1) * Len(Dec) :
             \E s \in 0..Len(none), l \in 0..Len(Dec) - 1 :
               k - 1 = s * Len(Dec) + l /\ DecoderPart(none)[k] = At(s, l)
    BY <1>1, DecoderEntry
  <2>2. (Len(none) + 1) * Len(Dec) = n
    BY <1>1
  <2> QED
    BY <1>1, <2>1, <2>2
<1>3. /\ added \in Seq(SwitchEventsOf) /\ Len(added) = n
      /\ \A l \in 0..n - 1 : added[l + 1] = At(0, l)
  <2> HIDE DEF none
  <2>1. /\ DecoderRow(none) \in Seq(SwitchEventsOf)
        /\ Len(DecoderRow(none)) = Len(Dec)
        /\ \A l \in 0..Len(Dec) - 1 : DecoderRow(none)[l + 1] = At(Len(none), l)
    BY <1>1, DecoderRowIs
  <2> QED
    BY <1>1, <2>1
<1> HIDE DEF n, none, part, added, At
<1>4. ASSUME NEW k \in 1..n PROVE part[k] = added[k]
  <2>1. PICK s \in 0..0, l \in 0..n - 1 : k - 1 = s * n + l /\ part[k] = At(s, l)
    BY <1>2
  <2>2. s = 0 /\ k = l + 1
    BY <1>1, <2>1
  <2> QED
    BY <1>3, <2>1, <2>2
<1>5. part = added
  BY <1>2, <1>3, <1>4, SeqEqual
<1> QED
  BY <1>5 DEF part, added, none

\* The same of the whole run.
LEMMA SwitchRunGrows ==
  ASSUME NEW prompt \in DOMAIN Prompts, NEW old \in Seq(Nat), NEW c \in Nat
  PROVE  WholeSwitchRun(prompt, Append(old, c))
           = WholeSwitchRun(prompt, old) \o DecoderRow(Append(old, c))
<1> DEFINE p == SourcePart(prompt)
           g == DecoderPart(old)
           new == Append(old, c)
           e == DecoderRow(new)
<1>1. new \in Seq(Nat)
  BY AppendProperties
<1>2. p \in Seq(SwitchEventsOf) /\ g \in Seq(SwitchEventsOf) /\ e \in Seq(SwitchEventsOf)
  BY <1>1, SourceEntry, DecoderEntry, DecoderRowIs
<1>3. DecoderPart(new) = g \o e
  BY DecoderGrows
<1>4. WholeSwitchRun(prompt, new) = p \o DecoderPart(new) /\ WholeSwitchRun(prompt, old) = p \o g
  BY SwitchWholeIsParts
<1> HIDE DEF p, g, new, e
<1>5. p \o (g \o e) = (p \o g) \o e
  BY <1>2, ConcatAssociative, SMTT(30)
<1>6. WholeSwitchRun(prompt, new) = WholeSwitchRun(prompt, old) \o e
  BY <1>3, <1>4, <1>5
<1> QED
  BY <1>6 DEF new, e

LEMMA SwitchRunBegins ==
  ASSUME NEW prompt \in DOMAIN Prompts
  PROVE  WholeSwitchRun(prompt, <<>>) = SourcePart(prompt) \o DecoderRow(<<>>)
BY SwitchWholeIsParts, DecoderBegins

-----------------------------------------------------------------------------
(***************************************************************************)
(* The sites of the routers.  A call that reaches sites which all have the *)
(* hook of this capture leaves one observation of each, in their order,    *)
(* and these make the events of the source or the row of one call of the   *)
(* decoder.                                                                *)
(***************************************************************************)
\* sites of the two stages
SwitchSites == {Site(stage, layer) : stage \in {"encoder", "decoder"}, layer \in Nat}

\* The sites of a stage are those of its sparse layers,
LEMMA SitesOfStage ==
  /\ SitesOf("encoder") \in Seq(SwitchSites) /\ Len(SitesOf("encoder")) = Len(Enc)
  /\ \A l \in 1..Len(Enc) : SitesOf("encoder")[l] = Site("encoder", Enc[l])
  /\ SitesOf("decoder") \in Seq(SwitchSites) /\ Len(SitesOf("decoder")) = Len(Dec)
  /\ \A l \in 1..Len(Dec) : SitesOf("decoder")[l] = Site("decoder", Dec[l])
<1>1. /\ SitesOf("encoder") = [l \in 1..Len(Enc) |-> Site("encoder", Enc[l])]
      /\ SitesOf("decoder") = [l \in 1..Len(Dec) |-> Site("decoder", Dec[l])]
  BY LayersAreNumbers DEF SitesOf, Enc, Dec
<1>2. /\ \A l \in 1..Len(Enc) : Site("encoder", Enc[l]) \in SwitchSites
      /\ \A l \in 1..Len(Dec) : Site("decoder", Dec[l]) \in SwitchSites
  <2>1. /\ \A l \in 1..Len(Enc) : Enc[l] \in Nat
        /\ \A l \in 1..Len(Dec) : Dec[l] \in Nat
    BY LayersAreNumbers, ElementOfSeq
  <2> QED
    BY <2>1 DEF SwitchSites
<1>3. /\ SitesOf("encoder") \in [1..Len(Enc) -> SwitchSites]
      /\ SitesOf("decoder") \in [1..Len(Dec) -> SwitchSites]
  BY <1>1, <1>2
<1>4. Len(Enc) \in Nat /\ Len(Dec) \in Nat
  BY LayersAreNumbers
<1> DEFINE p == SitesOf("encoder")
           q == SitesOf("decoder")
           a == Len(Enc)
           b == Len(Dec)
<1>5. a \in Nat /\ b \in Nat /\ p \in [1..a -> SwitchSites] /\ q \in [1..b -> SwitchSites]
  BY <1>3, <1>4
<1> HIDE DEF p, q, a, b
<1>6. p \in Seq(SwitchSites) /\ Len(p) = a /\ q \in Seq(SwitchSites) /\ Len(q) = b
  BY <1>5
<1> QED
  BY <1>1, <1>6 DEF p, q, a, b

\* and all sites are those of the encoder, then of the decoder.
LEMMA AllSitesAre ==
  /\ AllSites \in Seq(SwitchSites) /\ Len(AllSites) \in Nat \ {0}
  /\ Len(AllSites) = Len(Enc) + Len(Dec)
  /\ \A l \in 1..Len(Enc) : l \in 1..Len(AllSites) /\ AllSites[l] = SitesOf("encoder")[l]
  /\ \A l \in 1..Len(Dec) :
        Len(Enc) + l \in 1..Len(AllSites) /\ AllSites[Len(Enc) + l] = SitesOf("decoder")[l]
<1> DEFINE p == SitesOf("encoder")
           q == SitesOf("decoder")
           a == Len(Enc)
           b == Len(Dec)
<1>1. p \in Seq(SwitchSites) /\ Len(p) = a /\ q \in Seq(SwitchSites) /\ Len(q) = b
  BY SitesOfStage
<1>2. a \in Nat /\ b \in Nat /\ a + b # 0
  BY LayersAreNumbers
<1>3. AllSites = p \o q
  BY DEF AllSites
<1> HIDE DEF p, q, a, b
<1>4. /\ p \o q \in Seq(SwitchSites) /\ Len(p \o q) = a + b
      /\ \A k \in 1..a + b : (p \o q)[k] = IF k <= a THEN p[k] ELSE q[k - a]
  BY <1>1, ConcatProperties
<1>5. \A l \in 1..a : l \in 1..a + b /\ (p \o q)[l] = p[l]
  BY <1>2, <1>4
<1>6. ASSUME NEW l \in 1..b PROVE a + l \in 1..a + b /\ (p \o q)[a + l] = q[l]
  <2>1. a + l \in 1..a + b /\ ~ (a + l <= a) /\ (a + l) - a = l
    BY <1>2
  <2> QED
    BY <1>4, <2>1
<1> QED
  BY <1>2, <1>3, <1>4, <1>5, <1>6 DEF p, q, a, b

\* what a call leaves that reaches all of the sites
ReachedAt(sites) == [o \in 1..Len(sites) |-> [site |-> sites[o], tokens |-> TokensFor(sites[o])]]

\* If all hooks are there, a call is observed at all of its sites.
LEMMA AllSeen ==
  ASSUME NEW sites \in Seq(SwitchSites),
         \A o \in 1..Len(sites) : Hook("router", sites[o]) \in hooked
  PROVE  Seen(sites) = ReachedAt(sites)
<1>1. DOMAIN sites = 1..Len(sites) /\ Len(sites) \in Nat
  BY LenProperties
<1> DEFINE n == Len(sites)
<1>2. {i \in DOMAIN sites : Hook("router", sites[i]) \in hooked} = 1..n
  BY <1>1
<1>3. Cardinality(1..n) = n
  BY <1>1, FS_Interval
<1>4. \A k \in 1..n : Nth(1..n, k) = k
  BY <1>1, NthOfAll
<1> QED
  BY <1>2, <1>3, <1>4 DEF Seen, Observations, ReachedAt

\* a capture that is not empty
LEMMA ReachedSites ==
  ASSUME NEW sites \in Seq(SwitchSites), store = ReachedAt(sites)
  PROVE  /\ Len(store) = Len(sites) /\ DOMAIN store = 1..Len(sites) /\ CameFrom(sites)
         /\ store = <<>> <=> Len(sites) = 0
         /\ \A o \in 1..Len(sites) : store[o].site = sites[o] /\ store[o].tokens = TokensFor(sites[o])
<1>1. DOMAIN sites = 1..Len(sites) /\ Len(sites) \in Nat
  BY LenProperties
<1>2. Len(store) = Len(sites) /\ DOMAIN store = 1..Len(sites)
  BY <1>1 DEF ReachedAt
<1>3. \A o \in 1..Len(sites) : store[o].site = sites[o] /\ store[o].tokens = TokensFor(sites[o])
  BY DEF ReachedAt
<1>4. CameFrom(sites)
  <2>1. [o \in DOMAIN store |-> store[o].site] = [o \in 1..Len(sites) |-> sites[o]]
    BY <1>2, <1>3
  <2>2. sites = [o \in 1..Len(sites) |-> sites[o]]
    BY <1>1
  <2> QED
    BY <2>1, <2>2 DEF CameFrom
<1>5. store = <<>> <=> Len(sites) = 0
  <2>1. store \in [1..Len(sites) -> Range(store)]
    BY <1>2 DEF Range, ReachedAt
  <2>2. store \in Seq(Range(store))
    BY <1>1, <2>1
  <2> QED
    BY <1>2, <2>2, EmptySeq
<1> QED
  BY <1>2, <1>3, <1>4, <1>5

\* The observations of the encoder are the events of the source,
LEMMA SourceTaken ==
  ASSUME NEW prompt \in DOMAIN Prompts, store = ReachedAt(SitesOf("encoder")), store # <<>>,
         probe.pass = "observed", probe.input = Prompts[prompt]
  PROVE  Stage = "encoder" /\ SwitchEvents = SourcePart(prompt)
<1> DEFINE n == Len(Prompts[prompt])
           rows == Len(Enc)
           sites == SitesOf("encoder")
<1>1. /\ n \in Nat \ {0} /\ rows \in Nat /\ Len(store) = rows /\ rows # 0
      /\ \A o \in 1..rows : store[o].site = Site("encoder", Enc[o])
                            /\ store[o].tokens = Prompts[prompt]
  <2>1. n \in Nat \ {0} /\ rows \in Nat
    BY ModelAssumption, LayersAreNumbers, EmptySeq, LenProperties
  <2>2. sites \in Seq(SwitchSites) /\ Len(sites) = rows
        /\ \A l \in 1..rows : sites[l] = Site("encoder", Enc[l])
    BY SitesOfStage
  <2>3. /\ Len(store) = rows /\ rows # 0
        /\ \A o \in 1..rows : store[o].site = sites[o] /\ store[o].tokens = TokensFor(sites[o])
    <3>1. store = ReachedAt(sites)
      OBVIOUS
    <3> HIDE DEF sites
    <3>2. /\ Len(store) = Len(sites)
          /\ store = <<>> <=> Len(sites) = 0
          /\ \A o \in 1..Len(sites) :
                store[o].site = sites[o] /\ store[o].tokens = TokensFor(sites[o])
      BY <2>2, <3>1, ReachedSites
    <3> QED
      BY <2>2, <3>2
  <2>4. \A site : TokensFor(site) = Prompts[prompt]
    BY DEF TokensFor
  <2> QED
    BY <2>1, <2>2, <2>3, <2>4
<1>2. Stage = "encoder" /\ EventPhase = "source"
  <2>1. 1 \in 1..rows
    BY <1>1
  <2>2. store[1].site = Site("encoder", Enc[1])
    BY <1>1, <2>1
  <2>3. Stage = "encoder"
    BY <2>2 DEF Stage, Site
  <2> QED
    BY <2>3 DEF EventPhase
<1>3. SwitchEvents
        = [k \in 1..rows * n |-> SwitchEvent(store[((k - 1) \div n) + 1], ((k - 1) % n) + 1)]
  BY <1>1 DEF SwitchEvents, RowByRow
<1>4. SourcePart(prompt)
        = [k \in 1..rows * n |-> SourceEvent(prompt, ((k - 1) \div n) + 1, ((k - 1) % n) + 1)]
  BY DEF SourcePart, RowByRow
<1> HIDE DEF n, rows
<1>5. ASSUME NEW o \in 1..rows, NEW i \in 1..n
      PROVE  SwitchEvent(store[o], i) = SourceEvent(prompt, o, i)
  <2> DEFINE layer == Enc[o]
             p == i - 1
  <2>1. store[o].site = Site("encoder", layer) /\ store[o].tokens = Prompts[prompt]
    BY <1>1
  <2>2. Site("encoder", layer).layer = layer /\ Site("encoder", layer).stage = "encoder"
    BY DEF Site
  <2>3. (IF EventPhase = "decoder_generated" THEN Len(probe.current.fed) ELSE 0) + i - 1 = p
    BY <1>1, <1>2
  <2> HIDE DEF p, layer
  <2>4. SwitchEvent(store[o], i) = SwitchEventAt("encoder", "source", p, layer, Prompts[prompt][i])
    BY <1>2, <2>1, <2>2, <2>3 DEF SwitchEvent, SwitchEventAt
  <2> QED
    BY <2>4 DEF SourceEvent, Enc, p, layer
<1>6. ASSUME NEW k \in 1..rows * n
      PROVE  SwitchEvent(store[((k - 1) \div n) + 1], ((k - 1) % n) + 1)
               = SourceEvent(prompt, ((k - 1) \div n) + 1, ((k - 1) % n) + 1)
  <2>1. (k - 1) \div n \in 0..rows - 1 /\ (k - 1) % n \in 0..n - 1
    BY <1>1, RowBelow
  <2>2. ((k - 1) \div n) + 1 \in 1..rows /\ ((k - 1) % n) + 1 \in 1..n
    BY <1>1, <2>1
  <2> QED
    BY <1>5, <2>2
<1> QED
  BY <1>2, <1>3, <1>4, <1>6

\* and those of the decoder are the row of its call.
LEMMA RowTaken ==
  ASSUME NEW fed \in Seq(Nat), store = ReachedAt(SitesOf("decoder")), store # <<>>,
         probe.pass = "observed", probe.input = <<FedAt(fed, Len(fed))>>,
         probe.current.fed = fed, probe.current.candidates = fed
  PROVE  Stage = "decoder" /\ SwitchEvents = DecoderRow(fed)
<1> DEFINE n == Len(Dec)
           sites == SitesOf("decoder")
           s == Len(fed)
           token == FedAt(fed, s)
<1>1. /\ n \in Nat /\ Len(store) = n /\ n # 0 /\ s \in Nat
      /\ \A o \in 1..n : store[o].site = Site("decoder", Dec[o]) /\ store[o].tokens = <<token>>
  <2>1. n \in Nat /\ s \in Nat
    BY LayersAreNumbers, LenProperties
  <2>2. sites \in Seq(SwitchSites) /\ Len(sites) = n
        /\ \A l \in 1..n : sites[l] = Site("decoder", Dec[l])
    BY SitesOfStage
  <2>3. /\ Len(store) = n /\ n # 0
        /\ \A o \in 1..n : store[o].site = sites[o] /\ store[o].tokens = TokensFor(sites[o])
    <3>1. store = ReachedAt(sites)
      OBVIOUS
    <3> HIDE DEF sites
    <3>2. /\ Len(store) = Len(sites)
          /\ store = <<>> <=> Len(sites) = 0
          /\ \A o \in 1..Len(sites) :
                store[o].site = sites[o] /\ store[o].tokens = TokensFor(sites[o])
      BY <2>2, <3>1, ReachedSites
    <3> QED
      BY <2>2, <3>2
  <2>4. \A site : TokensFor(site) = <<token>>
    BY DEF TokensFor
  <2> QED
    BY <2>1, <2>2, <2>3, <2>4
<1>2. fed = <<>> <=> s = 0
  BY EmptySeq
<1>3. Stage = "decoder" /\ EventPhase = PhaseAt(s)
  <2>1. 1 \in 1..n
    BY <1>1
  <2>2. store[1].site = Site("decoder", Dec[1])
    BY <1>1, <2>1
  <2>3. Stage = "decoder"
    BY <2>2 DEF Stage, Site
  <2> QED
    BY <1>2, <2>3 DEF EventPhase, PhaseAt
<1>4. SwitchEvents
        = [k \in 1..n * 1 |-> SwitchEvent(store[((k - 1) \div 1) + 1], ((k - 1) % 1) + 1)]
  <2>1. Len(probe.input) = 1
    OBVIOUS
  <2> QED
    BY <1>1, <2>1 DEF SwitchEvents, RowByRow
<1>5. ASSUME NEW k \in 1..n
      PROVE  SwitchEvent(store[((k - 1) \div 1) + 1], ((k - 1) % 1) + 1) = DecoderEvent(fed, s + 1, k)
  <2> DEFINE layer == Dec[k]
  <2>1. ((k - 1) \div 1) + 1 = k /\ ((k - 1) % 1) + 1 = 1
    BY <1>1
  <2>2. store[k].site = Site("decoder", layer) /\ store[k].tokens = <<token>> /\ <<token>>[1] = token
    BY <1>1
  <2>3. Site("decoder", layer).layer = layer /\ Site("decoder", layer).stage = "decoder"
    BY DEF Site
  <2>4. (IF EventPhase = "decoder_generated" THEN Len(probe.current.fed) ELSE 0) + 1 - 1 = s
    BY <1>1, <1>3 DEF PhaseAt
  <2> HIDE DEF layer, token, s
  <2>5. SwitchEvent(store[k], 1) = SwitchEventAt("decoder", PhaseAt(s), s, layer, token)
    BY <1>3, <2>2, <2>3, <2>4 DEF SwitchEvent, SwitchEventAt
  <2>6. k - 1 \in 0..Len(Dec) - 1 /\ k = (k - 1) + 1 /\ s \in 0..Len(fed)
    BY <1>1 DEF s
  <2>7. DecoderEvent(fed, s + 1, k) = SwitchEventAt("decoder", PhaseAt(s), s, layer, token)
    <3> DEFINE m == k - 1
    <3>1. m \in 0..Len(Dec) - 1 /\ k = m + 1
      BY <2>6
    <3> HIDE DEF m
    <3> QED
      BY <2>6, <3>1, DecoderEventIs DEF layer, token
  <2> QED
    BY <2>1, <2>5, <2>7
<1> HIDE DEF n
<1>6. SwitchEvents = [l \in 1..n |-> DecoderEvent(fed, s + 1, l)]
  <2>1. n * 1 = n
    BY <1>1
  <2> QED
    BY <1>4, <1>5, <2>1
<1> QED
  BY <1>3, <1>6 DEF DecoderRow, n

-----------------------------------------------------------------------------
(***************************************************************************)
(* The inductive invariant of a Switch collection under way.  In each of   *)
(* the passes, what has been fed is the beginning of the continuation; in  *)
(* the observed pass, the events are those of the whole run for what has   *)
(* been fed, without the row of a call that is due; hooks are installed on *)
(* the sites whose turn has come, on all of them during a call; and the    *)
(* baseline that is kept is the greedy generation, which from the dispatch *)
(* check on has the events of the whole run.                               *)
(***************************************************************************)
\* the fields of the locals, and of a generation
ProbeFields == {"phase", "pass", "prompt", "horizon", "continuation", "exact", "baseline",
                "current", "input", "registered", "rows", "checks", "failed"}
GenerationFields == {"events", "fed", "candidates", "terminal"}

\* what was asked for
ProbeSetting ==
  /\ probe.prompt \in DOMAIN Prompts /\ probe.horizon \in 0..Horizon
  /\ probe.continuation \in Continuations /\ greedy \in Continuations
  /\ probe.pass = "baseline" => probe.continuation = greedy

\* what has been fed so far
Follows ==
  /\ GenerationFields \subseteq DOMAIN probe.current
  /\ probe.current.fed \in Seq(Nat) /\ Len(probe.current.fed) <= probe.horizon
  /\ probe.current.candidates = probe.current.fed
  /\ \A i \in 1..Len(probe.current.fed) :
        probe.current.fed[i] = probe.continuation[i] /\ probe.continuation[i] \notin EosTokens

\* a generation that has ended as the greedy one does
GreedyRun(generation) ==
  /\ generation.fed \in Seq(Nat) /\ Len(generation.fed) <= probe.horizon
  /\ \A i \in 1..Len(generation.fed) :
        generation.fed[i] = greedy[i] /\ greedy[i] \notin EosTokens
  /\ Len(generation.fed) = probe.horizon \/ greedy[Len(generation.fed) + 1] \in EosTokens
  /\ generation.terminal = Ending(greedy, Len(generation.fed), TRUE)

\* its events are those of the whole run for what was fed
WholeEvents(generation) ==
  generation.events = WholeSwitchRun(probe.prompt, generation.fed)

\* hooks are installed on the first sites
RoutersInstalled(count) == \A k \in 1..count : Hook("router", AllSites[k]) \in hooked
ExpertsInstalled(count) == \A k \in 1..count : Hook("expert", AllSites[k]) \in hooked

\* the encoder is to be called, or the decoder
SourceDue ==
  probe.current.fed = <<>> /\ probe.current.events = <<>> /\ probe.input = Prompts[probe.prompt]

RowDue ==
  /\ probe.input = <<FedAt(probe.current.fed, Len(probe.current.fed))>>
  /\ probe.current.events \o DecoderRow(probe.current.fed)
       = WholeSwitchRun(probe.prompt, probe.current.fed)

\* the three passes
BaselineInv ==
  /\ probe.phase \in {"encoder", "decoder", "choose", "observe"}
  /\ probe.phase # "observe" => Follows
  /\ probe.phase = "observe" => GreedyRun(probe.current)

ObservedInv ==
  /\ probe.phase \in {"register", "encoder", "decoder", "take", "choose", "exit", "compare"}
  /\ GreedyRun(probe.baseline)
  /\ probe.phase \in {"register", "encoder", "decoder", "take", "choose"} => Follows
  /\ probe.phase = "register" =>
        probe.registered \in 0..Len(AllSites) - 1 /\ RoutersInstalled(probe.registered)
  /\ probe.phase \in {"encoder", "decoder", "take", "choose"} => RoutersInstalled(Len(AllSites))
  /\ probe.phase \in {"register", "encoder", "decoder", "choose"} => store = <<>>
  /\ probe.phase \in {"register", "encoder"} => SourceDue
  /\ probe.phase = "decoder" => RowDue
  /\ probe.phase = "take" =>
        \/ SourceDue /\ store = ReachedAt(SitesOf("encoder"))
        \/ RowDue /\ store = ReachedAt(SitesOf("decoder"))
  /\ probe.phase \in {"choose", "compare"} \/ (probe.phase = "exit" /\ ~ probe.failed) =>
        WholeEvents(probe.current)

\* the dispatch checks agree
RowsCounted ==
  \A c \in DOMAIN probe.checks : probe.checks[c].assigned = probe.checks[c].rows

DispatchInv ==
  /\ probe.phase \in {"register", "experts", "dispatch", "take", "exit", "finish"}
  /\ GreedyRun(probe.baseline) /\ WholeEvents(probe.baseline) /\ probe.exact
  /\ probe.phase \in {"register", "experts", "dispatch"} =>
        store = <<>> /\ probe.input \in Seq(Nat)
  /\ probe.phase = "register" =>
        probe.registered \in 0..Len(AllSites) - 1 /\ RoutersInstalled(probe.registered)
  /\ probe.phase \in {"experts", "dispatch"} => RoutersInstalled(Len(AllSites))
  /\ probe.phase = "experts" =>
        probe.registered \in 0..Len(AllSites) - 1 /\ ExpertsInstalled(probe.registered)
  /\ probe.phase = "dispatch" =>
        ExpertsInstalled(Len(AllSites)) /\ probe.rows = [s \in Range(AllSites) |-> 0]
  /\ probe.phase = "take" =>
        /\ store = ReachedAt(AllSites)
        /\ \A s \in Range(AllSites) : probe.rows[s] = Assigned(s, TokensFor(s))
  /\ probe.phase = "finish" \/ (probe.phase = "exit" /\ ~ probe.failed) => RowsCounted

PassInv ==
  \/ probe.pass = "baseline" /\ BaselineInv
  \/ probe.pass = "observed" /\ ObservedInv
  \/ probe.pass = "dispatch" /\ DispatchInv

ProbeInv ==
  /\ ProbeFields \subseteq DOMAIN probe
  /\ probe.phase # "idle" => ProbeSetting /\ PassInv

\* Nothing is asked of a collection that has ended.
LEMMA GivenUp ==
  ASSUME probe' = AtRestProbe
  PROVE  ProbeInv'
<1>1. ProbeFields \subseteq DOMAIN probe' /\ probe'.phase = "idle"
  BY DEF AtRestProbe, ProbeFields
<1> QED
  BY <1>1 DEF ProbeInv

\* What is known in each pass.
LEMMA InPass ==
  ASSUME ProbeInv, probe.phase # "idle"
  PROVE  /\ ProbeFields \subseteq DOMAIN probe /\ ProbeSetting
         /\ probe.pass = "baseline" => BaselineInv
         /\ probe.pass = "observed" => ObservedInv
         /\ probe.pass = "dispatch" => DispatchInv
         /\ probe.pass \in {"baseline", "observed", "dispatch"}
BY DEF ProbeInv, PassInv

\* What a step leaves alone.
LEMMA SettingKept ==
  ASSUME ProbeSetting, greedy' = greedy, probe'.prompt = probe.prompt,
         probe'.horizon = probe.horizon, probe'.continuation = probe.continuation,
         probe'.pass = probe.pass
  PROVE  ProbeSetting'
BY DEF ProbeSetting

LEMMA BaselineKept ==
  ASSUME greedy' = greedy, probe'.baseline = probe.baseline, probe'.prompt = probe.prompt,
         probe'.horizon = probe.horizon
  PROVE  /\ GreedyRun(probe.baseline) => GreedyRun(probe.baseline)'
         /\ WholeEvents(probe.baseline) => WholeEvents(probe.baseline)'
<1>1. GreedyRun(probe.baseline) => GreedyRun(probe.baseline)'
  BY SMTT(30) DEF GreedyRun, Ending
<1>2. WholeEvents(probe.baseline) => WholeEvents(probe.baseline)'
  BY ZenonT(30) DEF WholeEvents, WholeSwitchRun, RowByRow, SourceEvent, DecoderEvent, SwitchEventAt, Site
<1> QED
  BY <1>1, <1>2

LEMMA CurrentKept ==
  ASSUME probe'.current = probe.current, probe'.prompt = probe.prompt,
         probe'.horizon = probe.horizon, probe'.continuation = probe.continuation
  PROVE  /\ Follows => Follows'
         /\ WholeEvents(probe.current) => WholeEvents(probe.current)'
         /\ probe'.input = probe.input => (SourceDue => SourceDue') /\ (RowDue => RowDue')
<1>1. Follows => Follows'
  BY DEF Follows
<1>2. WholeEvents(probe.current) => WholeEvents(probe.current)'
  BY DEF WholeEvents, WholeSwitchRun, RowByRow, SourceEvent, DecoderEvent, SwitchEventAt, Site
<1>3. ASSUME probe'.input = probe.input PROVE SourceDue => SourceDue'
  BY <1>3 DEF SourceDue
<1>4. ASSUME probe'.input = probe.input PROVE RowDue => RowDue'
  BY <1>4 DEF RowDue
<1> QED
  BY <1>1, <1>2, <1>3, <1>4

LEMMA HooksKept ==
  ASSUME hooked \subseteq hooked', capture' = capture
  PROVE  /\ RoutersInstalled(Len(AllSites)) => RoutersInstalled(Len(AllSites))'
         /\ ExpertsInstalled(Len(AllSites)) => ExpertsInstalled(Len(AllSites))'
<1>1. RoutersInstalled(Len(AllSites)) => RoutersInstalled(Len(AllSites))'
  BY DEF RoutersInstalled, Hook
<1>2. ExpertsInstalled(Len(AllSites)) => ExpertsInstalled(Len(AllSites))'
  BY DEF ExpertsInstalled, Hook
<1> QED
  BY <1>1, <1>2

\* The steps of a collection.
LEMMA BeginProbe ==
  ASSUME greedy \in Continuations, NEW prompt \in DOMAIN Prompts, NEW horizon \in MaxSteps,
         BeginSwitch(prompt, horizon)
  PROVE  ProbeInv'
<1>1. horizon \in 0..Horizon /\ greedy' = greedy
  BY SwitchAssumption DEF BeginSwitch, modelVars
<1>2. /\ ProbeFields \subseteq DOMAIN probe' /\ probe'.phase = "encoder" /\ probe'.pass = "baseline"
      /\ probe'.prompt = prompt /\ probe'.horizon = horizon /\ probe'.continuation = greedy
      /\ probe'.current = Generation
  BY DEF BeginSwitch, AtRestProbe, ProbeFields
<1>3. ProbeSetting'
  BY <1>1, <1>2 DEF ProbeSetting
<1>4. Follows'
  <2>1. horizon \in Nat
    BY <1>1, ModelAssumption
  <2> QED
    BY <1>2, <2>1 DEF Follows, Generation, GenerationFields
<1>5. BaselineInv'
  BY <1>2, <1>4 DEF BaselineInv
<1> QED
  BY <1>2, <1>3, <1>5 DEF ProbeInv, PassInv

LEMMA RegisterProbe ==
  ASSUME ProbeInv, RegisterRouter
  PROVE  ProbeInv'
<1> DEFINE n == Len(AllSites)
           more == probe.registered + 1 < n
<1>1. /\ probe.phase = "register" /\ ProbeFields \subseteq DOMAIN probe /\ ProbeSetting
      /\ probe.pass = "observed" => ObservedInv
      /\ probe.pass = "dispatch" => DispatchInv
      /\ probe.pass \in {"observed", "dispatch"}
  BY InPass DEF RegisterRouter, BaselineInv
<1>2. /\ probe.registered \in 0..n - 1 /\ RoutersInstalled(probe.registered)
      /\ store = <<>> /\ GreedyRun(probe.baseline) /\ n \in Nat
  BY <1>1, AllSitesAre DEF ObservedInv, DispatchInv
<1>3. /\ ProbeFields \subseteq DOMAIN probe'
      /\ probe'.pass = probe.pass /\ probe'.prompt = probe.prompt /\ probe'.horizon = probe.horizon
      /\ probe'.continuation = probe.continuation /\ probe'.exact = probe.exact
      /\ probe'.baseline = probe.baseline /\ probe'.current = probe.current
      /\ probe'.input = probe.input
      /\ probe'.phase = IF more THEN "register"
                        ELSE IF probe.pass = "dispatch" THEN "experts" ELSE "encoder"
      /\ probe'.registered = IF more THEN probe.registered + 1 ELSE 0
  BY <1>1 DEF RegisterRouter, ProbeFields
<1>4. /\ greedy' = greedy /\ store' = store /\ capture' = capture /\ hooked \subseteq hooked'
      /\ Hook("router", AllSites[probe.registered + 1]) \in hooked'
  BY DEF RegisterRouter, Register
<1>5. ProbeSetting' /\ GreedyRun(probe.baseline)'
  BY <1>1, <1>2, <1>3, <1>4, SettingKept, BaselineKept
<1>6. \A k \in 1..probe.registered + 1 : Hook("router", AllSites[k])' \in hooked'
  <2>1. \A k \in 1..probe.registered + 1 : Hook("router", AllSites[k]) \in hooked'
    BY <1>2, <1>4 DEF RoutersInstalled
  <2>2. \A k \in 1..probe.registered + 1 : Hook("router", AllSites[k])' = Hook("router", AllSites[k])
    BY <1>4 DEF Hook
  <2> QED
    BY <2>1, <2>2
<1>7. IF more THEN probe'.registered \in 0..n - 1 /\ RoutersInstalled(probe.registered)'
      ELSE RoutersInstalled(n)'
  <2>1. CASE more
    <3>1. probe'.registered \in 0..n - 1
      BY <1>2, <1>3, <2>1
    <3>2. RoutersInstalled(probe.registered)'
      BY <1>3, <1>6, <2>1 DEF RoutersInstalled
    <3> QED
      BY <2>1, <3>1, <3>2
  <2>2. CASE ~ more
    <3>1. probe.registered + 1 = n
      BY <1>2, <2>2
    <3>2. RoutersInstalled(n)'
      BY <1>6, <3>1 DEF RoutersInstalled
    <3> QED
      BY <2>2, <3>2
  <2> QED
    BY <2>1, <2>2
<1>8. CASE probe.pass = "observed"
  <2>1. Follows' /\ SourceDue'
    BY <1>1, <1>3, <1>8, CurrentKept DEF ObservedInv
  <2>2. ObservedInv'
    BY <1>2, <1>3, <1>4, <1>5, <1>7, <1>8, <2>1 DEF ObservedInv
  <2> QED
    BY <1>3, <1>5, <1>8, <2>2 DEF ProbeInv, PassInv
<1>9. CASE probe.pass = "dispatch"
  <2>1. WholeEvents(probe.baseline)' /\ probe'.exact /\ probe'.input \in Seq(Nat)
    BY <1>1, <1>3, <1>4, <1>9, BaselineKept DEF DispatchInv
  <2>2. probe'.phase = "experts" => probe'.registered \in 0..n - 1 /\ ExpertsInstalled(probe.registered)'
    <3>1. n # 0
      BY AllSitesAre
    <3> HAVE probe'.phase = "experts"
    <3>2. probe'.registered = 0
      BY <1>3
    <3> QED
      BY <1>2, <3>1, <3>2 DEF ExpertsInstalled
  <2>3. DispatchInv'
    BY <1>2, <1>3, <1>4, <1>5, <1>7, <1>9, <2>1, <2>2 DEF DispatchInv
  <2> QED
    BY <1>3, <1>5, <1>9, <2>3 DEF ProbeInv, PassInv
<1> QED
  BY <1>1, <1>8, <1>9

LEMMA RegisterExpertsProbe ==
  ASSUME ProbeInv, RegisterExperts
  PROVE  ProbeInv'
<1> DEFINE n == Len(AllSites)
           more == probe.registered + 1 < n
<1>1. /\ probe.phase = "experts" /\ ProbeFields \subseteq DOMAIN probe /\ ProbeSetting
      /\ probe.pass = "dispatch" /\ DispatchInv
  BY InPass DEF RegisterExperts, BaselineInv, ObservedInv
<1>2. /\ probe.registered \in 0..n - 1 /\ RoutersInstalled(n) /\ ExpertsInstalled(probe.registered)
      /\ store = <<>> /\ GreedyRun(probe.baseline) /\ WholeEvents(probe.baseline) /\ probe.exact
      /\ probe.input \in Seq(Nat) /\ n \in Nat
  BY <1>1, AllSitesAre DEF DispatchInv
<1>3. /\ ProbeFields \subseteq DOMAIN probe'
      /\ probe'.pass = probe.pass /\ probe'.prompt = probe.prompt /\ probe'.horizon = probe.horizon
      /\ probe'.continuation = probe.continuation /\ probe'.exact = probe.exact
      /\ probe'.baseline = probe.baseline /\ probe'.input = probe.input
      /\ probe'.phase = IF more THEN "experts" ELSE "dispatch"
      /\ probe'.registered = probe.registered + 1
      /\ probe'.rows = [s \in Range(AllSites) |-> 0]
  BY <1>1 DEF RegisterExperts, ProbeFields
<1>4. /\ greedy' = greedy /\ store' = store /\ capture' = capture /\ hooked \subseteq hooked'
      /\ Hook("expert", AllSites[probe.registered + 1]) \in hooked'
  BY DEF RegisterExperts, Register
<1>5. ProbeSetting' /\ GreedyRun(probe.baseline)' /\ WholeEvents(probe.baseline)' /\ RoutersInstalled(n)'
  BY <1>1, <1>2, <1>3, <1>4, SettingKept, BaselineKept, HooksKept
<1>6. \A k \in 1..probe.registered + 1 : Hook("expert", AllSites[k])' \in hooked'
  <2>1. \A k \in 1..probe.registered + 1 : Hook("expert", AllSites[k]) \in hooked'
    BY <1>2, <1>4 DEF ExpertsInstalled
  <2>2. \A k \in 1..probe.registered + 1 : Hook("expert", AllSites[k])' = Hook("expert", AllSites[k])
    BY <1>4 DEF Hook
  <2> QED
    BY <2>1, <2>2
<1>7. IF more THEN probe'.registered \in 0..n - 1 /\ ExpertsInstalled(probe.registered)'
      ELSE ExpertsInstalled(n)'
  <2>1. CASE more
    <3>1. probe'.registered \in 0..n - 1
      BY <1>2, <1>3, <2>1
    <3>2. ExpertsInstalled(probe.registered)'
      BY <1>3, <1>6, <2>1 DEF ExpertsInstalled
    <3> QED
      BY <2>1, <3>1, <3>2
  <2>2. CASE ~ more
    <3>1. probe.registered + 1 = n
      BY <1>2, <2>2
    <3>2. ExpertsInstalled(n)'
      BY <1>6, <3>1 DEF ExpertsInstalled
    <3> QED
      BY <2>2, <3>2
  <2> QED
    BY <2>1, <2>2
<1>8. probe'.rows = [s \in Range(AllSites)' |-> 0]
  BY <1>3 DEF Range
<1>9. DispatchInv'
  BY <1>1, <1>2, <1>3, <1>4, <1>5, <1>7, <1>8 DEF DispatchInv
<1> QED
  BY <1>1, <1>3, <1>5, <1>9 DEF ProbeInv, PassInv

\* A call whose sites all have the hooks of this capture leaves them all.
LEMMA CaptureFills ==
  ASSUME NEW sites \in Seq(SwitchSites), store = <<>>,
         \A o \in 1..Len(sites) : Hook("router", sites[o]) \in hooked
  PROVE  store \o Seen(sites) = ReachedAt(sites)
<1>1. Seen(sites) = ReachedAt(sites)
  BY AllSeen
<1>2. ReachedAt(sites) \in Seq(Range(ReachedAt(sites)))
  <2>1. ReachedAt(sites) \in [1..Len(sites) -> Range(ReachedAt(sites))]
    BY DEF ReachedAt, Range
  <2>2. Len(sites) \in Nat
    BY LenProperties
  <2> QED
    BY <2>1, <2>2
<1> QED
  BY <1>1, <1>2, ConcatEmptySeq

LEMMA StageReached ==
  ASSUME RoutersInstalled(Len(AllSites)), store = <<>>
  PROVE  /\ store \o Seen(SitesOf("encoder")) = ReachedAt(SitesOf("encoder"))
         /\ store \o Seen(SitesOf("decoder")) = ReachedAt(SitesOf("decoder"))
         /\ store \o Seen(AllSites) = ReachedAt(AllSites)
<1>1. \A o \in 1..Len(SitesOf("encoder")) : Hook("router", SitesOf("encoder")[o]) \in hooked
  BY SitesOfStage, AllSitesAre DEF RoutersInstalled
<1>2. \A o \in 1..Len(SitesOf("decoder")) : Hook("router", SitesOf("decoder")[o]) \in hooked
  BY SitesOfStage, AllSitesAre DEF RoutersInstalled
<1>3. \A o \in 1..Len(AllSites) : Hook("router", AllSites[o]) \in hooked
  BY DEF RoutersInstalled
<1>4. store \o Seen(SitesOf("encoder")) = ReachedAt(SitesOf("encoder"))
  BY <1>1, SitesOfStage, CaptureFills
<1>5. store \o Seen(SitesOf("decoder")) = ReachedAt(SitesOf("decoder"))
  BY <1>2, SitesOfStage, CaptureFills
<1>6. store \o Seen(AllSites) = ReachedAt(AllSites)
  BY <1>3, AllSitesAre, CaptureFills
<1> QED
  BY <1>4, <1>5, <1>6

LEMMA AssignedIsNumber ==
  ASSUME NEW site, NEW tokens \in Seq(Nat)
  PROVE  Assigned(site, tokens) \in Nat
<1> DEFINE chosen == {i \in DOMAIN tokens : Selected(site, tokens[i]) # {}}
<1>1. DOMAIN tokens = 1..Len(tokens) /\ Len(tokens) \in Nat
  BY LenProperties
<1>2. IsFiniteSet(1..Len(tokens))
  BY <1>1, FS_Interval
<1>3. chosen \subseteq 1..Len(tokens)
  BY <1>1
<1>4. Cardinality(chosen) \in Nat
  <2> HIDE DEF chosen
  <2>1. IsFiniteSet(chosen)
    BY <1>2, <1>3, FS_Subset
  <2> QED
    BY <2>1, FS_CardinalityType
<1> QED
  BY <1>4 DEF Assigned

LEMMA RangeIsTaken ==
  ASSUME NEW s \in Range(AllSites)
  PROVE  \E k \in 1..Len(AllSites) : s = AllSites[k]
<1>1. DOMAIN AllSites = 1..Len(AllSites)
  BY AllSitesAre, LenProperties
<1> QED
  BY <1>1 DEF Range

\* A call that returns.
LEMMA CallProbe ==
  ASSUME ProbeInv, Call
  PROVE  ProbeInv'
<1>1. /\ probe.phase \in {"encoder", "decoder", "dispatch"}
      /\ ProbeFields \subseteq DOMAIN probe /\ ProbeSetting
      /\ probe.pass = "baseline" => BaselineInv
      /\ probe.pass = "observed" => ObservedInv
      /\ probe.pass = "dispatch" => DispatchInv
      /\ probe.pass \in {"baseline", "observed", "dispatch"}
  BY InPass DEF Call
<1>2. /\ ProbeFields \subseteq DOMAIN probe'
      /\ probe'.pass = probe.pass /\ probe'.prompt = probe.prompt /\ probe'.horizon = probe.horizon
      /\ probe'.continuation = probe.continuation /\ probe'.exact = probe.exact
      /\ probe'.baseline = probe.baseline /\ probe'.current = probe.current
      /\ probe'.phase = AfterCall /\ probe'.rows = CountRows(Called)
      /\ AfterCall # "decoder" => probe'.input = probe.input
  BY <1>1 DEF Call, ProbeFields
<1>3. greedy' = greedy /\ capture' = capture /\ hooked' = hooked
  BY DEF Call
<1>4. ProbeSetting'
  BY <1>1, <1>2, <1>3, SettingKept
<1>5. CASE probe.pass = "baseline"
  <2>1. BaselineInv
    BY <1>1, <1>5
  <2>2. probe'.phase \in {"decoder", "choose"}
    BY <1>1, <1>2, <1>5, <2>1 DEF AfterCall, Observed, AfterStage, BaselineInv
  <2>3. Follows'
    BY <1>1, <1>2, <2>1, CurrentKept DEF BaselineInv
  <2>4. BaselineInv'
    BY <2>2, <2>3 DEF BaselineInv
  <2> QED
    BY <1>2, <1>4, <1>5, <2>4 DEF ProbeInv, PassInv
<1>6. CASE probe.pass = "observed"
  <2>1. ObservedInv /\ probe.phase \in {"encoder", "decoder"}
    BY <1>1, <1>6 DEF ObservedInv
  <2>2. probe'.phase = "take" /\ probe'.input = probe.input
    BY <1>2, <1>6 DEF AfterCall, Observed
  <2>3. GreedyRun(probe.baseline)' /\ Follows' /\ RoutersInstalled(Len(AllSites))'
    BY <1>2, <1>3, <2>1, BaselineKept, CurrentKept, HooksKept DEF ObservedInv
  <2>4. store' = ReachedAt(SitesOf(probe.phase))
    <3>1. store' = store \o Seen(SitesOf(probe.phase)) /\ store = <<>>
      BY <1>6, <2>1 DEF Call, Observed, Called, ObservedInv
    <3>2. RoutersInstalled(Len(AllSites))
      BY <2>1 DEF ObservedInv
    <3> QED
      BY <2>1, <3>1, <3>2, StageReached
  <2>5. /\ ReachedAt(SitesOf("encoder"))' = ReachedAt(SitesOf("encoder"))
        /\ ReachedAt(SitesOf("decoder"))' = ReachedAt(SitesOf("decoder"))
    BY <1>2, <2>2 DEF ReachedAt, TokensFor
  <2>6. probe.phase = "encoder" => SourceDue'
    BY <1>2, <2>1, <2>2, CurrentKept DEF ObservedInv
  <2>7. probe.phase = "decoder" => RowDue'
    BY <1>2, <2>1, <2>2, CurrentKept DEF ObservedInv
  <2>8. ObservedInv'
    BY <2>1, <2>2, <2>3, <2>4, <2>5, <2>6, <2>7 DEF ObservedInv
  <2> QED
    BY <1>2, <1>4, <1>6, <2>8 DEF ProbeInv, PassInv
<1>7. CASE probe.pass = "dispatch"
  <2>1. DispatchInv /\ probe.phase = "dispatch"
    BY <1>1, <1>7 DEF DispatchInv
  <2>2. probe'.phase = "take" /\ probe'.input = probe.input
    BY <1>2, <1>7 DEF AfterCall, Observed
  <2>3. GreedyRun(probe.baseline)' /\ WholeEvents(probe.baseline)' /\ probe'.exact
    BY <1>2, <1>3, <2>1, BaselineKept DEF DispatchInv
  <2>4. store' = ReachedAt(AllSites)
    <3>1. store' = store \o Seen(AllSites) /\ store = <<>>
      BY <1>7, <2>1 DEF Call, Observed, Called, DispatchInv
    <3>2. RoutersInstalled(Len(AllSites))
      BY <2>1 DEF DispatchInv
    <3> QED
      BY <3>1, <3>2, StageReached
  <2>5. ReachedAt(AllSites)' = ReachedAt(AllSites)
    BY <1>2, <2>2 DEF ReachedAt, TokensFor
  <2>6. ASSUME NEW s \in Range(AllSites)
        PROVE  probe'.rows[s] = Assigned(s, TokensFor(s))
    <3>1. Hook("expert", s) \in hooked
      BY <2>1, RangeIsTaken DEF DispatchInv, ExpertsInstalled
    <3>2. DOMAIN probe.rows = Range(AllSites) /\ probe.rows[s] = 0
      BY <2>1 DEF DispatchInv
    <3>3. probe'.rows = CountRows(AllSites)
      BY <1>2, <2>1 DEF Called
    <3>4. probe'.rows[s] = 0 + Assigned(s, TokensFor(s))
      BY <3>1, <3>2, <3>3 DEF CountRows
    <3>5. TokensFor(s) \in Seq(Nat)
      <4>1. probe.input \in Seq(Nat) /\ <<DecoderStart>> \in Seq(Nat)
        BY <2>1, LayersAreNumbers DEF DispatchInv
      <4> QED
        BY <4>1 DEF TokensFor
    <3>6. Assigned(s, TokensFor(s)) \in Nat
      BY <3>5, AssignedIsNumber
    <3> QED
      BY <3>4, <3>6
  <2>7. \A s \in Range(AllSites) : TokensFor(s)' = TokensFor(s)
    BY <1>2, <2>2 DEF TokensFor
  <2>8. (\A s \in Range(AllSites) : probe.rows[s] = Assigned(s, TokensFor(s)))'
    <3>1. \A s \in Range(AllSites) : probe'.rows[s] = Assigned(s, TokensFor(s)')
      BY <2>6, <2>7
    <3> QED
      BY <3>1
  <2>9. DispatchInv'
    BY <2>2, <2>3, <2>4, <2>5, <2>8 DEF DispatchInv
  <2> QED
    BY <1>2, <1>4, <1>7, <2>9 DEF ProbeInv, PassInv
<1> QED
  BY <1>1, <1>5, <1>6, <1>7

\* A failure under observation ends in the exit of the contexts.
LEMMA FailedProbe ==
  ASSUME ProbeInv, probe.phase # "idle", Observed, greedy' = greedy,
         probe' = [probe EXCEPT !.phase = "exit", !.failed = TRUE]
  PROVE  ProbeInv'
<1>1. /\ ProbeFields \subseteq DOMAIN probe /\ ProbeSetting
      /\ probe.pass = "observed" => ObservedInv
      /\ probe.pass = "dispatch" => DispatchInv
      /\ probe.pass \in {"observed", "dispatch"}
  BY InPass DEF Observed
<1>2. /\ ProbeFields \subseteq DOMAIN probe'
      /\ probe'.pass = probe.pass /\ probe'.prompt = probe.prompt /\ probe'.horizon = probe.horizon
      /\ probe'.continuation = probe.continuation /\ probe'.exact = probe.exact
      /\ probe'.baseline = probe.baseline
      /\ probe'.phase = "exit" /\ probe'.failed
  BY <1>1 DEF ProbeFields
<1>3. ProbeSetting'
  BY <1>1, <1>2, SettingKept
<1>4. CASE probe.pass = "observed"
  <2>1. GreedyRun(probe.baseline)'
    BY <1>1, <1>2, <1>4, BaselineKept DEF ObservedInv
  <2>2. ObservedInv'
    BY <1>2, <2>1 DEF ObservedInv
  <2> QED
    BY <1>2, <1>3, <1>4, <2>2 DEF ProbeInv, PassInv
<1>5. CASE probe.pass = "dispatch"
  <2>1. GreedyRun(probe.baseline)' /\ WholeEvents(probe.baseline)' /\ probe'.exact
    BY <1>1, <1>2, <1>5, BaselineKept DEF DispatchInv
  <2>2. DispatchInv'
    BY <1>2, <2>1 DEF DispatchInv
  <2> QED
    BY <1>2, <1>3, <1>5, <2>2 DEF ProbeInv, PassInv
<1> QED
  BY <1>1, <1>4, <1>5

LEMMA CallFailsProbe ==
  ASSUME ProbeInv, CallFails
  PROVE  ProbeInv'
<1>1. CASE ~ Observed
  BY <1>1, GivenUp DEF CallFails, GiveUp
<1>2. CASE Observed
  BY <1>2, FailedProbe DEF CallFails
<1> QED
  BY <1>1, <1>2

\* The observations of a call become events, or dispatch checks.
LEMMA TakeProbe ==
  ASSUME ProbeInv, TakeObservations
  PROVE  ProbeInv'
<1> DEFINE fails == store = <<>> \/ ~ CameFrom(Expected)
<1>1. /\ probe.phase = "take"
      /\ ProbeFields \subseteq DOMAIN probe /\ ProbeSetting
      /\ probe.pass = "observed" => ObservedInv
      /\ probe.pass = "dispatch" => DispatchInv
      /\ probe.pass \in {"observed", "dispatch"}
  BY InPass DEF TakeObservations, BaselineInv
<1>2. greedy' = greedy /\ store' = <<>> /\ hooked' = hooked /\ capture' = capture
  BY DEF TakeObservations
<1>3. CASE fails
  <2>1. probe' = [probe EXCEPT !.phase = "exit", !.failed = TRUE]
    BY <1>3 DEF TakeObservations
  <2> QED
    BY <1>1, <1>2, <2>1, FailedProbe DEF Observed
<1>4. CASE ~ fails /\ probe.pass = "dispatch"
  <2>1. probe' = [probe EXCEPT !.phase = "exit", !.checks = DispatchChecks]
    BY <1>4 DEF TakeObservations
  <2>2. /\ ProbeFields \subseteq DOMAIN probe'
        /\ probe'.pass = probe.pass /\ probe'.prompt = probe.prompt /\ probe'.horizon = probe.horizon
        /\ probe'.continuation = probe.continuation /\ probe'.exact = probe.exact
        /\ probe'.baseline = probe.baseline
        /\ probe'.phase = "exit" /\ probe'.checks = DispatchChecks
    BY <1>1, <2>1 DEF ProbeFields
  <2>3. ProbeSetting' /\ GreedyRun(probe.baseline)' /\ WholeEvents(probe.baseline)' /\ probe'.exact
    BY <1>1, <1>2, <1>4, <2>2, SettingKept, BaselineKept DEF DispatchInv
  <2>4. RowsCounted'
    <3>1. /\ store = ReachedAt(AllSites)
          /\ \A s \in Range(AllSites) : probe.rows[s] = Assigned(s, TokensFor(s))
      BY <1>1, <1>4 DEF DispatchInv
    <3>2. ASSUME NEW o \in DOMAIN store
          PROVE  DispatchChecks[o].assigned = DispatchChecks[o].rows
      <4>1. /\ o \in 1..Len(AllSites) /\ DOMAIN AllSites = 1..Len(AllSites)
            /\ store[o].site = AllSites[o] /\ store[o].tokens = TokensFor(AllSites[o])
        BY <3>1, ReachedSites, AllSitesAre, LenProperties
      <4>2. AllSites[o] \in Range(AllSites)
        BY <4>1 DEF Range
      <4> QED
        BY <3>1, <4>1, <4>2 DEF DispatchChecks
    <3>3. DOMAIN DispatchChecks = DOMAIN store
      BY DEF DispatchChecks
    <3> QED
      BY <2>2, <3>2, <3>3 DEF RowsCounted
  <2>5. DispatchInv'
    BY <2>2, <2>3, <2>4 DEF DispatchInv
  <2> QED
    BY <1>4, <2>2, <2>3, <2>5 DEF ProbeInv, PassInv
<1>5. CASE ~ fails /\ probe.pass = "observed"
  <2> DEFINE events == probe.current.events \o SwitchEvents
             fed == probe.current.fed
             prompt == probe.prompt
  <2>1. ObservedInv /\ Follows /\ RoutersInstalled(Len(AllSites)) /\ prompt \in DOMAIN Prompts
    BY <1>1, <1>5 DEF ObservedInv, ProbeSetting
  <2>2. probe' = [probe EXCEPT
            !.phase = AfterStage(Stage), !.current.events = @ \o SwitchEvents,
            !.input = IF Stage = "encoder" THEN <<DecoderStart>> ELSE @]
    BY <1>5 DEF TakeObservations
  <2>3. /\ ProbeFields \subseteq DOMAIN probe'
        /\ probe'.pass = probe.pass /\ probe'.prompt = prompt /\ probe'.horizon = probe.horizon
        /\ probe'.continuation = probe.continuation
        /\ probe'.baseline = probe.baseline
        /\ probe'.phase = AfterStage(Stage)
        /\ Stage = "encoder" => probe'.input = <<DecoderStart>>
        /\ GenerationFields \subseteq DOMAIN probe'.current
        /\ probe'.current.fed = fed /\ probe'.current.candidates = probe.current.candidates
        /\ probe'.current.events = events
    BY <1>1, <2>1, <2>2 DEF ProbeFields, GenerationFields, Follows
  <2> HIDE DEF events, fed, prompt
  <2>4. ProbeSetting' /\ GreedyRun(probe.baseline)' /\ RoutersInstalled(Len(AllSites))'
    BY <1>1, <1>2, <2>1, <2>3, SettingKept, BaselineKept, HooksKept DEF ObservedInv, prompt
  <2>5. Follows'
    BY <2>1, <2>3 DEF Follows, fed
  <2>6. fed \in Seq(Nat)
    BY <2>1 DEF Follows, fed
  <2>7. CASE SourceDue /\ store = ReachedAt(SitesOf("encoder"))
    <3>1. Stage = "encoder" /\ SwitchEvents = SourcePart(prompt)
      BY <1>5, <2>1, <2>7, SourceTaken DEF SourceDue, prompt
    <3>2. events = SourcePart(prompt) /\ fed = <<>>
      <4>1. SourcePart(prompt) \in Seq(SwitchEventsOf)
        BY <2>1, SourceEntry
      <4>2. <<>> \o SourcePart(prompt) = SourcePart(prompt)
        BY <4>1, ConcatEmptySeq
      <4> QED
        BY <2>7, <3>1, <4>2 DEF SourceDue, events, fed
    <3>3. FedAt(<<>>, Len(<<>>)) = DecoderStart
      BY DEF FedAt
    <3>4. events \o DecoderRow(fed) = WholeSwitchRun(prompt, fed)
      BY <2>1, <3>2, SwitchRunBegins
    <3>5. RowDue'
      <4>1. probe'.input = <<FedAt(fed, Len(fed))>>
        BY <2>3, <3>1, <3>2, <3>3
      <4>2. DecoderRow(fed)' = DecoderRow(fed)' /\ WholeSwitchRun(prompt, fed)' = WholeSwitchRun(prompt, fed)'
        OBVIOUS
      <4> QED
        BY <2>3, <3>4, <4>1 DEF RowDue
    <3>6. probe'.phase = "decoder"
      BY <2>3, <3>1 DEF AfterStage
    <3>7. ObservedInv'
      BY <1>2, <2>4, <2>5, <3>5, <3>6 DEF ObservedInv
    <3> QED
      BY <1>5, <2>3, <2>4, <3>7 DEF ProbeInv, PassInv
  <2>8. CASE RowDue /\ store = ReachedAt(SitesOf("decoder"))
    <3>1. Stage = "decoder" /\ SwitchEvents = DecoderRow(fed)
      <4>1. probe.input = <<FedAt(fed, Len(fed))>> /\ probe.current.fed = fed
            /\ probe.current.candidates = fed
        BY <2>1, <2>8 DEF RowDue, Follows, fed
      <4> QED
        BY <1>5, <2>6, <2>8, <4>1, RowTaken
    <3>2. events = WholeSwitchRun(prompt, fed)
      BY <2>8, <3>1 DEF RowDue, events, fed, prompt
    <3>3. WholeEvents(probe.current)'
      BY <2>3, <3>2 DEF WholeEvents
    <3>4. probe'.phase = "choose"
      BY <2>3, <3>1 DEF AfterStage
    <3>5. ObservedInv'
      BY <1>2, <2>4, <2>5, <3>3, <3>4 DEF ObservedInv
    <3> QED
      BY <1>5, <2>3, <2>4, <3>5 DEF ProbeInv, PassInv
  <2> QED
    BY <1>1, <2>1, <2>7, <2>8 DEF ObservedInv
<1> QED
  BY <1>1, <1>3, <1>4, <1>5

\* What holds when a candidate is examined.
LEMMA AtCandidate ==
  ASSUME ProbeInv, probe.phase = "choose"
  PROVE  /\ ProbeFields \subseteq DOMAIN probe /\ ProbeSetting /\ Follows
         /\ probe.pass \in {"baseline", "observed"}
         /\ probe.pass = "baseline" => probe.continuation = greedy
         /\ probe.pass = "observed" => ObservedInv /\ WholeEvents(probe.current) /\ store = <<>>
         /\ NextCandidate = probe.continuation[Len(probe.current.fed) + 1] /\ NextCandidate \in Nat
         /\ Len(probe.current.fed) \in 0..probe.horizon /\ probe.horizon \in Nat
<1>1. /\ ProbeFields \subseteq DOMAIN probe /\ ProbeSetting /\ Follows
      /\ probe.pass \in {"baseline", "observed"}
      /\ probe.pass = "observed" => ObservedInv /\ WholeEvents(probe.current) /\ store = <<>>
  BY InPass DEF BaselineInv, ObservedInv, DispatchInv
<1>2. /\ probe.continuation \in Seq(Nat) /\ Len(probe.continuation) = Horizon + 1
      /\ probe.horizon \in 0..Horizon /\ Horizon \in Nat
      /\ Len(probe.current.fed) \in Nat /\ Len(probe.current.fed) <= probe.horizon
  BY <1>1, ModelAssumption, LenProperties DEF ProbeSetting, Follows
<1>3. Len(probe.current.fed) + 1 \in 1..Len(probe.continuation)
  BY <1>2
<1>4. NextCandidate \in Nat
  BY <1>2, <1>3, ElementOfSeq DEF NextCandidate
<1>5. probe.pass = "baseline" => probe.continuation = greedy
  BY <1>1 DEF ProbeSetting
<1> QED
  BY <1>1, <1>2, <1>4, <1>5 DEF NextCandidate

LEMMA EndProbe ==
  ASSUME ProbeInv, EndGeneration
  PROVE  ProbeInv'
<1>1. probe.phase = "choose" /\ (IsEos \/ AllFed)
  BY DEF EndGeneration
<1>2. /\ ProbeFields \subseteq DOMAIN probe'
      /\ probe'.pass = probe.pass /\ probe'.prompt = probe.prompt /\ probe'.horizon = probe.horizon
      /\ probe'.continuation = probe.continuation
      /\ probe'.baseline = probe.baseline
      /\ probe'.phase = AfterGeneration
      /\ probe'.current.fed = probe.current.fed /\ probe'.current.events = probe.current.events
      /\ probe'.current.terminal = IF IsEos THEN NextCandidate ELSE NoToken
      /\ greedy' = greedy
  BY <1>1, AtCandidate DEF EndGeneration, ProbeFields, GenerationFields, Follows, modelVars
<1>3. ProbeSetting'
  BY <1>1, <1>2, AtCandidate, SettingKept
<1>4. CASE probe.pass = "baseline"
  <2> DEFINE fed == probe.current.fed
  <2>1. /\ fed \in Seq(Nat) /\ Len(fed) <= probe.horizon
        /\ \A i \in 1..Len(fed) : fed[i] = greedy[i] /\ greedy[i] \notin EosTokens
    BY <1>1, <1>4, AtCandidate DEF Follows
  <2>2. NextCandidate = greedy[Len(fed) + 1]
    BY <1>1, <1>4, AtCandidate
  <2>3. Len(fed) = probe.horizon \/ greedy[Len(fed) + 1] \in EosTokens
    BY <1>1, <2>2 DEF AllFed, IsEos
  <2>4. probe'.current.terminal = Ending(greedy, Len(fed), TRUE)
    BY <1>2, <2>2 DEF Ending, IsEos
  <2>5. Ending(greedy, Len(fed), TRUE)' = Ending(greedy, Len(fed), TRUE)
    BY <1>2 DEF Ending
  <2>6. GreedyRun(probe.current)'
    BY <1>2, <2>1, <2>3, <2>4, <2>5 DEF GreedyRun
  <2>7. probe'.phase = "observe"
    BY <1>2, <1>4 DEF AfterGeneration, Observed
  <2>8. BaselineInv'
    BY <2>6, <2>7 DEF BaselineInv
  <2> QED
    BY <1>2, <1>3, <1>4, <2>8 DEF ProbeInv, PassInv
<1>5. CASE probe.pass = "observed"
  <2>1. probe'.phase = "exit"
    BY <1>2, <1>5 DEF AfterGeneration, Observed
  <2>2. WholeEvents(probe.current)'
    BY <1>1, <1>2, <1>5, AtCandidate DEF WholeEvents
  <2>3. GreedyRun(probe.baseline)'
    BY <1>1, <1>2, <1>5, AtCandidate, BaselineKept DEF ObservedInv
  <2>4. ObservedInv'
    BY <2>1, <2>2, <2>3 DEF ObservedInv
  <2> QED
    BY <1>2, <1>3, <1>5, <2>4 DEF ProbeInv, PassInv
<1> QED
  BY <1>1, <1>4, <1>5, AtCandidate

LEMMA FeedProbe ==
  ASSUME ProbeInv, FeedDecoder
  PROVE  ProbeInv'
<1> DEFINE old == probe.current.fed
           c == NextCandidate
           new == Append(old, c)
<1>1. probe.phase = "choose" /\ ~ IsEos /\ ~ AllFed
  BY DEF FeedDecoder
<1>2. /\ ProbeFields \subseteq DOMAIN probe'
      /\ probe'.pass = probe.pass /\ probe'.prompt = probe.prompt /\ probe'.horizon = probe.horizon
      /\ probe'.continuation = probe.continuation
      /\ probe'.baseline = probe.baseline
      /\ probe'.phase = "decoder" /\ probe'.input = <<c>>
      /\ GenerationFields \subseteq DOMAIN probe'.current
      /\ probe'.current.fed = new /\ probe'.current.events = probe.current.events
      /\ probe'.current.candidates = WithNext
      /\ greedy' = greedy /\ store' = store /\ hooked' = hooked /\ capture' = capture
  BY <1>1, AtCandidate DEF FeedDecoder, ProbeFields, GenerationFields, Follows, modelVars
<1>3. ProbeSetting'
  BY <1>1, <1>2, AtCandidate, SettingKept
<1>4. /\ old \in Seq(Nat) /\ c \in Nat /\ Len(old) \in Nat /\ probe.current.candidates = old
      /\ c = probe.continuation[Len(old) + 1] /\ c \notin EosTokens
      /\ Len(old) \in 0..probe.horizon /\ Len(old) # probe.horizon /\ probe.horizon \in Nat
      /\ \A i \in 1..Len(old) :
            old[i] = probe.continuation[i] /\ probe.continuation[i] \notin EosTokens
  BY <1>1, AtCandidate DEF Follows, IsEos, AllFed
<1>5. /\ new \in Seq(Nat) /\ Len(new) = Len(old) + 1 /\ new[Len(old) + 1] = c
      /\ \A i \in 1..Len(old) : new[i] = old[i]
  BY <1>4, AppendProperties
<1>6. WithNext = new
  BY <1>4 DEF WithNext
<1> HIDE DEF new, old, c
<1>7. Follows'
  <2>1. Len(new) <= probe.horizon
    BY <1>4, <1>5
  <2>2. \A i \in 1..Len(new) : new[i] = probe.continuation[i] /\ probe.continuation[i] \notin EosTokens
    <3> TAKE i \in 1..Len(new)
    <3>1. CASE i \in 1..Len(old)
      BY <1>4, <1>5, <3>1
    <3>2. CASE i = Len(old) + 1
      BY <1>4, <1>5, <3>2
    <3> QED
      BY <1>4, <1>5, <3>1, <3>2
  <2> QED
    BY <1>2, <1>5, <1>6, <2>1, <2>2 DEF Follows
<1>8. CASE probe.pass = "baseline"
  <2>1. BaselineInv'
    BY <1>2, <1>7 DEF BaselineInv
  <2> QED
    BY <1>2, <1>3, <1>8, <2>1 DEF ProbeInv, PassInv
<1>9. CASE probe.pass = "observed"
  <2>1. /\ probe.current.events = WholeSwitchRun(probe.prompt, old)
        /\ probe.prompt \in DOMAIN Prompts /\ store = <<>> /\ ObservedInv
    BY <1>1, <1>9, AtCandidate DEF WholeEvents, ProbeSetting, old
  <2>2. probe.current.events \o DecoderRow(new) = WholeSwitchRun(probe.prompt, new)
    <3>1. WholeSwitchRun(probe.prompt, Append(old, c))
            = WholeSwitchRun(probe.prompt, old) \o DecoderRow(Append(old, c))
      BY <1>4, <2>1, SwitchRunGrows
    <3> QED
      BY <2>1, <3>1 DEF new
  <2>3. FedAt(new, Len(new)) = c
    BY <1>4, <1>5 DEF FedAt
  <2>4. RowDue'
    BY <1>2, <2>2, <2>3 DEF RowDue
  <2>5. GreedyRun(probe.baseline)' /\ RoutersInstalled(Len(AllSites))'
    BY <1>1, <1>2, <2>1, BaselineKept, HooksKept DEF ObservedInv
  <2>6. ObservedInv'
    BY <1>2, <1>7, <2>1, <2>4, <2>5 DEF ObservedInv
  <2> QED
    BY <1>2, <1>3, <1>9, <2>6 DEF ProbeInv, PassInv
<1> QED
  BY <1>1, <1>8, <1>9, AtCandidate

LEMMA ObserveProbe ==
  ASSUME ProbeInv, Observe
  PROVE  ProbeInv'
<1>1. /\ probe.phase = "observe" /\ ProbeFields \subseteq DOMAIN probe /\ ProbeSetting
      /\ probe.pass = "baseline" /\ GreedyRun(probe.current)
  BY InPass DEF Observe, BaselineInv, ObservedInv, DispatchInv
<1>2. PICK continuation \in Continuations, exact \in BOOLEAN :
         probe' = [Begins("observed") EXCEPT !.baseline = probe.current,
                                             !.continuation = continuation, !.exact = exact]
  BY DEF Observe
<1>3. /\ ProbeFields \subseteq DOMAIN probe' /\ probe'.phase = "register" /\ probe'.pass = "observed"
      /\ probe'.prompt = probe.prompt /\ probe'.horizon = probe.horizon
      /\ probe'.continuation = continuation /\ probe'.baseline = probe.current
      /\ probe'.current = Generation /\ probe'.input = Prompts[probe.prompt]
      /\ probe'.registered = 0
  BY <1>1, <1>2 DEF Begins, ProbeFields
<1>4. greedy' = greedy /\ store' = <<>>
  BY DEF Observe, NewCapture
<1>5. ProbeSetting'
  BY <1>1, <1>3, <1>4 DEF ProbeSetting
<1>6. Follows' /\ SourceDue'
  <2>1. probe.horizon \in Nat
    BY <1>1, ModelAssumption DEF ProbeSetting
  <2> QED
    BY <1>3, <2>1 DEF Follows, SourceDue, Generation, GenerationFields
<1>7. GreedyRun(probe.baseline)'
  BY <1>1, <1>3, <1>4 DEF GreedyRun, Ending
<1>8. probe'.registered \in 0..Len(AllSites) - 1 /\ RoutersInstalled(probe.registered)'
  BY <1>3, AllSitesAre DEF RoutersInstalled
<1>9. ObservedInv'
  BY <1>3, <1>4, <1>6, <1>7, <1>8 DEF ObservedInv
<1> QED
  BY <1>3, <1>5, <1>9 DEF ProbeInv, PassInv

LEMMA ExitProbeInv ==
  ASSUME ProbeInv, ExitProbe
  PROVE  ProbeInv'
<1>1. /\ probe.phase = "exit" /\ ProbeFields \subseteq DOMAIN probe /\ ProbeSetting
      /\ probe.pass = "observed" => ObservedInv
      /\ probe.pass = "dispatch" => DispatchInv
      /\ probe.pass \in {"observed", "dispatch"} /\ greedy' = greedy
  BY InPass DEF ExitProbe, BaselineInv
<1>2. CASE GiveUp
  BY <1>2, GivenUp DEF GiveUp
<1>3. CASE ~ GiveUp
  <2>1. /\ ~ probe.failed
        /\ probe' = [probe EXCEPT !.phase = IF probe.pass = "observed" THEN "compare" ELSE "finish"]
    BY <1>3 DEF ExitProbe
  <2>2. /\ ProbeFields \subseteq DOMAIN probe'
        /\ probe'.pass = probe.pass /\ probe'.prompt = probe.prompt /\ probe'.horizon = probe.horizon
        /\ probe'.continuation = probe.continuation /\ probe'.exact = probe.exact
        /\ probe'.baseline = probe.baseline /\ probe'.current = probe.current
        /\ probe'.checks = probe.checks
        /\ probe'.phase = IF probe.pass = "observed" THEN "compare" ELSE "finish"
    BY <1>1, <2>1 DEF ProbeFields
  <2>3. ProbeSetting'
    BY <1>1, <2>2, SettingKept
  <2>4. CASE probe.pass = "observed"
    <3>1. GreedyRun(probe.baseline)' /\ WholeEvents(probe.current)'
      BY <1>1, <2>1, <2>2, <2>4, BaselineKept, CurrentKept DEF ObservedInv
    <3>2. ObservedInv'
      BY <2>2, <2>4, <3>1 DEF ObservedInv
    <3> QED
      BY <2>2, <2>3, <2>4, <3>2 DEF ProbeInv, PassInv
  <2>5. CASE probe.pass = "dispatch"
    <3>1. GreedyRun(probe.baseline)' /\ WholeEvents(probe.baseline)' /\ probe'.exact
      BY <1>1, <2>2, <2>5, BaselineKept DEF DispatchInv
    <3>2. RowsCounted'
      BY <1>1, <2>1, <2>2, <2>5 DEF DispatchInv, RowsCounted
    <3>3. DispatchInv'
      BY <2>2, <2>5, <3>1, <3>2 DEF DispatchInv
    <3> QED
      BY <2>2, <2>3, <2>5, <3>3 DEF ProbeInv, PassInv
  <2> QED
    BY <1>1, <2>4, <2>5
<1> QED
  BY <1>2, <1>3

LEMMA CompareProbe ==
  ASSUME ProbeInv, Compare
  PROVE  ProbeInv'
<1>1. /\ probe.phase = "compare" /\ ProbeFields \subseteq DOMAIN probe /\ ProbeSetting
      /\ probe.pass = "observed" /\ GreedyRun(probe.baseline) /\ WholeEvents(probe.current)
      /\ greedy' = greedy
  BY InPass DEF Compare, BaselineInv, ObservedInv, DispatchInv
<1>2. CASE ~ IdenticalRuns
  BY <1>2, GivenUp DEF Compare, GiveUp
<1>3. CASE IdenticalRuns
  <2>1. /\ probe' = [Begins("dispatch") EXCEPT !.baseline = probe.current] /\ store' = <<>>
    BY <1>3 DEF Compare, NewCapture
  <2>2. /\ ProbeFields \subseteq DOMAIN probe' /\ probe'.phase = "register" /\ probe'.pass = "dispatch"
        /\ probe'.prompt = probe.prompt /\ probe'.horizon = probe.horizon
        /\ probe'.continuation = probe.continuation /\ probe'.exact = probe.exact
        /\ probe'.baseline = probe.current
        /\ probe'.input = Prompts[probe.prompt] /\ probe'.registered = 0
    BY <1>1, <2>1 DEF Begins, ProbeFields
  <2>3. ProbeSetting'
    BY <1>1, <2>2 DEF ProbeSetting
  <2>4. GreedyRun(probe.current)
    BY <1>1, <1>3 DEF IdenticalRuns, GreedyRun
  <2>5. GreedyRun(probe.baseline)' /\ WholeEvents(probe.baseline)' /\ probe'.exact
    <3>1. GreedyRun(probe.baseline)'
      BY <1>1, <2>2, <2>4 DEF GreedyRun, Ending
    <3>2. WholeEvents(probe.baseline)'
      BY <1>1, <2>2 DEF WholeEvents
    <3>3. probe'.exact
      BY <1>3, <2>2 DEF IdenticalRuns
    <3> QED
      BY <3>1, <3>2, <3>3
  <2>6. probe'.input \in Seq(Nat)
    BY <1>1, <2>2, ModelAssumption DEF ProbeSetting
  <2>7. probe'.registered \in 0..Len(AllSites) - 1 /\ RoutersInstalled(probe.registered)'
    BY <2>2, AllSitesAre DEF RoutersInstalled
  <2>8. DispatchInv'
    BY <2>1, <2>2, <2>5, <2>6, <2>7 DEF DispatchInv
  <2> QED
    BY <2>2, <2>3, <2>8 DEF ProbeInv, PassInv
<1> QED
  BY <1>2, <1>3

\* Every step keeps the invariant.
LEMMA SwitchRuns ==
  ASSUME ProbeInv, SwitchStep
  PROVE  ProbeInv'
<1>1. CASE RouterRegistrationFails \/ ExpertRegistrationFails \/ Finish
  <2>1. probe' = AtRestProbe
    BY <1>1 DEF RouterRegistrationFails, ExpertRegistrationFails, Finish, GiveUp
  <2> QED
    BY <2>1, GivenUp
<1>2. CASE RegisterRouter \/ RegisterExperts
  BY <1>2, RegisterProbe, RegisterExpertsProbe
<1>3. CASE Call \/ CallFails \/ TakeObservations
  BY <1>3, CallProbe, CallFailsProbe, TakeProbe
<1>4. CASE EndGeneration \/ FeedDecoder
  BY <1>4, EndProbe, FeedProbe
<1>5. CASE Observe \/ ExitProbe \/ Compare
  BY <1>5, ObserveProbe, ExitProbeInv, CompareProbe
<1> QED
  BY <1>1, <1>2, <1>3, <1>4, <1>5 DEF SwitchStep

-----------------------------------------------------------------------------
(***************************************************************************)
(* A whole run is a trace of format 2.  Each of its events has a place, in *)
(* the source or in a call of the decoder, and the places determine the    *)
(* order.                                                                  *)
(***************************************************************************)
\* what may be fed
Chosen(fed) == \A i \in 1..Len(fed) : fed[i] \in Tokens

\* the event at a place
SourceAt(prompt, fed, k, l, i) ==
  /\ l \in 0..Len(Enc) - 1 /\ i \in 0..Len(Prompts[prompt]) - 1
  /\ k = l * Len(Prompts[prompt]) + i + 1
  /\ WholeSwitchRun(prompt, fed)[k]
       = SwitchEventAt("encoder", "source", i, Enc[l + 1], Prompts[prompt][i + 1])

DecoderAt(prompt, fed, k, s, l) ==
  /\ s \in 0..Len(fed) /\ l \in 0..Len(Dec) - 1
  /\ k = Len(Enc) * Len(Prompts[prompt]) + (s * Len(Dec) + l) + 1
  /\ WholeSwitchRun(prompt, fed)[k]
       = SwitchEventAt("decoder", PhaseAt(s), s, Dec[l + 1], FedAt(fed, s))

\* Sizes are numbers.
LEMMA SwitchNumbers ==
  ASSUME NEW prompt \in DOMAIN Prompts, NEW fed \in Seq(Nat)
  PROVE  /\ Prompts[prompt] \in Seq(Nat) /\ Len(Prompts[prompt]) \in Nat \ {0}
         /\ Len(fed) \in Nat /\ Len(Enc) \in Nat /\ Len(Dec) \in Nat /\ Len(Enc) + Len(Dec) # 0
         /\ Len(Enc) * Len(Prompts[prompt]) \in Nat /\ (Len(fed) + 1) * Len(Dec) \in Nat
<1>1. Prompts[prompt] \in Seq(Nat) /\ Len(Prompts[prompt]) \in Nat \ {0} /\ Len(fed) \in Nat
  BY ModelAssumption, EmptySeq, LenProperties
<1>2. Len(Enc) \in Nat /\ Len(Dec) \in Nat /\ Len(Enc) + Len(Dec) # 0
  BY LayersAreNumbers
<1> DEFINE a == Len(Enc)
           b == Len(Dec)
           n == Len(Prompts[prompt])
           m == Len(fed)
<1>3. a \in Nat /\ b \in Nat /\ n \in Nat /\ m \in Nat
  BY <1>1, <1>2
<1> HIDE DEF a, b, n, m
<1>4. a * n \in Nat /\ (m + 1) * b \in Nat
  BY <1>3
<1> QED
  BY <1>1, <1>2, <1>4 DEF a, b, n, m

\* The two parts one after the other.
LEMMA SwitchSize ==
  ASSUME NEW prompt \in DOMAIN Prompts, NEW fed \in Seq(Nat)
  PROVE  LET a == Len(Enc) * Len(Prompts[prompt])
             b == (Len(fed) + 1) * Len(Dec)
             events == WholeSwitchRun(prompt, fed)
         IN  /\ events \in Seq(SwitchEventsOf) /\ DOMAIN events = 1..a + b /\ Len(events) = a + b
             /\ a \in Nat /\ b \in Nat
             /\ \A k \in 1..a : events[k] = SourcePart(prompt)[k]
             /\ \A k \in 1..b : events[a + k] = DecoderPart(fed)[k]
<1> DEFINE p == SourcePart(prompt)
           g == DecoderPart(fed)
           a == Len(Enc) * Len(Prompts[prompt])
           b == (Len(fed) + 1) * Len(Dec)
<1>1. p \in Seq(SwitchEventsOf) /\ Len(p) = a /\ g \in Seq(SwitchEventsOf) /\ Len(g) = b
  BY SourceEntry, DecoderEntry
<1>2. WholeSwitchRun(prompt, fed) = p \o g
  BY SwitchWholeIsParts
<1>3. a \in Nat /\ b \in Nat
  BY <1>1, LenProperties
<1> HIDE DEF p, g, a, b
<1>4. /\ p \o g \in Seq(SwitchEventsOf) /\ Len(p \o g) = a + b
      /\ \A k \in 1..a + b : (p \o g)[k] = IF k <= a THEN p[k] ELSE g[k - a]
  BY <1>1, ConcatProperties
<1>5. DOMAIN (p \o g) = 1..a + b
  BY <1>4, LenProperties
<1>6. \A k \in 1..a : (p \o g)[k] = p[k]
  BY <1>3, <1>4
<1>7. ASSUME NEW k \in 1..b PROVE (p \o g)[a + k] = g[k]
  <2>1. a + k \in 1..a + b /\ ~ (a + k <= a) /\ (a + k) - a = k
    BY <1>3
  <2> QED
    BY <1>4, <2>1
<1> QED
  BY <1>2, <1>3, <1>4, <1>5, <1>6, <1>7 DEF p, g, a, b

\* Every event of a whole run has its place.
LEMMA SwitchEventHasPlace ==
  ASSUME NEW prompt \in DOMAIN Prompts, NEW fed \in Seq(Nat),
         NEW k \in DOMAIN WholeSwitchRun(prompt, fed)
  PROVE  \/ \E l, i : SourceAt(prompt, fed, k, l, i)
         \/ \E s, l : DecoderAt(prompt, fed, k, s, l)
<1> DEFINE n == Len(Prompts[prompt])
           E == Len(Enc)
           D == Len(Dec)
           a == E * n
           b == (Len(fed) + 1) * D
<1>1. /\ a \in Nat /\ b \in Nat /\ k \in 1..a + b
      /\ \A j \in 1..a : WholeSwitchRun(prompt, fed)[j] = SourcePart(prompt)[j]
      /\ \A j \in 1..b : WholeSwitchRun(prompt, fed)[a + j] = DecoderPart(fed)[j]
  BY SwitchSize
<1>2. n \in Nat /\ E \in Nat /\ D \in Nat
  BY SwitchNumbers
<1>3. /\ \A j \in 1..a : \E l \in 0..E - 1, i \in 0..n - 1 :
            /\ j - 1 = l * n + i
            /\ SourcePart(prompt)[j]
                 = SwitchEventAt("encoder", "source", i, Enc[l + 1], Prompts[prompt][i + 1])
      /\ \A j \in 1..b : \E s \in 0..Len(fed), l \in 0..D - 1 :
            /\ j - 1 = s * D + l
            /\ DecoderPart(fed)[j]
                 = SwitchEventAt("decoder", PhaseAt(s), s, Dec[l + 1], FedAt(fed, s))
  BY SourceEntry, DecoderEntry
<1>4. CASE k <= a
  <2>1. k \in 1..a
    BY <1>1, <1>4
  <2>2. PICK l \in 0..E - 1, i \in 0..n - 1 :
            /\ k - 1 = l * n + i
            /\ SourcePart(prompt)[k]
                 = SwitchEventAt("encoder", "source", i, Enc[l + 1], Prompts[prompt][i + 1])
    BY <1>3, <2>1
  <2>3. k = l * n + i + 1
    <3>1. PICK p \in Int : p = l * n
      BY <1>2
    <3> QED
      BY <1>2, <2>1, <2>2, <3>1
  <2>4. SourceAt(prompt, fed, k, l, i)
    BY <1>1, <2>1, <2>2, <2>3 DEF SourceAt
  <2> QED
    BY <2>4
<1>5. CASE k > a
  <2> DEFINE j == k - a
  <2>1. j \in 1..b /\ k = a + j
    BY <1>1, <1>5
  <2> HIDE DEF j
  <2>2. PICK s \in 0..Len(fed), l \in 0..D - 1 :
            /\ j - 1 = s * D + l
            /\ DecoderPart(fed)[j]
                 = SwitchEventAt("decoder", PhaseAt(s), s, Dec[l + 1], FedAt(fed, s))
    BY <1>3, <2>1
  <2>3. k = a + (s * D + l) + 1
    <3>1. PICK p \in Int : p = s * D + l
      BY <2>1, <2>2
    <3> QED
      BY <1>1, <2>1, <2>2, <3>1
  <2>4. DecoderAt(prompt, fed, k, s, l)
    BY <1>1, <2>1, <2>2, <2>3 DEF DecoderAt
  <2> QED
    BY <2>4
<1> QED
  BY <1>1, <1>4, <1>5

\* The fields of the event at a place.
LEMMA SourceFields ==
  ASSUME NEW prompt \in DOMAIN Prompts, NEW fed \in Seq(Nat), NEW k, NEW l, NEW i,
         SourceAt(prompt, fed, k, l, i)
  PROVE  LET event == WholeSwitchRun(prompt, fed)[k]
         IN  /\ event.stage = "encoder" /\ event.phase = "source"
             /\ event.position = i /\ event.layer = Enc[l + 1]
             /\ event.token = Prompts[prompt][i + 1]
             /\ event.experts = Selected(Site("encoder", Enc[l + 1]), Prompts[prompt][i + 1])
             /\ l \in 0..Len(Enc) - 1 /\ i \in 0..Len(Prompts[prompt]) - 1
BY DEF SourceAt, SwitchEventAt

LEMMA DecoderFields ==
  ASSUME NEW prompt \in DOMAIN Prompts, NEW fed \in Seq(Nat), NEW k, NEW s, NEW l,
         DecoderAt(prompt, fed, k, s, l)
  PROVE  LET event == WholeSwitchRun(prompt, fed)[k]
         IN  /\ event.stage = "decoder" /\ event.phase = PhaseAt(s)
             /\ event.position = s /\ event.layer = Dec[l + 1]
             /\ event.token = FedAt(fed, s)
             /\ event.experts = Selected(Site("decoder", Dec[l + 1]), FedAt(fed, s))
             /\ s \in 0..Len(fed) /\ l \in 0..Len(Dec) - 1
BY DEF DecoderAt, SwitchEventAt

\* A router selects one expert, or leaves the token unassigned.
LEMMA SwitchExperts ==
  ASSUME NEW stage \in {"encoder", "decoder"}, NEW x \in 1..Len(SparseLayers[stage]),
         NEW token \in Tokens \cup {DecoderStart}
  PROVE  LET selected == Selected(Site(stage, SparseLayers[stage][x]), token)
         IN  /\ selected \subseteq 0..NumExperts - 1
             /\ selected # {} => Cardinality(selected) = 1
<1> DEFINE selected == Selected(Site(stage, SparseLayers[stage][x]), token)
<1>1. x \in DOMAIN SparseLayers[stage]
  BY SwitchAssumption, LenProperties
<1>2. selected \subseteq 0..NumExperts - 1 /\ Cardinality(selected) \in 0..1
  BY <1>1, SwitchAssumption
<1> HIDE DEF selected
<1>3. IsFiniteSet(selected)
  <2>1. NumExperts - 1 \in Int
    BY ModelAssumption
  <2>2. IsFiniteSet(0..NumExperts - 1)
    BY <2>1, FS_Interval
  <2> QED
    BY <1>2, <2>2, FS_Subset
<1>4. selected # {} => Cardinality(selected) = 1
  BY <1>2, <1>3, FS_EmptySet
<1> QED
  BY <1>2, <1>4 DEF selected

\* Every event is well formed.
LEMMA SwitchEventsAreEvents ==
  ASSUME NEW prompt \in DOMAIN Prompts, NEW fed \in Seq(Nat), Chosen(fed),
         NEW k \in DOMAIN WholeSwitchRun(prompt, fed)
  PROVE  IsEventV2(WholeSwitchRun(prompt, fed)[k]) /\ Admits(Profile, WholeSwitchRun(prompt, fed)[k])
<1> DEFINE event == WholeSwitchRun(prompt, fed)[k]
<1>0. /\ Prompts[prompt] \in Seq(Nat) /\ Len(Prompts[prompt]) \in Nat /\ Len(fed) \in Nat
      /\ Len(Enc) \in Nat /\ Len(Dec) \in Nat /\ Enc \in Seq(Nat) /\ Dec \in Seq(Nat)
      /\ DecoderStart \in Nat
  BY SwitchNumbers, LayersAreNumbers
<1>1. /\ event.stage \in {"encoder", "decoder"} /\ event.phase \in PhasesOf(event.stage)
      /\ event.position \in Nat /\ event.layer \in Nat /\ event.token \in Nat
      /\ event.experts \subseteq 0..NumExperts - 1
      /\ event.experts # {} => Cardinality(event.experts) = 1
  <2>1. CASE \E l, i : SourceAt(prompt, fed, k, l, i)
    <3>1. PICK l, i : SourceAt(prompt, fed, k, l, i)
      BY <2>1
    <3> DEFINE layer == Enc[l + 1]
               token == Prompts[prompt][i + 1]
    <3>2. /\ event.stage = "encoder" /\ event.phase = "source" /\ event.position = i
          /\ event.layer = layer /\ event.token = token
          /\ event.experts = Selected(Site("encoder", layer), token)
          /\ l \in 0..Len(Enc) - 1 /\ i \in 0..Len(Prompts[prompt]) - 1
      BY <3>1, SourceFields
    <3>3. l + 1 \in 1..Len(Enc) /\ i + 1 \in 1..Len(Prompts[prompt]) /\ i \in Nat
      <4>1. l \in 0..Len(Enc) - 1 /\ i \in 0..Len(Prompts[prompt]) - 1
        BY <3>1 DEF SourceAt
      <4> HIDE DEF event, layer, token
      <4> QED
        BY <1>0, <4>1
    <3>4. layer \in Nat /\ token \in Nat
      <4>1. layer \in Nat
        BY <1>0, <3>3, ElementOfSeq
      <4>2. token \in Nat
        BY <1>0, <3>3, ElementOfSeq
      <4> QED
        BY <4>1, <4>2
    <3>5. token \in Tokens
      <4>1. i + 1 \in DOMAIN Prompts[prompt]
        BY <1>0, <3>3, LenProperties
      <4> QED
        BY <4>1 DEF Tokens
    <3>6. /\ Selected(Site("encoder", layer), token) \subseteq 0..NumExperts - 1
          /\ Selected(Site("encoder", layer), token) # {}
               => Cardinality(Selected(Site("encoder", layer), token)) = 1
      BY <3>3, <3>5, SwitchExperts DEF Enc
    <3> HIDE DEF event, layer, token
    <3> QED
      BY <3>2, <3>3, <3>4, <3>6 DEF PhasesOf
  <2>2. CASE \E s, l : DecoderAt(prompt, fed, k, s, l)
    <3>1. PICK s, l : DecoderAt(prompt, fed, k, s, l)
      BY <2>2
    <3> DEFINE layer == Dec[l + 1]
               token == FedAt(fed, s)
    <3>2. /\ event.stage = "decoder" /\ event.phase = PhaseAt(s) /\ event.position = s
          /\ event.layer = layer /\ event.token = token
          /\ event.experts = Selected(Site("decoder", layer), token)
          /\ s \in 0..Len(fed) /\ l \in 0..Len(Dec) - 1
      BY <3>1, DecoderFields
    <3>3. l + 1 \in 1..Len(Dec) /\ s \in Nat
      BY <1>0, <3>2
    <3>4. layer \in Nat
      BY <1>0, <3>3, ElementOfSeq
    <3>5. token \in Nat /\ token \in Tokens \cup {DecoderStart}
      <4>1. CASE s = 0
        BY <1>0, <4>1 DEF FedAt
      <4>2. CASE s # 0
        <5>1. s \in 1..Len(fed) /\ token = fed[s]
          BY <1>0, <3>2, <4>2 DEF FedAt
        <5> QED
          BY <1>0, <5>1, ElementOfSeq DEF Chosen
      <4> QED
        BY <4>1, <4>2
    <3>6. /\ Selected(Site("decoder", layer), token) \subseteq 0..NumExperts - 1
          /\ Selected(Site("decoder", layer), token) # {}
               => Cardinality(Selected(Site("decoder", layer), token)) = 1
      BY <3>3, <3>5, SwitchExperts DEF Dec
    <3> HIDE DEF event, layer, token
    <3> QED
      BY <3>2, <3>3, <3>4, <3>5, <3>6 DEF PhasesOf, PhaseAt
  <2> QED
    BY <2>1, <2>2, SwitchEventHasPlace
<1> HIDE DEF event
<1>2. IsEventV2(event)
  BY <1>1 DEF IsEventV2
<1>3. Admits(Profile, event)
  BY <1>1 DEF Admits, Profile
<1> QED
  BY <1>2, <1>3 DEF event

\* The sparse layers are in the order of the blocks.
LEMMA LayersIncrease ==
  /\ \A l, m \in 0..Len(Enc) - 1 :
        /\ Enc[l + 1] \in Nat
        /\ l < m => Enc[l + 1] < Enc[m + 1]
  /\ \A l, m \in 0..Len(Dec) - 1 :
        /\ Dec[l + 1] \in Nat
        /\ l < m => Dec[l + 1] < Dec[m + 1]
<1>1. /\ Enc \in Seq(Nat) /\ Len(Enc) \in Nat /\ DOMAIN Enc = 1..Len(Enc)
      /\ Dec \in Seq(Nat) /\ Len(Dec) \in Nat /\ DOMAIN Dec = 1..Len(Dec)
  BY LayersAreNumbers
<1>2. /\ \A i, j \in DOMAIN Enc : i < j => Enc[i] < Enc[j]
      /\ \A i, j \in DOMAIN Dec : i < j => Dec[i] < Dec[j]
  BY SwitchAssumption DEF Enc, Dec
<1>3. ASSUME NEW l \in 0..Len(Enc) - 1, NEW m \in 0..Len(Enc) - 1
      PROVE  Enc[l + 1] \in Nat /\ (l < m => Enc[l + 1] < Enc[m + 1])
  <2>1. l + 1 \in 1..Len(Enc) /\ m + 1 \in 1..Len(Enc) /\ (l < m => l + 1 < m + 1)
    BY <1>1
  <2> QED
    BY <1>1, <1>2, <2>1, ElementOfSeq
<1>4. ASSUME NEW l \in 0..Len(Dec) - 1, NEW m \in 0..Len(Dec) - 1
      PROVE  Dec[l + 1] \in Nat /\ (l < m => Dec[l + 1] < Dec[m + 1])
  <2>1. l + 1 \in 1..Len(Dec) /\ m + 1 \in 1..Len(Dec) /\ (l < m => l + 1 < m + 1)
    BY <1>1
  <2> QED
    BY <1>1, <1>2, <2>1, ElementOfSeq
<1> QED
  BY <1>3, <1>4

\* The order of events is that of their places.
LEMMA SourceOrder ==
  ASSUME NEW prompt \in DOMAIN Prompts, NEW fed \in Seq(Nat),
         NEW j, NEW k, NEW l, NEW i, NEW m, NEW q,
         SourceAt(prompt, fed, j, l, i), SourceAt(prompt, fed, k, m, q)
  PROVE  /\ j \in Nat /\ k \in Nat
         /\ j < k => l < m \/ (l = m /\ i < q)
         /\ l = m /\ i = q => j = k
<1> DEFINE n == Len(Prompts[prompt])
           E == Len(Enc)
<1>1. n \in Nat \ {0} /\ E \in Nat
  BY SwitchNumbers
<1>2. /\ l \in 0..E - 1 /\ m \in 0..E - 1 /\ i \in 0..n - 1 /\ q \in 0..n - 1
      /\ j = l * n + i + 1 /\ k = m * n + q + 1
  BY DEF SourceAt
<1> HIDE DEF n, E
<1>3. l \in Nat /\ m \in Nat /\ i \in Nat /\ q \in Nat
  BY <1>1, <1>2
<1>4. PICK a \in Nat, b \in Nat : a = l * n + i /\ b = m * n + q
  <2>1. l * n + i \in Nat /\ m * n + q \in Nat
    BY <1>1, <1>3
  <2> QED
    BY <2>1
<1>5. j = a + 1 /\ k = b + 1
  BY <1>1, <1>2, <1>3, <1>4
<1>6. a < b => l < m \/ (l = m /\ i < q)
  BY <1>1, <1>2, <1>3, <1>4, RowMajor
<1> QED
  BY <1>2, <1>4, <1>5, <1>6

LEMMA DecoderOrder ==
  ASSUME NEW prompt \in DOMAIN Prompts, NEW fed \in Seq(Nat),
         NEW j, NEW k, NEW s, NEW l, NEW t, NEW m,
         DecoderAt(prompt, fed, j, s, l), DecoderAt(prompt, fed, k, t, m)
  PROVE  /\ j \in Nat /\ k \in Nat
         /\ j < k => s < t \/ (s = t /\ l < m)
         /\ s = t /\ l = m => j = k
<1> DEFINE n == Len(Dec)
           before == Len(Enc) * Len(Prompts[prompt])
<1>1. n \in Nat /\ Len(fed) \in Nat /\ before \in Nat
  BY SwitchNumbers
<1>2. /\ l \in 0..n - 1 /\ m \in 0..n - 1 /\ s \in 0..Len(fed) /\ t \in 0..Len(fed)
      /\ j = before + (s * n + l) + 1 /\ k = before + (t * n + m) + 1
  BY DEF DecoderAt
<1> HIDE DEF n, before
<1>3. l \in Nat /\ m \in Nat /\ s \in Nat /\ t \in Nat /\ n \in Nat \ {0}
  BY <1>1, <1>2
<1>4. PICK a \in Nat, b \in Nat : a = s * n + l /\ b = t * n + m
  <2>1. s * n + l \in Nat /\ t * n + m \in Nat
    BY <1>3
  <2> QED
    BY <2>1
<1>5. j = before + a + 1 /\ k = before + b + 1
  BY <1>2, <1>4
<1>6. a < b => s < t \/ (s = t /\ l < m)
  BY <1>2, <1>3, <1>4, RowMajor
<1>7. s = t /\ l = m => a = b
  BY <1>4
<1> QED
  BY <1>1, <1>5, <1>6, <1>7

LEMMA SourceComesFirst ==
  ASSUME NEW prompt \in DOMAIN Prompts, NEW fed \in Seq(Nat),
         NEW j, NEW k, NEW l, NEW i, NEW s, NEW m,
         SourceAt(prompt, fed, j, l, i), DecoderAt(prompt, fed, k, s, m)
  PROVE  j \in Nat /\ k \in Nat /\ j < k
<1> DEFINE n == Len(Prompts[prompt])
           E == Len(Enc)
           D == Len(Dec)
           before == E * n
<1>1. n \in Nat \ {0} /\ E \in Nat /\ D \in Nat /\ Len(fed) \in Nat /\ before \in Nat
  BY SwitchNumbers
<1>2. l \in 0..E - 1 /\ i \in 0..n - 1 /\ j = l * n + i + 1
  BY DEF SourceAt
<1>3. s \in 0..Len(fed) /\ m \in 0..D - 1 /\ k = before + (s * D + m) + 1
  BY DEF DecoderAt
<1>4. j \in 1..before
  BY <1>1, <1>2, RowWithin
<1> HIDE DEF n, E, D, before
<1>5. s * D + m \in Nat
  <2>1. s \in Nat /\ D \in Nat /\ m \in Nat
    BY <1>1, <1>3
  <2> QED
    BY <2>1
<1>6. PICK b \in Nat : b = s * D + m
  BY <1>5
<1> QED
  BY <1>1, <1>3, <1>4, <1>6

\* RoutingTraceV2 accepts a whole run.
LEMMA SwitchRunIsTrace ==
  ASSUME NEW prompt \in DOMAIN Prompts, NEW fed \in Seq(Nat), Chosen(fed)
  PROVE  IsTraceV2(WholeSwitchRun(prompt, fed), [stage \in DOMAIN SparseLayers |-> Profile])
<1> DEFINE events == WholeSwitchRun(prompt, fed)
           P(k, l, i) == SourceAt(prompt, fed, k, l, i)
           G(k, s, l) == DecoderAt(prompt, fed, k, s, l)
           EncAt(l) == Enc[l + 1]
           DecAt(l) == Dec[l + 1]
           E == 0..Len(Enc) - 1
           D == 0..Len(Dec) - 1
           profiles == [stage \in DOMAIN SparseLayers |-> Profile]
<1>1. \A k \in DOMAIN events : (\E l, i : P(k, l, i)) \/ (\E s, l : G(k, s, l))
  BY SwitchEventHasPlace
<1>2. ASSUME NEW k, NEW l, NEW i, P(k, l, i)
      PROVE  /\ events[k].stage = "encoder" /\ events[k].phase = "source"
             /\ events[k].position = i /\ events[k].layer = EncAt(l) /\ l \in E /\ i \in Nat
  <2>1. i \in Nat
    BY <1>2, SwitchNumbers DEF SourceAt
  <2> QED
    BY <1>2, <2>1, SourceFields
<1>3. ASSUME NEW k, NEW s, NEW l, G(k, s, l)
      PROVE  /\ events[k].stage = "decoder" /\ events[k].phase = PhaseAt(s)
             /\ events[k].position = s /\ events[k].layer = DecAt(l) /\ l \in D /\ s \in Nat
  <2>1. s \in Nat
    BY <1>3, SwitchNumbers DEF DecoderAt
  <2> QED
    BY <1>3, <2>1, DecoderFields
<1>4. /\ \A l, m \in E : EncAt(l) \in Nat /\ (l < m => EncAt(l) < EncAt(m))
      /\ \A l, m \in D : DecAt(l) \in Nat /\ (l < m => DecAt(l) < DecAt(m))
      /\ \A l \in E \cup D : l \in Nat
  <2>1. \A l \in E \cup D : l \in Nat
    BY LayersAreNumbers
  <2> QED
    BY <2>1, LayersIncrease
<1>5. ASSUME NEW j, NEW k, NEW l, NEW i, NEW m, NEW q, P(j, l, i), P(k, m, q)
      PROVE  j \in Nat /\ k \in Nat /\ (j < k => l < m \/ (l = m /\ i < q)) /\ (l = m /\ i = q => j = k)
  BY <1>5, SourceOrder
<1>6. ASSUME NEW j, NEW k, NEW s, NEW l, NEW t, NEW m, G(j, s, l), G(k, t, m)
      PROVE  j \in Nat /\ k \in Nat /\ (j < k => s < t \/ (s = t /\ l < m)) /\ (s = t /\ l = m => j = k)
  BY <1>6, DecoderOrder
<1>7. ASSUME NEW j, NEW k, NEW l, NEW i, NEW s, NEW m, P(j, l, i), G(k, s, m)
      PROVE  j \in Nat /\ k \in Nat /\ j < k
  BY <1>7, SourceComesFirst
<1>8. events # <<>>
  <2> DEFINE a == Len(Enc)
             b == Len(Dec)
             n == Len(Prompts[prompt])
             m == Len(fed)
  <2>1. Len(events) = a * n + (m + 1) * b
    BY SwitchSize
  <2>2. a \in Nat /\ b \in Nat /\ n \in Nat \ {0} /\ m \in Nat /\ a + b # 0
    BY SwitchNumbers
  <2> HIDE DEF a, b, n, m
  <2>3. a * n + (m + 1) * b # 0
    <3>1. a * n \in Nat /\ m * b \in Nat /\ (m + 1) * b = m * b + b
      BY <2>2
    <3>2. a # 0 => a * n # 0
      BY <2>2
    <3> QED
      BY <2>2, <3>1, <3>2
  <2>4. Len(<<>>) = 0
    BY EmptySeq
  <2> HIDE DEF events
  <2> QED
    BY <2>1, <2>3, <2>4
<1>9. \A k \in DOMAIN events :
         /\ IsEventV2(events[k])
         /\ events[k].stage \in DOMAIN profiles
         /\ Admits(profiles[events[k].stage], events[k])
  <2> TAKE k \in DOMAIN events
  <2>1. IsEventV2(events[k]) /\ Admits(Profile, events[k])
    BY SwitchEventsAreEvents
  <2>2. DOMAIN SparseLayers = {"encoder", "decoder"}
    BY SwitchAssumption
  <2> HIDE DEF events
  <2>3. events[k].stage \in DOMAIN SparseLayers
    BY <2>1, <2>2 DEF IsEventV2
  <2>4. events[k].stage \in DOMAIN profiles /\ profiles[events[k].stage] = Profile
    BY <2>3
  <2> QED
    BY <2>1, <2>4
<1> HIDE DEF events, P, G, EncAt, DecAt, E, D, profiles
<1>10. \A s \in Nat : (PhaseAt(s) = "decoder_prompt" <=> s = 0) /\ PhaseAt(s) # "source"
                      /\ (PhaseAt(s) = "decoder_generated" <=> s # 0)
  BY DEF PhaseAt
<1>11. ASSUME NEW j \in DOMAIN events, NEW k \in DOMAIN events
       PROVE  /\ j # k => <<events[j].stage, events[j].position, events[j].layer>>
                            # <<events[k].stage, events[k].position, events[k].layer>>
              /\ j < k => ~ (events[j].stage = "decoder" /\ events[k].stage = "encoder")
              /\ j < k => ~ (events[j].phase = "decoder_generated"
                               /\ events[k].phase = "decoder_prompt")
              /\ (j < k /\ <<events[j].stage, events[j].phase, events[j].layer>>
                             = <<events[k].stage, events[k].phase, events[k].layer>>)
                   => events[j].position < events[k].position
              /\ (events[j].phase = "decoder_prompt" /\ events[k].phase = "decoder_generated")
                   => events[j].position < events[k].position
              /\ (j < k /\ events[j].phase = events[k].phase
                    /\ events[j].phase \in {"source", "decoder_prompt"})
                   => ~ Before(<<events[k].layer, events[k].position>>,
                               <<events[j].layer, events[j].position>>)
              /\ (j < k /\ events[j].phase = "decoder_generated"
                    /\ events[k].phase = "decoder_generated")
                   => ~ Before(<<events[k].position, events[k].layer>>,
                               <<events[j].position, events[j].layer>>)
  <2>1. CASE (\E l, i : P(j, l, i)) /\ (\E l, i : P(k, l, i))
    <3>1. PICK l, i, m, q : P(j, l, i) /\ P(k, m, q)
      BY <2>1
    <3>2. /\ j \in Nat /\ k \in Nat /\ (j < k => l < m \/ (l = m /\ i < q)) /\ (l = m /\ i = q => j = k)
          /\ l \in E /\ m \in E /\ i \in Nat /\ q \in Nat
      BY <3>1, <1>2, <1>5
    <3>3. /\ l \in Nat /\ m \in Nat /\ EncAt(l) \in Nat /\ EncAt(m) \in Nat
          /\ (l < m => EncAt(l) < EncAt(m)) /\ (m < l => EncAt(m) < EncAt(l))
      BY <1>4, <3>2
    <3>4. /\ events[j].stage = "encoder" /\ events[j].phase = "source"
          /\ events[j].position = i /\ events[j].layer = EncAt(l)
          /\ events[k].stage = "encoder" /\ events[k].phase = "source"
          /\ events[k].position = q /\ events[k].layer = EncAt(m)
      BY <3>1, <1>2
    <3>5. EncAt(l) = EncAt(m) => l = m
      BY <3>3
    <3> QED
      BY <3>2, <3>3, <3>4, <3>5 DEF Before
  <2>2. CASE (\E s, l : G(j, s, l)) /\ (\E s, l : G(k, s, l))
    <3>1. PICK s, l, t, m : G(j, s, l) /\ G(k, t, m)
      BY <2>2
    <3>2. /\ j \in Nat /\ k \in Nat /\ (j < k => s < t \/ (s = t /\ l < m)) /\ (s = t /\ l = m => j = k)
          /\ l \in D /\ m \in D /\ s \in Nat /\ t \in Nat
      BY <3>1, <1>3, <1>6
    <3>3. /\ l \in Nat /\ m \in Nat /\ DecAt(l) \in Nat /\ DecAt(m) \in Nat
          /\ (l < m => DecAt(l) < DecAt(m)) /\ (m < l => DecAt(m) < DecAt(l))
      BY <1>4, <3>2
    <3>4. /\ events[j].stage = "decoder" /\ events[j].phase = PhaseAt(s)
          /\ events[j].position = s /\ events[j].layer = DecAt(l)
          /\ events[k].stage = "decoder" /\ events[k].phase = PhaseAt(t)
          /\ events[k].position = t /\ events[k].layer = DecAt(m)
      BY <3>1, <1>3
    <3>5. DecAt(l) = DecAt(m) => l = m
      BY <3>3
    <3> QED
      BY <3>2, <3>3, <3>4, <3>5, <1>10 DEF Before
  <2>3. CASE (\E l, i : P(j, l, i)) /\ (\E s, l : G(k, s, l))
    <3>1. PICK l, i, s, m : P(j, l, i) /\ G(k, s, m)
      BY <2>3
    <3>2. /\ events[j].stage = "encoder" /\ events[j].phase = "source"
          /\ events[k].stage = "decoder" /\ events[k].phase = PhaseAt(s) /\ s \in Nat
      BY <3>1, <1>2, <1>3
    <3> QED
      BY <3>2, <1>10
  <2>4. CASE (\E s, l : G(j, s, l)) /\ (\E l, i : P(k, l, i))
    <3>1. PICK l, i, s, m : P(k, l, i) /\ G(j, s, m)
      BY <2>4
    <3>2. j \in Nat /\ k \in Nat /\ k < j
      BY <3>1, <1>7
    <3>3. /\ events[k].stage = "encoder" /\ events[k].phase = "source"
          /\ events[j].stage = "decoder" /\ events[j].phase = PhaseAt(s) /\ s \in Nat
      BY <3>1, <1>2, <1>3
    <3> QED
      BY <3>2, <3>3, <1>10
  <2> QED
    BY <1>1, <2>1, <2>2, <2>3, <2>4
<1>12. IsTraceV2(events, profiles)
  <2>1. DistinctEvents(events, LAMBDA event : <<event.stage, event.position, event.layer>>)
    BY <1>11 DEF DistinctEvents
  <2>2. NeverFollows(events, LAMBDA event : event.stage = "decoder",
                             LAMBDA event : event.stage = "encoder")
    BY <1>11 DEF NeverFollows
  <2>3. NeverFollows(events, LAMBDA event : event.phase = "decoder_generated",
                             LAMBDA event : event.phase = "decoder_prompt")
    BY <1>11 DEF NeverFollows
  <2>4. StreamsIncrease(events, LAMBDA event : <<event.stage, event.phase, event.layer>>)
    BY <1>11 DEF StreamsIncrease
  <2>5. Ascending(events, "source", LayerMajor) /\ Ascending(events, "decoder_prompt", LayerMajor)
    BY <1>11 DEF Ascending, LayerMajor
  <2>6. Ascending(events, "decoder_generated", TokenMajor)
    BY <1>11 DEF Ascending, TokenMajor
  <2>7. AllBefore(Positions(events, "decoder_prompt"), Positions(events, "decoder_generated"))
    BY <1>11 DEF AllBefore, Positions
  <2> QED
    BY <1>8, <1>9, <2>1, <2>2, <2>3, <2>4, <2>5, <2>6, <2>7 DEF IsTraceV2
<1> QED
  BY <1>12 DEF events, profiles

-----------------------------------------------------------------------------
(***************************************************************************)
(* The outcome that is built is the whole run, and its checks accept it.   *)
(***************************************************************************)
\* What a step records.
LEMMA SwitchRecords ==
  ASSUME SwitchStep
  PROVE  /\ greedy' = greedy
         /\ \/ uses' \in {uses, Append(uses, Raised)}
            \/ /\ probe.phase = "finish"
               /\ uses' = Append(uses, IF SwitchAccepted(SwitchOutcome)
                                       THEN SwitchOutcome ELSE Rejected)
<1>1. CASE Finish
  BY <1>1 DEF Finish, Record
<1>2. CASE ~ Finish
  BY <1>2 DEF SwitchStep, modelVars, RegisterRouter,
              RouterRegistrationFails, RegisterExperts, ExpertRegistrationFails, Call, CallFails,
              TakeObservations, EndGeneration, FeedDecoder, Observe, ExitProbe, Compare,
              GiveUp, Record
<1> QED
  BY <1>1, <1>2

\* What holds when the outcome is built.
LEMMA AtFinish ==
  ASSUME ProbeInv, probe.phase = "finish"
  PROVE  /\ probe.prompt \in DOMAIN Prompts /\ probe.horizon \in 0..Horizon
         /\ greedy \in Seq(Nat) /\ Len(greedy) = Horizon + 1 /\ Horizon \in Nat
         /\ greedy \in Continuations
         /\ GreedyRun(probe.baseline) /\ WholeEvents(probe.baseline) /\ probe.exact /\ RowsCounted
<1>1. ProbeSetting /\ DispatchInv
  BY InPass DEF BaselineInv, ObservedInv
<1>2. GreedyRun(probe.baseline) /\ WholeEvents(probe.baseline) /\ probe.exact /\ RowsCounted
  BY <1>1 DEF DispatchInv
<1> QED
  BY <1>1, <1>2, ModelAssumption DEF ProbeSetting

\* The fields of the outcome.
LEMMA SwitchOutcomeFields ==
  /\ SwitchOutcome.kind = "outcome" /\ SwitchOutcome.prompt = probe.prompt
  /\ SwitchOutcome.horizon = probe.horizon /\ SwitchOutcome.events = probe.baseline.events
  /\ SwitchOutcome.fed = probe.baseline.fed /\ SwitchOutcome.terminal = probe.baseline.terminal
  /\ SwitchOutcome.exact = probe.exact
BY DEF SwitchOutcome

\* It is the whole run of the greedy continuation.
LEMMA SwitchOutcomeWhole ==
  ASSUME ProbeInv, probe.phase = "finish"
  PROVE  IsWholeSwitchRun(SwitchOutcome)
<1> DEFINE fed == probe.baseline.fed
           n == Len(fed)
<1>1. /\ fed \in Seq(Nat) /\ n \in 0..probe.horizon /\ probe.horizon \in Nat /\ n \in Nat
      /\ greedy \in Seq(Nat) /\ n <= Len(greedy)
      /\ \A i \in 1..n : fed[i] = greedy[i] /\ greedy[i] \notin EosTokens
      /\ n = probe.horizon \/ greedy[n + 1] \in EosTokens
      /\ probe.baseline.terminal = Ending(greedy, n, TRUE)
  <2>1. /\ GreedyRun(probe.baseline) /\ probe.horizon \in 0..Horizon
        /\ greedy \in Seq(Nat) /\ Len(greedy) = Horizon + 1 /\ Horizon \in Nat
    BY AtFinish
  <2>2. fed \in Seq(Nat) /\ n \in Nat /\ n <= probe.horizon
    BY <2>1, LenProperties DEF GreedyRun
  <2>3. /\ \A i \in 1..n : fed[i] = greedy[i] /\ greedy[i] \notin EosTokens
        /\ n = probe.horizon \/ greedy[n + 1] \in EosTokens
        /\ probe.baseline.terminal = Ending(greedy, n, TRUE)
    BY <2>1 DEF GreedyRun
  <2> HIDE DEF fed, n
  <2> QED
    BY <2>1, <2>2, <2>3
<1> HIDE DEF fed, n
<1>2. FedCount(greedy, probe.horizon, TRUE) = n
  BY <1>1, FedCountIs
<1>3. fed = SubSeq(greedy, 1, n)
  <2> DEFINE s == SubSeq(greedy, 1, n)
  <2>1. \A i \in 1..n : greedy[i] \in Nat
    BY <1>1, ElementOfSeq
  <2>2. /\ s \in Seq(Nat) /\ Len(s) = n
        /\ \A i \in 1..n - 1 + 1 : s[i] = greedy[1 + i - 1]
    <3>1. Len(s) = IF 1 <= n THEN n - 1 + 1 ELSE 0
      BY <1>1, <2>1, SubSeqProperties
    <3> QED
      BY <1>1, <2>1, <3>1, SubSeqProperties
  <2> HIDE DEF s
  <2>3. \A i \in 1..n : s[i] = fed[i]
    <3> TAKE i \in 1..n
    <3>1. i \in 1..n - 1 + 1 /\ 1 + i - 1 = i
      BY <1>1
    <3> QED
      BY <1>1, <2>2, <3>1
  <2>4. Len(fed) = n
    BY DEF n
  <2> QED
    BY <1>1, <2>2, <2>3, <2>4, SeqEqual DEF s
<1>4. probe.baseline.events = WholeSwitchRun(probe.prompt, fed)
  BY AtFinish DEF WholeEvents, fed
<1>5. SwitchOutcome.fed = fed
  BY SwitchOutcomeFields DEF fed
<1> QED
  BY <1>1, <1>2, <1>3, <1>4, <1>5, SwitchOutcomeFields DEF IsWholeSwitchRun

\* It passes the checks of its constructor.
LEMMA SwitchOutcomeAccepted ==
  ASSUME ProbeInv, probe.phase = "finish"
  PROVE  SwitchAccepted(SwitchOutcome)
<1> DEFINE fed == probe.baseline.fed
<1>1. /\ probe.prompt \in DOMAIN Prompts /\ fed \in Seq(Nat) /\ Len(fed) <= probe.horizon
      /\ probe.baseline.events = WholeSwitchRun(probe.prompt, fed)
      /\ probe.exact /\ RowsCounted
  BY AtFinish DEF GreedyRun, WholeEvents
<1>2. Chosen(fed)
  <2>1. ASSUME NEW i \in 1..Len(fed) PROVE fed[i] \in Tokens
    <3>1. fed[i] = greedy[i]
      BY AtFinish DEF GreedyRun
    <3>2. i \in DOMAIN greedy /\ greedy \in Continuations
      <4>1. /\ probe.horizon \in 0..Horizon /\ greedy \in Seq(Nat) /\ Len(greedy) = Horizon + 1
            /\ Horizon \in Nat /\ greedy \in Continuations /\ Len(fed) \in Nat
        BY <1>1, AtFinish, LenProperties
      <4>2. DOMAIN greedy = 1..Horizon + 1
        BY <4>1, LenProperties
      <4> HIDE DEF fed
      <4> QED
        BY <1>1, <4>1, <4>2
    <3> QED
      BY <3>1, <3>2 DEF Tokens
  <2> QED
    BY <2>1 DEF Chosen
<1> HIDE DEF fed
<1>3. IsTraceV2(WholeSwitchRun(probe.prompt, fed), [stage \in DOMAIN SparseLayers |-> Profile])
  BY <1>1, <1>2, SwitchRunIsTrace
<1>4. IsTraceV2(SwitchOutcome.events, [stage \in DOMAIN SparseLayers |-> Profile])
  BY <1>1, <1>3, SwitchOutcomeFields
<1>5. SwitchOutcome.exact
  BY <1>1, SwitchOutcomeFields, Zenon
<1>6. Len(SwitchOutcome.fed) <= SwitchOutcome.horizon
  BY <1>1, SwitchOutcomeFields DEF fed
<1>7. \A c \in DOMAIN probe.checks : probe.checks[c].assigned = probe.checks[c].rows
  BY <1>1 DEF RowsCounted
<1> QED
  BY <1>4, <1>5, <1>6, <1>7 DEF SwitchAccepted

-----------------------------------------------------------------------------
(***************************************************************************)
(* Whole outcomes of Switch collections as an invariant of all uses.       *)
(***************************************************************************)
WholeSwitchOutcomes == ProbeInv /\ SwitchOutcomesAreWhole

\* A step adds at most a whole outcome to those of a switch collection.
LEMMA SwitchOutcomesGrow ==
  ASSUME IsSequenceOf(uses), SwitchOutcomesAreWhole, use' = use, greedy' = greedy,
         \/ uses' \in {uses, Append(uses, Raised)}
         \/ \E o : uses' = Append(uses, o) /\ o.kind # "rejected" /\ IsWholeSwitchRun(o)
  PROVE  SwitchOutcomesAreWhole'
<1> DEFINE Fine(o) == o.kind # "rejected" /\ (o.kind = "outcome" => IsWholeSwitchRun(o))
<1>1. SwitchOutcomesAreWhole' = (use = "switch" => \A i \in DOMAIN uses' : Fine(uses'[i]))
  BY DEF SwitchOutcomesAreWhole, IsWholeSwitchRun
<1>2. use = "switch" => \A i \in DOMAIN uses : Fine(uses[i])
  BY DEF SwitchOutcomesAreWhole
<1>3. Fine(Raised)
  BY DEF Raised
<1>4. uses' = uses \/ \E o : uses' = Append(uses, o) /\ Fine(o)
  BY <1>3
<1> HIDE DEF Fine
<1>5. CASE uses' = uses
  BY <1>1, <1>2, <1>5
<1>6. CASE \E o : uses' = Append(uses, o) /\ Fine(o)
  <2>1. PICK o : uses' = Append(uses, o) /\ Fine(o)
    BY <1>6
  <2>2. /\ IsSequenceOf(uses') /\ Len(uses) \in Nat
        /\ Len(uses') = Len(uses) + 1 /\ uses'[Len(uses) + 1] = o
        /\ \A i \in 1..Len(uses) : uses'[i] = uses[i]
    BY <2>1, AppendKeeps
  <2>3. DOMAIN uses = 1..Len(uses) /\ DOMAIN uses' = 1..Len(uses')
    BY <2>2, LenProperties DEF IsSequenceOf
  <2>4. use = "switch" => \A i \in DOMAIN uses' : Fine(uses'[i])
    <3> SUFFICES ASSUME use = "switch", NEW i \in DOMAIN uses' PROVE Fine(uses'[i])
      OBVIOUS
    <3>1. CASE i = Len(uses) + 1
      BY <2>1, <2>2, <3>1
    <3>2. CASE i \in 1..Len(uses)
      BY <1>2, <2>2, <2>3, <3>2
    <3> QED
      BY <2>2, <2>3, <3>1, <3>2
  <2> QED
    BY <1>1, <2>4
<1> QED
  BY <1>4, <1>5, <1>6

\* What other uses do does not touch a collection that is at rest,
LEMMA RestingProbe ==
  ASSUME ProbeInv, ProbeIdle, probe' = probe
  PROVE  ProbeInv'
BY DEF ProbeInv, ProbeIdle

\* nor does a step that leaves the model alone.
LEMMA SameProbe ==
  ASSUME ProbeInv, UNCHANGED <<modelVars, probe>>
  PROVE  ProbeInv'
<1>1. CASE probe.phase = "idle"
  BY <1>1, RestingProbe DEF ProbeIdle
<1>2. CASE probe.phase # "idle"
  <2>1. ProbeFields \subseteq DOMAIN probe' /\ probe'.phase # "idle"
    BY <1>2 DEF ProbeInv
  <2>2. ProbeSetting'
    BY <1>2, InPass, SettingKept DEF modelVars
  <2>3. /\ greedy' = greedy /\ hooked' = hooked /\ capture' = capture /\ store' = store
        /\ probe' = probe /\ ProbeFields \subseteq DOMAIN probe
    BY DEF modelVars, ProbeInv
  <2>4. ASSUME probe.pass = "baseline" PROVE PassInv'
    <3>1. BaselineInv
      BY <1>2, <2>4, InPass
    <3>2. BaselineInv'
      BY <2>3, <3>1 DEF BaselineInv, Follows, GreedyRun, Ending
    <3>3. probe'.pass = "baseline"
      BY <2>3, <2>4
    <3> QED
      BY <3>2, <3>3 DEF PassInv
  <2>5. ASSUME probe.pass = "observed" PROVE PassInv'
    <3>1. ObservedInv
      BY <1>2, <2>5, InPass
    <3>2. /\ (Follows => Follows') /\ (WholeEvents(probe.current) => WholeEvents(probe.current)')
          /\ (SourceDue => SourceDue') /\ (RowDue => RowDue')
      BY <2>3, CurrentKept
    <3>3. GreedyRun(probe.baseline) => GreedyRun(probe.baseline)'
      BY <2>3, BaselineKept
    <3>4. /\ RoutersInstalled(probe.registered) => RoutersInstalled(probe.registered)'
          /\ RoutersInstalled(Len(AllSites)) => RoutersInstalled(Len(AllSites))'
      BY <2>3 DEF RoutersInstalled, Hook
    <3>5. \A stage : ReachedAt(SitesOf(stage)) = ReachedAt(SitesOf(stage))'
      BY <2>3 DEF ReachedAt, TokensFor
    <3>6. ObservedInv'
      BY <2>3, <3>1, <3>2, <3>3, <3>4, <3>5 DEF ObservedInv
    <3>7. probe'.pass = "observed"
      BY <2>3, <2>5
    <3> QED
      BY <3>6, <3>7 DEF PassInv
  <2>6. ASSUME probe.pass = "dispatch" PROVE PassInv'
    <3>1. DispatchInv
      BY <1>2, <2>6, InPass
    <3>2. /\ GreedyRun(probe.baseline) => GreedyRun(probe.baseline)'
          /\ WholeEvents(probe.baseline) => WholeEvents(probe.baseline)'
      BY <2>3, BaselineKept
    <3>3. /\ RoutersInstalled(probe.registered) => RoutersInstalled(probe.registered)'
          /\ RoutersInstalled(Len(AllSites)) => RoutersInstalled(Len(AllSites))'
          /\ ExpertsInstalled(probe.registered) => ExpertsInstalled(probe.registered)'
          /\ ExpertsInstalled(Len(AllSites)) => ExpertsInstalled(Len(AllSites))'
      BY <2>3 DEF RoutersInstalled, ExpertsInstalled, Hook
    <3>4. ReachedAt(AllSites) = ReachedAt(AllSites)'
      BY <2>3 DEF ReachedAt, TokensFor
    <3>5. \A s : Assigned(s, TokensFor(s)) = Assigned(s, TokensFor(s))'
      BY <2>3 DEF Assigned, TokensFor
    <3>6. RowsCounted => RowsCounted'
      BY <2>3 DEF RowsCounted
    <3>7. DispatchInv'
      BY <2>3, <3>1, <3>2, <3>3, <3>4, <3>5, <3>6 DEF DispatchInv
    <3>8. probe'.pass = "dispatch"
      BY <2>3, <2>6
    <3> QED
      BY <3>7, <3>8 DEF PassInv
  <2>7. PassInv'
    <3>1. probe.pass \in {"baseline", "observed", "dispatch"}
      BY <1>2, InPass
    <3> QED
      BY <2>4, <2>5, <2>6, <3>1
  <2> QED
    BY <2>1, <2>2, <2>7 DEF ProbeInv
<1> QED
  BY <1>1, <1>2

\* Every step of every use keeps the invariant.
LEMMA NextIsWholeSwitch ==
  ASSUME WholeSwitchOutcomes, WholeOutcomes, HookInv, [CollectionNext]_collectionVars
  PROVE  WholeSwitchOutcomes'
<1>0. ProbeInv /\ SwitchOutcomesAreWhole /\ IsSequenceOf(uses) /\ greedy \in Continuations
  BY DEF WholeSwitchOutcomes, WholeOutcomes
<1>1. CASE GraniteUse \/ ChildUse
  <2>1. probe' = probe /\ use' = use /\ use # "switch" /\ ProbeIdle
    BY <1>1 DEF GraniteUse, ChildUse, HookInv
  <2>2. ProbeInv'
    BY <1>0, <2>1, RestingProbe
  <2> QED
    BY <2>1, <2>2 DEF WholeSwitchOutcomes, SwitchOutcomesAreWhole
<1>2. CASE SwitchUse
  <2>1. CASE SwitchStep
    <3>1. ProbeInv' /\ greedy' = greedy /\ use' = use
      BY <1>0, <1>2, <2>1, SwitchRuns, SwitchRecords DEF SwitchUse
    <3>2. \/ uses' \in {uses, Append(uses, Raised)}
          \/ \E o : uses' = Append(uses, o) /\ o.kind # "rejected" /\ IsWholeSwitchRun(o)
      <4>1. CASE uses' \in {uses, Append(uses, Raised)}
        BY <4>1
      <4>2. CASE /\ probe.phase = "finish"
                 /\ uses' = Append(uses, IF SwitchAccepted(SwitchOutcome)
                                         THEN SwitchOutcome ELSE Rejected)
        <5>1. SwitchAccepted(SwitchOutcome) /\ IsWholeSwitchRun(SwitchOutcome)
          BY <1>0, <4>2, SwitchOutcomeAccepted, SwitchOutcomeWhole
        <5>2. SwitchOutcome.kind # "rejected"
          BY SwitchOutcomeFields
        <5> QED
          BY <4>2, <5>1, <5>2
      <4> QED
        BY <2>1, <4>1, <4>2, SwitchRecords
    <3> QED
      BY <1>0, <3>1, <3>2, SwitchOutcomesGrow DEF WholeSwitchOutcomes
  <2>2. CASE ~ SwitchStep
    <3>1. PICK prompt \in DOMAIN Prompts, horizon \in MaxSteps : BeginSwitch(prompt, horizon)
      BY <1>2, <2>2 DEF SwitchUse
    <3>2. ProbeInv'
      BY <1>0, <3>1, BeginProbe
    <3>3. uses' = uses /\ greedy' = greedy /\ use' = use
      BY <1>2, <3>1 DEF BeginSwitch, modelVars, SwitchUse
    <3> QED
      BY <1>0, <3>2, <3>3, SwitchOutcomesGrow DEF WholeSwitchOutcomes
  <2> QED
    BY <2>1, <2>2
<1>3. CASE UNCHANGED collectionVars
  <2>1. ProbeInv'
    BY <1>0, <1>3, SameProbe DEF collectionVars
  <2>2. SwitchOutcomesAreWhole'
    BY <1>0, <1>3, SwitchOutcomesGrow DEF collectionVars, modelVars
  <2> QED
    BY <2>1, <2>2 DEF WholeSwitchOutcomes
<1> QED
  BY <1>1, <1>2, <1>3 DEF CollectionNext

LEMMA InitIsWholeSwitch == CollectionInit => WholeSwitchOutcomes
<1> SUFFICES ASSUME CollectionInit PROVE WholeSwitchOutcomes
  OBVIOUS
<1>1. uses = <<>> /\ probe = AtRestProbe
  BY DEF CollectionInit, ModelInit, ProbeInit
<1>2. ProbeFields \subseteq DOMAIN probe /\ probe.phase = "idle"
  BY <1>1 DEF AtRestProbe, ProbeFields
<1>3. DOMAIN uses = {}
  BY <1>1, EmptySeq
<1> QED
  BY <1>2, <1>3 DEF WholeSwitchOutcomes, ProbeInv, SwitchOutcomesAreWhole

(***************************************************************************)
(* Every collection that returns an outcome, Granite's, a child's or       *)
(* Switch's, returns the whole run of the model for its prompt, and none   *)
(* is rejected by its own checks: for any prompts, continuations, EOS      *)
(* tokens, layers, horizons, and any failures before it.                   *)
(***************************************************************************)
THEOREM OutcomesWhole == CollectionSpec => []OutcomeIsWholeRun
<1>1. WholeOutcomes /\ WholeSwitchOutcomes => OutcomeIsWholeRun
  BY DEF WholeOutcomes, WholeSwitchOutcomes, OutcomeIsWholeRun
<1>2. CollectionInit => WholeOutcomes /\ WholeSwitchOutcomes
  BY InitIsWhole, InitIsWholeSwitch
<1>3. /\ WholeOutcomes /\ WholeSwitchOutcomes /\ HookInv /\ UseInv
      /\ [CollectionNext]_collectionVars
      => (WholeOutcomes /\ WholeSwitchOutcomes)'
  BY NextIsWhole, NextIsWholeSwitch
<1> QED
  BY <1>1, <1>2, <1>3, HookInvariant, UseInvariant, PTL DEF CollectionSpec
=============================================================================
