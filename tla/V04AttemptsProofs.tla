-------------------------- MODULE V04AttemptsProofs --------------------------
(***************************************************************************)
(* Theorems about V04Attempts, for any number of children, attempts and    *)
(* causes of failure.  Three of the four hold for any number of            *)
(* invocations at the same time; that a published attempt stays valid      *)
(* needs that they are started one after the other.                        *)
(***************************************************************************)
EXTENDS V04Attempts, FiniteSetTheorems, WellFoundedInduction, TLAPS

Unknown == Cause("unknown", 0)

AdmissionCategories == {"missing_prerequisite", "busy_threshold"}

(***************************************************************************)
(* What the locals of an invocation satisfy at any time, whatever the      *)
(* order in which it was refused, failed, was interrupted and recorded     *)
(* itself again.  The clauses tell how a state and its cause come about.   *)
(***************************************************************************)
KindOK(w) ==
  /\ w.kind \in {"fresh", "rerun", "retry"}
  /\ w.kind = "fresh" <=> w.source = 0
  /\ IF w.kind = "retry" THEN w.sourceState \in NonvalidStates
                         ELSE w.sourceState = "none"
  /\ w.state = "inconclusive_final" => w.kind = "rerun"
  /\ w.state = "valid_inconclusive" => w.kind # "rerun"

\* A blocked attempt met its source's cause again, unless a second failure has
\* replaced the cause, which leaves a history that does not validate.
BlockedOK(w) ==
  w.state = "blocked" =>
    /\ w.cause.category # "busy_threshold"
    /\ \/ w.cause = w.sourceCause
       \/ w.refused /\ w.cause.category \notin AdmissionCategories

DeferredOK(w) ==
  w.state = "deferred" =>
    /\ w.cause \in Refusals \cup {Unknown, BadManifest}
    /\ w.cause.category = "missing_prerequisite" =>
         ~ (w.sourceState \in {"deferred", "blocked"} /\ w.sourceCause = w.cause)

\* The cause of a failed launch is none that an admission or a finalization has.
InvalidOK(w) ==
  w.state = "invalid" =>
    /\ w.cause.category \notin AdmissionCategories
    /\ w.failure # 0 =>
         /\ w.cause \notin {Unknown, BadManifest}
         /\ ~ (w.sourceState \in {"invalid", "blocked"} /\ w.sourceCause = w.cause)

CausesOK(w) ==
  /\ BlockedOK(w)
  /\ DeferredOK(w)
  /\ InvalidOK(w)
  /\ w.cause.category = "unknown" => w.refused \/ w.failure = 0

\* How far an invocation has come in each phase, and where its manifest is.
Unhurt(w) == w.failure = 0 /\ ~ w.refused

ProgressOK(p, w, at) ==
  /\ p = "unused" => at = "none"
  /\ p = "admitting" =>
       /\ Unhurt(w)
       /\ w.state \in {"planned", "running"}
       /\ w.admitted < Children
       /\ w.children = w.admitted
       /\ at = "none"
  /\ p = "launching" =>
       /\ Unhurt(w)
       /\ w.state = "running"
       /\ w.admitted # 0
       /\ w.children = w.admitted - 1
       /\ at = "none"
  /\ p = "deciding" => Unhurt(w) /\ w.state = "running" /\ at = "none"
  /\ p = "publishing" => Unhurt(w) /\ w.state \in ValidStates /\ at = "staging"
  /\ p = "finalizing" =>
       /\ w.failure = 0
       /\ w.refused
       /\ w.state \in {"deferred", "blocked"}
       /\ at = "staging"
  /\ p = "salvaging" => w.state \in NonvalidStates /\ at = "staging"

\* The attempts are started in their order.
StartedInOrder ==
  \A a, b \in Attempts : a < b /\ phase[b] # "unused" => phase[a] # "unused"

(***************************************************************************)
(* An attempt that has started names as its source one whose process has   *)
(* ended, whose manifest will not change any more and has a good history,  *)
(* and remembers what that manifest said.                                  *)
(***************************************************************************)
SourceOK(a) ==
  LET w == work[a]
      s == work[a].source
  IN  s # 0 =>
        /\ s \in Attempts /\ s < a
        /\ Ended(s)
        /\ place[s] # "none"
        /\ HistoryOK(manifest[s])
        /\ w.kind = "rerun" => /\ manifest[s].state = "valid_inconclusive"
                               /\ manifest[s].kind # "rerun"
        /\ w.kind = "retry" => /\ w.sourceState = manifest[s].state
                               /\ w.sourceCause = manifest[s].cause

\* A manifest says what the locals say; a published one has a good history.
ManifestOK(p, w, m, at) ==
  /\ at # "none" => m = w
  /\ at = "final" => p = "done" /\ HistoryOK(m)

StartedOK(a) == KindOK(work[a]) /\ CausesOK(work[a]) /\ SourceOK(a)

AttemptOK(a) ==
  /\ ProgressOK(phase[a], work[a], place[a])
  /\ ManifestOK(phase[a], work[a], manifest[a], place[a])
  /\ phase[a] # "unused" => StartedOK(a)

AttemptsInv ==
  /\ TypeOK
  /\ StartedInOrder
  /\ \A a \in Attempts : AttemptOK(a)

-----------------------------------------------------------------------------
(***************************************************************************)
(* Part 1: the recursion of validate_v04.  Every attempt names an earlier  *)
(* one as its source, so the recursive definition has a solution.          *)
(***************************************************************************)
LEMMA LeastNatural ==
  ASSUME NEW S \in SUBSET Nat, S # {}
  PROVE  \E n \in S : \A m \in S : n <= m
<1> DEFINE R == {pair \in Nat \X Nat : pair[1] < pair[2]}
<1>1. R = OpToRel(<, Nat)
  BY Zenon DEF OpToRel
<1>2. IsWellFoundedOn(R, Nat)
  BY <1>1, NatLessThanWellFounded
<1>3. PICK n \in S : \A m \in S : ~ (<<m, n>> \in R)
  <2> HIDE DEF R
  <2> QED
    BY <1>2, WFMin
<1>4. ASSUME NEW m \in S PROVE n <= m
  <2>1. m \in Nat /\ n \in Nat /\ ~ (m < n)
    BY <1>3
  <2> QED
    BY <2>1
<1> QED
  BY <1>4

SourcesEarlier ==
  \A a \in Attempts : place[a] # "none" => manifest[a].source \in 0 .. a - 1

\* The body of the recursion, for a function that validates the sources.
ValidGiven(valid, a) ==
  /\ place[a] # "none"
  /\ HistoryOK(manifest[a])
  /\ manifest[a].source # 0 =>
       /\ valid[manifest[a].source]
       /\ Cardinality(Consumers(manifest[a].source)) <= 1

ValidatesUnfolds == \A a \in Attempts : Validates[a] <=> ValidGiven(Validates, a)

LEMMA ValidatesIsDefined == SourcesEarlier => ValidatesUnfolds
<1> SUFFICES ASSUME SourcesEarlier PROVE ValidatesUnfolds
  OBVIOUS
<1> DEFINE Solves(f, n) == \A a \in Attempts : a <= n => (f[a] <=> ValidGiven(f, a))
           Solvable(n) == \E f \in [Attempts -> BOOLEAN] : Solves(f, n)
           Bad == {n \in Nat : ~ Solvable(n)}
<1>1. Bad = {}
  <2> SUFFICES ASSUME Bad # {} PROVE FALSE
    OBVIOUS
  <2>1. PICK n \in Bad : \A m \in Bad : n <= m
    <3>1. Bad \in SUBSET Nat
      OBVIOUS
    <3> HIDE DEF Bad
    <3> QED
      BY <3>1, LeastNatural
  <2>2. n # 0
    <3>1. [a \in Attempts |-> TRUE] \in [Attempts -> BOOLEAN]
      OBVIOUS
    <3>2. \A a \in Attempts : ~ (a <= 0)
      BY DEF Attempts
    <3>3. Solves([a \in Attempts |-> TRUE], 0)
      BY <3>2
    <3>4. Solvable(0)
      BY <3>1, <3>3
    <3> QED
      BY <2>1, <3>4
  <2>3. Solvable(n - 1)
    BY <2>1, <2>2
  <2>4. PICK f \in [Attempts -> BOOLEAN] : Solves(f, n - 1)
    BY <2>3
  <2> DEFINE g == [a \in Attempts |-> IF a = n THEN ValidGiven(f, a) ELSE f[a]]
  <2>5. g \in [Attempts -> BOOLEAN]
    BY DEF ValidGiven
  <2>6. ASSUME NEW a \in Attempts, a <= n
        PROVE  ValidGiven(g, a) <=> ValidGiven(f, a)
    <3>1. CASE place[a] # "none" /\ manifest[a].source # 0
      <4>1. manifest[a].source \in Attempts /\ manifest[a].source # n
        BY <2>1, <2>6, <3>1, AttemptsAssumption DEF SourcesEarlier, Attempts
      <4>2. g[manifest[a].source] = f[manifest[a].source]
        BY <4>1
      <4> HIDE DEF g
      <4> QED
        BY <4>2 DEF ValidGiven
    <3>2. CASE ~ (place[a] # "none" /\ manifest[a].source # 0)
      BY <3>2 DEF ValidGiven
    <3> QED
      BY <3>1, <3>2
  <2>7. ASSUME NEW a \in Attempts, a <= n
        PROVE  g[a] <=> ValidGiven(g, a)
    <3>1. CASE a = n
      <4>1. g[a] = ValidGiven(f, a)
        BY <3>1
      <4> QED
        BY <2>6, <2>7, <4>1
    <3>2. CASE a # n
      <4>1. a <= n - 1
        BY <2>1, <2>7, <3>2 DEF Attempts
      <4>2. g[a] = f[a]
        BY <3>2
      <4>3. f[a] <=> ValidGiven(f, a)
        BY <2>4, <4>1
      <4> QED
        BY <2>6, <2>7, <4>2, <4>3
    <3> QED
      BY <3>1, <3>2
  <2>8. Solves(g, n)
    <3> HIDE DEF g
    <3> QED
      BY <2>7
  <2>9. Solvable(n)
    <3> HIDE DEF g
    <3> QED
      BY <2>5, <2>8
  <2> QED
    BY <2>1, <2>9
<1>2. PICK f \in [Attempts -> BOOLEAN] : Solves(f, MaxAttempts)
  <2>1. MaxAttempts \in Nat
    BY AttemptsAssumption
  <2> QED
    BY <1>1, <2>1
<1>3. \A a \in Attempts : f[a] <=> ValidGiven(f, a)
  BY <1>2, AttemptsAssumption DEF Attempts
<1>4. f = [a \in Attempts |-> ValidGiven(f, a)]
  <2>1. \A a \in Attempts : f[a] = ValidGiven(f, a)
    BY <1>3 DEF ValidGiven
  <2> QED
    BY <2>1
<1>5. Validates = CHOOSE v : v = [a \in Attempts |-> ValidGiven(v, a)]
  BY DEF Validates, ValidGiven
<1>6. Validates = [a \in Attempts |-> ValidGiven(Validates, a)]
  BY <1>4, <1>5
<1> QED
  BY <1>6 DEF ValidatesUnfolds

-----------------------------------------------------------------------------
(***************************************************************************)
(* Part 2: AttemptsInv is inductive.  A step changes one attempt; the      *)
(* source of any other has ended, so it is not the one that changes.       *)
(***************************************************************************)
Phases == {"unused", "admitting", "launching", "deciding", "publishing",
           "finalizing", "salvaging", "done", "killed"}

Places == {"none", "staging", "final"}

SameLineage(v, w) ==
  /\ v.kind = w.kind
  /\ v.source = w.source
  /\ v.sourceState = w.sourceState
  /\ v.sourceCause = w.sourceCause

\* Attempts that have a manifest name earlier ones in it.
LEMMA SourcesAreEarlier == AttemptsInv => SourcesEarlier
<1> SUFFICES ASSUME AttemptsInv, NEW a \in Attempts, place[a] # "none"
             PROVE  manifest[a].source \in 0 .. a - 1
  BY DEF SourcesEarlier
<1>1. AttemptOK(a) /\ manifest[a] = work[a] /\ phase[a] # "unused"
  BY DEF AttemptsInv, AttemptOK, ManifestOK, ProgressOK
<1>2. SourceOK(a) /\ work[a].source \in {0} \cup Attempts
  BY <1>1 DEF AttemptsInv, AttemptOK, StartedOK, TypeOK, Works
<1> QED
  BY <1>1, <1>2 DEF SourceOK, Attempts

\* validate_v04 validates a manifest if its history is good and its sources
\* validate.
LEMMA ValidatesRule == AttemptsInv => ValidatesUnfolds
  BY SourcesAreEarlier, ValidatesIsDefined

\* What validates has a manifest with a good history.
LEMMA ValidHasHistory ==
  ASSUME AttemptsInv, NEW a \in Attempts, Validates[a]
  PROVE  place[a] # "none" /\ HistoryOK(manifest[a])
<1>1. ValidatesUnfolds
  BY ValidatesRule
<1>2. ValidGiven(Validates, a)
  BY <1>1 DEF ValidatesUnfolds
<1> QED
  BY <1>2 DEF ValidGiven

\* A step of a running invocation that keeps its lineage keeps the invariant if
\* what it writes is good by itself.
LEMMA StepKeeps ==
  ASSUME AttemptsInv,
         NEW a \in Attempts, phase[a] \notin {"unused", "done", "killed"},
         NEW p \in Phases \ {"unused"}, NEW w \in Works, NEW m \in Works, NEW at \in Places,
         phase' = [phase EXCEPT ![a] = p],
         work' = [work EXCEPT ![a] = w],
         manifest' = [manifest EXCEPT ![a] = m],
         place' = [place EXCEPT ![a] = at],
         SameLineage(work[a], w), KindOK(w), CausesOK(w),
         ProgressOK(p, w, at), ManifestOK(p, w, m, at)
  PROVE  AttemptsInv'
<1>1. /\ phase \in [Attempts -> Phases]
      /\ work \in [Attempts -> Works]
      /\ manifest \in [Attempts -> Works]
      /\ place \in [Attempts -> Places]
  BY DEF AttemptsInv, TypeOK, Phases, Places
<1>2. phase'[a] = p /\ work'[a] = w /\ manifest'[a] = m /\ place'[a] = at
  BY <1>1
<1>3. ASSUME NEW b \in Attempts, b # a
      PROVE  /\ phase'[b] = phase[b] /\ work'[b] = work[b]
             /\ manifest'[b] = manifest[b] /\ place'[b] = place[b]
  BY <1>1, <1>3
<1>4. TypeOK'
  BY <1>1 DEF TypeOK, Phases, Places
<1>5. StartedInOrder'
  BY <1>2, <1>3 DEF AttemptsInv, StartedInOrder
<1>6. ASSUME NEW b \in Attempts, SourceOK(b), SameLineage(work[b], work'[b])
      PROVE  SourceOK(b)'
  <2>1. \A s \in Attempts : Ended(s) => s # a
    BY DEF Ended
  <2>2. \A s \in Attempts : Ended(s) =>
          phase'[s] = phase[s] /\ manifest'[s] = manifest[s] /\ place'[s] = place[s]
    BY <1>3, <2>1
  <2> QED
    BY <1>6, <2>2 DEF SourceOK, SameLineage, Ended
<1>7. ASSUME NEW b \in Attempts PROVE AttemptOK(b)'
  <2>1. AttemptOK(b)
    BY DEF AttemptsInv
  <2>2. CASE b = a
    <3>1. SourceOK(b)'
      BY <1>2, <1>6, <2>1, <2>2 DEF AttemptOK, StartedOK
    <3> QED
      BY <1>2, <2>2, <3>1 DEF AttemptOK, StartedOK
  <2>3. CASE b # a
    <3>1. SameLineage(work[b], work'[b])
      BY <1>3, <2>3 DEF SameLineage
    <3>2. phase[b] # "unused" => SourceOK(b)'
      BY <1>6, <2>1, <3>1 DEF AttemptOK, StartedOK
    <3> QED
      BY <1>3, <2>1, <2>3, <3>2 DEF AttemptOK, StartedOK
  <2> QED
    BY <2>2, <2>3
<1> QED
  BY <1>4, <1>5, <1>7 DEF AttemptsInv

\* Record, if the locals it writes are good.
LEMMA RecordKeeps ==
  ASSUME AttemptsInv,
         NEW a \in Attempts, phase[a] \notin {"unused", "done", "killed"},
         NEW w \in Works, NEW next \in Phases \ {"unused"},
         Record(a, w, next),
         SameLineage(work[a], w), KindOK(w), CausesOK(w), ProgressOK(next, w, "staging")
  PROVE  AttemptsInv'
<1>1. ManifestOK(next, w, w, "staging")
  BY DEF ManifestOK
<1> QED
  BY <1>1, StepKeeps DEF Record, Places

\* The except clause of collect_v04.  A deferral it keeps was refused by the
\* validation or interrupted; a failed launch has no cause but its own.
LEMMA RaiseKeeps ==
  ASSUME AttemptsInv,
         NEW a \in Attempts, phase[a] \notin {"unused", "done", "killed"},
         NEW w \in Works, NEW cause \in Causes,
         Raise(a, w, cause),
         SameLineage(work[a], w), KindOK(w),
         cause.category \notin AdmissionCategories,
         w.state = "blocked" => w.refused,
         w.state = "deferred" => cause \in {Unknown, BadManifest},
         w.failure # 0 => cause \notin {Unknown, BadManifest} /\ cause.category # "unknown"
  PROVE  AttemptsInv'
<1> DEFINE v == [w EXCEPT !.state = StateAfterException(w, cause), !.cause = cause]
<1>1. v \in Works
  BY DEF Works, StateAfterException, NonvalidStates
<1>2. /\ v.state = StateAfterException(w, cause) /\ v.cause = cause
      /\ v.kind = w.kind /\ v.source = w.source
      /\ v.sourceState = w.sourceState /\ v.sourceCause = w.sourceCause
      /\ v.refused = w.refused /\ v.failure = w.failure
  BY DEF Works
<1>3. Record(a, v, "salvaging")
  BY DEF Raise
<1> HIDE DEF v
<1>4. SameLineage(work[a], v)
  BY <1>2 DEF SameLineage
<1>5. v.state \in NonvalidStates
  BY <1>2 DEF StateAfterException, NonvalidStates
<1>6. KindOK(v)
  BY <1>2, <1>5 DEF KindOK, NonvalidStates
<1>7. CausesOK(v)
  <2>1. BlockedOK(v)
    BY <1>2 DEF BlockedOK, StateAfterException, AdmissionCategories
  <2>2. DeferredOK(v)
    BY <1>2 DEF DeferredOK, StateAfterException, AdmissionCategories
  <2>3. InvalidOK(v)
    BY <1>2 DEF InvalidOK, StateAfterException
  <2> QED
    BY <1>2, <2>1, <2>2, <2>3 DEF CausesOK
<1>8. ProgressOK("salvaging", v, "staging")
  BY <1>5 DEF ProgressOK
<1> QED
  BY <1>1, <1>3, <1>4, <1>6, <1>7, <1>8, RecordKeeps DEF Phases

-----------------------------------------------------------------------------
\* What the invariant says of a running invocation, in the form its steps need.
LEMMA RunningFacts ==
  ASSUME AttemptsInv, NEW a \in Attempts, phase[a] # "unused"
  PROVE  /\ phase[a] \in Phases /\ work[a] \in Works
         /\ manifest[a] \in Works /\ place[a] \in Places
         /\ phase = [phase EXCEPT ![a] = phase[a]]
         /\ work = [work EXCEPT ![a] = work[a]]
         /\ manifest = [manifest EXCEPT ![a] = manifest[a]]
         /\ place = [place EXCEPT ![a] = place[a]]
         /\ ProgressOK(phase[a], work[a], place[a])
         /\ ManifestOK(phase[a], work[a], manifest[a], place[a])
         /\ KindOK(work[a]) /\ CausesOK(work[a]) /\ SourceOK(a)
<1>1. /\ phase \in [Attempts -> Phases]
      /\ work \in [Attempts -> Works]
      /\ manifest \in [Attempts -> Works]
      /\ place \in [Attempts -> Places]
  BY DEF AttemptsInv, TypeOK, Phases, Places
<1>2. AttemptOK(a)
  BY DEF AttemptsInv
<1>3. /\ phase[a] \in Phases /\ work[a] \in Works
      /\ manifest[a] \in Works /\ place[a] \in Places
  BY <1>1
<1>4. /\ phase = [phase EXCEPT ![a] = phase[a]]
      /\ work = [work EXCEPT ![a] = work[a]]
      /\ manifest = [manifest EXCEPT ![a] = manifest[a]]
      /\ place = [place EXCEPT ![a] = place[a]]
  BY <1>1
<1> QED
  BY <1>2, <1>3, <1>4 DEF AttemptOK, StartedOK

\* The causes are what their names say.
LEMMA CausesAreTyped ==
  /\ NoCause \in Causes /\ Busy \in Causes
  /\ \A cause \in Refusals : cause \in Causes /\ cause.category \in AdmissionCategories
  /\ BadTransition \in Causes /\ BadManifest \in Causes /\ Late \in Causes
  /\ LateToFinalize \in Causes /\ Unknown \in Causes
  /\ \A failure \in LaunchFailures, child \in 1 .. Children :
       LET cause == LaunchCause(failure, child)
       IN  /\ cause \in Causes
           /\ cause.category \in {"timeout", "correctness", "child_exit", "child_artifact"}
           /\ cause \notin {Unknown, BadManifest}
<1>1. Children \in Nat /\ Children > 0
  BY ChildrenAssumption
<1>2. \A category, detail : /\ Cause(category, detail).category = category
                            /\ Cause(category, detail).detail = detail
  BY DEF Cause
<1>3. \A category \in {"none", "busy_threshold", "missing_prerequisite", "correctness",
                       "timeout", "child_exit", "child_artifact", "unknown"},
         detail \in 0 .. Children + 1 \cup Prerequisites : Cause(category, detail) \in Causes
  BY DEF Cause, Causes
<1>4. \A cause \in Refusals : cause \in Causes /\ cause.category \in AdmissionCategories
  BY <1>1, <1>2, <1>3 DEF Refusals, Busy, Missing, AdmissionCategories
<1>5. /\ NoCause \in Causes /\ Busy \in Causes
      /\ BadTransition \in Causes /\ BadManifest \in Causes /\ Late \in Causes
      /\ LateToFinalize \in Causes /\ Unknown \in Causes
  BY <1>1, <1>3 DEF NoCause, Busy, BadTransition, BadManifest, Late, LateToFinalize, Unknown
<1>6. ASSUME NEW failure \in LaunchFailures, NEW child \in 1 .. Children
      PROVE  /\ LaunchCause(failure, child) \in Causes
             /\ LaunchCause(failure, child).category \in
                  {"timeout", "correctness", "child_exit", "child_artifact"}
             /\ LaunchCause(failure, child) \notin {Unknown, BadManifest}
  <2>1. failure \in {"launch_exception", "timeout", "child_exit", "child_artifact"}
    BY LaunchFailuresAssumption
  <2>2. \/ LaunchCause(failure, child) = Cause("timeout", 0)
        \/ LaunchCause(failure, child) = Cause("correctness", child)
        \/ LaunchCause(failure, child) = Cause("child_exit", child)
        \/ LaunchCause(failure, child) = Cause("child_artifact", child)
    BY <2>1 DEF LaunchCause
  <2>3. child \in 0 .. Children + 1 \cup Prerequisites /\ child # Children + 1
        /\ 0 \in 0 .. Children + 1 \cup Prerequisites /\ 0 # Children + 1
    BY <1>1
  <2>4. LaunchCause(failure, child) \in Causes
    BY <1>3, <2>2, <2>3
  <2>5. /\ LaunchCause(failure, child).category \in
             {"timeout", "correctness", "child_exit", "child_artifact"}
        /\ LaunchCause(failure, child).detail # Children + 1
    BY <1>2, <2>2, <2>3
  <2>6. Unknown.category = "unknown" /\ BadManifest.detail = Children + 1
    BY <1>2 DEF Unknown, BadManifest
  <2> QED
    BY <2>4, <2>5, <2>6
<1> QED
  BY <1>4, <1>5, <1>6

-----------------------------------------------------------------------------
\* The steps of an invocation, action by action.
LEMMA BeginKeeps ==
  ASSUME AttemptsInv,
         NEW a \in Attempts, NEW kind \in {"fresh", "rerun", "retry"},
         NEW s \in {0} \cup Attempts,
         Begin(a, kind, s),
         kind = "fresh" <=> s = 0,
         s # 0 => Ended(s) /\ Validates[s],
         kind = "rerun" => manifest[s].state = "valid_inconclusive" /\ manifest[s].kind # "rerun",
         kind = "retry" => manifest[s].state \in NonvalidStates
  PROVE  AttemptsInv'
<1>1. /\ phase \in [Attempts -> Phases]
      /\ work \in [Attempts -> Works]
      /\ manifest \in [Attempts -> Works]
      /\ place \in [Attempts -> Places]
  BY DEF AttemptsInv, TypeOK, Phases, Places
<1>2. phase[a] = "unused" /\ \A b \in Attempts : b < a => phase[b] # "unused"
  BY DEF Begin
<1> DEFINE w == NewWork(kind, s)
<1>3. /\ w.kind = kind /\ w.source = s
      /\ w.sourceState = (IF kind = "retry" THEN manifest[s].state ELSE "none")
      /\ w.sourceCause = (IF kind = "retry" THEN manifest[s].cause ELSE NoCause)
      /\ w.state = "planned" /\ w.admitted = 0 /\ w.children = 0
      /\ ~ w.refused /\ w.failure = 0 /\ w.cause = NoCause
  BY DEF NewWork
<1>4. w \in Works
  <2>1. kind = "retry" => manifest[s] \in Works
    BY <1>1
  <2>2. kind = "retry" => manifest[s].cause \in Causes
    BY <2>1 DEF Works
  <2>3. (IF kind = "retry" THEN manifest[s].state ELSE "none") \in {"none"} \cup NonvalidStates
    OBVIOUS
  <2>4. (IF kind = "retry" THEN manifest[s].cause ELSE NoCause) \in Causes
    BY <2>2, CausesAreTyped
  <2>5. 0 \in 0 .. Children
    BY ChildrenAssumption
  <2> QED
    BY <2>3, <2>4, <2>5, CausesAreTyped DEF NewWork, Works
<1>5. /\ phase'[a] = "admitting" /\ work'[a] = w
      /\ manifest' = manifest /\ place' = place
  BY <1>1 DEF Begin
<1>6. \A b \in Attempts : b # a => phase'[b] = phase[b] /\ work'[b] = work[b]
  BY <1>1 DEF Begin
<1>7. TypeOK'
  <2>1. phase' \in [Attempts -> Phases] /\ work' \in [Attempts -> Works]
    BY <1>1, <1>4 DEF Begin, Phases
  <2> QED
    BY <1>1, <1>5, <2>1 DEF TypeOK, Phases, Places
<1> HIDE DEF w
<1>8. StartedInOrder'
  BY <1>2, <1>5, <1>6 DEF AttemptsInv, StartedInOrder
<1>9. ASSUME NEW b \in Attempts, b # a, phase[b] # "unused"
      PROVE  StartedOK(b)'
  <2>1. StartedOK(b)
    BY <1>9 DEF AttemptsInv, AttemptOK
  <2>2. \A t \in Attempts : Ended(t) => t # a /\ phase'[t] = phase[t]
    BY <1>2, <1>6 DEF Ended
  <2>3. SourceOK(b)'
    BY <1>5, <1>6, <1>9, <2>1, <2>2 DEF StartedOK, SourceOK, Ended
  <2> QED
    BY <1>6, <1>9, <2>1, <2>3 DEF StartedOK
<1>10. StartedOK(a)'
  <2>1. KindOK(w)
    BY <1>3 DEF KindOK
  <2>2. CausesOK(w)
    BY <1>3 DEF CausesOK, BlockedOK, DeferredOK, InvalidOK
  <2>3. s # 0 => s \in Attempts /\ s < a
    BY <1>2 DEF AttemptsInv, StartedInOrder, Ended, Attempts
  <2>4. s # 0 => place[s] # "none" /\ HistoryOK(manifest[s])
    BY ValidHasHistory
  <2>5. s # 0 => Ended(s)'
    BY <1>2, <1>6 DEF Ended
  <2>6. SourceOK(a)'
    BY <1>3, <1>5, <2>3, <2>4, <2>5 DEF SourceOK
  <2> QED
    BY <1>5, <2>1, <2>2, <2>6 DEF StartedOK
<1>11. ASSUME NEW b \in Attempts PROVE AttemptOK(b)'
  <2>1. AttemptOK(b)
    BY DEF AttemptsInv
  <2>2. CASE b = a
    <3>1. place[a] = "none"
      BY <1>2, <2>1, <2>2 DEF AttemptOK, ProgressOK
    <3>2. ProgressOK("admitting", w, "none")
      BY <1>3, ChildrenAssumption DEF ProgressOK, Unhurt
    <3> QED
      BY <1>5, <1>10, <2>2, <3>1, <3>2 DEF AttemptOK, ManifestOK
  <2>3. CASE b # a
    <3>1. ProgressOK(phase[b], work[b], place[b])'
      BY <1>5, <1>6, <2>1, <2>3 DEF AttemptOK
    <3>2. ManifestOK(phase[b], work[b], manifest[b], place[b])'
      BY <1>5, <1>6, <2>1, <2>3 DEF AttemptOK
    <3> QED
      BY <1>6, <1>9, <2>3, <3>1, <3>2 DEF AttemptOK
  <2> QED
    BY <2>2, <2>3
<1> QED
  BY <1>7, <1>8, <1>11 DEF AttemptsInv

LEMMA AdmitKeeps ==
  ASSUME AttemptsInv, NEW a \in Attempts, Admit(a) PROVE AttemptsInv'
<1> DEFINE w == [work[a] EXCEPT !.admitted = @ + 1, !.state = "running"]
<1>1. phase[a] = "admitting" /\ ProgressOK("admitting", work[a], place[a])
      /\ work[a] \in Works /\ KindOK(work[a]) /\ CausesOK(work[a])
  BY RunningFacts DEF Admit
<1>2. /\ w.state = "running" /\ w.admitted = work[a].admitted + 1
      /\ w.children = work[a].children /\ w.failure = work[a].failure
      /\ w.refused = work[a].refused /\ w.cause = work[a].cause
      /\ SameLineage(work[a], w)
  BY <1>1 DEF Works, SameLineage
<1>3. work[a].admitted \in 0 .. Children /\ work[a].children \in 0 .. Children
  BY <1>1 DEF Works
<1>4. w.admitted \in 0 .. Children
  BY <1>1, <1>2, <1>3, ChildrenAssumption DEF ProgressOK
<1>5. w \in Works
  BY <1>1, <1>2, <1>4 DEF Works
<1>6. work' = [work EXCEPT ![a] = w] /\ phase' = [phase EXCEPT ![a] = "launching"]
  BY DEF Admit
<1> HIDE DEF w
<1>7. KindOK(w)
  BY <1>1, <1>2 DEF KindOK, SameLineage
<1>8. CausesOK(w)
  BY <1>1, <1>2 DEF CausesOK, BlockedOK, DeferredOK, InvalidOK, ProgressOK, Unhurt
<1>9. ProgressOK("launching", w, place[a])
  BY <1>1, <1>2, <1>3 DEF ProgressOK, Unhurt
<1>10. ManifestOK("launching", w, manifest[a], place[a])
  BY <1>1 DEF ProgressOK, ManifestOK
<1>11. /\ manifest' = [manifest EXCEPT ![a] = manifest[a]]
       /\ place' = [place EXCEPT ![a] = place[a]]
       /\ manifest[a] \in Works /\ place[a] \in Places
  BY <1>1, RunningFacts DEF Admit
<1> QED
  BY <1>1, <1>2, <1>5, <1>6, <1>7, <1>8, <1>9, <1>10, <1>11, StepKeeps DEF Phases

LEMMA RefuseKeeps ==
  ASSUME AttemptsInv, NEW a \in Attempts, NEW cause \in Refusals, Refuse(a, cause)
  PROVE  AttemptsInv'
<1> DEFINE w == [work[a] EXCEPT !.refused = TRUE]
<1>1. phase[a] = "admitting" /\ ProgressOK("admitting", work[a], place[a])
      /\ work[a] \in Works /\ KindOK(work[a])
  BY RunningFacts DEF Refuse
<1>2. /\ w.state = work[a].state /\ w.failure = 0 /\ w.refused
      /\ SameLineage(work[a], w)
  BY <1>1 DEF Works, SameLineage, ProgressOK, Unhurt
<1>3. w \in Works
  BY <1>1 DEF Works
<1>4. cause \in Causes /\ cause.category \in AdmissionCategories
  BY CausesAreTyped
<1>5. \/ /\ Recurs(w, cause) /\ w.state = "planned"
         /\ Record(a, [w EXCEPT !.state = "blocked", !.cause = cause], "finalizing")
      \/ /\ Recurs(w, cause) /\ w.state = "running"
         /\ Raise(a, w, BadTransition)
      \/ /\ ~ Recurs(w, cause)
         /\ Record(a, [w EXCEPT !.state = "deferred", !.cause = cause], "finalizing")
  BY DEF Refuse
<1> HIDE DEF w
<1>6. KindOK(w)
  BY <1>1, <1>2 DEF KindOK, SameLineage
<1>7. ASSUME NEW state \in {"blocked", "deferred"},
             state = "blocked" <=> Recurs(w, cause),
             Record(a, [w EXCEPT !.state = state, !.cause = cause], "finalizing")
      PROVE  AttemptsInv'
  <2> DEFINE v == [w EXCEPT !.state = state, !.cause = cause]
  <2>1. v \in Works
    BY <1>3, <1>4 DEF Works, NonvalidStates
  <2>2. /\ v.state = state /\ v.cause = cause /\ SameLineage(w, v)
        /\ v.refused = w.refused /\ v.failure = w.failure
    BY <1>3 DEF Works, SameLineage
  <2>3. Record(a, v, "finalizing")
    BY <1>7
  <2> HIDE DEF v
  <2>4. KindOK(v)
    BY <1>6, <2>2 DEF KindOK, SameLineage
  <2>5. CausesOK(v)
    <3>1. BlockedOK(v)
      BY <1>7, <2>2 DEF BlockedOK, Recurs, SameLineage
    <3>2. DeferredOK(v)
      <4>1. v.state = "deferred" /\ v.cause.category = "missing_prerequisite" =>
              ~ (w.sourceState \in {"deferred", "blocked"} /\ w.sourceCause = cause)
        BY <1>7, <2>2 DEF Recurs
      <4> QED
        BY <2>2, <4>1 DEF DeferredOK, SameLineage
    <3>3. InvalidOK(v)
      BY <2>2 DEF InvalidOK
    <3> QED
      BY <1>2, <2>2, <3>1, <3>2, <3>3 DEF CausesOK
  <2>6. ProgressOK("finalizing", v, "staging")
    BY <1>2, <2>2 DEF ProgressOK
  <2>7. SameLineage(work[a], v)
    BY <1>2, <2>2 DEF SameLineage
  <2> QED
    BY <1>1, <2>1, <2>3, <2>4, <2>5, <2>6, <2>7, RecordKeeps DEF Phases
<1>8. CASE Recurs(w, cause) /\ w.state = "running" /\ Raise(a, w, BadTransition)
  <2>1. BadTransition.category = "correctness" /\ BadTransition \in Causes
    BY CausesAreTyped DEF BadTransition, Cause
  <2> QED
    BY <1>1, <1>2, <1>3, <1>6, <1>8, <2>1, RaiseKeeps DEF AdmissionCategories
<1> QED
  BY <1>5, <1>7, <1>8

LEMMA ChildSucceedsKeeps ==
  ASSUME AttemptsInv, NEW a \in Attempts, NEW agrees \in BOOLEAN, ChildSucceeds(a, agrees)
  PROVE  AttemptsInv'
<1> DEFINE w == [work[a] EXCEPT !.children = @ + 1, !.consistent = @ /\ agrees]
           next == IF ChildrenRemain(work[a]) THEN "admitting" ELSE "deciding"
<1>1. phase[a] = "launching" /\ ProgressOK("launching", work[a], place[a])
      /\ work[a] \in Works /\ KindOK(work[a]) /\ CausesOK(work[a])
  BY RunningFacts DEF ChildSucceeds
<1>2. /\ w.state = work[a].state /\ w.admitted = work[a].admitted
      /\ w.children = work[a].children + 1 /\ w.failure = work[a].failure
      /\ w.refused = work[a].refused /\ w.cause = work[a].cause
      /\ SameLineage(work[a], w)
  BY <1>1 DEF Works, SameLineage
<1>3. work[a].admitted \in 0 .. Children /\ work[a].children \in 0 .. Children
  BY <1>1 DEF Works
<1>4. work[a].children + 1 \in 0 .. Children /\ (work[a].consistent /\ agrees) \in BOOLEAN
  BY <1>1, <1>3, ChildrenAssumption DEF ProgressOK
<1>5. w \in Works
  BY <1>1, <1>4 DEF Works
<1>6. work' = [work EXCEPT ![a] = w] /\ phase' = [phase EXCEPT ![a] = next]
  BY DEF ChildSucceeds
<1>7. next \in {"admitting", "deciding"} /\ (next = "admitting" => work[a].admitted < Children)
  BY DEF ChildrenRemain
<1> HIDE DEF w, next
<1>8. KindOK(w)
  BY <1>1, <1>2 DEF KindOK, SameLineage
<1>9. CausesOK(w)
  BY <1>1, <1>2 DEF CausesOK, BlockedOK, DeferredOK, InvalidOK, ProgressOK, Unhurt
<1>10. ProgressOK(next, w, place[a])
  <2>1. w.children = w.admitted /\ Unhurt(w) /\ w.state = "running" /\ place[a] = "none"
    BY <1>1, <1>2, <1>3 DEF ProgressOK, Unhurt
  <2> QED
    BY <1>2, <1>7, <2>1 DEF ProgressOK
<1>11. ManifestOK(next, w, manifest[a], place[a])
  BY <1>1 DEF ProgressOK, ManifestOK
<1>12. /\ manifest' = [manifest EXCEPT ![a] = manifest[a]]
       /\ place' = [place EXCEPT ![a] = place[a]]
       /\ manifest[a] \in Works /\ place[a] \in Places
  BY <1>1, RunningFacts DEF ChildSucceeds
<1> QED
  BY <1>1, <1>2, <1>5, <1>6, <1>7, <1>8, <1>9, <1>10, <1>11, <1>12, StepKeeps DEF Phases

LEMMA LaunchFailsKeeps ==
  ASSUME AttemptsInv, NEW a \in Attempts,
         LaunchTooLate(a) \/ \E failure \in LaunchFailures : ChildFails(a, failure)
  PROVE  AttemptsInv'
<1>1. phase[a] = "launching" /\ ProgressOK("launching", work[a], place[a])
      /\ work[a] \in Works /\ KindOK(work[a])
  BY RunningFacts DEF LaunchTooLate, ChildFails
<1>2. work[a].state = "running" /\ work[a].failure = 0 /\ SameLineage(work[a], work[a])
  BY <1>1 DEF ProgressOK, Unhurt, SameLineage
<1>3. CASE LaunchTooLate(a)
  <2>1. Late.category = "timeout" /\ Late \in Causes /\ Raise(a, work[a], Late)
    BY <1>3, CausesAreTyped DEF Late, Cause, LaunchTooLate
  <2> QED
    BY <1>1, <1>2, <2>1, RaiseKeeps DEF AdmissionCategories
<1>4. ASSUME NEW failure \in LaunchFailures, ChildFails(a, failure)
      PROVE  AttemptsInv'
  <2> DEFINE w == [work[a] EXCEPT !.failure = work[a].admitted]
             cause == LaunchCause(failure, work[a].admitted)
  <2>1. work[a].admitted \in 1 .. Children
    BY <1>1, ChildrenAssumption DEF Works, ProgressOK
  <2>2. w \in Works
    BY <1>1, <2>1 DEF Works
  <2>3. w.state = "running" /\ SameLineage(work[a], w) /\ KindOK(w)
    BY <1>1, <1>2 DEF Works, SameLineage, KindOK
  <2>4. /\ cause \in Causes
        /\ cause.category \in {"timeout", "correctness", "child_exit", "child_artifact"}
        /\ cause \notin {Unknown, BadManifest}
    BY <2>1, CausesAreTyped
  <2>5. Raise(a, w, cause)
    BY <1>4 DEF ChildFails
  <2> HIDE DEF w, cause
  <2> QED
    BY <1>1, <2>2, <2>3, <2>4, <2>5, RaiseKeeps DEF AdmissionCategories
<1> QED
  BY <1>3, <1>4

LEMMA DecideKeeps ==
  ASSUME AttemptsInv, NEW a \in Attempts,
         NEW decision \in {"valid_stable", "valid_inconclusive"}, Decide(a, decision)
  PROVE  AttemptsInv'
<1> DEFINE state == IF work[a].kind = "rerun" /\ decision = "valid_inconclusive"
                      THEN "inconclusive_final" ELSE decision
           w == [work[a] EXCEPT !.state = state]
<1>1. phase[a] = "deciding" /\ ProgressOK("deciding", work[a], place[a])
      /\ work[a] \in Works /\ KindOK(work[a]) /\ CausesOK(work[a])
  BY RunningFacts DEF Decide
<1>2. /\ state \in ValidStates
      /\ state = "inconclusive_final" => work[a].kind = "rerun"
      /\ state = "valid_inconclusive" => work[a].kind # "rerun"
  BY DEF ValidStates
<1>3. Record(a, w, "publishing")
  BY DEF Decide
<1> HIDE DEF state
<1>4. /\ w \in Works /\ w.state = state /\ SameLineage(work[a], w)
      /\ w.failure = work[a].failure /\ w.refused = work[a].refused /\ w.cause = work[a].cause
  BY <1>1, <1>2 DEF Works, SameLineage
<1> HIDE DEF w
<1>5. KindOK(w)
  BY <1>1, <1>2, <1>4 DEF KindOK, SameLineage
<1>6. CausesOK(w) /\ ProgressOK("publishing", w, "staging")
  BY <1>1, <1>2, <1>4 DEF CausesOK, BlockedOK, DeferredOK, InvalidOK, ProgressOK, Unhurt, ValidStates
<1> QED
  BY <1>1, <1>3, <1>4, <1>5, <1>6, RecordKeeps DEF Phases

\* The exceptions that no child is responsible for.
LEMMA LateFailureKeeps ==
  ASSUME AttemptsInv, NEW a \in Attempts,
         DecideTooLate(a) \/ PublishFails(a) \/ Interrupt(a)
           \/ (phase[a] = "finalizing" /\ Raise(a, work[a], BadManifest))
  PROVE  AttemptsInv'
<1>1. phase[a] \in {"admitting", "deciding", "publishing", "finalizing"}
  BY DEF DecideTooLate, PublishFails, Interrupt
<1>2. ProgressOK(phase[a], work[a], place[a]) /\ work[a] \in Works /\ KindOK(work[a])
  BY <1>1, RunningFacts
<1>3. /\ work[a].failure = 0 /\ SameLineage(work[a], work[a])
      /\ work[a].state \in {"deferred", "blocked"} => phase[a] = "finalizing" /\ work[a].refused
  BY <1>1, <1>2 DEF ProgressOK, Unhurt, SameLineage, ValidStates
<1>4. /\ LateToFinalize.category = "timeout" /\ LateToFinalize \in Causes
      /\ BadManifest.category = "correctness" /\ BadManifest \in Causes
      /\ Unknown.category = "unknown" /\ Unknown \in Causes
  BY CausesAreTyped DEF LateToFinalize, BadManifest, Unknown, Cause
<1>5. \/ phase[a] # "finalizing" /\ Raise(a, work[a], LateToFinalize)
      \/ Raise(a, work[a], BadManifest)
      \/ Raise(a, work[a], Unknown)
  BY DEF DecideTooLate, PublishFails, Interrupt, Unknown
<1> QED
  BY <1>1, <1>2, <1>3, <1>4, <1>5, RaiseKeeps DEF AdmissionCategories

\* Ends of an invocation that leave its manifest as it is.
LEMMA EndKeeps ==
  ASSUME AttemptsInv, NEW a \in Attempts, phase[a] \notin {"unused", "done", "killed"},
         NEW p \in {"done", "killed"}, NEW at \in Places,
         phase' = [phase EXCEPT ![a] = p], place' = [place EXCEPT ![a] = at],
         UNCHANGED <<work, manifest>>,
         at = place[a]
           \/ (at = "final" /\ p = "done" /\ place[a] # "none" /\ HistoryOK(manifest[a]))
  PROVE  AttemptsInv'
<1>1. /\ work[a] \in Works /\ manifest[a] \in Works
      /\ work' = [work EXCEPT ![a] = work[a]]
      /\ manifest' = [manifest EXCEPT ![a] = manifest[a]]
      /\ ManifestOK(phase[a], work[a], manifest[a], place[a])
      /\ KindOK(work[a]) /\ CausesOK(work[a])
  BY RunningFacts
<1>2. ManifestOK(p, work[a], manifest[a], at)
  BY <1>1 DEF ManifestOK
<1>3. SameLineage(work[a], work[a]) /\ ProgressOK(p, work[a], at)
  BY DEF SameLineage, ProgressOK
<1> QED
  BY <1>1, <1>2, <1>3, StepKeeps DEF Phases

\* Every step of the specification keeps the invariant.
LEMMA NextKeeps == AttemptsInv /\ [Next]_vars => AttemptsInv'
<1> SUFFICES ASSUME AttemptsInv, [Next]_vars PROVE AttemptsInv'
  OBVIOUS
<1>1. CASE UNCHANGED vars
  BY <1>1 DEF vars, AttemptsInv, TypeOK, StartedInOrder, AttemptOK, StartedOK, SourceOK, Ended
<1>2. ASSUME NEW a \in Attempts, StartFresh(a) PROVE AttemptsInv'
  BY <1>2, BeginKeeps DEF StartFresh, Attempts
<1>3. ASSUME NEW a \in Attempts, NEW s \in Attempts, StartRerun(a, s) \/ StartRetry(a, s)
      PROVE  AttemptsInv'
  <2>1. s # 0
    BY DEF Attempts
  <2> QED
    BY <1>3, <2>1, BeginKeeps DEF StartRerun, StartRetry, MayRerun, MayRetry
<1>4. ASSUME NEW a \in Attempts, Step(a) PROVE AttemptsInv'
  <2>1. CASE Admit(a)
    BY <2>1, AdmitKeeps
  <2>2. CASE \E cause \in Refusals : Refuse(a, cause)
    BY <2>2, RefuseKeeps
  <2>3. CASE LaunchTooLate(a) \/ \E failure \in LaunchFailures : ChildFails(a, failure)
    BY <2>3, LaunchFailsKeeps
  <2>4. CASE \E agrees \in BOOLEAN : ChildSucceeds(a, agrees)
    BY <2>4, ChildSucceedsKeeps
  <2>5. CASE \E decision \in {"valid_stable", "valid_inconclusive"} : Decide(a, decision)
    BY <2>5, DecideKeeps
  <2>6. CASE DecideTooLate(a) \/ PublishFails(a)
    BY <2>6, LateFailureKeeps
  <2>7. CASE Publish(a) \/ Finalize(a)
    <3>1. phase[a] \notin {"unused", "done", "killed"} /\ Validates[a]
      BY <2>7 DEF Publish, Finalize
    <3>2. place[a] # "none" /\ HistoryOK(manifest[a])
      BY <3>1, ValidHasHistory
    <3> QED
      BY <2>7, <3>1, <3>2, EndKeeps DEF Publish, Finalize, Places
  <2>8. CASE FinalizeFails(a)
    <3>1. CASE phase[a] = "finalizing" /\ Raise(a, work[a], BadManifest)
      BY <3>1, LateFailureKeeps
    <3>2. CASE /\ phase[a] = "salvaging"
               /\ phase' = [phase EXCEPT ![a] = "done"]
               /\ UNCHANGED <<work, manifest, place>>
      <4>1. PICK at \in Places : at = place[a] /\ place' = [place EXCEPT ![a] = at]
        BY <3>2, RunningFacts
      <4>2. UNCHANGED <<work, manifest>>
        BY <3>2
      <4>3. phase[a] \notin {"unused", "done", "killed"}
        BY <3>2
      <4> QED
        BY <3>2, <4>1, <4>2, <4>3, EndKeeps
    <3> QED
      BY <2>8, <3>1, <3>2 DEF FinalizeFails, GiveUp
  <2> QED
    BY <1>4, <2>1, <2>2, <2>3, <2>4, <2>5, <2>6, <2>7, <2>8 DEF Step
<1>5. ASSUME NEW a \in Attempts, Interrupt(a) PROVE AttemptsInv'
  BY <1>5, LateFailureKeeps
<1>6. ASSUME NEW a \in Attempts, Crash(a) PROVE AttemptsInv'
  <2>1. phase[a] \notin {"unused", "done", "killed"}
    BY <1>6 DEF Crash, Running
  <2>2. PICK at \in Places : at = place[a] /\ place' = [place EXCEPT ![a] = at]
    BY <1>6, <2>1, RunningFacts DEF Crash
  <2>3. UNCHANGED <<work, manifest>> /\ phase' = [phase EXCEPT ![a] = "killed"]
    BY <1>6 DEF Crash
  <2> QED
    BY <2>1, <2>2, <2>3, EndKeeps
<1> QED
  BY <1>1, <1>2, <1>3, <1>4, <1>5, <1>6 DEF Next

\* The invariant holds initially.
LEMMA InitKeeps == Init => AttemptsInv
<1> SUFFICES ASSUME Init PROVE AttemptsInv
  OBVIOUS
<1>1. NoWork \in Works
  BY CausesAreTyped, ChildrenAssumption DEF NoWork, Works
<1>2. TypeOK
  BY <1>1 DEF Init, TypeOK
<1>3. \A a \in Attempts : phase[a] = "unused" /\ place[a] = "none"
  BY DEF Init
<1>4. StartedInOrder
  BY <1>3 DEF StartedInOrder
<1>5. \A a \in Attempts : AttemptOK(a)
  BY <1>3 DEF AttemptOK, ProgressOK, ManifestOK
<1> QED
  BY <1>2, <1>4, <1>5 DEF AttemptsInv

\* The inductive invariant holds in every reachable state.
LEMMA AttemptsInvariant == Spec => []AttemptsInv
<1>1. Init => AttemptsInv
  BY InitKeeps
<1>2. AttemptsInv /\ [Next]_vars => AttemptsInv'
  BY NextKeeps
<1> QED
  BY <1>1, <1>2, PTL DEF Spec

\* Every variable of the attempts keeps its type, whichever invocations
\* overlap, fail, are interrupted or are killed.
THEOREM V04TypeOK == Spec => []TypeOK
<1>1. AttemptsInv => TypeOK
  BY DEF AttemptsInv
<1> QED
  BY <1>1, AttemptsInvariant, PTL

\* A published attempt that claims a valid state has all its children, and one
\* that claims a rerun's state reran a complete inconclusive attempt, however
\* many invocations run at the same time.
THEOREM V04ValidMeansComplete == Spec => []ValidMeansComplete
<1>1. AttemptsInv => ValidMeansComplete
  <2> SUFFICES ASSUME AttemptsInv, NEW a \in Published
               PROVE
                 /\ manifest[a].state \in ValidStates =>
                      /\ manifest[a].admitted = Children /\ manifest[a].children = Children
                      /\ ~ manifest[a].refused /\ manifest[a].failure = 0
                      /\ manifest[a].consistent
                 /\ manifest[a].state = "inconclusive_final" <=>
                      /\ manifest[a].kind = "rerun"
                      /\ manifest[a].state \in {"valid_inconclusive", "inconclusive_final"}
                 /\ manifest[a].kind = "rerun" =>
                      /\ manifest[manifest[a].source].state = "valid_inconclusive"
                      /\ manifest[manifest[a].source].kind # "rerun"
    BY DEF ValidMeansComplete
  <2>1. a \in Attempts /\ place[a] = "final" /\ AttemptOK(a)
    BY DEF Published, AttemptsInv
  <2>2. /\ manifest[a] = work[a] /\ HistoryOK(manifest[a])
        /\ KindOK(work[a]) /\ SourceOK(a)
    BY <2>1 DEF AttemptOK, ManifestOK, ProgressOK, StartedOK
  <2>3. manifest[a].state \in ValidStates => manifest[a].state \notin NonvalidStates
    BY DEF ValidStates, NonvalidStates
  <2>4. manifest[a].kind = "rerun" =>
          /\ manifest[manifest[a].source].state = "valid_inconclusive"
          /\ manifest[manifest[a].source].kind # "rerun"
    BY <2>2 DEF KindOK, SourceOK
  <2>5. manifest[a].state = "inconclusive_final" <=>
          /\ manifest[a].kind = "rerun"
          /\ manifest[a].state \in {"valid_inconclusive", "inconclusive_final"}
    BY <2>2 DEF KindOK
  <2> QED
    BY <2>2, <2>3, <2>4, <2>5 DEF HistoryOK
<1> QED
  BY <1>1, AttemptsInvariant, PTL

-----------------------------------------------------------------------------
(***************************************************************************)
(* Part 3: what has been refused once does not validate later.  Manifests  *)
(* are added and none is withdrawn, so a validation that fails because of  *)
(* an attempt's lineage goes on failing.                                   *)
(***************************************************************************)
ManifestsStay ==
  \A b \in Attempts : place[b] # "none" =>
    place'[b] # "none" /\ manifest'[b].source = manifest[b].source

EndedStay ==
  \A b \in Attempts : Ended(b) =>
    phase'[b] = phase[b] /\ manifest'[b] = manifest[b] /\ place'[b] = place[b]

\* An attempt has a claim to its source while it runs, and has one that every
\* later invocation can see when it has a manifest.
Claims(a) == a \in Running \/ place[a] # "none"

\* Only an invocation that begins raises a claim, and none exchanges it.
ClaimsStay ==
  \A b \in Attempts : phase[b] # "unused" =>
    work'[b].source = work[b].source /\ (Claims(b)' => Claims(b))

\* What a record of a running attempt changes.
LEMMA RecordShape ==
  ASSUME AttemptsInv,
         NEW a \in Attempts, phase[a] \notin {"unused", "done", "killed"},
         NEW w \in Works, w.source = work[a].source, NEW next,
         Record(a, w, next)
  PROVE  /\ manifest'[a] = w /\ place'[a] = "staging"
         /\ \A b \in Attempts : b # a => manifest'[b] = manifest[b] /\ place'[b] = place[b]
         /\ ManifestsStay /\ EndedStay /\ ClaimsStay
<1>1. /\ phase \in [Attempts -> Phases] /\ manifest \in [Attempts -> Works]
      /\ work \in [Attempts -> Works] /\ place \in [Attempts -> Places]
  BY DEF AttemptsInv, TypeOK, Phases, Places
<1>2. manifest'[a] = w /\ place'[a] = "staging"
  BY <1>1 DEF Record
<1>3. \A b \in Attempts : b # a =>
        phase'[b] = phase[b] /\ manifest'[b] = manifest[b] /\ place'[b] = place[b]
  BY <1>1 DEF Record
<1>4. place[a] # "none" => manifest[a] = work[a]
  BY RunningFacts DEF ManifestOK
<1>5. ManifestsStay
  BY <1>2, <1>3, <1>4 DEF ManifestsStay
<1>6. EndedStay
  BY <1>3 DEF EndedStay, Ended
<1>7. work'[a] = w /\ \A b \in Attempts : b # a => work'[b] = work[b]
  BY <1>1 DEF Record
<1>8. ClaimsStay
  BY <1>3, <1>7 DEF ClaimsStay, Claims, Running
<1> QED
  BY <1>2, <1>3, <1>5, <1>6, <1>8

\* A step leaves the manifests as they are, or records one of three things: a
\* refusal, a decision or an exception, the last one with its cause.
RefusalRecorded(a) ==
  \E w \in Works : /\ w.source = work[a].source
                   /\ w.cause \in Refusals
                   /\ Record(a, w, "finalizing")

DecisionRecorded(a) ==
  \E w \in Works : /\ w.source = work[a].source
                   /\ w.state \in ValidStates
                   /\ Record(a, w, "publishing")

ExceptionRecorded(a) ==
  \E w \in Works, cause \in Causes :
    /\ w.source = work[a].source
    /\ w.state = "deferred" =>
         w = work[a] /\ place[a] # "none" /\ (cause = BadManifest => ~ Validates[a])
    /\ Raise(a, w, cause)

\* Otherwise a directory is renamed if its manifest validates.
RenamedIfValid ==
  \A b \in Attempts : place'[b] # place[b] => place[b] # "none" /\ Validates[b]

ManifestsUnchanged ==
  UNCHANGED manifest /\ ManifestsStay /\ EndedStay /\ RenamedIfValid /\ ClaimsStay

LEMMA StepShapes ==
  ASSUME AttemptsInv, [Next]_vars
  PROVE  \/ ManifestsUnchanged
         \/ \E a \in Attempts :
              /\ phase[a] \notin {"unused", "done", "killed"}
              /\ RefusalRecorded(a) \/ DecisionRecorded(a) \/ ExceptionRecorded(a)
<1>1. /\ phase \in [Attempts -> Phases] /\ manifest \in [Attempts -> Works]
      /\ work \in [Attempts -> Works] /\ place \in [Attempts -> Places]
  BY DEF AttemptsInv, TypeOK, Phases, Places
<1>2. ASSUME NEW a \in Attempts, NEW p \in Phases, phase[a] \notin {"done", "killed"},
             phase' = [phase EXCEPT ![a] = p], UNCHANGED <<manifest, place>>,
             \A b \in Attempts : phase[b] # "unused" => work'[b].source = work[b].source
      PROVE  ManifestsUnchanged
  <2>1. ManifestsStay /\ EndedStay /\ RenamedIfValid
    BY <1>1, <1>2 DEF ManifestsStay, EndedStay, RenamedIfValid, Ended
  <2>2. ClaimsStay
    BY <1>1, <1>2 DEF ClaimsStay, Claims, Running
  <2> QED
    BY <1>2, <2>1, <2>2 DEF ManifestsUnchanged
<1>3. ASSUME NEW a \in Attempts, phase[a] \in {"publishing", "finalizing", "salvaging"},
             Validates[a],
             phase' = [phase EXCEPT ![a] = "done"],
             place' = [place EXCEPT ![a] = "final"], UNCHANGED <<work, manifest>>
      PROVE  ManifestsUnchanged
  <2>1. place[a] # "none"
    BY <1>3, ValidHasHistory
  <2>2. ManifestsStay /\ EndedStay /\ RenamedIfValid
    BY <1>1, <1>3, <2>1 DEF ManifestsStay, EndedStay, RenamedIfValid, Ended
  <2>3. ClaimsStay
    BY <1>1, <1>3, <2>1 DEF ClaimsStay, Claims, Running
  <2> QED
    BY <1>3, <2>2, <2>3 DEF ManifestsUnchanged
<1>4. CASE UNCHANGED vars
  BY <1>4 DEF vars, ManifestsUnchanged, ManifestsStay, EndedStay, RenamedIfValid, ClaimsStay,
              Claims, Running
<1>5. ASSUME NEW a \in Attempts, NEW kind, NEW s, Begin(a, kind, s)
      PROVE  ManifestsUnchanged
  <2>1. \A b \in Attempts : phase[b] # "unused" => work'[b] = work[b]
    BY <1>1, <1>5 DEF Begin
  <2> QED
    BY <1>2, <1>5, <2>1 DEF Begin, Phases
<1>6. ASSUME NEW a \in Attempts, Admit(a) PROVE ManifestsUnchanged
  <2>1. \A b \in Attempts : work'[b].source = work[b].source
    BY <1>1, <1>6 DEF Admit, Works
  <2> QED
    BY <1>2, <1>6, <2>1 DEF Admit, Phases
<1>7. ASSUME NEW a \in Attempts, NEW agrees \in BOOLEAN, ChildSucceeds(a, agrees)
      PROVE  ManifestsUnchanged
  <2> DEFINE next == IF ChildrenRemain(work[a]) THEN "admitting" ELSE "deciding"
  <2>1. next \in Phases /\ phase' = [phase EXCEPT ![a] = next] /\ UNCHANGED <<manifest, place>>
        /\ phase[a] = "launching"
    BY <1>7 DEF ChildSucceeds, Phases
  <2> HIDE DEF next
  <2>2. \A b \in Attempts : work'[b].source = work[b].source
    BY <1>1, <1>7 DEF ChildSucceeds, Works
  <2> QED
    BY <1>2, <2>1, <2>2
<1>8. ASSUME NEW a \in Attempts, Crash(a) PROVE ManifestsUnchanged
  BY <1>2, <1>8 DEF Crash, Running, Phases
<1>9. ASSUME NEW a \in Attempts, Publish(a) \/ Finalize(a) PROVE ManifestsUnchanged
  BY <1>3, <1>9 DEF Publish, Finalize
<1>10. ASSUME NEW a \in Attempts, phase[a] = "salvaging",
              phase' = [phase EXCEPT ![a] = "done"], UNCHANGED <<work, manifest, place>>
       PROVE  ManifestsUnchanged
  BY <1>2, <1>10 DEF Phases
<1>11. ASSUME NEW a \in Attempts, NEW cause \in Refusals, Refuse(a, cause)
       PROVE  RefusalRecorded(a) \/ ExceptionRecorded(a)
  <2> DEFINE w == [work[a] EXCEPT !.refused = TRUE]
  <2>1. phase[a] = "admitting" /\ work[a] \in Works /\ ProgressOK("admitting", work[a], place[a])
    BY <1>11, RunningFacts DEF Refuse
  <2>2. w \in Works /\ w.source = work[a].source /\ w.state = work[a].state
    BY <2>1 DEF Works
  <2>3. ASSUME NEW state \in {"blocked", "deferred"},
               Record(a, [w EXCEPT !.state = state, !.cause = cause], "finalizing")
        PROVE  RefusalRecorded(a)
    <3> DEFINE v == [w EXCEPT !.state = state, !.cause = cause]
    <3>1. v \in Works /\ v.source = work[a].source /\ v.cause = cause
      BY <2>2, CausesAreTyped DEF Works, NonvalidStates
    <3> QED
      BY <2>3, <3>1 DEF RefusalRecorded
  <2>4. ASSUME Raise(a, w, BadTransition)
        PROVE  ExceptionRecorded(a)
    <3>1. w.state # "deferred"
      BY <2>1, <2>2 DEF ProgressOK
    <3> HIDE DEF w
    <3> QED
      BY <2>2, <2>4, <3>1, CausesAreTyped DEF ExceptionRecorded
  <2> HIDE DEF w
  <2> QED
    BY <1>11, <2>3, <2>4 DEF Refuse, w
<1>12. ASSUME NEW a \in Attempts, NEW failure \in LaunchFailures, ChildFails(a, failure)
       PROVE  ExceptionRecorded(a)
  <2> DEFINE w == [work[a] EXCEPT !.failure = work[a].admitted]
             cause == LaunchCause(failure, work[a].admitted)
  <2>1. phase[a] = "launching" /\ work[a] \in Works /\ ProgressOK("launching", work[a], place[a])
    BY <1>12, RunningFacts DEF ChildFails
  <2>2. work[a].admitted \in 1 .. Children
    BY <2>1, ChildrenAssumption DEF Works, ProgressOK
  <2>3. w \in Works /\ w.source = work[a].source /\ w.state = "running"
    BY <2>1, <2>2 DEF Works, ProgressOK
  <2>4. cause \in Causes
    BY <2>2, CausesAreTyped
  <2>5. Raise(a, w, cause)
    BY <1>12 DEF ChildFails
  <2> HIDE DEF w, cause
  <2> QED
    BY <2>3, <2>4, <2>5 DEF ExceptionRecorded
<1>13. ASSUME NEW a \in Attempts, NEW decision \in {"valid_stable", "valid_inconclusive"},
              Decide(a, decision)
       PROVE  DecisionRecorded(a)
  <2> DEFINE state == IF work[a].kind = "rerun" /\ decision = "valid_inconclusive"
                        THEN "inconclusive_final" ELSE decision
             w == [work[a] EXCEPT !.state = state]
  <2>1. work[a] \in Works /\ state \in ValidStates
    BY <1>1 DEF ValidStates
  <2>2. Record(a, w, "publishing")
    BY <1>13 DEF Decide
  <2> HIDE DEF state
  <2>3. w \in Works /\ w.source = work[a].source /\ w.state \in ValidStates
    BY <2>1 DEF Works
  <2> QED
    BY <2>2, <2>3 DEF DecisionRecorded
<1>14. ASSUME NEW a \in Attempts, NEW cause \in Causes, Raise(a, work[a], cause),
              phase[a] \in {"admitting", "launching", "deciding", "publishing", "finalizing"},
              phase[a] = "finalizing" /\ cause = BadManifest => ~ Validates[a]
       PROVE  ExceptionRecorded(a)
  <2>1. ProgressOK(phase[a], work[a], place[a]) /\ work[a] \in Works
    BY <1>14, RunningFacts
  <2>2. work[a].state = "deferred" => phase[a] = "finalizing" /\ place[a] # "none"
    BY <1>14, <2>1 DEF ProgressOK, ValidStates
  <2> QED
    BY <1>14, <2>1, <2>2 DEF ExceptionRecorded
<1>15. ASSUME NEW a \in Attempts,
              \/ LaunchTooLate(a)
              \/ DecideTooLate(a)
              \/ PublishFails(a)
              \/ Interrupt(a)
              \/ FinalizeFails(a) /\ phase[a] = "finalizing"
       PROVE  ExceptionRecorded(a)
  <2>1. Unknown # BadManifest
    BY DEF Unknown, BadManifest, Cause
  <2>2. CASE LaunchTooLate(a)
    BY <1>14, <2>2, CausesAreTyped DEF LaunchTooLate
  <2>3. CASE DecideTooLate(a)
    BY <1>14, <2>3, CausesAreTyped DEF DecideTooLate
  <2>4. CASE PublishFails(a)
    BY <1>14, <2>4, CausesAreTyped DEF PublishFails
  <2>5. CASE Interrupt(a)
    BY <1>14, <2>1, <2>5, CausesAreTyped DEF Interrupt, Unknown
  <2>6. CASE FinalizeFails(a) /\ phase[a] = "finalizing"
    BY <1>14, <2>6, CausesAreTyped DEF FinalizeFails, GiveUp
  <2> QED
    BY <1>15, <2>2, <2>3, <2>4, <2>5, <2>6
<1>16. ASSUME NEW a \in Attempts, StartFresh(a) PROVE ManifestsUnchanged
  BY <1>5, <1>16 DEF StartFresh
<1>17. ASSUME NEW a \in Attempts, NEW s \in Attempts, StartRerun(a, s) \/ StartRetry(a, s)
       PROVE  ManifestsUnchanged
  BY <1>5, <1>17 DEF StartRerun, StartRetry
<1>18. ASSUME NEW a \in Attempts, FinalizeFails(a)
       PROVE  ManifestsUnchanged \/ ExceptionRecorded(a)
  BY <1>10, <1>15, <1>18 DEF FinalizeFails, GiveUp
<1>19. ASSUME NEW a \in Attempts, Step(a) \/ Interrupt(a)
       PROVE  phase[a] \notin {"unused", "done", "killed"}
  BY <1>19 DEF Step, Admit, Refuse, LaunchTooLate, ChildFails, ChildSucceeds, Decide, DecideTooLate,
               Publish, PublishFails, Finalize, FinalizeFails, Interrupt
<1>20. ASSUME NEW a \in Attempts, Step(a) \/ Interrupt(a)
       PROVE  ManifestsUnchanged \/ RefusalRecorded(a) \/ DecisionRecorded(a) \/ ExceptionRecorded(a)
  BY <1>6, <1>7, <1>9, <1>11, <1>12, <1>13, <1>15, <1>18, <1>20 DEF Step
<1>21. CASE \E a \in Attempts : Step(a) \/ Interrupt(a)
  BY <1>19, <1>20, <1>21
<1> QED
  BY <1>4, <1>8, <1>16, <1>17, <1>21 DEF Next

\* The consumers of an attempt are finitely many, and a step only adds some.
LEMMA ConsumersGrow ==
  ASSUME ManifestsStay, NEW s,
         IsFiniteSet(Consumers(s)'), Cardinality(Consumers(s)') <= 1
  PROVE  Cardinality(Consumers(s)) <= 1
<1>1. Consumers(s) \subseteq Consumers(s)'
  BY DEF ManifestsStay, Consumers
<1>2. Cardinality(Consumers(s)) <= Cardinality(Consumers(s)')
  BY <1>1, FS_Subset
<1>3. Cardinality(Consumers(s)) \in Nat /\ Cardinality(Consumers(s)') \in Nat
  BY <1>1, FS_Subset, FS_CardinalityType
<1> QED
  BY <1>2, <1>3

LEMMA AttemptsAreFinite == IsFiniteSet(Attempts) /\ \A S \in SUBSET Attempts : IsFiniteSet(S)
<1>1. IsFiniteSet(Attempts)
  BY FS_Interval, AttemptsAssumption DEF Attempts
<1> QED
  BY <1>1, FS_Subset

\* An attempt that has ended and validates after a step did so before: the
\* first one that does not would have a source that did, and no consumer more.
LEMMA EndedValidityFalls ==
  ASSUME AttemptsInv, AttemptsInv', ManifestsStay, EndedStay
  PROVE  \A a \in Attempts : Ended(a) /\ Validates'[a] => Validates[a]
<1> DEFINE Gained == {a \in Attempts : Ended(a) /\ Validates'[a] /\ ~ Validates[a]}
<1> SUFFICES ASSUME Gained # {} PROVE FALSE
  OBVIOUS
<1>1. PICK a \in Gained : \A b \in Gained : a <= b
  <2>1. Gained \in SUBSET Nat
    BY DEF Attempts
  <2> HIDE DEF Gained
  <2> QED
    BY <2>1, LeastNatural
<1>2. a \in Attempts /\ Ended(a) /\ Validates'[a] /\ ~ Validates[a]
  BY <1>1
<1>3. ValidatesUnfolds /\ ValidatesUnfolds'
  BY ValidatesRule, PTL
<1>4. ValidGiven(Validates, a)'
  BY <1>2, <1>3 DEF ValidatesUnfolds
<1>5. manifest'[a] = manifest[a] /\ place'[a] = place[a]
  BY <1>2 DEF EndedStay
<1> PICK s \in {0} \cup Attempts : s = manifest[a].source
  BY <1>2 DEF AttemptsInv, TypeOK, Works
<1>6. /\ place[a] # "none" /\ HistoryOK(manifest[a])
      /\ s # 0 => Validates'[s] /\ Cardinality(Consumers(s)') <= 1
  BY <1>4, <1>5 DEF ValidGiven, Consumers
<1>7. s # 0 => s \in Attempts /\ s < a /\ Ended(s)
  <2>1. AttemptOK(a) /\ phase[a] # "unused"
    BY <1>2 DEF AttemptsInv, Ended
  <2>2. manifest[a] = work[a] /\ SourceOK(a)
    BY <1>6, <2>1 DEF AttemptOK, StartedOK, ManifestOK
  <2> QED
    BY <2>2 DEF SourceOK
<1>8. s # 0 => Validates[s]
  <2>1. s # 0 => ~ (a <= s)
    BY <1>7 DEF Attempts
  <2> QED
    BY <1>1, <1>6, <1>7, <2>1
<1>9. s # 0 => Cardinality(Consumers(s)) <= 1
  <2>1. IsFiniteSet(Consumers(s)')
    BY AttemptsAreFinite DEF Consumers
  <2> QED
    BY <1>6, <2>1, ConsumersGrow
<1>10. ValidGiven(Validates, a)
  BY <1>6, <1>8, <1>9 DEF ValidGiven
<1> QED
  BY <1>2, <1>3, <1>10 DEF ValidatesUnfolds

\* So does any attempt with a manifest whose history is not mended by the step.
LEMMA ValidityFalls ==
  ASSUME AttemptsInv, AttemptsInv', ManifestsStay, EndedStay,
         NEW a \in Attempts, place[a] # "none",
         HistoryOK(manifest'[a]) => HistoryOK(manifest[a]),
         Validates'[a]
  PROVE  Validates[a]
<1> PICK s \in {0} \cup Attempts : s = manifest[a].source
  BY DEF AttemptsInv, TypeOK, Works
<1>1. ValidatesUnfolds /\ ValidatesUnfolds'
  BY ValidatesRule, PTL
<1>2. ValidGiven(Validates, a)'
  BY <1>1 DEF ValidatesUnfolds
<1>3. manifest'[a].source = s
  BY DEF ManifestsStay
<1>4. /\ HistoryOK(manifest'[a])
      /\ s # 0 => Validates'[s] /\ Cardinality(Consumers(s)') <= 1
  BY <1>2, <1>3 DEF ValidGiven, Consumers
<1>5. s # 0 => s \in Attempts /\ Ended(s)
  <2>1. AttemptOK(a) /\ phase[a] # "unused"
    BY DEF AttemptsInv, AttemptOK, ProgressOK
  <2>2. manifest[a] = work[a] /\ SourceOK(a)
    BY <2>1 DEF AttemptOK, StartedOK, ManifestOK
  <2> QED
    BY <2>2 DEF SourceOK
<1>6. s # 0 => Validates[s]
  BY <1>4, <1>5, EndedValidityFalls
<1>7. s # 0 => Cardinality(Consumers(s)) <= 1
  <2>1. IsFiniteSet(Consumers(s)')
    BY AttemptsAreFinite DEF Consumers
  <2> QED
    BY <1>4, <2>1, ConsumersGrow
<1>8. ValidGiven(Validates, a)
  BY <1>4, <1>6, <1>7 DEF ValidGiven
<1> QED
  BY <1>1, <1>8 DEF ValidatesUnfolds

(***************************************************************************)
(* A deferral that its own validation refused is recorded once more, as a  *)
(* deferral with the refusal as its cause.  It never validates, so it is   *)
(* never published.                                                        *)
(***************************************************************************)
RefusedDeferral(m) == m.state = "deferred" /\ m.cause = BadManifest

DeferralsInv ==
  \A a \in Attempts :
    place[a] # "none" /\ RefusedDeferral(manifest[a]) => place[a] # "final" /\ ~ Validates[a]

LEMMA DeferralsKept ==
  ASSUME AttemptsInv, AttemptsInv', DeferralsInv, [Next]_vars
  PROVE  DeferralsInv'
<1>1. ASSUME ManifestsStay, EndedStay, NEW a \in Attempts,
             place[a] # "none", RefusedDeferral(manifest[a]), manifest'[a] = manifest[a]
      PROVE  ~ Validates'[a]
  BY <1>1, ValidityFalls DEF DeferralsInv
<1>2. CASE ManifestsUnchanged
  <2>1. \A a \in Attempts : place'[a] # "none" => place[a] # "none"
    BY <1>2 DEF ManifestsUnchanged, RenamedIfValid
  <2>2. \A a \in Attempts : place'[a] = "final" => place[a] = "final" \/ Validates[a]
    BY <1>2 DEF ManifestsUnchanged, RenamedIfValid
  <2>3. \A a \in Attempts : manifest'[a] = manifest[a]
    BY <1>2 DEF ManifestsUnchanged
  <2> QED
    BY <1>1, <1>2, <2>1, <2>2, <2>3 DEF ManifestsUnchanged, DeferralsInv
<1>3. ASSUME NEW a \in Attempts, phase[a] \notin {"unused", "done", "killed"},
             NEW w \in Works, w.source = work[a].source, NEW next, Record(a, w, next),
             RefusedDeferral(w) =>
               /\ place[a] # "none"
               /\ HistoryOK(w) => HistoryOK(manifest[a])
               /\ ~ Validates[a]
      PROVE  DeferralsInv'
  <2>1. /\ manifest'[a] = w /\ place'[a] = "staging"
        /\ \A b \in Attempts : b # a => manifest'[b] = manifest[b] /\ place'[b] = place[b]
        /\ ManifestsStay /\ EndedStay
    BY <1>3, RecordShape
  <2>2. RefusedDeferral(w) => ~ Validates'[a]
    BY <1>3, <2>1, ValidityFalls
  <2> QED
    BY <1>1, <2>1, <2>2 DEF DeferralsInv
<1>4. ASSUME NEW a \in Attempts, phase[a] \notin {"unused", "done", "killed"}, RefusalRecorded(a)
      PROVE  DeferralsInv'
  <2>1. PICK w \in Works : /\ w.source = work[a].source
                           /\ w.cause \in Refusals
                           /\ Record(a, w, "finalizing")
    BY <1>4 DEF RefusalRecorded
  <2>2. ~ RefusedDeferral(w)
    BY <2>1, CausesAreTyped DEF RefusedDeferral, BadManifest, Cause, AdmissionCategories
  <2> QED
    BY <1>3, <1>4, <2>1, <2>2
<1>5. ASSUME NEW a \in Attempts, phase[a] \notin {"unused", "done", "killed"}, DecisionRecorded(a)
      PROVE  DeferralsInv'
  <2>1. PICK w \in Works : /\ w.source = work[a].source
                           /\ w.state \in ValidStates
                           /\ Record(a, w, "publishing")
    BY <1>5 DEF DecisionRecorded
  <2>2. ~ RefusedDeferral(w)
    BY <2>1 DEF RefusedDeferral, ValidStates
  <2> QED
    BY <1>3, <1>5, <2>1, <2>2
<1>6. ASSUME NEW a \in Attempts, phase[a] \notin {"unused", "done", "killed"}, ExceptionRecorded(a)
      PROVE  DeferralsInv'
  <2>1. PICK w \in Works, cause \in Causes :
          /\ w.source = work[a].source
          /\ w.state = "deferred" =>
               w = work[a] /\ place[a] # "none" /\ (cause = BadManifest => ~ Validates[a])
          /\ Raise(a, w, cause)
    BY <1>6 DEF ExceptionRecorded
  <2> DEFINE v == [w EXCEPT !.state = StateAfterException(w, cause), !.cause = cause]
  <2>2. /\ v \in Works /\ v.source = w.source /\ v.cause = cause
        /\ v.state = StateAfterException(w, cause)
        /\ v.refused = w.refused /\ v.failure = w.failure
        /\ v.children = w.children /\ v.admitted = w.admitted
    BY DEF Works, StateAfterException, NonvalidStates
  <2>3. Record(a, v, "salvaging")
    BY <2>1 DEF Raise
  <2> HIDE DEF v
  <2>4. ASSUME RefusedDeferral(v)
        PROVE  /\ place[a] # "none"
               /\ HistoryOK(v) => HistoryOK(manifest[a])
               /\ ~ Validates[a]
    <3>1. w.state = "deferred" /\ cause = BadManifest
      BY <2>2, <2>4 DEF RefusedDeferral, StateAfterException
    <3>2. w = manifest[a]
      BY <1>6, <2>1, <3>1, RunningFacts DEF ManifestOK
    <3>3. HistoryOK(v) => HistoryOK(w)
      BY <2>2, <2>4, <3>1 DEF HistoryOK, IsDeferral, DeferredHistory, RefusedDeferral, NonvalidStates
    <3> QED
      BY <2>1, <3>1, <3>2, <3>3
  <2> QED
    BY <1>3, <1>6, <2>1, <2>2, <2>3, <2>4
<1> QED
  BY <1>2, <1>4, <1>5, <1>6, StepShapes

\* An attempt is blocked exactly if it met the root cause of the attempt it
\* retries again, other than a busy host or an interrupt, however many
\* invocations run at the same time.
THEOREM V04BlockedMeansRecurrence == Spec => []BlockedMeansRecurrence
<1>1. Init => DeferralsInv
  BY DEF Init, DeferralsInv
<1>2. AttemptsInv /\ AttemptsInv' /\ DeferralsInv /\ [Next]_vars => DeferralsInv'
  BY DeferralsKept
<1>3. Spec => []DeferralsInv
  BY <1>1, <1>2, AttemptsInvariant, PTL DEF Spec
<1>4. AttemptsInv /\ DeferralsInv => BlockedMeansRecurrence
  <2> SUFFICES ASSUME AttemptsInv, DeferralsInv, NEW a \in Published
               PROVE  manifest[a].state = "blocked" <=>
                        /\ manifest[a].kind = "retry"
                        /\ manifest[a].state \in NonvalidStates
                        /\ manifest[a].cause = manifest[a].sourceCause
                        /\ manifest[a].cause.category \notin {"busy_threshold", "unknown"}
    BY DEF BlockedMeansRecurrence
  <2> DEFINE m == manifest[a]
             s == manifest[a].source
  <2>1. a \in Attempts /\ place[a] = "final" /\ AttemptOK(a)
    BY DEF Published, AttemptsInv
  <2>2. /\ m = work[a] /\ HistoryOK(m) /\ m \in Works
        /\ KindOK(m) /\ CausesOK(m) /\ SourceOK(a) /\ ~ RefusedDeferral(m)
    BY <2>1 DEF AttemptsInv, TypeOK, AttemptOK, ManifestOK, ProgressOK, StartedOK, DeferralsInv
  <2>3. CASE m.state = "blocked"
    <3>1. m.kind = "retry" /\ m.state \in NonvalidStates
      BY <2>2, <2>3 DEF HistoryOK, NonvalidStates
    <3>2. ~ IsDeferral(m) => ~ m.refused /\ m.failure # 0
      BY <2>2, <3>1 DEF HistoryOK, LaunchHistory, Works
    <3>3. IsDeferral(m) <=> m.cause.category \in AdmissionCategories
      BY <2>3 DEF IsDeferral, AdmissionCategories
    <3>4. m.cause = m.sourceCause /\ m.cause.category # "busy_threshold"
      BY <2>2, <2>3, <3>2, <3>3 DEF CausesOK, BlockedOK
    <3>5. m.cause.category # "unknown"
      BY <2>2, <3>2, <3>3 DEF CausesOK, AdmissionCategories
    <3> QED
      BY <2>3, <3>1, <3>4, <3>5
  <2>4. ASSUME m.state # "blocked", m.kind = "retry", m.state \in NonvalidStates,
               m.cause = m.sourceCause, m.cause.category \notin {"busy_threshold", "unknown"}
        PROVE  FALSE
    <3>1. /\ s \in Attempts /\ Ended(s) /\ place[s] # "none" /\ HistoryOK(manifest[s])
          /\ m.sourceState = manifest[s].state /\ m.sourceCause = manifest[s].cause
          /\ m.sourceState \in NonvalidStates
      BY <2>2, <2>4 DEF KindOK, SourceOK
    <3>2. manifest[s] = work[s] /\ CausesOK(manifest[s])
      BY <3>1 DEF AttemptsInv, AttemptOK, ManifestOK, StartedOK, Ended
    <3>3. CASE m.state = "deferred"
      <4>1. m.cause \in Refusals
        BY <2>2, <2>4, <3>3 DEF CausesOK, DeferredOK, RefusedDeferral, Unknown, Cause
      <4>2. m.cause.category = "missing_prerequisite"
        BY <2>4, <4>1, CausesAreTyped DEF AdmissionCategories
      <4>3. m.sourceState = "invalid"
        BY <2>2, <2>4, <3>1, <3>3, <4>2 DEF CausesOK, DeferredOK, NonvalidStates
      <4> QED
        BY <2>4, <3>1, <3>2, <4>2, <4>3 DEF CausesOK, InvalidOK, AdmissionCategories
    <3>4. CASE m.state = "invalid"
      <4>1. m.failure # 0
        BY <2>2, <3>4 DEF HistoryOK, IsDeferral, LaunchHistory, NonvalidStates, Works
      <4>2. m.sourceState = "deferred" /\ m.cause \notin {Unknown, BadManifest}
            /\ m.cause.category \notin AdmissionCategories
        BY <2>2, <2>4, <3>1, <3>4, <4>1 DEF CausesOK, InvalidOK, NonvalidStates
      <4>3. manifest[s].cause \in Refusals
        BY <2>4, <3>1, <3>2, <4>2 DEF CausesOK, DeferredOK
      <4> QED
        BY <2>4, <3>1, <4>2, <4>3, CausesAreTyped
    <3> QED
      BY <2>4, <3>3, <3>4 DEF NonvalidStates
  <2> QED
    BY <2>3, <2>4
<1> QED
  BY <1>3, <1>4, AttemptsInvariant, PTL

-----------------------------------------------------------------------------
(***************************************************************************)
(* Part 4: one invocation at a time.  Each begins after the last one has   *)
(* ended, reads all manifests, and takes a source that has no consumer.    *)
(***************************************************************************)
ClaimsAreExclusive ==
  \A a, b \in Attempts :
    Claims(a) /\ Claims(b) /\ work[a].source = work[b].source => a = b \/ work[a].source = 0

\* An invocation that raises a claim is alone, and no manifest names its source.
LEMMA NewClaim ==
  ASSUME AttemptsInv, [Next]_vars, MaxRunning <= 1,
         NEW a \in Attempts, phase[a] = "unused", Claims(a)'
  PROVE  /\ Running = {}
         /\ work'[a].source # 0 => Consumers(work'[a].source) = {}
         /\ \A b \in Attempts : b # a =>
              phase'[b] = phase[b] /\ place'[b] = place[b] /\ work'[b] = work[b]
<1>1. /\ phase \in [Attempts -> Phases] /\ work \in [Attempts -> Works]
      /\ place \in [Attempts -> Places]
  BY DEF AttemptsInv, TypeOK, Phases, Places
<1>2. place[a] = "none"
  BY DEF AttemptsInv, AttemptOK, ProgressOK
<1>3. phase'[a] # phase[a] \/ place'[a] # place[a]
  BY <1>2 DEF Claims, Running
<1>4. ASSUME NEW c \in Attempts, Step(c) \/ Interrupt(c) \/ Crash(c)
      PROVE  FALSE
  <2>1. phase[c] # "unused"
    BY <1>4 DEF Step, Admit, Refuse, LaunchTooLate, ChildFails, ChildSucceeds, Decide,
                DecideTooLate, Publish, PublishFails, Finalize, FinalizeFails, Interrupt,
                Crash, Running
  <2>2. phase'[a] = phase[a] /\ place'[a] = place[a]
    BY <1>1, <1>4, <2>1
       DEF Step, Admit, Refuse, LaunchTooLate, ChildFails, ChildSucceeds, Decide, DecideTooLate,
           Publish, PublishFails, Finalize, FinalizeFails, GiveUp, Interrupt, Crash, Raise, Record
  <2> QED
    BY <1>3, <2>2
<1>5. ASSUME NEW c \in Attempts, NEW kind, NEW s, Begin(c, kind, s), s # 0 => Unconsumed(s)
      PROVE  /\ Running = {}
             /\ work'[a].source # 0 => Consumers(work'[a].source) = {}
             /\ \A b \in Attempts : b # a =>
                  phase'[b] = phase[b] /\ place'[b] = place[b] /\ work'[b] = work[b]
  <2>1. c = a
    BY <1>1, <1>3, <1>5 DEF Begin
  <2>2. work'[a].source = s
    BY <1>1, <1>5, <2>1 DEF Begin, NewWork
  <2>3. Running = {}
    <3>1. IsFiniteSet(Running)
      BY AttemptsAreFinite DEF Running
    <3>2. Cardinality(Running) < MaxRunning /\ MaxRunning \in Nat
      BY <1>5, AttemptsAssumption DEF Begin
    <3>3. Cardinality(Running) \in Nat
      BY <3>1, FS_CardinalityType
    <3>4. Cardinality(Running) = 0
      BY <3>2, <3>3
    <3> QED
      BY <3>1, <3>4, FS_EmptySet
  <2> QED
    BY <1>1, <1>5, <2>1, <2>2, <2>3 DEF Begin, Unconsumed
<1>6. ~ UNCHANGED vars
  BY <1>3 DEF vars
<1>7. CASE \E c \in Attempts : StartFresh(c)
  BY <1>5, <1>7 DEF StartFresh
<1>8. CASE \E c, s \in Attempts : StartRerun(c, s) \/ StartRetry(c, s)
  BY <1>5, <1>8 DEF StartRerun, StartRetry, MayRerun, MayRetry
<1> QED
  BY <1>4, <1>6, <1>7, <1>8 DEF Next

LEMMA ClaimsKept ==
  ASSUME AttemptsInv, AttemptsInv', ClaimsAreExclusive, [Next]_vars, MaxRunning <= 1
  PROVE  ClaimsAreExclusive'
<1>1. ClaimsStay
  <2>1. CASE ManifestsUnchanged
    BY <2>1 DEF ManifestsUnchanged
  <2>2. ASSUME NEW a \in Attempts, phase[a] \notin {"unused", "done", "killed"},
               RefusalRecorded(a) \/ DecisionRecorded(a)
        PROVE  ClaimsStay
    BY <2>2, RecordShape DEF RefusalRecorded, DecisionRecorded
  <2>3. ASSUME NEW a \in Attempts, phase[a] \notin {"unused", "done", "killed"},
               ExceptionRecorded(a)
        PROVE  ClaimsStay
    <3>1. PICK w \in Works, cause \in Causes : w.source = work[a].source /\ Raise(a, w, cause)
      BY <2>3 DEF ExceptionRecorded
    <3> DEFINE v == [w EXCEPT !.state = StateAfterException(w, cause), !.cause = cause]
    <3>2. v \in Works /\ v.source = work[a].source
      BY <3>1 DEF Works, StateAfterException, NonvalidStates
    <3>3. Record(a, v, "salvaging")
      BY <3>1 DEF Raise
    <3> HIDE DEF v
    <3> QED
      BY <2>3, <3>2, <3>3, RecordShape
  <2> QED
    BY <2>1, <2>2, <2>3, StepShapes
<1>2. ASSUME NEW a \in Attempts, NEW b \in Attempts, a # b,
             phase[a] = "unused", Claims(a)', Claims(b)', work'[a].source = work'[b].source
      PROVE  work'[a].source = 0
  <2>1. /\ Running = {}
        /\ work'[a].source # 0 => Consumers(work'[a].source) = {}
        /\ phase'[b] = phase[b] /\ place'[b] = place[b] /\ work'[b] = work[b]
    BY <1>2, NewClaim
  <2>2. place[b] # "none"
    BY <1>2, <2>1 DEF Claims, Running
  <2>3. manifest[b] = work[b]
    BY <2>2 DEF AttemptsInv, AttemptOK, ManifestOK
  <2> QED
    BY <1>2, <2>1, <2>2, <2>3 DEF Consumers
<1>3. ASSUME NEW a \in Attempts, NEW b \in Attempts,
             phase[a] # "unused", phase[b] # "unused",
             Claims(a)', Claims(b)', work'[a].source = work'[b].source
      PROVE  a = b \/ work'[a].source = 0
  BY <1>1, <1>3 DEF ClaimsStay, ClaimsAreExclusive
<1> QED
  BY <1>2, <1>3 DEF ClaimsAreExclusive

\* If no two manifests name the same source, one with a good history validates:
\* the first that did not would have a source that does not either.
LEMMA GoodHistoriesValidate ==
  ASSUME AttemptsInv, ClaimsAreExclusive
  PROVE  \A a \in Attempts : place[a] # "none" /\ HistoryOK(manifest[a]) => Validates[a]
<1> DEFINE Failing == {a \in Attempts :
                         place[a] # "none" /\ HistoryOK(manifest[a]) /\ ~ Validates[a]}
<1> SUFFICES ASSUME Failing # {} PROVE FALSE
  OBVIOUS
<1>1. PICK a \in Failing : \A b \in Failing : a <= b
  <2>1. Failing \in SUBSET Nat
    BY DEF Attempts
  <2> HIDE DEF Failing
  <2> QED
    BY <2>1, LeastNatural
<1> PICK s \in {0} \cup Attempts : s = manifest[a].source
  BY <1>1 DEF AttemptsInv, TypeOK, Works
<1>2. a \in Attempts /\ place[a] # "none" /\ HistoryOK(manifest[a]) /\ ~ Validates[a]
  BY <1>1
<1>3. s # 0 => s \in Attempts /\ s < a /\ place[s] # "none" /\ HistoryOK(manifest[s])
  <2>1. AttemptOK(a) /\ phase[a] # "unused"
    BY <1>2 DEF AttemptsInv, AttemptOK, ProgressOK
  <2>2. manifest[a] = work[a] /\ SourceOK(a)
    BY <1>2, <2>1 DEF AttemptOK, StartedOK, ManifestOK
  <2> QED
    BY <2>2 DEF SourceOK
<1>4. s # 0 => Validates[s]
  <2>1. s # 0 => ~ (a <= s)
    BY <1>2, <1>3 DEF Attempts
  <2> QED
    BY <1>1, <1>3, <2>1
<1>5. s # 0 => Cardinality(Consumers(s)) <= 1
  <2> SUFFICES ASSUME s # 0 PROVE Cardinality(Consumers(s)) <= 1
    OBVIOUS
  <2>1. \A b \in Attempts : place[b] # "none" => manifest[b] = work[b]
    BY DEF AttemptsInv, AttemptOK, ManifestOK
  <2>2. Consumers(s) = {a}
    BY <1>2, <2>1 DEF Consumers, ClaimsAreExclusive, Claims
  <2>3. Cardinality({a}) = 1
    BY FS_Singleton
  <2> QED
    BY <2>2, <2>3
<1>6. ValidGiven(Validates, a)
  BY <1>2, <1>4, <1>5 DEF ValidGiven
<1> QED
  BY <1>2, <1>6, ValidatesRule DEF ValidatesUnfolds

\* When invocations are run one at a time, as the experiment prescribes, a
\* published attempt stays valid: nothing that later invocations record, or
\* leave behind when they are killed, makes its validation fail.
THEOREM V04PublishedStaysValid == MaxRunning <= 1 /\ Spec => []PublishedStaysValid
<1> SUFFICES ASSUME MaxRunning <= 1 PROVE Spec => []PublishedStaysValid
  OBVIOUS
<1>1. Init => ClaimsAreExclusive
  BY DEF Init, ClaimsAreExclusive, Claims, Running
<1>2. AttemptsInv /\ AttemptsInv' /\ ClaimsAreExclusive /\ [Next]_vars => ClaimsAreExclusive'
  BY ClaimsKept
<1>3. Spec => []ClaimsAreExclusive
  BY <1>1, <1>2, AttemptsInvariant, PTL DEF Spec
<1>4. AttemptsInv /\ ClaimsAreExclusive => PublishedStaysValid
  <2> SUFFICES ASSUME AttemptsInv, ClaimsAreExclusive, NEW a \in Published PROVE Validates[a]
    BY DEF PublishedStaysValid
  <2>1. a \in Attempts /\ place[a] = "final" /\ HistoryOK(manifest[a])
    BY DEF Published, AttemptsInv, AttemptOK, ManifestOK
  <2> QED
    BY <2>1, GoodHistoriesValidate
<1> QED
  BY <1>3, <1>4, AttemptsInvariant, PTL

=============================================================================
