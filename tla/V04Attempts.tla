----------------------------- MODULE V04Attempts -----------------------------
(***************************************************************************)
(* The profiler experiment's attempts (v04.py, collect_v04): what one      *)
(* invocation does from the checks of its lineage to the rename that       *)
(* publishes its directory, the manifests invocations leave in the shared  *)
(* output root, and the validation of a manifest by later invocations.     *)
(*                                                                         *)
(* An attempt is a process and a directory.  The directory is a staging    *)
(* directory until it is renamed; place[a] says where the manifest of a    *)
(* can be found.  A process can be killed between any two steps and leaves *)
(* its directory as it is.  What a child process measures is abstracted to *)
(* the outcomes the parent distinguishes.                                  *)
(***************************************************************************)
EXTENDS Integers, FiniteSets

CONSTANTS
  Children,       \* child processes of a complete attempt: 4 in the code
  Prerequisites,  \* ways in which the resource counters can be missing
  LaunchFailures, \* ways in which a launched child can fail
  MaxAttempts,    \* bound: invocations over time
  MaxRunning      \* bound: invocations at the same time

ASSUME ChildrenAssumption == Children \in Nat \ {0}
ASSUME PrerequisitesAssumption == Prerequisites \subseteq Nat
ASSUME LaunchFailuresAssumption ==
  LaunchFailures \subseteq {"launch_exception", "timeout", "child_exit", "child_artifact"}
ASSUME AttemptsAssumption == MaxAttempts \in Nat /\ MaxRunning \in Nat

Attempts == 1 .. MaxAttempts

VARIABLES
  phase,     \* where each invocation is
  work,      \* its local variables, as its manifest records them
  manifest,  \* v04-set.json of each attempt, once place says there is one
  place      \* "none", "staging" or "final"

vars == <<phase, work, manifest, place>>

-----------------------------------------------------------------------------
(***************************************************************************)
(* Root causes: equal if their digests are.  A digest covers the message,  *)
(* which names the child except when the deadline is exceeded.             *)
(***************************************************************************)
Cause(category, detail) == [category |-> category, detail |-> detail]

NoCause == Cause("none", 0)
Busy == Cause("busy_threshold", 0)
Missing(p) == Cause("missing_prerequisite", p)

\* _failure_category of the exception that a failed launch raises.
LaunchCause(failure, child) ==
  CASE failure = "timeout" -> Cause("timeout", 0)
    [] failure = "launch_exception" -> Cause("correctness", child)
    [] OTHER -> Cause(failure, child)

\* A ValueError of transition_state, or of validate_v04.
BadTransition == Cause("correctness", 0)
BadManifest == Cause("correctness", Children + 1)
Late == Cause("timeout", 0)
LateToFinalize == Cause("timeout", Children)

NonvalidStates == {"deferred", "invalid", "blocked"}
ValidStates == {"valid_stable", "valid_inconclusive", "inconclusive_final"}

\* The locals of collect_v04 when its staging directory has been made.
NewWork(kind, source) ==
  [kind        |-> kind,      \* "fresh", "rerun" or "retry"
   source      |-> source,    \* the attempt it reruns or retries, or 0
   sourceState |-> IF kind = "retry" THEN manifest[source].state ELSE "none",
   sourceCause |-> IF kind = "retry" THEN manifest[source].cause ELSE NoCause,
   state       |-> "planned",
   admitted    |-> 0,         \* admission records that admit a child
   refused     |-> FALSE,     \* and whether one more refuses it
   children    |-> 0,         \* references to valid child manifests
   failure     |-> 0,         \* the child with a launch-failure record, or 0
   consistent  |-> TRUE,      \* the children's semantics agree
   cause       |-> NoCause]

NoWork == [kind |-> "none", source |-> 0, sourceState |-> "none",
           sourceCause |-> NoCause, state |-> "none", admitted |-> 0,
           refused |-> FALSE, children |-> 0, failure |-> 0,
           consistent |-> TRUE, cause |-> NoCause]

-----------------------------------------------------------------------------
(***************************************************************************)
(* validate_v04.                                                           *)
(***************************************************************************)
Running == {a \in Attempts : phase[a] \notin {"unused", "done", "killed"}}

Ended(a) == phase[a] \in {"done", "killed"}

\* Manifests that name s as the attempt they rerun or retry; the pattern of the
\* code's scan matches staging directories too.
Consumers(s) == {a \in Attempts : place[a] # "none" /\ manifest[a].source = s}

\* A refused admission ends a history that consists of complete children.
DeferredHistory(m) ==
  /\ m.refused
  /\ m.failure = 0
  /\ m.children = m.admitted

\* A launch failure ends a history whose last admission launched a child.
LaunchHistory(m) ==
  /\ ~ m.refused
  /\ m.admitted > 0
  /\ m.failure = m.admitted
  /\ m.children = m.admitted - 1

IsDeferral(m) ==
  \/ m.state = "deferred"
  \/ m.state = "blocked"
       /\ m.cause.category \in {"missing_prerequisite", "busy_threshold"}

\* Slip: the children of a complete attempt are counted and not compared.
HistoryOKUncompared(m) ==
  IF m.state \in NonvalidStates
    THEN /\ m.state = "blocked" => m.kind = "retry"
         /\ IF IsDeferral(m) THEN DeferredHistory(m) ELSE LaunchHistory(m)
    ELSE m.children = Children /\ m.failure = 0

HistoryOK(m) ==
  IF m.state \in NonvalidStates
    THEN /\ m.state = "blocked" => m.kind = "retry"
         /\ IF IsDeferral(m) THEN DeferredHistory(m) ELSE LaunchHistory(m)
    ELSE /\ m.admitted = Children
         /\ ~ m.refused
         /\ m.children = Children
         /\ m.failure = 0
         /\ m.consistent

\* An attempt validates if its own history does, and its lineage, in which no
\* attempt has two consumers.
Validates ==
  LET validates[a \in Attempts] ==
        LET source == manifest[a].source
        IN  /\ place[a] # "none"
            /\ HistoryOK(manifest[a])
            /\ source # 0 =>
                 validates[source] /\ Cardinality(Consumers(source)) <= 1
  IN  validates

Published == {a \in Attempts : place[a] = "final"}

\* _unresolved_retry_sources: what a fresh attempt has to retry first.
Unresolved ==
  {a \in Published :
     /\ manifest[a].state \in NonvalidStates
     /\ manifest[a].cause.category # "busy_threshold"
     /\ \A b \in Published : manifest[b].source # a}

\* Slip: only retry_of is compared, and not rerun_of.
UnconsumedByRetry(s) == \A a \in Consumers(s) : manifest[a].kind # "retry"

\* _reject_consumed_lineage lets s pass.
Unconsumed(s) == Consumers(s) = {}

MayStartFresh == (\A a \in Published : Validates[a]) /\ Unresolved = {}

MayRerun(s) ==
  /\ Validates[s]
  /\ manifest[s].state = "valid_inconclusive"
  /\ manifest[s].kind # "rerun"
  /\ Unconsumed(s)

MayRetry(s) ==
  /\ Validates[s]
  /\ manifest[s].state \in NonvalidStates
  /\ Unconsumed(s)

-----------------------------------------------------------------------------
Init ==
  /\ phase = [a \in Attempts |-> "unused"]
  /\ work = [a \in Attempts |-> NoWork]
  /\ manifest = [a \in Attempts |-> NoWork]
  /\ place = [a \in Attempts |-> "none"]

\* The invocation a begins: everything it reads before it makes its directory.
Begin(a, kind, source) ==
  /\ phase[a] = "unused"
  /\ \A b \in Attempts : b < a => phase[b] # "unused"
  /\ Cardinality(Running) < MaxRunning
  /\ work' = [work EXCEPT ![a] = NewWork(kind, source)]
  /\ phase' = [phase EXCEPT ![a] = "admitting"]
  /\ UNCHANGED <<manifest, place>>

StartFresh(a) == MayStartFresh /\ Begin(a, "fresh", 0)

\* The operator names an attempt whose process has ended.
StartRerun(a, s) == Ended(s) /\ MayRerun(s) /\ Begin(a, "rerun", s)

StartRetry(a, s) == Ended(s) /\ MayRetry(s) /\ Begin(a, "retry", s)

\* _finalize_nonvalid up to its validation: the manifest is in staging.
Record(a, w, next) ==
  /\ work' = [work EXCEPT ![a] = w]
  /\ manifest' = [manifest EXCEPT ![a] = w]
  /\ place' = [place EXCEPT ![a] = "staging"]
  /\ phase' = [phase EXCEPT ![a] = next]

\* Slip: a failure is not compared with the one that is retried.
StateAfterExceptionUncompared(w, cause) ==
  IF w.state \in {"deferred", "blocked"} THEN w.state ELSE "invalid"

\* The state that the except clause of collect_v04 settles on.
StateAfterException(w, cause) ==
  IF w.sourceState \in {"invalid", "blocked"} /\ w.sourceCause = cause
    THEN "blocked"
    ELSE IF w.state \in {"deferred", "blocked"} THEN w.state ELSE "invalid"

Raise(a, w, cause) ==
  Record(a, [w EXCEPT !.state = StateAfterException(w, cause), !.cause = cause],
         "salvaging")

\* An admission recurs if the retried attempt was refused for the same reason,
\* other than a busy host.
Recurs(w, cause) ==
  /\ w.sourceState \in {"deferred", "blocked"}
  /\ w.sourceCause = cause
  /\ cause.category # "busy_threshold"

(***************************************************************************)
(* The resource probe and the fifteen samples before a child.              *)
(***************************************************************************)
Admit(a) ==
  /\ phase[a] = "admitting"
  /\ work' = [work EXCEPT ![a] = [work[a] EXCEPT !.admitted = @ + 1, !.state = "running"]]
  /\ phase' = [phase EXCEPT ![a] = "launching"]
  /\ UNCHANGED <<manifest, place>>

\* transition_state knows no way from "running" to "blocked".
Refuse(a, cause) ==
  /\ phase[a] = "admitting"
  /\ LET w == [work[a] EXCEPT !.refused = TRUE]
     IN  \/ /\ Recurs(w, cause) /\ w.state = "planned"
            /\ Record(a, [w EXCEPT !.state = "blocked", !.cause = cause], "finalizing")
         \/ /\ Recurs(w, cause) /\ w.state = "running"
            /\ Raise(a, w, BadTransition)
         \/ /\ ~ Recurs(w, cause)
            /\ Record(a, [w EXCEPT !.state = "deferred", !.cause = cause], "finalizing")

(***************************************************************************)
(* The launch of a child.  The deadline cannot have passed before the      *)
(* first one: its clock starts there.                                      *)
(***************************************************************************)
LaunchTooLate(a) ==
  /\ phase[a] = "launching"
  /\ work[a].admitted > 1
  /\ Raise(a, work[a], Late)

ChildFails(a, failure) ==
  /\ phase[a] = "launching"
  /\ Raise(a, [work[a] EXCEPT !.failure = work[a].admitted], LaunchCause(failure, work[a].admitted))

\* Slip: one child too many.
ChildrenRemainOffByOne(w) == w.admitted <= Children

ChildrenRemain(w) == w.admitted < Children

ChildSucceeds(a, agrees) ==
  /\ phase[a] = "launching"
  /\ work[a].admitted = 1 => agrees
  /\ work' = [work EXCEPT ![a] = [work[a] EXCEPT !.children = @ + 1,
                                                 !.consistent = @ /\ agrees]]
  /\ phase' = [phase EXCEPT ![a] = IF ChildrenRemain(work[a]) THEN "admitting"
                                                                  ELSE "deciding"]
  /\ UNCHANGED <<manifest, place>>

(***************************************************************************)
(* The aggregate decides, and the manifest of a complete attempt is written*)
(* to staging before it is validated.                                      *)
(***************************************************************************)
Decide(a, decision) ==
  /\ phase[a] = "deciding"
  /\ LET state == IF work[a].kind = "rerun" /\ decision = "valid_inconclusive"
                    THEN "inconclusive_final" ELSE decision
     IN  Record(a, [work[a] EXCEPT !.state = state], "publishing")

DecideTooLate(a) ==
  /\ phase[a] = "deciding"
  /\ Raise(a, work[a], LateToFinalize)

Publish(a) ==
  /\ phase[a] = "publishing"
  /\ Validates[a]
  /\ place' = [place EXCEPT ![a] = "final"]
  /\ phase' = [phase EXCEPT ![a] = "done"]
  /\ UNCHANGED <<work, manifest>>

PublishFails(a) ==
  /\ phase[a] = "publishing"
  /\ \/ ~ Validates[a] /\ Raise(a, work[a], BadManifest)
     \/ Validates[a] /\ Raise(a, work[a], LateToFinalize)

(***************************************************************************)
(* The rest of _finalize_nonvalid.  What it raises inside the try is caught*)
(* by the except clause once more; what it raises in that clause ends the  *)
(* process with the manifest still in staging.                             *)
(***************************************************************************)
Finalize(a) ==
  /\ phase[a] \in {"finalizing", "salvaging"}
  /\ Validates[a]
  /\ place' = [place EXCEPT ![a] = "final"]
  /\ phase' = [phase EXCEPT ![a] = "done"]
  /\ UNCHANGED <<work, manifest>>

\* Slip: the except clause catches its own failures too.
GiveUpNever(a) == Raise(a, work[a], BadManifest)

GiveUp(a) ==
  \/ phase[a] = "finalizing" /\ Raise(a, work[a], BadManifest)
  \/ /\ phase[a] = "salvaging"
     /\ phase' = [phase EXCEPT ![a] = "done"]
     /\ UNCHANGED <<work, manifest, place>>

FinalizeFails(a) ==
  /\ phase[a] \in {"finalizing", "salvaging"}
  /\ ~ Validates[a]
  /\ GiveUp(a)

\* An interrupt, or an error of the file system, outside of a launch.
Interrupt(a) ==
  /\ phase[a] \in {"admitting", "deciding", "publishing", "finalizing"}
  /\ Raise(a, work[a], Cause("unknown", 0))

\* The process is killed, or the machine goes down.
Crash(a) ==
  /\ a \in Running
  /\ phase' = [phase EXCEPT ![a] = "killed"]
  /\ UNCHANGED <<work, manifest, place>>

Refusals == {Busy} \cup {Missing(p) : p \in Prerequisites}

\* The steps an invocation takes by itself.
Step(a) ==
  \/ Admit(a)
  \/ \E cause \in Refusals : Refuse(a, cause)
  \/ LaunchTooLate(a)
  \/ \E failure \in LaunchFailures : ChildFails(a, failure)
  \/ \E agrees \in BOOLEAN : ChildSucceeds(a, agrees)
  \/ \E decision \in {"valid_stable", "valid_inconclusive"} : Decide(a, decision)
  \/ DecideTooLate(a)
  \/ Publish(a)
  \/ PublishFails(a)
  \/ Finalize(a)
  \/ FinalizeFails(a)

Next ==
  \E a \in Attempts :
    \/ StartFresh(a)
    \/ \E s \in Attempts : StartRerun(a, s) \/ StartRetry(a, s)
    \/ Step(a)
    \/ Interrupt(a)
    \/ Crash(a)

Spec == Init /\ [][Next]_vars

(***************************************************************************)
(* An invocation is a loop in one thread that runs unless it is killed.    *)
(***************************************************************************)
FairSpec == Spec /\ \A a \in Attempts : WF_vars(Step(a))

-----------------------------------------------------------------------------
(***************************************************************************)
(* Properties.                                                             *)
(***************************************************************************)
Causes ==
  [category : {"none", "busy_threshold", "missing_prerequisite", "correctness",
               "timeout", "child_exit", "child_artifact", "unknown"},
   detail   : 0 .. Children + 1 \cup Prerequisites]

Works ==
  [kind        : {"none", "fresh", "rerun", "retry"},
   source      : {0} \cup Attempts,
   sourceState : {"none"} \cup NonvalidStates,
   sourceCause : Causes,
   state       : {"none", "planned", "running"} \cup NonvalidStates \cup ValidStates,
   admitted    : 0 .. Children,
   refused     : BOOLEAN,
   children    : 0 .. Children,
   failure     : 0 .. Children,
   consistent  : BOOLEAN,
   cause       : Causes]

\* Every variable of the attempts keeps its type.
TypeOK ==
  /\ phase \in [Attempts -> {"unused", "admitting", "launching", "deciding",
                             "publishing", "finalizing", "salvaging", "done",
                             "killed"}]
  /\ work \in [Attempts -> Works]
  /\ manifest \in [Attempts -> Works]
  /\ place \in [Attempts -> {"none", "staging", "final"}]

(***************************************************************************)
(* Whatever is interrupted, killed or retried in between: a published      *)
(* attempt that claims a valid state has all its children, each admitted   *)
(* and none failed, and one that claims a rerun's state has a source that  *)
(* was itself complete, inconclusive and no rerun.                         *)
(***************************************************************************)
ValidMeansComplete ==
  \A a \in Published :
    LET m == manifest[a]
    IN  /\ m.state \in ValidStates =>
             /\ m.admitted = Children /\ m.children = Children
             /\ ~ m.refused /\ m.failure = 0 /\ m.consistent
        /\ m.state = "inconclusive_final" <=>
             /\ m.kind = "rerun"
             /\ m.state \in {"valid_inconclusive", "inconclusive_final"}
        /\ m.kind = "rerun" =>
             /\ manifest[m.source].state = "valid_inconclusive"
             /\ manifest[m.source].kind # "rerun"

(***************************************************************************)
(* A published attempt stays valid: nothing that later invocations do, or  *)
(* leave behind when they are killed, makes its validation fail.  Every    *)
(* fresh attempt validates all published ones first, so one that stopped   *)
(* validating would stop the experiment.                                   *)
(***************************************************************************)
PublishedStaysValid == \A a \in Published : Validates[a]

(***************************************************************************)
(* An attempt is blocked exactly if it met the root cause of the attempt   *)
(* it retries again, and that was neither a busy host nor an interrupt     *)
(* that came when a deferral had been recorded.                            *)
(***************************************************************************)
BlockedMeansRecurrence ==
  \A a \in Published :
    LET m == manifest[a]
    IN  m.state = "blocked" <=>
          /\ m.kind = "retry"
          /\ m.state \in NonvalidStates
          /\ m.cause = m.sourceCause
          /\ m.cause.category \notin {"busy_threshold", "unknown"}

\* An invocation that began comes to an end, published or not.
EveryInvocationEnds == \A a \in Attempts : a \in Running ~> Ended(a)

(***************************************************************************)
(* What the specification and the code's own messages say, and the code    *)
(* does not do.                                                            *)
(***************************************************************************)

\* V04_EXPERIMENT.md: "Timeout invalidates and preserves the attempt".  An
\* invocation that ends because a deadline has passed has published its
\* directory.
TimedOutAttemptIsPublished ==
  \A a \in Attempts :
    phase[a] = "done" /\ manifest[a].cause.category = "timeout" => place[a] = "final"

\* V04_EXPERIMENT.md: "defer does not consume the single inconclusive rerun
\* allowance".  While every rerun of a published attempt has been deferred, it
\* may be rerun.
DeferKeepsRerunAllowance ==
  \A s \in Published :
    /\ manifest[s].state = "valid_inconclusive"
    /\ manifest[s].kind # "rerun"
    /\ \A a \in Consumers(s) : place[a] = "final" /\ manifest[a].state = "deferred"
    => MayRerun(s)

\* collect_v04 refuses a fresh attempt while a published one "requires explicit
\* --retry-of": then it can be retried.
RefusalNamesARetry ==
  Running = {} => \A s \in Unresolved : MayRetry(s)

=============================================================================
