-------------------------- MODULE ArtifactsProofs --------------------------
(***************************************************************************)
(* Theorems about the producers of artifacts: Stage 1 sets, for any number *)
(* of parents, repetitions and prompts, any deadline and any routings;     *)
(* corpus collections, of any size and number; and experiment bundles of   *)
(* any number of writers with any base files and source traces.            *)
(***************************************************************************)
EXTENDS Artifacts, SequenceTheorems, TLAPS

(***************************************************************************)
(* Part 1: types.  Every file of a staging directory is absent or what its *)
(* writer writes there; a published directory is a staging directory.      *)
(***************************************************************************)
TraceFiles ==
  {NoFile} \cup [kind : {"trace"}, prompt : PromptNumbers, routing : Routings]

Manifests ==
  [kind : {"repetition"}, number : RepetitionNumbers,
   process : Parents \X RepetitionNumbers, begun : Nat, finished : Nat,
   traces : [PromptNumbers -> TraceFiles]]

RepetitionDirectories ==
  [traces : [PromptNumbers -> TraceFiles], manifest : {NoFile} \cup Manifests]

SetManifests ==
  [kind : {"set"}, parent : Parents, started : Nat, elapsed : Int,
   records : Seq(Manifests)]

Directories ==
  [kind : {"directory"},
   repetitions : [RepetitionNumbers -> RepetitionDirectories],
   set : {NoFile} \cup SetManifests]

Phases == Ended \cup {"launch", "child", "write", "validate", "rename"}

Invocations ==
  [phase : Phases, number : 0 .. Repetitions, routing : Routings,
   started : Nat, begun : Nat, records : Seq(Manifests),
   staging : Directories]

(***************************************************************************)
(* Part 2: the inductive invariant.  An invocation has recorded only       *)
(* children of its own, under the numbers it gave them; the set manifest   *)
(* it has written is about these; and it renames only what it has          *)
(* validated.  That nobody else writes into its staging directory is what  *)
(* keeps the last part true between validation and rename.                 *)
(***************************************************************************)
OwnRecords(p, q) ==
  \A i \in DOMAIN q.records : q.records[i].process = <<p, q.records[i].number>>

InvocationOK(p, q) ==
  /\ q.phase = "child" => q.number \in RepetitionNumbers
  /\ OwnRecords(p, q)
  /\ q.phase \in {"validate", "rename"} =>
        /\ q.staging.set.parent = p
        /\ q.staging.set.records = q.records
  /\ q.phase = "rename" => SetLoads(q.staging) /\ PrefixMatches(q.staging)

SetInv ==
  /\ now \in Nat
  /\ output \in {NoDirectory} \cup Directories
  /\ parent \in [Parents -> Invocations]
  /\ \A p \in Parents : InvocationOK(p, parent[p])
  /\ PublishedSetValidates

\* The other invocations do not notice a step of one of them.
LEMMA StepOfOne ==
  ASSUME SetInv, NEW p \in Parents, NEW q \in Invocations, InvocationOK(p, q),
         parent' = [parent EXCEPT ![p] = q]
  PROVE  /\ parent' \in [Parents -> Invocations]
         /\ \A r \in Parents : InvocationOK(r, parent[r]) /\ r # p =>
               InvocationOK(r, parent'[r])
         /\ \A r \in Parents : InvocationOK(r, parent'[r])
BY SMTT(30) DEF SetInv

\* A step that leaves the output and the clock alone.
LEMMA QuietStep ==
  ASSUME SetInv, NEW p \in Parents, NEW q \in Invocations, InvocationOK(p, q),
         parent' = [parent EXCEPT ![p] = q], UNCHANGED <<output, now>>
  PROVE  SetInv'
<1>1. PublishedSetValidates'
  BY DEF SetInv, PublishedSetValidates, SetLoads, RecordLoads, RepetitionLoads,
         RepetitionsAgree, PrefixMatches
<1>2. parent' \in [Parents -> Invocations]
  BY StepOfOne
<1>3. \A r \in Parents : InvocationOK(r, parent'[r])
  BY StepOfOne
<1> QED
  BY <1>1, <1>2, <1>3
     DEF SetInv, InvocationOK, OwnRecords, SetLoads, RecordLoads, RepetitionLoads,
         RepetitionsAgree, PrefixMatches

-----------------------------------------------------------------------------
LEMMA EmptyStagingType == EmptyStaging \in Directories
<1>1. EmptyRepetition \in RepetitionDirectories
  BY DEF EmptyRepetition, RepetitionDirectories, TraceFiles
<1> QED
  BY <1>1 DEF EmptyStaging, Directories

LEMMA AtRestOK ==
  ASSUME NEW p \in Parents, NEW phase \in Ended
  PROVE  AtRest(phase) \in Invocations /\ InvocationOK(p, AtRest(phase))
<1>1. (CHOOSE r \in Routings : TRUE) \in Routings
  BY SetAssumption
<1>2. 0 \in 0 .. Repetitions
  BY SetAssumption
<1>3. <<>> \in Seq(Manifests) /\ DOMAIN <<>> = {}
  BY EmptySeq
<1>4. AtRest(phase) \in Invocations
  BY <1>1, <1>2, <1>3, EmptyStagingType DEF AtRest, Invocations, Phases
<1>5. OwnRecords(p, AtRest(phase))
  BY DEF AtRest, OwnRecords
<1>6. AtRest(phase).phase \notin {"child", "validate", "rename"}
  BY DEF AtRest, Ended
<1> QED
  BY <1>4, <1>5, <1>6 DEF InvocationOK

LEMMA InitSetInv == SetInit => SetInv
<1> SUFFICES ASSUME SetInit PROVE SetInv
  OBVIOUS
<1>1. /\ now = 0
      /\ output = NoDirectory
      /\ parent = [p \in Parents |-> AtRest("idle")]
  BY DEF SetInit
<1>2. \A p \in Parents : AtRest("idle") \in Invocations /\ InvocationOK(p, AtRest("idle"))
  BY AtRestOK DEF Ended
<1>3. PublishedSetValidates
  BY <1>1 DEF PublishedSetValidates
<1> QED
  BY <1>1, <1>2, <1>3 DEF SetInv

LEMMA EndKeeps ==
  ASSUME SetInv, NEW p \in Parents, NEW phase \in Ended, End(p, phase),
         UNCHANGED <<output, now>>
  PROVE  SetInv'
BY QuietStep, AtRestOK DEF End

-----------------------------------------------------------------------------
(***************************************************************************)
(* Part 3: one lemma per action.                                           *)
(***************************************************************************)
LEMMA StartKeeps ==
  ASSUME SetInv, NEW p \in Parents, Start(p)
  PROVE  SetInv'
<1>1. parent[p] \in Invocations /\ InvocationOK(p, parent[p]) /\ now \in Nat
  BY DEF SetInv
<1>2. CASE output = NoDirectory
  <2> DEFINE q == [parent[p] EXCEPT !.phase = "launch", !.started = now]
  <2>1. parent' = [parent EXCEPT ![p] = q] /\ UNCHANGED <<output, now>>
    BY <1>2 DEF Start, SetInv
  <2>2. q \in Invocations
    BY <1>1 DEF Invocations, Phases
  <2>3. InvocationOK(p, q)
    BY <1>1 DEF InvocationOK, OwnRecords, Invocations
  <2> QED
    BY <2>1, <2>2, <2>3, QuietStep
<1>3. CASE output # NoDirectory
  BY <1>3, EndKeeps DEF Start, Ended
<1> QED
  BY <1>2, <1>3

LEMMA LaunchKeeps ==
  ASSUME SetInv, NEW p \in Parents, Launch(p)
  PROVE  SetInv'
<1>1. /\ parent[p] \in Invocations /\ InvocationOK(p, parent[p])
      /\ now \in Nat /\ Repetitions \in Nat
  BY SetAssumption DEF SetInv
<1>2. CASE Elapsed(p) >= Deadline
  BY <1>2, EndKeeps DEF Launch, Ended
<1>3. CASE ~ (Elapsed(p) >= Deadline)
  <2>1. PICK routing \in Routings :
          parent' = [parent EXCEPT ![p].phase = "child", ![p].number = @ + 1,
                                   ![p].routing = routing, ![p].begun = now]
    BY <1>3 DEF Launch
  <2> DEFINE q == [parent[p] EXCEPT !.phase = "child", !.number = @ + 1,
                                    !.routing = routing, !.begun = now]
  <2>2. parent' = [parent EXCEPT ![p] = q] /\ UNCHANGED <<output, now>>
    BY <2>1 DEF Launch, SetInv
  <2>3. parent[p].number + 1 \in RepetitionNumbers
    <3>1. parent[p].number \in 0 .. Repetitions /\ parent[p].number < Repetitions
      BY <1>1 DEF Launch, Invocations
    <3> QED
      BY <1>1, <3>1 DEF RepetitionNumbers
  <2>4. q \in Invocations
    <3>1. parent[p].number + 1 \in 0 .. Repetitions
      BY <1>1, <2>3 DEF RepetitionNumbers
    <3> QED
      BY <1>1, <3>1 DEF Invocations, Phases
  <2>5. InvocationOK(p, q)
    BY <1>1, <2>3 DEF InvocationOK, OwnRecords, Invocations
  <2> QED
    BY <2>2, <2>4, <2>5, QuietStep
<1> QED
  BY <1>2, <1>3

\* A child writes into the repetition directory of its own number.
LEMMA RepetitionWritten ==
  ASSUME NEW staging \in Directories, NEW n \in RepetitionNumbers,
         NEW repetition \in RepetitionDirectories
  PROVE  [staging EXCEPT !.repetitions = [@ EXCEPT ![n] = repetition]] \in Directories
BY DEF Directories

LEMMA ChildWrites ==
  ASSUME SetInv, NEW p \in Parents, parent[p].phase = "child",
         NEW repetition \in RepetitionDirectories,
         parent' = [parent EXCEPT ![p].staging.repetitions[parent[p].number] = repetition],
         UNCHANGED <<output, now>>
  PROVE  SetInv'
<1>1. parent[p] \in Invocations /\ InvocationOK(p, parent[p])
  BY DEF SetInv
<1> DEFINE staging == [parent[p].staging EXCEPT
                          !.repetitions = [@ EXCEPT ![parent[p].number] = repetition]]
           q == [parent[p] EXCEPT !.staging = staging]
<1>2. parent' = [parent EXCEPT ![p] = q]
  BY DEF SetInv
<1>3. staging \in Directories
  BY <1>1, RepetitionWritten DEF InvocationOK, Invocations
<1>4. q \in Invocations
  BY <1>1, <1>3 DEF Invocations
<1>5. InvocationOK(p, q)
  BY <1>1 DEF InvocationOK, OwnRecords, Invocations
<1> QED
  BY <1>2, <1>4, <1>5, QuietStep

LEMMA OwnRepetition ==
  ASSUME SetInv, NEW p \in Parents, parent[p].phase = "child"
  PROVE  /\ parent[p].number \in RepetitionNumbers
         /\ Repetition(p) \in RepetitionDirectories
BY DEF SetInv, InvocationOK, Invocations, Directories, Repetition

LEMMA WriteTraceKeeps ==
  ASSUME SetInv, NEW p \in Parents, WriteTrace(p)
  PROVE  SetInv'
<1>1. /\ Repetition(p) \in RepetitionDirectories
      /\ parent[p] \in Invocations
      /\ parent[p].phase = "child"
  BY OwnRepetition DEF WriteTrace, SetInv
<1> DEFINE k == CHOOSE k \in Unwritten(p) : \A j \in Unwritten(p) : k <= j
           trace == Trace(k, parent[p].routing)
           repetition == [Repetition(p) EXCEPT !.traces = [@ EXCEPT ![k] = trace]]
<1>2. parent' = [parent EXCEPT ![p].staging.repetitions[parent[p].number] = repetition]
  BY SMTT(30) DEF WriteTrace, Repetition
<1>3. CASE k \in PromptNumbers
  <2>1. trace \in TraceFiles
    BY <1>1, <1>3 DEF Trace, TraceFiles, Invocations
  <2>2. repetition \in RepetitionDirectories
    BY <1>1, <1>3, <2>1 DEF RepetitionDirectories
  <2> QED
    BY <1>1, <1>2, <2>2, ChildWrites, ZenonT(30) DEF WriteTrace
<1>4. CASE k \notin PromptNumbers
  <2>1. repetition \in RepetitionDirectories
    BY <1>1, <1>4 DEF RepetitionDirectories
  <2> HIDE DEF repetition
  <2> QED
    BY <1>1, <1>2, <2>1, ChildWrites, ZenonT(30) DEF WriteTrace
<1> QED
  BY <1>3, <1>4

LEMMA WriteRepetitionManifestKeeps ==
  ASSUME SetInv, NEW p \in Parents, WriteRepetitionManifest(p)
  PROVE  SetInv'
<1>1. /\ Repetition(p) \in RepetitionDirectories
      /\ parent[p] \in Invocations
      /\ parent[p].phase = "child"
      /\ parent[p].number \in RepetitionNumbers
      /\ now \in Nat
  BY OwnRepetition DEF WriteRepetitionManifest, SetInv
<1> DEFINE repetition == [Repetition(p) EXCEPT !.manifest = RepetitionManifest(p)]
<1>2. parent' = [parent EXCEPT ![p].staging.repetitions[parent[p].number] = repetition]
  BY DEF WriteRepetitionManifest, Repetition
<1>3. RepetitionManifest(p) \in Manifests
  BY <1>1 DEF RepetitionManifest, Manifests, RepetitionDirectories, Invocations
<1>4. repetition \in RepetitionDirectories
  BY <1>1, <1>3 DEF RepetitionDirectories
<1> QED
  BY <1>1, <1>2, <1>4, ChildWrites DEF WriteRepetitionManifest

LEMMA ChildSucceedsKeeps ==
  ASSUME SetInv, NEW p \in Parents, ChildSucceeds(p)
  PROVE  SetInv'
<1>1. /\ Repetition(p) \in RepetitionDirectories
      /\ parent[p] \in Invocations /\ InvocationOK(p, parent[p])
      /\ parent[p].phase = "child"
  BY OwnRepetition DEF ChildSucceeds, SetInv
<1> DEFINE manifest == Repetition(p).manifest
           identified == /\ RepetitionLoads(Repetition(p))
                         /\ manifest.number = parent[p].number
                         /\ manifest.process = <<p, parent[p].number>>
<1>2. CASE identified
  <2> DEFINE phase == IF parent[p].number = Repetitions THEN "write" ELSE "launch"
             records == Append(parent[p].records, manifest)
             q == [parent[p] EXCEPT !.phase = phase, !.records = records]
  <2>1. parent' = [parent EXCEPT ![p] = q] /\ UNCHANGED <<output, now>>
    BY <1>2 DEF ChildSucceeds, SetInv
  <2>2. manifest \in Manifests
    BY <1>1 DEF ChildSucceeds, RepetitionDirectories, IsComplete, NoFile
  <2>3. parent[p].records \in Seq(Manifests)
    BY <1>1 DEF Invocations
  <2>4. records \in Seq(Manifests)
    BY <2>2, <2>3
  <2>5. q \in Invocations
    BY <1>1, <2>4 DEF Invocations, Phases
  <2>6. \A i \in DOMAIN records : records[i] = manifest \/
          (i \in DOMAIN parent[p].records /\ records[i] = parent[p].records[i])
    BY <2>2, <2>3
  <2>7. OwnRecords(p, q)
    BY <1>1, <1>2, <2>6 DEF OwnRecords, InvocationOK, Invocations
  <2>8. q.phase \notin {"child", "validate", "rename"}
    BY <1>1 DEF Invocations
  <2> QED
    BY <2>1, <2>5, <2>7, <2>8, QuietStep DEF InvocationOK
<1>3. CASE ~ identified
  BY <1>3, EndKeeps DEF ChildSucceeds, Ended
<1> QED
  BY <1>2, <1>3

LEMMA WriteSetKeeps ==
  ASSUME SetInv, NEW p \in Parents, WriteSet(p)
  PROVE  SetInv'
<1>1. parent[p] \in Invocations /\ InvocationOK(p, parent[p]) /\ now \in Nat
  BY DEF SetInv
<1> DEFINE staging == [parent[p].staging EXCEPT !.set = SetManifest(p)]
           q == [parent[p] EXCEPT !.staging = staging, !.phase = "validate"]
<1>2. parent' = [parent EXCEPT ![p] = q] /\ UNCHANGED <<output, now>>
  BY DEF WriteSet, SetInv
<1>3. SetManifest(p) \in SetManifests
  BY <1>1 DEF SetManifest, SetManifests, Invocations, Elapsed
<1>4. staging \in Directories
  BY <1>1, <1>3 DEF Directories, Invocations
<1>5. q \in Invocations
  BY <1>1, <1>4 DEF Invocations, Phases
<1>6. q.staging.set = SetManifest(p) /\ q.phase = "validate" /\ q.records = parent[p].records
  BY <1>1 DEF Invocations, Directories
<1>7. InvocationOK(p, q)
  BY <1>1, <1>6 DEF InvocationOK, OwnRecords, SetManifest
<1> QED
  BY <1>2, <1>5, <1>7, QuietStep

LEMMA ValidateKeeps ==
  ASSUME SetInv, NEW p \in Parents, Validate(p)
  PROVE  SetInv'
<1>1. parent[p] \in Invocations /\ InvocationOK(p, parent[p])
  BY DEF SetInv
<1>2. CASE SetLoads(parent[p].staging) /\ PrefixMatches(parent[p].staging)
  <2> DEFINE q == [parent[p] EXCEPT !.phase = "rename"]
  <2>1. parent' = [parent EXCEPT ![p] = q] /\ UNCHANGED <<output, now>>
    BY <1>2 DEF Validate, Move, SetInv
  <2>2. q \in Invocations
    BY <1>1 DEF Invocations, Phases
  <2>3. /\ q.staging = parent[p].staging /\ q.records = parent[p].records
        /\ q.phase = "rename" /\ parent[p].phase = "validate"
    BY <1>1 DEF Validate, Invocations
  <2>4. InvocationOK(p, q)
    BY <1>1, <1>2, <2>3 DEF InvocationOK, OwnRecords
  <2> QED
    BY <2>1, <2>2, <2>4, QuietStep
<1>3. CASE ~ (SetLoads(parent[p].staging) /\ PrefixMatches(parent[p].staging))
  BY <1>3, EndKeeps DEF Validate, Ended
<1> QED
  BY <1>2, <1>3

\* What has been validated is renamed as it was validated.
LEMMA RenamePublishes ==
  ASSUME SetInv, NEW p \in Parents, parent[p].phase = "rename",
         output' = parent[p].staging
  PROVE  output' \in Directories /\ PublishedSetValidates'
<1> DEFINE staging == parent[p].staging
           records == parent[p].records
<1>1. /\ staging \in Directories
      /\ SetLoads(staging) /\ PrefixMatches(staging)
      /\ staging.set.parent = p
      /\ staging.set.records = records
      /\ OwnRecords(p, parent[p])
      /\ records \in Seq(Manifests)
  BY DEF SetInv, Invocations, InvocationOK
<1>2. \A n \in RepetitionNumbers : n \in DOMAIN records /\ records[n].number = n
  BY <1>1 DEF SetLoads, RecordLoads, RepetitionNumbers
<1>3. \A n \in RepetitionNumbers : staging.set.records[n].process = <<staging.set.parent, n>>
  BY <1>1, <1>2 DEF OwnRecords
<1>4. SetLoads(output)' /\ PrefixMatches(output)'
  <2>1. output' = staging
    OBVIOUS
  <2> HIDE DEF staging, records
  <2> QED
    BY <1>1, <2>1, SMTT(30) DEF SetLoads, RecordLoads, RepetitionLoads, RepetitionsAgree,
                        PrefixMatches
<1> QED
  BY <1>1, <1>3, <1>4 DEF PublishedSetValidates

LEMMA RenameKeeps ==
  ASSUME SetInv, NEW p \in Parents, Rename(p)
  PROVE  SetInv'
<1>1. CASE output = NoDirectory
  <2>1. output' \in Directories /\ PublishedSetValidates'
    BY <1>1, RenamePublishes DEF Rename
  <2>2. AtRest("done") \in Invocations /\ InvocationOK(p, AtRest("done"))
    BY AtRestOK DEF Ended
  <2>3. /\ parent' \in [Parents -> Invocations]
        /\ \A r \in Parents : InvocationOK(r, parent'[r])
    BY <1>1, <2>2, StepOfOne DEF Rename, End
  <2>4. \A r \in Parents : InvocationOK(r, parent[r])'
    BY <2>3 DEF InvocationOK, OwnRecords, SetLoads, RecordLoads, RepetitionLoads,
                RepetitionsAgree, PrefixMatches
  <2> QED
    BY <2>1, <2>3, <2>4 DEF SetInv, Rename
<1>2. CASE output # NoDirectory
  BY <1>2, EndKeeps DEF Rename, Ended
<1> QED
  BY <1>1, <1>2

\* A step that leaves every invocation and the output alone.
LEMMA ClockKeeps ==
  ASSUME SetInv, UNCHANGED <<output, parent>>, now' \in Nat
  PROVE  SetInv'
<1>1. PublishedSetValidates'
  BY DEF SetInv, PublishedSetValidates, SetLoads, RecordLoads, RepetitionLoads,
         RepetitionsAgree, PrefixMatches
<1>2. \A p \in Parents : InvocationOK(p, parent[p])'
  <2> SUFFICES ASSUME NEW p \in Parents
               PROVE  InvocationOK(p, parent[p])'
    OBVIOUS
  <2>1. InvocationOK(p, parent[p])
    BY DEF SetInv
  <2>2. parent'[p] = parent[p]
    OBVIOUS
  <2> QED
    BY <2>1, <2>2 DEF InvocationOK, OwnRecords
<1> QED
  BY <1>1, <1>2 DEF SetInv

LEMMA NextKeepsSetInv ==
  ASSUME SetInv, [SetNext]_setVars
  PROVE  SetInv'
<1>1. CASE Tick
  BY <1>1, ClockKeeps DEF Tick, SetInv
<1>2. ASSUME NEW p \in Parents, Start(p) PROVE SetInv'
  BY <1>2, StartKeeps
<1>3. ASSUME NEW p \in Parents, ParentStep(p) PROVE SetInv'
  <2>1. CASE Launch(p)
    BY <2>1, LaunchKeeps
  <2>2. CASE ChildTimesOut(p)
    BY <2>2, EndKeeps DEF ChildTimesOut, Ended
  <2>3. CASE WriteSet(p)
    BY <2>3, WriteSetKeeps
  <2>4. CASE Validate(p)
    BY <2>4, ValidateKeeps
  <2>5. CASE Rename(p)
    BY <2>5, RenameKeeps
  <2> QED
    BY <1>3, <2>1, <2>2, <2>3, <2>4, <2>5 DEF ParentStep
<1>4. ASSUME NEW p \in Parents, ChildStep(p) PROVE SetInv'
  <2>1. CASE WriteTrace(p)
    BY <2>1, WriteTraceKeeps
  <2>2. CASE WriteRepetitionManifest(p)
    BY <2>2, WriteRepetitionManifestKeeps
  <2>3. CASE ChildSucceeds(p)
    BY <2>3, ChildSucceedsKeeps
  <2>4. CASE ChildFails(p)
    BY <2>4, EndKeeps DEF ChildFails, Ended
  <2> QED
    BY <1>4, <2>1, <2>2, <2>3, <2>4 DEF ChildStep
<1>5. ASSUME NEW p \in Parents, Killed(p) PROVE SetInv'
  BY <1>5, EndKeeps DEF Killed, Ended
<1>6. CASE UNCHANGED setVars
  BY <1>6, ClockKeeps DEF setVars, SetInv
<1> QED
  BY <1>1, <1>2, <1>3, <1>4, <1>5, <1>6 DEF SetNext

LEMMA SetInvariant == SetSpec => []SetInv
<1> QED
  BY InitSetInv, NextKeepsSetInv, PTL DEF SetSpec

-----------------------------------------------------------------------------
(***************************************************************************)
(* Whatever stands at the output path validates, for any number of         *)
(* parents that race for it, whenever they or their children are killed.   *)
(***************************************************************************)
THEOREM Stage1PublishedSetValidates == SetSpec => []PublishedSetValidates
<1>1. SetInv => PublishedSetValidates
  BY DEF SetInv
<1> QED
  BY <1>1, SetInvariant, PTL

\* Every step of Stage 1 publishes, or shows a reader nothing new.
LEMMA StepPublishesOnce ==
  ASSUME SetInv, [SetNext]_setVars
  PROVE  [SetPublication!Publish]_output
<1>1. ASSUME NEW p \in Parents, Rename(p) PROVE [SetPublication!Publish]_output
  <2>1. parent[p].staging.kind = "directory"
    BY DEF SetInv, Invocations, Directories
  <2>2. NoDirectory.kind = "no directory"
    BY DEF NoDirectory
  <2>3. parent[p].staging # NoDirectory
    BY <2>1, <2>2
  <2> QED
    BY <1>1, <2>3 DEF Rename, SetPublication!Publish
<1>2. ASSUME NEW p \in Parents, ParentStep(p) PROVE [SetPublication!Publish]_output
  BY <1>1, <1>2, ZenonT(30) DEF ParentStep, Launch, ChildTimesOut, WriteSet, Validate
<1>3. ASSUME NEW p \in Parents, ChildStep(p) PROVE UNCHANGED output
  BY <1>3 DEF ChildStep, WriteTrace, WriteRepetitionManifest, ChildSucceeds, ChildFails
<1>4. ASSUME NEW p \in Parents, Start(p) \/ Killed(p) PROVE UNCHANGED output
  BY <1>4 DEF Start, Killed
<1> QED
  BY <1>2, <1>3, <1>4 DEF SetNext, Tick, setVars

(***************************************************************************)
(* A reader of the output path sees nothing and then one set for good,     *)
(* though several parents may have found the path free.                    *)
(***************************************************************************)
THEOREM Stage1SetIsPublishedOnce == SetSpec => SetIsPublishedOnce
<1>1. SetInit => SetPublication!Init
  BY DEF SetInit, SetPublication!Init
<1> QED
  BY <1>1, StepPublishesOnce, SetInvariant, PTL
     DEF SetSpec, SetIsPublishedOnce, SetPublication!Spec

-----------------------------------------------------------------------------
(***************************************************************************)
(* Part 4: the corpus.  A manifest that is complete was written by one     *)
(* collection over the records of the traces it had written, so that its   *)
(* records are a whole corpus; the loader holds such a manifest, and each  *)
(* trace it has read fits it, and is the recorded one unless a collection  *)
(* has written in between.                                                 *)
(***************************************************************************)
Partial == {NoFile, Torn}

PromptTraces ==
  [kind : {"trace"}, corpus : Corpora, revision : Revisions,
   prompt : PromptOrder, observation : Observations]

SuiteManifests ==
  [kind : {"manifest"}, number : Nat, corpus : Corpora, revision : Revisions,
   records : Seq(PromptTraces)]

RecordsFit(records, m) ==
  /\ Len(records) <= CorpusPrompts
  /\ \A k \in 1 .. Len(records) : /\ records[k].corpus = m.corpus
                                 /\ records[k].revision = m.revision
                                 /\ records[k].prompt = k

WholeManifest(m) ==
  /\ m \in SuiteManifests
  /\ RecordsFit(m.records, m)
  /\ Len(m.records) = CorpusPrompts

Suites ==
  [corpus : Partial \cup [kind : {"corpus"}, corpus : Corpora],
   manifest : Partial \cup SuiteManifests,
   traces : [PromptOrder -> Partial \cup PromptTraces]]

Collections ==
  [phase : {"idle", "corpus", "collect", "trace", "done", "failed"}, number : Nat,
   corpus : Corpora, revision : Revisions, records : Seq(PromptTraces),
   observation : Observations]

Loaders ==
  [phase : {"idle", "corpus", "hash", "read", "accepted", "refused"},
   manifest : {NoManifest} \cup SuiteManifests, loaded : Seq(PromptTraces),
   disturbed : BOOLEAN]

\* TraceMatches, for a manifest m
Fits(trace, m, k) ==
  /\ IsComplete(trace)
  /\ trace.corpus = m.corpus
  /\ trace.prompt = k
  /\ trace.revision = m.revision

LoaderOK(l, traces) ==
  /\ l.phase = "idle" => l.loaded = <<>>
  /\ l.phase \in {"corpus", "hash", "read", "accepted"} =>
       /\ WholeManifest(l.manifest)
       /\ Len(l.loaded) <= CorpusPrompts
       /\ \A k \in 1 .. Len(l.loaded) :
            /\ Fits(l.loaded[k], l.manifest, k)
            /\ l.disturbed \/ l.loaded[k] = l.manifest.records[k]
  /\ l.phase = "read" =>
       /\ Len(l.loaded) < CorpusPrompts
       /\ l.disturbed \/ traces[Len(l.loaded) + 1] = l.manifest.records[Len(l.loaded) + 1]
  /\ l.phase = "accepted" => Len(l.loaded) = CorpusPrompts

SuiteOK ==
  /\ suite \in Suites
  /\ suite.manifest \in Partial \/ WholeManifest(suite.manifest)

CollectionOK ==
  /\ collection \in Collections
  /\ RecordsFit(collection.records, collection)
  /\ collection.phase = "trace" => Len(collection.records) < CorpusPrompts

CorpusInv ==
  /\ SuiteOK
  /\ CollectionOK
  /\ loader \in Loaders
  /\ LoaderOK(loader, suite.traces)

\* What is being written is torn, and then complete.
LEMMA PartialFiles ==
  /\ \A file \in Partial : ~ IsComplete(file)
  /\ \A file, contents : Written(file, contents) \in {Torn, contents}
  /\ \A trace \in PromptTraces : IsComplete(trace)
  /\ \A manifest \in SuiteManifests : IsComplete(manifest)
<1>1. \A file \in Partial : ~ IsComplete(file)
  BY DEF Partial, IsComplete, NoFile, Torn
<1>2. \A file, contents : Written(file, contents) \in {Torn, contents}
  BY DEF Written
<1>3. \A trace \in PromptTraces : IsComplete(trace)
  BY DEF PromptTraces, IsComplete
<1>4. \A manifest \in SuiteManifests : IsComplete(manifest)
  BY DEF SuiteManifests, IsComplete
<1> QED
  BY <1>1, <1>2, <1>3, <1>4

LEMMA InitCorpusInv == CorpusInit => CorpusInv
<1> SUFFICES ASSUME CorpusInit PROVE CorpusInv
  OBVIOUS
<1>1. /\ (CHOOSE c \in Corpora : TRUE) \in Corpora
      /\ (CHOOSE r \in Revisions : TRUE) \in Revisions
      /\ (CHOOSE o \in Observations : TRUE) \in Observations
  BY CorpusAssumption
<1>2. <<>> \in Seq(PromptTraces) /\ Len(<<>>) = 0
  OBVIOUS
<1>3. SuiteOK
  BY DEF CorpusInit, SuiteOK, Suites, Partial
<1>4. CollectionOK
  BY <1>1, <1>2, CorpusAssumption DEF CorpusInit, CollectionOK, Collections, RecordsFit
<1>5. loader \in Loaders /\ LoaderOK(loader, suite.traces)
  BY <1>2 DEF CorpusInit, Loaders, LoaderOK
<1> QED
  BY <1>3, <1>4, <1>5 DEF CorpusInv

\* A collection that writes disturbs a loader at work; what a loader has
\* accepted does not depend on the files any more.
LEMMA DisturbedLoader ==
  ASSUME CorpusInv, Disturbs
  PROVE  loader' \in Loaders /\ LoaderOK(loader', suite'.traces)
<1>1. loader \in Loaders /\ LoaderOK(loader, suite.traces)
  BY DEF CorpusInv
<1>2. /\ loader'.phase = loader.phase /\ loader'.manifest = loader.manifest
      /\ loader'.loaded = loader.loaded
      /\ loader'.disturbed = (loader.disturbed \/ Loading)
  BY <1>1 DEF Disturbs, Loaders
<1>3. loader' \in Loaders
  BY <1>1 DEF Disturbs, Loaders, Loading
<1>4. loader.phase = "read" => loader'.disturbed
  BY <1>2 DEF Loading
<1>5. loader.disturbed => loader'.disturbed
  BY <1>2
<1> QED
  BY <1>1, <1>2, <1>3, <1>4, <1>5 DEF LoaderOK

LEMMA CollectionKeepsCorpusInv ==
  ASSUME CorpusInv, BeginCollection \/ CollectionStep \/ CollectionStops
  PROVE  CorpusInv'
<1>1. /\ suite \in Suites /\ collection \in Collections /\ SuiteOK /\ CollectionOK
      /\ collection.records \in Seq(PromptTraces) /\ Len(collection.records) \in Nat
      /\ CorpusPrompts \in Nat
  BY CorpusAssumption DEF CorpusInv, SuiteOK, CollectionOK, Collections
<1>2. ASSUME UNCHANGED <<suite, loader>> PROVE SuiteOK' /\ (loader \in Loaders /\ LoaderOK(loader, suite.traces))'
  BY <1>2 DEF CorpusInv, SuiteOK
<1>3. ASSUME NEW phase \in {"idle", "corpus", "collect", "trace", "done", "failed"},
             phase = "trace" => Len(collection.records) < CorpusPrompts,
             collection' = [collection EXCEPT !.phase = phase] \/ UNCHANGED collection
      PROVE  CollectionOK'
  BY <1>1, <1>3 DEF CollectionOK, Collections, RecordsFit
<1>4. CASE BeginCollection
  <2> DEFINE none == <<>>
  <2>1. none \in Seq(PromptTraces) /\ Len(none) = 0
    OBVIOUS
  <2>2. PICK corpus \in Corpora, revision \in Revisions :
          collection' = [collection EXCEPT !.phase = "corpus", !.number = @ + 1,
                                           !.corpus = corpus, !.revision = revision,
                                           !.records = none]
    BY <1>4 DEF BeginCollection
  <2> HIDE DEF none
  <2>3. /\ collection' \in Collections
        /\ collection'.records = none /\ collection'.phase = "corpus"
    <3>1. collection.number + 1 \in Nat
      BY <1>1 DEF Collections
    <3>2. collection' = [phase |-> "corpus", number |-> collection.number + 1,
                         corpus |-> corpus, revision |-> revision, records |-> none,
                         observation |-> collection.observation]
      BY <1>1, <2>2 DEF Collections
    <3> QED
      BY <1>1, <2>1, <3>1, <3>2 DEF Collections
  <2>4. RecordsFit(none, collection')
    BY <1>1, <2>1 DEF RecordsFit
  <2>5. CollectionOK'
    BY <2>3, <2>4 DEF CollectionOK
  <2> QED
    BY <1>2, <1>4, <2>5 DEF BeginCollection, CorpusInv
<1>5. CASE WriteCorpus
  <2>1. CorpusFile(collection.corpus) \in [kind : {"corpus"}, corpus : Corpora]
    BY <1>1 DEF CorpusFile, Collections
  <2>2. suite'.manifest = suite.manifest /\ suite' \in Suites
    BY <1>1, <1>5, <2>1, PartialFiles DEF WriteCorpus, Suites, Partial
  <2>3. SuiteOK'
    BY <1>1, <2>2 DEF SuiteOK
  <2>4. CollectionOK'
    BY <1>3, <1>5 DEF WriteCorpus
  <2> QED
    BY <1>5, <2>3, <2>4, DisturbedLoader DEF WriteCorpus, CorpusInv
<1>6. CASE CollectPrompt
  <2>1. PICK observation \in Observations :
          collection' = [collection EXCEPT !.phase = "trace", !.observation = observation]
    BY <1>6 DEF CollectPrompt
  <2>2. Len(collection.records) < CorpusPrompts
    BY <1>1, <1>6 DEF CollectPrompt, NextPrompt, PromptOrder
  <2>3. CollectionOK'
    BY <1>1, <2>1, <2>2 DEF CollectionOK, Collections, RecordsFit
  <2> QED
    BY <1>2, <1>6, <2>3 DEF CollectPrompt, CorpusInv
<1>7. CASE WritePromptTrace
  <2> DEFINE trace == PromptTrace(collection.corpus, collection.revision, NextPrompt,
                                  collection.observation)
  <2>1. NextPrompt \in PromptOrder /\ NextPrompt = Len(collection.records) + 1
    BY <1>1, <1>7 DEF WritePromptTrace, CollectionOK, NextPrompt, PromptOrder
  <2>2. trace \in PromptTraces
    BY <1>1, <2>1 DEF PromptTrace, PromptTraces, Collections
  <2>3. /\ trace.corpus = collection.corpus /\ trace.revision = collection.revision
        /\ trace.prompt = NextPrompt
    BY DEF PromptTrace
  <2>4. /\ suite' = [suite EXCEPT !.traces[NextPrompt] = Written(@, trace)]
        /\ \/ UNCHANGED collection
           \/ collection' = [collection EXCEPT !.phase = "collect", !.records = Append(@, trace)]
        /\ Disturbs
    BY <1>7 DEF WritePromptTrace
  <2> HIDE DEF trace
  <2>5. suite' \in Suites /\ suite'.manifest = suite.manifest
    BY <1>1, <2>1, <2>2, <2>4, PartialFiles DEF Suites, Partial
  <2>6. SuiteOK'
    BY <1>1, <2>5 DEF SuiteOK
  <2>7. CollectionOK'
    <3>1. CASE UNCHANGED collection
      BY <1>1, <3>1 DEF CollectionOK
    <3>2. CASE collection' = [collection EXCEPT !.phase = "collect", !.records = Append(@, trace)]
      <4> DEFINE records == Append(collection.records, trace)
      <4>1. /\ records \in Seq(PromptTraces) /\ Len(records) = Len(collection.records) + 1
            /\ \A k \in 1 .. Len(collection.records) : records[k] = collection.records[k]
            /\ records[Len(records)] = trace
        BY <1>1, <2>2
      <4>2. collection' \in Collections /\ collection'.records = records
            /\ collection'.corpus = collection.corpus /\ collection'.revision = collection.revision
            /\ collection'.phase = "collect"
        BY <1>1, <3>2, <4>1 DEF Collections
      <4> HIDE DEF records
      <4>3. RecordsFit(records, collection')
        BY <1>1, <2>1, <2>3, <4>1, <4>2 DEF RecordsFit, CollectionOK, PromptOrder
      <4> QED
        BY <4>2, <4>3 DEF CollectionOK
    <3> QED
      BY <2>4, <3>1, <3>2
  <2> QED
    BY <2>4, <2>6, <2>7, DisturbedLoader DEF CorpusInv
<1>8. CASE WriteManifest
  <2>1. Len(collection.records) = CorpusPrompts
    BY <1>1, <1>8 DEF WriteManifest, NextPrompt, PromptOrder, CollectionOK, RecordsFit
  <2>2. SuiteManifest \in SuiteManifests
    BY <1>1 DEF SuiteManifest, SuiteManifests, Collections
  <2>3. WholeManifest(SuiteManifest)
    BY <1>1, <2>1, <2>2 DEF WholeManifest, SuiteManifest, CollectionOK, RecordsFit
  <2>4. suite'.manifest \in {Torn, SuiteManifest} /\ suite' \in Suites
    BY <1>1, <1>8, <2>2, PartialFiles DEF WriteManifest, Suites, Partial
  <2>5. SuiteOK'
    BY <2>3, <2>4 DEF SuiteOK, Partial
  <2>6. CollectionOK'
    BY <1>3, <1>8 DEF WriteManifest
  <2> QED
    BY <1>8, <2>5, <2>6, DisturbedLoader DEF WriteManifest, CorpusInv
<1>9. CASE CollectionStops
  BY <1>2, <1>3, <1>9 DEF CollectionStops, CorpusInv
<1> QED
  BY <1>4, <1>5, <1>6, <1>7, <1>8, <1>9 DEF CollectionStep

LEMMA LoaderKeepsCorpusInv ==
  ASSUME CorpusInv, LoaderStep \/ LoadAgain
  PROVE  CorpusInv'
<1>1. /\ SuiteOK /\ CollectionOK
      /\ loader \in Loaders /\ LoaderOK(loader, suite.traces)
      /\ loader.loaded \in Seq(PromptTraces) /\ Len(loader.loaded) \in Nat
      /\ CorpusPrompts \in Nat
  BY CorpusAssumption DEF CorpusInv, Loaders
<1>2. UNCHANGED <<suite, collection>>
  BY DEF LoaderStep, LoadAgain, ReadManifest, ReadCorpus, CheckHash, ReadTrace, AcceptSuite
<1>3. SuiteOK' /\ CollectionOK'
  BY <1>1, <1>2 DEF SuiteOK, CollectionOK
<1>4. SUFFICES loader' \in Loaders /\ LoaderOK(loader', suite.traces)
  BY <1>2, <1>3 DEF CorpusInv
<1>5. ASSUME NEW phase \in {"hash", "read", "accepted", "refused"},
             loader.phase \in {"corpus", "hash", "read", "accepted"},
             phase = "read" =>
               /\ Len(loader.loaded) < CorpusPrompts
               /\ suite.traces[NextLoaded] = loader.manifest.records[NextLoaded],
             phase = "accepted" => Len(loader.loaded) = CorpusPrompts,
             loader' = [loader EXCEPT !.phase = phase]
      PROVE  loader' \in Loaders /\ LoaderOK(loader', suite.traces)
  <2>1. /\ loader' \in Loaders /\ loader'.phase = phase
        /\ loader'.manifest = loader.manifest /\ loader'.loaded = loader.loaded
        /\ loader'.disturbed = loader.disturbed
    BY <1>1, <1>5 DEF Loaders
  <2> QED
    BY <1>1, <1>5, <2>1 DEF LoaderOK, NextLoaded
<1>6. CASE ReadManifest
  <2>1. loader.loaded = <<>> /\ loader.phase = "idle"
    BY <1>1, <1>6 DEF ReadManifest, LoaderOK
  <2>2. CASE IsComplete(suite.manifest)
    <3>1. WholeManifest(suite.manifest) /\ suite.manifest \in SuiteManifests
      BY <1>1, <2>2, PartialFiles DEF SuiteOK, WholeManifest
    <3>2. /\ loader' \in Loaders /\ loader'.phase = "corpus"
          /\ loader'.manifest = suite.manifest /\ loader'.loaded = <<>>
      BY <1>1, <1>6, <2>1, <2>2, <3>1 DEF ReadManifest, Loaders
    <3>3. Len(<<>>) = 0
      OBVIOUS
    <3> QED
      BY <1>1, <3>1, <3>2, <3>3 DEF LoaderOK
  <2>3. CASE ~ IsComplete(suite.manifest)
    <3>1. loader' \in Loaders /\ loader'.phase = "refused"
      BY <1>1, <1>6, <2>3 DEF ReadManifest, Loaders
    <3> QED
      BY <3>1 DEF LoaderOK
  <2> QED
    BY <2>2, <2>3
<1>7. CASE ReadCorpus
  BY <1>5, <1>7 DEF ReadCorpus
<1>8. CASE CheckHash
  <2>1. Len(loader.loaded) < CorpusPrompts
    BY <1>1, <1>8 DEF CheckHash, NextLoaded, PromptOrder
  <2> QED
    BY <1>5, <1>8, <2>1 DEF CheckHash
<1>9. CASE ReadTrace
  <2> DEFINE trace == suite.traces[NextLoaded]
  <2>1. loader.phase = "read" /\ Len(loader.loaded) < CorpusPrompts
        /\ NextLoaded = Len(loader.loaded) + 1 /\ NextLoaded \in PromptOrder
    BY <1>1, <1>9 DEF ReadTrace, LoaderOK, NextLoaded, PromptOrder
  <2>2. CASE TraceMatches(trace, NextLoaded)
    <3>1. trace \in PromptTraces /\ Fits(trace, loader.manifest, NextLoaded)
      BY <1>1, <2>1, <2>2, PartialFiles DEF SuiteOK, Suites, TraceMatches, Fits
    <3>2. loader.disturbed \/ trace = loader.manifest.records[NextLoaded]
      BY <1>1, <2>1 DEF LoaderOK
    <3>3. loader' = [loader EXCEPT !.phase = "hash", !.loaded = Append(@, trace)]
      BY <1>9, <2>2 DEF ReadTrace
    <3> HIDE DEF trace
    <3> DEFINE loaded == Append(loader.loaded, trace)
    <3>4. /\ loaded \in Seq(PromptTraces) /\ Len(loaded) = Len(loader.loaded) + 1
          /\ \A k \in 1 .. Len(loader.loaded) : loaded[k] = loader.loaded[k]
          /\ loaded[Len(loaded)] = trace
      BY <1>1, <3>1
    <3>5. /\ loader' \in Loaders /\ loader'.phase = "hash" /\ loader'.loaded = loaded
          /\ loader'.manifest = loader.manifest /\ loader'.disturbed = loader.disturbed
      BY <1>1, <3>3, <3>4 DEF Loaders
    <3> HIDE DEF loaded
    <3>6. \A k \in 1 .. Len(loaded) : k \in 1 .. Len(loader.loaded) \/ k = NextLoaded
      BY <1>1, <2>1, <3>4
    <3>7. loaded[NextLoaded] = trace
      BY <2>1, <3>4
    <3>8. \A k \in 1 .. Len(loader.loaded) :
            /\ Fits(loader.loaded[k], loader.manifest, k)
            /\ loader.disturbed \/ loader.loaded[k] = loader.manifest.records[k]
      BY <1>1, <2>1 DEF LoaderOK
    <3>9. \A k \in 1 .. Len(loaded) :
            /\ Fits(loaded[k], loader.manifest, k)
            /\ loader.disturbed \/ loaded[k] = loader.manifest.records[k]
      BY <3>1, <3>2, <3>4, <3>6, <3>7, <3>8
    <3>10. WholeManifest(loader.manifest) /\ Len(loaded) <= CorpusPrompts
      BY <1>1, <2>1, <3>4 DEF LoaderOK
    <3> QED
      BY <3>5, <3>9, <3>10 DEF LoaderOK
  <2>3. CASE ~ TraceMatches(trace, NextLoaded)
    BY <1>5, <1>9, <2>1, <2>3 DEF ReadTrace
  <2> QED
    BY <2>2, <2>3
<1>10. CASE AcceptSuite
  <2>1. Len(loader.loaded) = CorpusPrompts
    BY <1>1, <1>10 DEF AcceptSuite, NextLoaded, PromptOrder, LoaderOK
  <2> QED
    BY <1>5, <1>10, <2>1 DEF AcceptSuite
<1>11. CASE LoadAgain
  <2>1. <<>> \in Seq(PromptTraces)
    OBVIOUS
  <2> QED
    BY <1>11, <2>1 DEF LoadAgain, Loaders, LoaderOK
<1> QED
  BY <1>6, <1>7, <1>8, <1>9, <1>10, <1>11 DEF LoaderStep

LEMMA NextKeepsCorpusInv ==
  ASSUME CorpusInv, [CorpusNext]_corpusVars
  PROVE  CorpusInv'
<1>1. CASE UNCHANGED corpusVars
  BY <1>1 DEF corpusVars, CorpusInv, SuiteOK, CollectionOK
<1>2. CASE CorpusNext
  BY <1>2, CollectionKeepsCorpusInv, LoaderKeepsCorpusInv DEF CorpusNext
<1> QED
  BY <1>1, <1>2

LEMMA AcceptedIsWhole == CorpusInv => AcceptedSuiteIsOneRun
<1> SUFFICES ASSUME CorpusInv, loader.phase = "accepted"
             PROVE  /\ Len(loader.loaded) = CorpusPrompts
                    /\ \A k \in PromptOrder : TraceMatches(loader.loaded[k], k)
                    /\ loader.disturbed \/ loader.loaded = loader.manifest.records
  BY DEF AcceptedSuiteIsOneRun
<1>1. /\ loader.loaded \in Seq(PromptTraces) /\ LoaderOK(loader, suite.traces)
      /\ WholeManifest(loader.manifest)
  BY DEF CorpusInv, Loaders, LoaderOK
<1>2. Len(loader.loaded) = CorpusPrompts
  BY <1>1 DEF LoaderOK
<1>3. \A k \in PromptOrder :
        /\ Fits(loader.loaded[k], loader.manifest, k)
        /\ loader.disturbed \/ loader.loaded[k] = loader.manifest.records[k]
  BY <1>1, <1>2 DEF LoaderOK, PromptOrder
<1>4. ASSUME ~ loader.disturbed PROVE loader.loaded = loader.manifest.records
  <2>1. /\ loader.manifest.records \in Seq(PromptTraces)
        /\ Len(loader.manifest.records) = CorpusPrompts
    BY <1>1 DEF WholeManifest, SuiteManifests
  <2>2. \A k \in 1 .. Len(loader.loaded) : loader.loaded[k] = loader.manifest.records[k]
    BY <1>2, <1>3, <1>4 DEF PromptOrder
  <2> QED
    BY <1>1, <1>2, <2>1, <2>2, SeqEqual
<1> QED
  BY <1>2, <1>3, <1>4 DEF Fits, TraceMatches

-----------------------------------------------------------------------------
(***************************************************************************)
(* Part 5: the bundle.  The root belongs to the writer that has made it,   *)
(* who writes its files in their order and never looks at the source       *)
(* again: what it has written so far is what it prepared.                  *)
(***************************************************************************)
Last == Len(BaseFiles) + 3

Embedded == {NoFile, Bundle!ShorterTrace} \cup Sources

BasePayloads == {Bundle!BasePayload(w, name) : w \in Writers, name \in Bundle!ArtifactNames}

ArtifactBytes == Embedded \cup BasePayloads

ManifestBytes ==
  [kind : {"manifest"}, artifacts : [Bundle!ArtifactNames -> ArtifactBytes]]

FileBytes ==
  {Torn} \cup ArtifactBytes \cup ManifestBytes \cup [kind : {"sidecar"}, digest : ManifestBytes]

Roots == [kind : {"directory"}, files : [Bundle!FileNames -> FileBytes]]

BeforeRoot == {"idle", "checked", "prepared"}

HoldsRoot == {"writing", "verify", "done"}

WriterStates ==
  [phase : BeforeRoot \cup HoldsRoot \cup {"failed"},
   payload : Embedded, next : 1 .. Last + 1]

\* Payload, for a writer that has read the bytes of the trace it embeds.
ArtifactOf(w, bytes, name) ==
  IF name = "trace" THEN bytes ELSE Bundle!BasePayload(w, name)

ManifestOf(w, bytes) ==
  [kind |-> "manifest",
   artifacts |-> [name \in Bundle!ArtifactNames |-> ArtifactOf(w, bytes, name)]]

PayloadOf(w, bytes, name) ==
  CASE name = "manifest" -> ManifestOf(w, bytes)
    [] name = "sidecar" -> Bundle!Sidecar(ManifestOf(w, bytes))
    [] OTHER -> ArtifactOf(w, bytes, name)

\* The files of the root, when its writer w is in state q.
FilesOK(w, q, files) ==
  \A i \in 1 .. Last :
    LET name == Bundle!WriteOrder[i]
    IN  /\ i < q.next => files[name] = PayloadOf(w, q.payload, name)
        /\ i = q.next => \/ files[name] = NoFile
                         \/ files[name] = Torn /\ PayloadOf(w, q.payload, name) # NoFile
        /\ i > q.next => files[name] = NoFile

OwnerOK(w, q, files) ==
  /\ q.phase \in HoldsRoot \cup {"failed"}
  /\ q.phase = "writing" => q.next <= Last
  /\ q.phase \in {"verify", "done"} => q.next = Last + 1
  /\ FilesOK(w, q, files)

BundleInv ==
  /\ source \in {NoFile, Torn} \cup Sources
  /\ writer \in [Writers -> WriterStates]
  /\ root \in {NoDirectory} \cup Roots
  /\ \A w \in Writers : writer[w].phase \in BeforeRoot => writer[w].next = 1
  /\ root = NoDirectory => \A w \in Writers : writer[w].phase \notin HoldsRoot
  /\ root # NoDirectory =>
       \E w \in Writers : /\ OwnerOK(w, writer[w], root.files)
                          /\ \A v \in Writers : v # w => writer[v].phase \notin HoldsRoot

\* The bundle's files are files as the others see them.
LEMMA SharedFiles ==
  /\ Bundle!NoFile = NoFile /\ Bundle!Torn = Torn /\ Bundle!NoDirectory = NoDirectory
  /\ \A file, contents : Bundle!Written(file, contents) = Written(file, contents)
  /\ \A file : Bundle!IsComplete(file) <=> IsComplete(file)
BY DEF Bundle!NoFile, NoFile, Bundle!Torn, Torn, Bundle!NoDirectory, NoDirectory,
       Bundle!Written, Written, Bundle!IsComplete, IsComplete

LEMMA RootsAreDirectories == \A directory \in Roots : directory # NoDirectory
<1> SUFFICES ASSUME NEW directory \in Roots PROVE directory.kind # NoDirectory.kind
  OBVIOUS
<1>1. directory.kind = "directory"
  BY DEF Roots
<1>2. NoDirectory.kind = "no directory"
  BY DEF NoDirectory
<1> QED
  BY <1>1, <1>2

LEMMA WriteOrderFacts ==
  /\ Last \in Nat /\ Last >= 3
  /\ DOMAIN Bundle!WriteOrder = 1 .. Last
  /\ \A i, j \in 1 .. Last : Bundle!WriteOrder[i] = Bundle!WriteOrder[j] => i = j
  /\ Bundle!WriteOrder[Last] = "sidecar"
  /\ Bundle!FileNames = {Bundle!WriteOrder[i] : i \in 1 .. Last}
  /\ {"trace", "manifest", "sidecar"} \subseteq Bundle!FileNames
  /\ \A name \in Bundle!FileNames : \E i \in 1 .. Last : name = Bundle!WriteOrder[i]
<1> DEFINE B == Len(BaseFiles)
           tail == <<"trace", "manifest", "sidecar">>
<1> DEFINE Names == STRING \cup {"trace", "manifest", "sidecar"}
<1>1. B \in Nat /\ BaseFiles \in Seq(Names) /\ DOMAIN BaseFiles = 1 .. B
  BY BundleAssumption
<1>2. /\ tail \in Seq(Names) /\ Len(tail) = 3
      /\ tail[1] = "trace" /\ tail[2] = "manifest" /\ tail[3] = "sidecar"
  <2>1. "trace" \in Names /\ "manifest" \in Names /\ "sidecar" \in Names
    OBVIOUS
  <2> HIDE DEF Names
  <2> QED
    BY <2>1
<1>3. Bundle!WriteOrder = BaseFiles \o tail
  BY DEF Bundle!WriteOrder
<1> HIDE DEF tail, Names
<1>4. /\ BaseFiles \o tail \in Seq(Names)
      /\ Len(BaseFiles \o tail) = B + 3
      /\ \A i \in 1 .. B + 3 :
           (BaseFiles \o tail)[i] = IF i <= B THEN BaseFiles[i] ELSE tail[i - B]
  <2>1. /\ BaseFiles \o tail \in Seq(Names)
        /\ Len(BaseFiles \o tail) = Len(BaseFiles) + Len(tail)
        /\ \A i \in 1 .. Len(BaseFiles) + Len(tail) :
             (BaseFiles \o tail)[i] =
               IF i <= Len(BaseFiles) THEN BaseFiles[i] ELSE tail[i - Len(BaseFiles)]
    BY <1>1, <1>2, ConcatProperties, Zenon
  <2>2. Len(BaseFiles) + Len(tail) = B + 3
    BY <1>2
  <2> QED
    BY <2>1, <2>2, Zenon
<1>5. DOMAIN Bundle!WriteOrder = 1 .. Last
  BY <1>1, <1>3, <1>4 DEF Last
<1>6. \A i \in 1 .. Last :
        Bundle!WriteOrder[i] = IF i <= B THEN BaseFiles[i] ELSE tail[i - B]
  BY <1>3, <1>4 DEF Last
<1>7. /\ Bundle!WriteOrder[B + 1] = "trace" /\ Bundle!WriteOrder[B + 2] = "manifest"
      /\ Bundle!WriteOrder[B + 3] = "sidecar"
  BY <1>1, <1>2, <1>6 DEF Last
<1>8. \A i \in 1 .. Last : i > B => i = B + 1 \/ i = B + 2 \/ i = B + 3
  BY <1>1 DEF Last
<1>9. \A i \in 1 .. Last : i <= B =>
        Bundle!WriteOrder[i] = BaseFiles[i] /\ BaseFiles[i] \notin {"trace", "manifest", "sidecar"}
  BY <1>1, <1>6, BundleAssumption
<1>10. \A i, j \in 1 .. Last : Bundle!WriteOrder[i] = Bundle!WriteOrder[j] => i = j
  BY <1>1, <1>7, <1>8, <1>9, BundleAssumption DEF Last
<1>11. Bundle!FileNames = {Bundle!WriteOrder[i] : i \in 1 .. Last}
  BY <1>5 DEF Bundle!FileNames
<1>12. {"trace", "manifest", "sidecar"} \subseteq Bundle!FileNames
  <2>1. B + 1 \in 1 .. Last /\ B + 2 \in 1 .. Last /\ B + 3 \in 1 .. Last
    BY <1>1 DEF Last
  <2> QED
    BY <1>7, <1>11, <2>1
<1> QED
  BY <1>1, <1>5, <1>7, <1>10, <1>11, <1>12 DEF Last

LEMMA PayloadIsPayloadOf ==
  \A w, name : Bundle!Payload(w, name) = PayloadOf(w, writer[w].payload, name)
BY DEF Bundle!Payload, PayloadOf, Bundle!Manifest, ManifestOf, Bundle!Artifact, ArtifactOf

LEMMA PayloadType ==
  ASSUME NEW w \in Writers, NEW bytes \in Embedded, NEW name \in Bundle!FileNames
  PROVE  /\ PayloadOf(w, bytes, name) \in FileBytes
         /\ name \in {"manifest", "sidecar"} => PayloadOf(w, bytes, name) # NoFile
<1>1. \A artifact \in Bundle!ArtifactNames : ArtifactOf(w, bytes, artifact) \in ArtifactBytes
  BY DEF ArtifactOf, ArtifactBytes, BasePayloads
<1>2. ManifestOf(w, bytes) \in ManifestBytes
  BY <1>1 DEF ManifestOf, ManifestBytes
<1>3. Bundle!Sidecar(ManifestOf(w, bytes)) \in [kind : {"sidecar"}, digest : ManifestBytes]
  BY <1>2 DEF Bundle!Sidecar
<1>4. name \notin {"manifest", "sidecar"} => name \in Bundle!ArtifactNames
  BY DEF Bundle!ArtifactNames
<1>5. ManifestOf(w, bytes) # NoFile /\ Bundle!Sidecar(ManifestOf(w, bytes)) # NoFile
  BY DEF ManifestOf, Bundle!Sidecar, NoFile
<1> QED
  BY <1>1, <1>2, <1>3, <1>4, <1>5 DEF PayloadOf, FileBytes

\* Bytes that are read are validated, torn files are no traces.
LEMMA ReadTracesAreEmbedded ==
  ASSUME NEW bytes, Bundle!IsTrace(bytes) PROVE bytes \in Embedded
BY DEF Bundle!IsTrace, Embedded

\* A root verifies if its owner has written all its files, and only then.
LEMMA VerifiesWhenWritten ==
  ASSUME NEW w \in Writers, NEW q \in WriterStates, NEW directory \in Roots,
         FilesOK(w, q, directory.files)
  PROVE  /\ q.next = Last + 1 =>
              /\ Bundle!Verifies(directory)
              /\ \A name \in Bundle!FileNames :
                   directory.files[name] = PayloadOf(w, q.payload, name)
         /\ Bundle!Verifies(directory) \/ IsComplete(directory.files["sidecar"]) =>
              q.next = Last + 1
<1> DEFINE files == directory.files
<1>1. q.payload \in Embedded /\ q.next \in 1 .. Last + 1
  BY DEF WriterStates
<1>2. ASSUME q.next = Last + 1
      PROVE  \A name \in Bundle!FileNames : files[name] = PayloadOf(w, q.payload, name)
  <2>1. ASSUME NEW i \in 1 .. Last
        PROVE  files[Bundle!WriteOrder[i]] = PayloadOf(w, q.payload, Bundle!WriteOrder[i])
    BY <1>2, <2>1, WriteOrderFacts DEF FilesOK
  <2> QED
    BY <2>1, WriteOrderFacts
<1>3. ASSUME \A name \in Bundle!FileNames : files[name] = PayloadOf(w, q.payload, name)
      PROVE  Bundle!Verifies(directory)
  <2>1. files["manifest"] = ManifestOf(w, q.payload)
    BY <1>3, WriteOrderFacts DEF PayloadOf
  <2>2. files["sidecar"] = Bundle!Sidecar(files["manifest"])
    BY <1>3, <2>1, WriteOrderFacts DEF PayloadOf
  <2>3. IsComplete(files["manifest"])
    BY <2>1 DEF ManifestOf, IsComplete
  <2>4. \A name \in Bundle!ArtifactNames :
          name \in Bundle!FileNames /\ PayloadOf(w, q.payload, name) = ArtifactOf(w, q.payload, name)
    BY DEF Bundle!ArtifactNames, PayloadOf
  <2>5. \A name \in Bundle!ArtifactNames : files[name] = files["manifest"].artifacts[name]
    BY <1>3, <2>1, <2>4 DEF ManifestOf
  <2>6. files["trace"] = q.payload
    BY <1>3, WriteOrderFacts DEF PayloadOf, ArtifactOf
  <2>7. files["trace"] # NoFile => Bundle!IsTrace(files["trace"])
    BY <1>1, <2>6, SharedFiles DEF Embedded, Bundle!IsTrace
  <2>8. directory # NoDirectory
    BY RootsAreDirectories
  <2> QED
    BY <2>2, <2>3, <2>5, <2>7, <2>8, SharedFiles DEF Bundle!Verifies
<1>4. Bundle!Verifies(directory) => IsComplete(files["sidecar"])
  BY DEF Bundle!Verifies, Bundle!Sidecar, IsComplete, NoFile, Torn
<1>5. ASSUME IsComplete(files["sidecar"]) PROVE q.next = Last + 1
  <2>1. Bundle!WriteOrder[Last] = "sidecar" /\ Last \in 1 .. Last
    BY WriteOrderFacts
  <2>2. files["sidecar"] \notin {NoFile, Torn}
    BY <1>5 DEF IsComplete, NoFile, Torn
  <2>3. ~ (q.next <= Last)
    BY <1>1, <2>1, <2>2, WriteOrderFacts DEF FilesOK
  <2> QED
    BY <1>1, <2>3, WriteOrderFacts
<1> QED
  BY <1>2, <1>3, <1>4, <1>5

\* A writer that does not hold the root does not disturb the one that does.
LEMMA OtherWriterKeeps ==
  ASSUME BundleInv, NEW w \in Writers, NEW q \in WriterStates,
         writer[w].phase \in BeforeRoot, q.phase \notin HoldsRoot,
         q.phase \in BeforeRoot => q.next = 1,
         writer' = [writer EXCEPT ![w] = q], UNCHANGED <<source, root>>
  PROVE  BundleInv'
<1>1. writer' \in [Writers -> WriterStates]
  BY DEF BundleInv
<1>2. writer'[w] = q /\ \A v \in Writers : v # w => writer'[v] = writer[v]
  BY DEF BundleInv
<1>3. ASSUME root # NoDirectory
      PROVE  \E v \in Writers : /\ OwnerOK(v, writer'[v], root.files)
                                /\ \A u \in Writers : u # v => writer'[u].phase \notin HoldsRoot
  <2>1. PICK v \in Writers : /\ OwnerOK(v, writer[v], root.files)
                             /\ \A u \in Writers : u # v => writer[u].phase \notin HoldsRoot
    BY <1>3 DEF BundleInv
  <2>2. v # w
    BY <2>1 DEF OwnerOK, HoldsRoot, BeforeRoot
  <2> QED
    BY <1>2, <2>1, <2>2
<1>4. \A u \in Writers : writer'[u].phase \in BeforeRoot => writer'[u].next = 1
  BY <1>2 DEF BundleInv
<1>5. root = NoDirectory => \A u \in Writers : writer'[u].phase \notin HoldsRoot
  BY <1>2 DEF BundleInv
<1> QED
  BY <1>1, <1>3, <1>4, <1>5 DEF BundleInv

\* The writer that holds the root is the one whose files it has.
LEMMA OwnerKeeps ==
  ASSUME BundleInv, NEW w \in Writers, NEW q \in WriterStates,
         NEW directory \in Roots,
         writer[w].phase \in HoldsRoot,
         OwnerOK(w, writer[w], root.files) => OwnerOK(w, q, directory.files),
         writer' = [writer EXCEPT ![w] = q], root' = directory, UNCHANGED source
  PROVE  BundleInv'
<1>1. writer' \in [Writers -> WriterStates]
  BY DEF BundleInv
<1>2. writer'[w] = q /\ \A v \in Writers : v # w => writer'[v] = writer[v]
  BY DEF BundleInv
<1>3. root # NoDirectory
  BY DEF BundleInv
<1>4. PICK v \in Writers : /\ OwnerOK(v, writer[v], root.files)
                           /\ \A u \in Writers : u # v => writer[u].phase \notin HoldsRoot
  BY <1>3 DEF BundleInv
<1>5. v = w
  BY <1>4
<1>6. OwnerOK(w, writer'[w], root'.files)
  BY <1>2, <1>4, <1>5
<1>7. \A u \in Writers : u # w => writer'[u].phase \notin HoldsRoot
  BY <1>2, <1>4, <1>5
<1>8. root' # NoDirectory
  BY RootsAreDirectories
<1>9. \A u \in Writers : writer'[u].phase \in BeforeRoot => writer'[u].next = 1
  BY <1>2, <1>4, <1>5, <1>6 DEF BundleInv, OwnerOK, BeforeRoot, HoldsRoot
<1> QED
  BY <1>1, <1>6, <1>7, <1>8, <1>9 DEF BundleInv

\* Nobody holds a root that does not exist.
LEMMA HeldRootExists ==
  ASSUME BundleInv, NEW w \in Writers, writer[w].phase \in HoldsRoot
  PROVE  root \in Roots /\ root # NoDirectory /\ OwnerOK(w, writer[w], root.files)
<1>1. root # NoDirectory
  BY DEF BundleInv
<1> QED
  BY <1>1 DEF BundleInv

LEMMA RefuseKeeps ==
  ASSUME BundleInv, NEW w \in Writers, writer[w].phase \in BeforeRoot,
         Bundle!Refuse(w), UNCHANGED <<source, root>>
  PROVE  BundleInv'
<1>1. Bundle!AtStart("failed") \in WriterStates /\ Bundle!AtStart("failed").phase \notin HoldsRoot
  BY WriteOrderFacts, SharedFiles DEF Bundle!AtStart, WriterStates, Embedded, HoldsRoot
<1>2. Bundle!AtStart("failed").next = 1
  BY DEF Bundle!AtStart
<1> QED
  BY <1>1, <1>2, OtherWriterKeeps DEF Bundle!Refuse

LEMMA PrepareKeeps ==
  ASSUME BundleInv, NEW w \in Writers,
         Bundle!PrepareReferences(w) \/ Bundle!CheckSource(w) \/ Bundle!ReadPayload(w)
  PROVE  BundleInv'
<1>1. writer[w] \in WriterStates
  BY DEF BundleInv
<1>2. ASSUME NEW phase \in {"checked", "prepared"}, NEW payload \in Embedded,
             writer[w].phase \in BeforeRoot,
             writer' = [writer EXCEPT ![w] = [writer[w] EXCEPT !.phase = phase, !.payload = payload]],
             UNCHANGED <<source, root>>
      PROVE  BundleInv'
  <2> DEFINE q == [writer[w] EXCEPT !.phase = phase, !.payload = payload]
  <2>1. q \in WriterStates /\ q.phase \notin HoldsRoot /\ q.next = 1
    BY <1>1, <1>2 DEF WriterStates, HoldsRoot, BeforeRoot, BundleInv
  <2> HIDE DEF q
  <2>2. writer' = [writer EXCEPT ![w] = q]
    BY <1>2 DEF q
  <2> QED
    BY <1>2, <2>1, <2>2, OtherWriterKeeps
<1>3. ASSUME NEW phase \in {"checked", "prepared"}, Bundle!Move(w, phase)
      PROVE  /\ writer[w].payload \in Embedded
             /\ writer' = [writer EXCEPT
                             ![w] = [writer[w] EXCEPT !.phase = phase, !.payload = writer[w].payload]]
  BY <1>1, <1>3 DEF Bundle!Move, BundleInv, WriterStates
<1>4. CASE Bundle!PrepareReferences(w)
  BY <1>2, <1>3, <1>4 DEF Bundle!PrepareReferences, BeforeRoot
<1>5. CASE Bundle!CheckSource(w)
  BY <1>2, <1>3, <1>5, RefuseKeeps DEF Bundle!CheckSource, BeforeRoot
<1>6. CASE Bundle!ReadPayload(w)
  <2>1. PICK bytes \in Bundle!Reads(source) :
          IF Bundle!IsTrace(bytes)
          THEN writer' = [writer EXCEPT ![w].phase = "prepared", ![w].payload = bytes]
          ELSE Bundle!Refuse(w)
    BY <1>6 DEF Bundle!ReadPayload, BeforeRoot
  <2>2. CASE Bundle!IsTrace(bytes)
    <3>1. bytes \in Embedded
      BY <2>2, ReadTracesAreEmbedded
    <3>2. writer' = [writer EXCEPT
                       ![w] = [writer[w] EXCEPT !.phase = "prepared", !.payload = bytes]]
      BY <2>1, <2>2 DEF BundleInv
    <3> QED
      BY <1>2, <1>6, <3>1, <3>2 DEF Bundle!ReadPayload, BeforeRoot
  <2>3. CASE ~ Bundle!IsTrace(bytes)
    BY <1>6, <2>1, <2>3, RefuseKeeps DEF Bundle!ReadPayload, BeforeRoot
  <2> QED
    BY <2>2, <2>3
<1> QED
  BY <1>4, <1>5, <1>6

LEMMA MakeRootKeeps ==
  ASSUME BundleInv, NEW w \in Writers, Bundle!MakeRoot(w) PROVE BundleInv'
<1>1. writer[w] \in WriterStates /\ writer[w].phase = "prepared" /\ writer[w].next = 1
  BY DEF BundleInv, Bundle!MakeRoot, BeforeRoot
<1>2. CASE root # NoDirectory
  BY <1>1, <1>2, RefuseKeeps, SharedFiles DEF Bundle!MakeRoot, BeforeRoot
<1>3. CASE root = NoDirectory
  <2> DEFINE directory == [kind |-> "directory", files |-> [name \in Bundle!FileNames |-> NoFile]]
             q == [writer[w] EXCEPT !.phase = "writing"]
  <2>1. directory \in Roots /\ directory # NoDirectory
        /\ \A name \in Bundle!FileNames : directory.files[name] = NoFile
    <3>1. NoFile \in FileBytes
      <4>1. NoFile \in Embedded
        BY Zenon DEF Embedded
      <4>2. NoFile \in ArtifactBytes
        BY <4>1 DEF ArtifactBytes
      <4> QED
        BY <4>2, Zenon DEF FileBytes
    <3>2. [name \in Bundle!FileNames |-> NoFile] \in [Bundle!FileNames -> FileBytes]
      BY <3>1
    <3>3. directory \in Roots
      BY <3>2 DEF Roots
    <3> QED
      BY <3>3, RootsAreDirectories
  <2>2. root' = directory /\ writer' = [writer EXCEPT ![w] = q] /\ UNCHANGED source
    BY <1>3, SharedFiles DEF Bundle!MakeRoot, Bundle!Move, BundleInv
  <2>3. q \in WriterStates /\ q.phase = "writing" /\ q.next = 1
    BY <1>1 DEF WriterStates, HoldsRoot
  <2> HIDE DEF q, directory
  <2>4. OwnerOK(w, q, directory.files)
    <3>1. \A i \in 1 .. Last : Bundle!WriteOrder[i] \in Bundle!FileNames
      BY WriteOrderFacts
    <3>2. FilesOK(w, q, directory.files)
      BY <2>1, <2>3, <3>1 DEF FilesOK
    <3> QED
      BY <2>3, <3>2, WriteOrderFacts DEF OwnerOK, HoldsRoot
  <2>5. /\ writer' \in [Writers -> WriterStates] /\ writer'[w] = q
        /\ \A v \in Writers : v # w => writer'[v] = writer[v]
    BY <2>2, <2>3 DEF BundleInv
  <2>6. \A v \in Writers : v # w => writer'[v].phase \notin HoldsRoot
    BY <1>3, <2>5 DEF BundleInv
  <2>7. \A v \in Writers : writer'[v].phase \in BeforeRoot => writer'[v].next = 1
    BY <2>3, <2>5 DEF BundleInv
  <2> QED
    BY <2>1, <2>2, <2>4, <2>5, <2>6, <2>7 DEF BundleInv
<1> QED
  BY <1>2, <1>3

\* A file is opened, and then holds what its writer prepared.
LEMMA WriteFileKeeps ==
  ASSUME BundleInv, NEW w \in Writers, Bundle!WriteFile(w) PROVE BundleInv'
<1>1. writer[w] \in WriterStates /\ writer[w].phase = "writing"
  BY DEF BundleInv, Bundle!WriteFile
<1>2. root \in Roots /\ OwnerOK(w, writer[w], root.files)
  BY <1>1, HeldRootExists DEF HoldsRoot
<1> DEFINE n == writer[w].next
           name == Bundle!WriteOrder[n]
           payload == PayloadOf(w, writer[w].payload, name)
           skipped == payload = NoFile
           file == root.files[name]
           next == [writer[w] EXCEPT !.next = n + 1,
                                     !.phase = IF name = "sidecar" THEN "verify" ELSE @]
           directory == [root EXCEPT !.files[name] = Written(file, payload)]
<1>3. n \in 1 .. Last /\ name \in Bundle!FileNames /\ writer[w].payload \in Embedded
  BY <1>1, <1>2, WriteOrderFacts DEF OwnerOK, WriterStates
<1>4. /\ root' = IF skipped THEN root ELSE directory
      /\ writer' = IF skipped \/ file = Torn THEN [writer EXCEPT ![w] = next] ELSE writer
      /\ UNCHANGED source
  BY PayloadIsPayloadOf, SharedFiles DEF Bundle!WriteFile, BundleInv
<1>5. next \in WriterStates /\ next.next = n + 1 /\ next.payload = writer[w].payload
      /\ next.phase = (IF name = "sidecar" THEN "verify" ELSE "writing")
  <2>1. n + 1 \in 1 .. Last + 1
    BY <1>3, WriteOrderFacts
  <2> HIDE DEF n, name
  <2> QED
    BY <1>1, <2>1 DEF WriterStates, HoldsRoot, n
<1>6. name = "sidecar" <=> n = Last
  BY <1>3, WriteOrderFacts
<1>7. payload \in FileBytes
  BY <1>3, PayloadType
<1>8. file = NoFile \/ (file = Torn /\ ~ skipped)
  BY <1>2, <1>3 DEF OwnerOK, FilesOK
<1>9. \A i \in 1 .. Last : i # n => Bundle!WriteOrder[i] # name
  BY <1>3, WriteOrderFacts
<1>10. directory \in Roots /\ directory.files[name] = Written(file, payload)
       /\ \A other \in Bundle!FileNames : other # name => directory.files[other] = root.files[other]
  <2>1. Written(file, payload) \in FileBytes
    BY <1>7 DEF Written, FileBytes
  <2> QED
    BY <1>2, <1>3, <2>1 DEF Roots
<1>11. NoFile # Torn
  BY DEF NoFile, Torn
<1> HIDE DEF next, directory, payload, name
<1>12. \A i \in 1 .. Last : Bundle!WriteOrder[i] \in Bundle!FileNames
  BY WriteOrderFacts
<1>13. FilesOK(w, writer[w], root.files)
  BY <1>2 DEF OwnerOK
<1>14. CASE skipped
  <2>1. FilesOK(w, next, root.files)
    BY <1>3, <1>5, <1>8, <1>13, <1>14 DEF FilesOK, payload, name
  <2>2. OwnerOK(w, next, root.files)
    BY <1>3, <1>5, <1>6, <2>1, WriteOrderFacts DEF OwnerOK, HoldsRoot
  <2> QED
    BY <1>1, <1>2, <1>4, <1>5, <1>14, <2>2, OwnerKeeps DEF HoldsRoot
<1>15. CASE ~ skipped /\ file = Torn
  <2>1. directory.files[name] = payload
    BY <1>10, <1>15 DEF Written
  <2>2. FilesOK(w, next, directory.files)
    <3> SUFFICES ASSUME NEW i \in 1 .. Last
                 PROVE  LET other == Bundle!WriteOrder[i]
                        IN  /\ i < next.next =>
                                 directory.files[other] = PayloadOf(w, next.payload, other)
                            /\ i = next.next =>
                                 \/ directory.files[other] = NoFile
                                 \/ directory.files[other] = Torn
                                      /\ PayloadOf(w, next.payload, other) # NoFile
                            /\ i > next.next => directory.files[other] = NoFile
      BY DEF FilesOK
    <3>1. CASE i = n
      BY <1>3, <1>5, <2>1, <3>1 DEF payload, name
    <3>2. CASE i # n
      <4>1. directory.files[Bundle!WriteOrder[i]] = root.files[Bundle!WriteOrder[i]]
        BY <1>9, <1>10, <1>12, <3>2
      <4> QED
        BY <1>3, <1>5, <1>13, <3>2, <4>1 DEF FilesOK
    <3> QED
      BY <3>1, <3>2
  <2>3. OwnerOK(w, next, directory.files)
    BY <1>3, <1>5, <1>6, <2>2, WriteOrderFacts DEF OwnerOK, HoldsRoot
  <2> QED
    BY <1>1, <1>4, <1>5, <1>10, <1>15, <2>3, OwnerKeeps DEF HoldsRoot
<1>16. CASE ~ skipped /\ file # Torn
  <2>1. directory.files[name] = Torn
    BY <1>10, <1>16 DEF Written
  <2>2. FilesOK(w, writer[w], directory.files)
    <3> SUFFICES ASSUME NEW i \in 1 .. Last
                 PROVE  LET other == Bundle!WriteOrder[i]
                        IN  /\ i < n =>
                                 directory.files[other] = PayloadOf(w, writer[w].payload, other)
                            /\ i = n =>
                                 \/ directory.files[other] = NoFile
                                 \/ directory.files[other] = Torn
                                      /\ PayloadOf(w, writer[w].payload, other) # NoFile
                            /\ i > n => directory.files[other] = NoFile
      BY DEF FilesOK
    <3>1. CASE i = n
      BY <1>3, <1>16, <2>1, <3>1 DEF payload, name
    <3>2. CASE i # n
      <4>1. directory.files[Bundle!WriteOrder[i]] = root.files[Bundle!WriteOrder[i]]
        BY <1>9, <1>10, <1>12, <3>2
      <4> QED
        BY <1>13, <3>2, <4>1 DEF FilesOK
    <3> QED
      BY <3>1, <3>2
  <2>3. OwnerOK(w, writer[w], directory.files)
    BY <1>2, <2>2 DEF OwnerOK
  <2>4. writer' = [writer EXCEPT ![w] = writer[w]]
    BY <1>4, <1>16 DEF BundleInv
  <2> QED
    BY <1>1, <1>4, <1>10, <1>16, <2>3, <2>4, OwnerKeeps DEF HoldsRoot
<1> QED
  BY <1>14, <1>15, <1>16

LEMMA VerifyOwnKeeps ==
  ASSUME BundleInv, NEW w \in Writers, Bundle!VerifyOwn(w) PROVE BundleInv'
<1>1. writer[w] \in WriterStates /\ writer[w].phase = "verify"
  BY DEF BundleInv, Bundle!VerifyOwn
<1>2. root \in Roots /\ OwnerOK(w, writer[w], root.files)
  BY <1>1, HeldRootExists DEF HoldsRoot
<1>3. writer[w].next = Last + 1 /\ FilesOK(w, writer[w], root.files)
  BY <1>1, <1>2 DEF OwnerOK
<1>4. Bundle!Verifies(root)
  BY <1>1, <1>2, <1>3, VerifiesWhenWritten
<1> DEFINE q == [writer[w] EXCEPT !.phase = "done"]
<1>5. /\ q \in WriterStates /\ q.phase = "done"
      /\ q.next = writer[w].next /\ q.payload = writer[w].payload
  BY <1>1 DEF WriterStates, HoldsRoot
<1>6. writer' = [writer EXCEPT ![w] = q] /\ UNCHANGED <<source, root>>
  BY <1>4 DEF Bundle!VerifyOwn, Bundle!Move, BundleInv
<1> HIDE DEF q
<1>7. OwnerOK(w, q, root.files)
  BY <1>3, <1>5 DEF OwnerOK, FilesOK, HoldsRoot
<1> QED
  BY <1>1, <1>2, <1>5, <1>6, <1>7, OwnerKeeps DEF HoldsRoot

\* A writer that stops leaves the root as it is, and remains its owner.
LEMMA WriterStopsKeeps ==
  ASSUME BundleInv, NEW w \in Writers, Bundle!WriterStops(w) PROVE BundleInv'
<1>1. writer[w] \in WriterStates /\ UNCHANGED <<source, root>>
  BY DEF BundleInv, Bundle!WriterStops
<1>2. CASE writer[w].phase \in {"checked", "prepared"}
  BY <1>1, <1>2, RefuseKeeps DEF Bundle!WriterStops, BeforeRoot
<1>3. CASE writer[w].phase \in {"writing", "verify"}
  <2>1. root \in Roots /\ OwnerOK(w, writer[w], root.files)
    BY <1>3, HeldRootExists DEF HoldsRoot
  <2> DEFINE q == [writer[w] EXCEPT !.phase = "failed"]
  <2>2. /\ q \in WriterStates /\ q.phase = "failed"
        /\ q.next = writer[w].next /\ q.payload = writer[w].payload
    BY <1>1 DEF WriterStates
  <2>3. writer' = [writer EXCEPT ![w] = q]
    BY <1>3 DEF Bundle!WriterStops, Bundle!Move, BundleInv
  <2> HIDE DEF q
  <2>4. OwnerOK(w, q, root.files)
    BY <2>1, <2>2 DEF OwnerOK, FilesOK, HoldsRoot
  <2> QED
    BY <1>1, <1>3, <2>1, <2>2, <2>3, <2>4, OwnerKeeps DEF HoldsRoot
<1> QED
  BY <1>2, <1>3 DEF Bundle!WriterStops

LEMMA BundleInvInit == Bundle!BundleInit => BundleInv
<1> SUFFICES ASSUME Bundle!BundleInit PROVE BundleInv
  OBVIOUS
<1>1. /\ Bundle!AtStart("idle") \in WriterStates
      /\ Bundle!AtStart("idle").phase = "idle" /\ Bundle!AtStart("idle").next = 1
  BY WriteOrderFacts, SharedFiles DEF Bundle!AtStart, WriterStates, BeforeRoot, Embedded
<1>2. writer = [w \in Writers |-> Bundle!AtStart("idle")] /\ source = NoFile /\ root = NoDirectory
  BY SharedFiles DEF Bundle!BundleInit
<1> QED
  BY <1>1, <1>2 DEF BundleInv, HoldsRoot

LEMMA BundleInvStep == BundleInv /\ Bundle!BundleNext => BundleInv'
<1> SUFFICES ASSUME BundleInv, Bundle!BundleNext PROVE BundleInv'
  OBVIOUS
<1>1. CASE Bundle!RewriteSource
  <2>1. source' \in {NoFile, Torn} \cup Sources
    BY <1>1, SharedFiles DEF Bundle!RewriteSource, Written
  <2>2. UNCHANGED <<root, writer>>
    BY <1>1 DEF Bundle!RewriteSource
  <2> QED
    BY <2>1, <2>2 DEF BundleInv
<1>2. ASSUME NEW w \in Writers, Bundle!WriterStep(w) PROVE BundleInv'
  BY <1>2, PrepareKeeps, MakeRootKeeps, WriteFileKeeps, VerifyOwnKeeps, WriterStopsKeeps
     DEF Bundle!WriterStep
<1> QED
  BY <1>1, <1>2 DEF Bundle!BundleNext

\* A bundle verifies if and only if the writer that owns it has written it all.
LEMMA OwnedBundleIsWhole == BundleInv => BundlesVerifyWhole
<1> SUFFICES ASSUME BundleInv PROVE Bundle!VerifiesWhole
  BY DEF BundlesVerifyWhole
<1>1. CASE root = NoDirectory
  BY <1>1, SharedFiles DEF Bundle!VerifiesWhole, Bundle!Verifies, BundleInv, HoldsRoot
<1>2. CASE root # NoDirectory
  <2>1. PICK w \in Writers : /\ OwnerOK(w, writer[w], root.files)
                             /\ \A v \in Writers : v # w => writer[v].phase \notin HoldsRoot
    BY <1>2 DEF BundleInv
  <2>2. root \in Roots /\ writer[w] \in WriterStates /\ FilesOK(w, writer[w], root.files)
    BY <1>2, <2>1 DEF BundleInv, OwnerOK
  <2>3. Bundle!Verifies(root) \/ IsComplete(root.files["sidecar"]) => writer[w].next = Last + 1
    BY <2>2, VerifiesWhenWritten
  <2>4. writer[w].next = Last + 1 =>
          /\ Bundle!Verifies(root)
          /\ \A name \in Bundle!FileNames :
               root.files[name] = PayloadOf(w, writer[w].payload, name)
    BY <2>2, VerifiesWhenWritten
  <2>5. ASSUME NEW v \in Writers, writer[v].phase \in {"verify", "done"}
        PROVE  Bundle!Verifies(root)
    BY <2>1, <2>4, <2>5 DEF OwnerOK, HoldsRoot
  <2> QED
    BY <2>3, <2>4, <2>5, PayloadIsPayloadOf, SharedFiles DEF Bundle!VerifiesWhole
<1> QED
  BY <1>1, <1>2

\* Once a bundle verifies nobody writes into it.
LEMMA VerifiedRootIsFinal ==
  ASSUME BundleInv, Bundle!BundleNext, Bundle!Verifies(root) PROVE root' = root
<1>1. root # NoDirectory
  BY SharedFiles DEF Bundle!Verifies
<1>2. PICK w \in Writers : /\ OwnerOK(w, writer[w], root.files)
                           /\ \A v \in Writers : v # w => writer[v].phase \notin HoldsRoot
  BY <1>1 DEF BundleInv
<1>3. writer[w].next = Last + 1
  BY <1>1, <1>2, VerifiesWhenWritten DEF BundleInv, OwnerOK
<1>4. \A v \in Writers : writer[v].phase # "writing"
  BY <1>2, <1>3, WriteOrderFacts DEF OwnerOK, HoldsRoot
<1>5. \A v \in Writers : ~ Bundle!WriteFile(v)
  BY <1>4 DEF Bundle!WriteFile
<1>6. ASSUME NEW v \in Writers, Bundle!WriterStep(v) PROVE root' = root
  <2>1. CASE Bundle!MakeRoot(v)
    BY <1>1, <2>1, SharedFiles DEF Bundle!MakeRoot
  <2>2. CASE Bundle!PrepareReferences(v) \/ Bundle!CheckSource(v) \/ Bundle!ReadPayload(v)
    BY <2>2 DEF Bundle!PrepareReferences, Bundle!CheckSource, Bundle!ReadPayload
  <2>3. CASE Bundle!VerifyOwn(v) \/ Bundle!WriterStops(v)
    BY <2>3 DEF Bundle!VerifyOwn, Bundle!WriterStops
  <2> QED
    BY <1>5, <1>6, <2>1, <2>2, <2>3 DEF Bundle!WriterStep
<1>7. CASE Bundle!RewriteSource
  BY <1>7 DEF Bundle!RewriteSource
<1> QED
  BY <1>6, <1>7 DEF Bundle!BundleNext

-----------------------------------------------------------------------------
(***************************************************************************)
(* Part 6: the producers together.  A step of ArtifactsNext is a step of   *)
(* one of them and leaves the others alone.                                *)
(***************************************************************************)
LEMMA ArtifactsStep ==
  ASSUME [ArtifactsNext]_artifactVars
  PROVE  /\ [SetNext]_setVars
         /\ [CorpusNext]_corpusVars
         /\ [Bundle!BundleNext]_<<source, root, writer>>
BY DEF ArtifactsNext, SetStep, CorpusStep, BundleStep, artifactVars

LEMMA ArtifactsBegin ==
  ArtifactsInit => SetInit /\ CorpusInit /\ Bundle!BundleInit
BY DEF ArtifactsInit

LEMMA ArtifactsInvariant == ArtifactsSpec => [](SetInv /\ CorpusInv /\ BundleInv)
<1>1. ArtifactsInit => SetInv /\ CorpusInv /\ BundleInv
  BY ArtifactsBegin, InitSetInv, InitCorpusInv, BundleInvInit
<1>2. ASSUME SetInv, CorpusInv, BundleInv, [ArtifactsNext]_artifactVars
      PROVE  SetInv' /\ CorpusInv' /\ BundleInv'
  <2>1. [SetNext]_setVars /\ [CorpusNext]_corpusVars
        /\ [Bundle!BundleNext]_<<source, root, writer>>
    BY <1>2, ArtifactsStep
  <2>2. SetInv'
    BY <1>2, <2>1, NextKeepsSetInv
  <2>3. CorpusInv'
    BY <1>2, <2>1, NextKeepsCorpusInv
  <2>4. BundleInv'
    <3>1. CASE UNCHANGED <<source, root, writer>>
      BY <1>2, <3>1 DEF BundleInv
    <3>2. CASE Bundle!BundleNext
      BY <1>2, <3>2, BundleInvStep
    <3> QED
      BY <2>1, <3>1, <3>2
  <2> QED
    BY <2>2, <2>3, <2>4
<1> QED
  BY <1>1, <1>2, PTL DEF ArtifactsSpec

(***************************************************************************)
(* A suite that load_suite_inputs accepts is one collection's, or, if a    *)
(* collection wrote while it was read, at least of the manifest's corpus   *)
(* and revision, whenever collections are begun and killed.                *)
(***************************************************************************)
THEOREM CorpusAcceptedSuiteIsOneRun == ArtifactsSpec => []AcceptedSuiteIsOneRun
BY ArtifactsInvariant, AcceptedIsWhole, PTL

(***************************************************************************)
(* A bundle root verifies exactly if its sidecar is complete, and is then  *)
(* what one writer prepared, however many writers name the root, whenever  *)
(* they are killed, and whoever rewrites the embedded trace.               *)
(***************************************************************************)
THEOREM BundleVerifiesWhole == ArtifactsSpec => []BundlesVerifyWhole
BY ArtifactsInvariant, OwnedBundleIsWhole, PTL

\* What a verifier sees changes once, when the bundle has become whole.
LEMMA StepPublishesBundleOnce ==
  ASSUME BundleInv, BundleInv', [Bundle!BundleNext]_<<source, root, writer>>
  PROVE  [Bundle!BundlePublication!Publish]_(IF Bundle!Verifies(root) THEN root
                                             ELSE Bundle!NoDirectory)
<1> DEFINE shown == IF Bundle!Verifies(root) THEN root ELSE Bundle!NoDirectory
<1>1. Bundle!Verifies(root) => root' = root
  BY VerifiedRootIsFinal
<1>2. root' = root => (Bundle!Verifies(root) <=> Bundle!Verifies(root)')
  BY DEF Bundle!Verifies
<1>3. Bundle!Verifies(root)' => root' # Bundle!NoDirectory
  BY DEF Bundle!Verifies
<1> QED
  BY <1>1, <1>2, <1>3 DEF Bundle!BundlePublication!Publish

(***************************************************************************)
(* A verifier of the root sees nothing and then one bundle for good.       *)
(***************************************************************************)
THEOREM BundleRootIsPublishedOnce == ArtifactsSpec => BundleIsPublishedOnce
<1>1. Bundle!BundleInit => Bundle!BundlePublication!Init
  BY DEF Bundle!BundleInit, Bundle!BundlePublication!Init, Bundle!Verifies
<1> QED
  BY <1>1, ArtifactsBegin, ArtifactsStep, ArtifactsInvariant, StepPublishesBundleOnce, PTL
     DEF ArtifactsSpec, BundleIsPublishedOnce, Bundle!BundlePublication!Spec

=============================================================================
