----------------------------- MODULE Stage1Set -----------------------------
(***************************************************************************)
(* Stage 1 (stage1.py): a parent collects the same corpus in a fixed       *)
(* number of child processes one after the other, under one deadline, in a *)
(* staging directory of its own, validates the whole set, and renames the  *)
(* staging directory to the output.  Several parents may be started with   *)
(* the same output.                                                        *)
(*                                                                         *)
(* What a child observes is abstracted to a routing; two routings may      *)
(* agree on the prefix that the trusted V0.2 collection covers.  Wall      *)
(* clock and monotonic clock are one clock.  A file is written in one      *)
(* step, since nobody reads a staging directory before its writer is done. *)
(***************************************************************************)
EXTENDS ArtifactFiles

CONSTANTS
    Parents,        \* invocations of collect_stage1_set with one output
    Repetitions,    \* STAGE1_REPETITIONS
    Prompts,        \* prompts of the frozen corpus
    Routings,       \* what a child may observe
    PrefixOf,       \* the part of a routing that V0.2 recorded too
    TrustedPrefix,  \* what V0.2 recorded
    Deadline,       \* STAGE1_DEADLINE_SECONDS
    MaxClock        \* bound of the clock

ASSUME SetAssumption ==
    /\ Repetitions \in Nat \ {0}
    /\ Prompts \in Nat \ {0}
    /\ Routings # {}
    /\ Deadline \in Nat \ {0}
    /\ MaxClock \in Nat

VARIABLES
    output,   \* the directory at the output path, or NoDirectory
    parent,   \* the state of each invocation and its staging directory
    now

setVars == <<output, parent, now>>

RepetitionNumbers == 1..Repetitions
PromptNumbers == 1..Prompts

Trace(k, routing) == [kind |-> "trace", prompt |-> k, routing |-> routing]

EmptyRepetition ==
    [traces |-> [k \in PromptNumbers |-> NoFile], manifest |-> NoFile]

EmptyStaging ==
    [kind |-> "directory",
     repetitions |-> [n \in RepetitionNumbers |-> EmptyRepetition],
     set |-> NoFile]

\* an invocation before it begins, or after its last step
AtRest(phase) ==
    [phase |-> phase, number |-> 0, routing |-> CHOOSE r \in Routings : TRUE,
     started |-> 0, begun |-> 0, records |-> <<>>, staging |-> EmptyStaging]

SetInit ==
    /\ output = NoDirectory
    /\ parent = [p \in Parents |-> AtRest("idle")]
    /\ now = 0

-----------------------------------------------------------------------------
(***************************************************************************)
(* The loaders.  A repetition directory loads if its manifest is complete, *)
(* its interval is one, and every trace has the digest the manifest        *)
(* records.                                                                *)
(***************************************************************************)
RepetitionLoads(directory) ==
    /\ IsComplete(directory.manifest)
    /\ directory.manifest.begun <= directory.manifest.finished
    /\ \A k \in PromptNumbers :
          /\ IsComplete(directory.traces[k])
          /\ directory.traces[k] = directory.manifest.traces[k]

\* compare_stage1_repetitions: every repetition repeats the first
RepetitionsAgree(directory) ==
    \A n \in RepetitionNumbers, k \in PromptNumbers :
        directory.repetitions[n].traces[k] = directory.repetitions[1].traces[k]

\* the record of repetition n in the set manifest describes its directory
RecordLoads(directory, n) ==
    LET record == directory.set.records[n]
        repetition == directory.repetitions[n]
    IN  /\ record = repetition.manifest
        /\ RepetitionLoads(repetition)
        /\ record.number = n
        /\ directory.set.started <= record.begun
        /\ record.finished <= directory.set.started + directory.set.elapsed

SetLoads(directory) ==
    /\ IsComplete(directory.set)
    /\ directory.set.elapsed <= Deadline
    /\ Len(directory.set.records) = Repetitions
    /\ \A n \in RepetitionNumbers : RecordLoads(directory, n)
    /\ \A m, n \in RepetitionNumbers :
          m < n => /\ directory.set.records[m].process # directory.set.records[n].process
                   /\ directory.set.records[m].finished <= directory.set.records[n].begun
    /\ RepetitionsAgree(directory)

\* validate_v02_prefix, for the first repetition
PrefixMatches(directory) ==
    \A k \in PromptNumbers :
        PrefixOf[directory.repetitions[1].traces[k].routing] = TrustedPrefix

-----------------------------------------------------------------------------
Elapsed(p) == now - parent[p].started

Move(p, phase) == parent' = [parent EXCEPT ![p].phase = phase]

\* a staging directory that is left behind is never looked at again
End(p, phase) == parent' = [parent EXCEPT ![p] = AtRest(phase)]

(***************************************************************************)
(* The output must not exist when an invocation begins; its staging        *)
(* directory has a fresh name.  An invocation is only begun while the      *)
(* bound of the clock leaves room for its deadline.                        *)
(***************************************************************************)
Start(p) ==
    /\ parent[p].phase = "idle"
    /\ now + Deadline <= MaxClock
    /\ IF output = NoDirectory
       THEN parent' = [parent EXCEPT ![p].phase = "launch", ![p].started = now]
       ELSE End(p, "failed")
    /\ UNCHANGED <<output, now>>

\* the next child is launched with the time that remains
Launch(p) ==
    /\ parent[p].phase = "launch"
    /\ parent[p].number < Repetitions
    /\ IF Elapsed(p) >= Deadline
       THEN End(p, "failed")
       ELSE \E routing \in Routings :
               parent' = [parent EXCEPT ![p].phase = "child",
                                        ![p].number = @ + 1,
                                        ![p].routing = routing,
                                        ![p].begun = now]
    /\ UNCHANGED <<output, now>>

-----------------------------------------------------------------------------
(***************************************************************************)
(* The child writes its traces in the order of the corpus, each after it   *)
(* has been validated, and then its manifest.                              *)
(***************************************************************************)
Repetition(p) == parent[p].staging.repetitions[parent[p].number]

Unwritten(p) == {k \in PromptNumbers : ~ IsComplete(Repetition(p).traces[k])}

WriteTrace(p) ==
    /\ parent[p].phase = "child"
    /\ Unwritten(p) # {}
    /\ LET n == parent[p].number
           k == CHOOSE k \in Unwritten(p) : \A j \in Unwritten(p) : k <= j
       IN  parent' = [parent EXCEPT ![p].staging.repetitions[n].traces[k] =
                                        Trace(k, parent[p].routing)]
    /\ UNCHANGED <<output, now>>

RepetitionManifest(p) ==
    [kind |-> "repetition", number |-> parent[p].number,
     process |-> <<p, parent[p].number>>,
     begun |-> parent[p].begun, finished |-> now,
     traces |-> Repetition(p).traces]

WriteRepetitionManifest(p) ==
    /\ parent[p].phase = "child"
    /\ Unwritten(p) = {}
    /\ ~ IsComplete(Repetition(p).manifest)
    /\ LET n == parent[p].number
       IN  parent' = [parent EXCEPT ![p].staging.repetitions[n].manifest =
                                        RepetitionManifest(p)]
    /\ UNCHANGED <<output, now>>

(***************************************************************************)
(* The child validates its own directory and exits; the parent validates   *)
(* it again, compares the identity, and records it.                        *)
(***************************************************************************)
ChildSucceeds(p) ==
    /\ parent[p].phase = "child"
    /\ IsComplete(Repetition(p).manifest)
    /\ Elapsed(p) <= Deadline
    /\ LET manifest == Repetition(p).manifest
           identified == /\ RepetitionLoads(Repetition(p))
                         /\ manifest.number = parent[p].number
                         /\ manifest.process = <<p, parent[p].number>>
       IN  IF identified
           THEN parent' = [parent EXCEPT
                             ![p].phase = IF parent[p].number = Repetitions THEN "write" ELSE "launch",
                             ![p].records = Append(@, manifest)]
           ELSE End(p, "failed")
    /\ UNCHANGED <<output, now>>

\* a child that ends with an exception: its exit code is not zero
ChildFails(p) ==
    /\ parent[p].phase = "child"
    /\ End(p, "failed")
    /\ UNCHANGED <<output, now>>

\* Slip: no timeout is passed to subprocess.run.
ChildNeverTimesOut(p) == FALSE

\* subprocess.run kills the child when the remaining time has passed
ChildTimesOut(p) ==
    /\ parent[p].phase = "child"
    /\ Elapsed(p) >= Deadline
    /\ End(p, "failed")
    /\ UNCHANGED <<output, now>>

-----------------------------------------------------------------------------
SetManifest(p) ==
    [kind |-> "set", parent |-> p, started |-> parent[p].started,
     elapsed |-> Elapsed(p), records |-> parent[p].records]

WriteSet(p) ==
    /\ parent[p].phase = "write"
    /\ parent' = [parent EXCEPT
                    ![p].staging.set = SetManifest(p), ![p].phase = "validate"]
    /\ UNCHANGED <<output, now>>

\* Slip: the repetitions are not compared with the trusted prefix.
ValidateWithoutPrefix(p) ==
    /\ parent[p].phase = "validate"
    /\ IF SetLoads(parent[p].staging) THEN Move(p, "rename") ELSE End(p, "failed")
    /\ UNCHANGED <<output, now>>

Validate(p) ==
    /\ parent[p].phase = "validate"
    /\ IF SetLoads(parent[p].staging) /\ PrefixMatches(parent[p].staging)
       THEN Move(p, "rename")
       ELSE End(p, "failed")
    /\ UNCHANGED <<output, now>>

\* Slip: the rename replaces what is there.
RenameReplacing(p) ==
    /\ parent[p].phase = "rename"
    /\ output' = parent[p].staging
    /\ End(p, "done")
    /\ UNCHANGED now

(***************************************************************************)
(* The rename publishes the directory at once.  The operating system       *)
(* refuses to rename onto a directory that is not empty.                   *)
(***************************************************************************)
Rename(p) ==
    /\ parent[p].phase = "rename"
    /\ IF output = NoDirectory
       THEN /\ output' = parent[p].staging
            /\ End(p, "done")
       ELSE /\ UNCHANGED output
            /\ End(p, "failed")
    /\ UNCHANGED now

\* the parent is killed or interrupted, and its staging directory stays
Ended == {"idle", "done", "failed"}

Killed(p) ==
    /\ parent[p].phase \notin Ended
    /\ End(p, "failed")
    /\ UNCHANGED <<output, now>>

Tick ==
    /\ now < MaxClock
    /\ now' = now + 1
    /\ UNCHANGED <<output, parent>>

\* what an invocation does by itself once it has begun
ParentStep(p) ==
    \/ Launch(p)
    \/ ChildTimesOut(p)
    \/ WriteSet(p)
    \/ Validate(p)
    \/ Rename(p)

\* what depends on the child, which may hang
ChildStep(p) ==
    \/ WriteTrace(p)
    \/ WriteRepetitionManifest(p)
    \/ ChildSucceeds(p)
    \/ ChildFails(p)

SetNext ==
    \/ Tick
    \/ \E p \in Parents : Start(p) \/ ParentStep(p) \/ ChildStep(p) \/ Killed(p)

SetSpec == SetInit /\ [][SetNext]_setVars

-----------------------------------------------------------------------------
(***************************************************************************)
(* Whatever stands at the output path is a set that validates: all         *)
(* repetitions complete, of one invocation, ordered in time, in agreement  *)
(* with each other and with the trusted prefix, and within the one         *)
(* deadline (stage1.py:307-319, 404-534) -- whenever a parent or a child   *)
(* is killed, and however many parents were started with that path.        *)
(***************************************************************************)
PublishedSetValidates ==
    output # NoDirectory =>
        /\ SetLoads(output)
        /\ PrefixMatches(output)
        /\ \A n \in RepetitionNumbers :
              output.set.records[n].process = <<output.set.parent, n>>

(***************************************************************************)
(* A reader of the output path finds nothing and then one set, which never *)
(* changes (stage1.py:223, 319), although two parents may both have seen   *)
(* the path free.                                                          *)
(***************************************************************************)
SetPublication == INSTANCE Publication WITH Nothing <- NoDirectory, shown <- output

SetIsPublishedOnce == SetPublication!Spec

(***************************************************************************)
(* A collection that has begun ends (stage1.py:240-287), although its      *)
(* children may hang: the deadline they share is enforced by each launch.  *)
(***************************************************************************)
SetFairness ==
    /\ WF_setVars(Tick)
    /\ \A p \in Parents : WF_setVars(ParentStep(p))

EverySetEnds ==
    \A p \in Parents : (parent[p].phase \notin Ended) ~> (parent[p].phase \in Ended)
=============================================================================
