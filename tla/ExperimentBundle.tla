-------------------------- MODULE ExperimentBundle --------------------------
(***************************************************************************)
(* The experiment bundle (experiment_bundle.py).  A writer validates its   *)
(* inputs, among them a trace file that somebody else may be writing,      *)
(* makes the root directory, which must not exist, and writes the files    *)
(* one after the other, the digest of the manifest last.  There is no      *)
(* staging directory: what makes a root a bundle is that it verifies.      *)
(***************************************************************************)
EXTENDS ArtifactFiles

CONSTANTS
    Writers,    \* invocations of write_experiment_bundle with one root
    BaseFiles,  \* the sequence of the required artifacts, in writing order
    Sources     \* traces that may be written to the source file

VARIABLES
    source,  \* the file named by EmbeddedTrace.source_path
    root,    \* the bundle root, or NoDirectory
    writer   \* the locals of each invocation

bundleVars == <<source, root, writer>>

WriteOrder == BaseFiles \o <<"trace", "manifest", "sidecar">>
FileNames == {WriteOrder[i] : i \in DOMAIN WriteOrder}
ArtifactNames == FileNames \ {"manifest", "sidecar"}

(***************************************************************************)
(* What reading a file yields.  A file that is being written reads as      *)
(* something invalid or, if it happens to end with a line, as a shorter    *)
(* trace that is valid: the format has no count of its events.             *)
(***************************************************************************)
ShorterTrace == [kind |-> "shorter trace"]
Reads(file) == IF file = Torn THEN {Torn, ShorterTrace} ELSE {file}
IsTrace(bytes) == bytes \in Sources \cup {ShorterTrace}

AtStart(phase) == [phase |-> phase, payload |-> NoFile, next |-> 1]

BundleInit ==
    /\ source = NoFile
    /\ root = NoDirectory
    /\ writer = [w \in Writers |-> AtStart("idle")]

-----------------------------------------------------------------------------
\* the bytes that writer w has prepared for each file
BasePayload(w, name) == [kind |-> "payload", name |-> name, writer |-> w]

Artifact(w, name) ==
    IF name = "trace" THEN writer[w].payload ELSE BasePayload(w, name)

Manifest(w) ==
    [kind |-> "manifest", artifacts |-> [name \in ArtifactNames |-> Artifact(w, name)]]

Sidecar(manifest) == [kind |-> "sidecar", digest |-> manifest]

Payload(w, name) ==
    CASE name = "manifest" -> Manifest(w)
      [] name = "sidecar" -> Sidecar(Manifest(w))
      [] OTHER -> Artifact(w, name)

(***************************************************************************)
(* verify_experiment_bundle: the manifest has the digest of the sidecar,   *)
(* every artifact the digest of the manifest, an embedded trace is valid,  *)
(* and no file is missing or left over.                                    *)
(***************************************************************************)
Verifies(directory) ==
    /\ directory # NoDirectory
    /\ LET files == directory.files
       IN  /\ IsComplete(files["manifest"])
           /\ files["sidecar"] = Sidecar(files["manifest"])
           /\ \A name \in ArtifactNames : files[name] = files["manifest"].artifacts[name]
           /\ files["trace"] # NoFile => IsTrace(files["trace"])

-----------------------------------------------------------------------------
Move(w, phase) == writer' = [writer EXCEPT ![w].phase = phase]

\* a writer that ends before it has made the root leaves nothing behind
Refuse(w) == writer' = [writer EXCEPT ![w] = AtStart("failed")]

\* a bundle without traces, or with references to external ones only
PrepareReferences(w) ==
    /\ writer[w].phase = "idle"
    /\ Move(w, "prepared")
    /\ UNCHANGED <<source, root>>

\* the source is read and validated by the reader of canonical traces ...
CheckSource(w) ==
    /\ writer[w].phase = "idle"
    /\ \E bytes \in Reads(source) :
          IF IsTrace(bytes) THEN Move(w, "checked") ELSE Refuse(w)
    /\ UNCHANGED <<source, root>>

\* Slip: only the first read is validated.
ReadPayloadUnchecked(w) ==
    /\ writer[w].phase = "checked"
    /\ \E bytes \in Reads(source) :
          writer' = [writer EXCEPT ![w].phase = "prepared", ![w].payload = bytes]
    /\ UNCHANGED <<source, root>>

\* ... and read again; these bytes are validated and will be written
ReadPayload(w) ==
    /\ writer[w].phase = "checked"
    /\ \E bytes \in Reads(source) :
          IF IsTrace(bytes)
          THEN writer' = [writer EXCEPT ![w].phase = "prepared", ![w].payload = bytes]
          ELSE Refuse(w)
    /\ UNCHANGED <<source, root>>

\* Slip: a root that exists is written over.
MakeRootAnyway(w) ==
    /\ writer[w].phase = "prepared"
    /\ root' = IF root = NoDirectory
               THEN [kind |-> "directory", files |-> [name \in FileNames |-> NoFile]]
               ELSE root
    /\ Move(w, "writing")
    /\ UNCHANGED source

MakeRoot(w) ==
    /\ writer[w].phase = "prepared"
    /\ IF root = NoDirectory
       THEN /\ root' = [kind |-> "directory", files |-> [name \in FileNames |-> NoFile]]
            /\ Move(w, "writing")
       ELSE /\ UNCHANGED root
            /\ Refuse(w)
    /\ UNCHANGED source

WriteFile(w) ==
    /\ writer[w].phase = "writing"
    /\ LET name == WriteOrder[writer[w].next]
           file == root.files[name]
           skipped == Payload(w, name) = NoFile
       IN  /\ root' = IF skipped THEN root
                      ELSE [root EXCEPT !.files[name] = Written(@, Payload(w, name))]
           /\ writer' = IF skipped \/ file = Torn
                        THEN [writer EXCEPT
                                ![w].next = @ + 1,
                                ![w].phase = IF name = "sidecar" THEN "verify" ELSE @]
                        ELSE writer
    /\ UNCHANGED source

VerifyOwn(w) ==
    /\ writer[w].phase = "verify"
    /\ Move(w, IF Verifies(root) THEN "done" ELSE "failed")
    /\ UNCHANGED <<source, root>>

\* an exception, or the process is killed: the root stays as it is
WriterStops(w) ==
    /\ \/ /\ writer[w].phase \in {"checked", "prepared"}
          /\ Refuse(w)
       \/ /\ writer[w].phase \in {"writing", "verify"}
          /\ Move(w, "failed")
    /\ UNCHANGED <<source, root>>

\* a collection writes the source file, perhaps not for the first time
RewriteSource ==
    /\ \E trace \in Sources : source' = Written(source, trace)
    /\ UNCHANGED <<root, writer>>

WriterStep(w) ==
    \/ PrepareReferences(w)
    \/ CheckSource(w)
    \/ ReadPayload(w)
    \/ MakeRoot(w)
    \/ WriteFile(w)
    \/ VerifyOwn(w)
    \/ WriterStops(w)

BundleNext == RewriteSource \/ \E w \in Writers : WriterStep(w)

-----------------------------------------------------------------------------
(***************************************************************************)
(* A root verifies exactly if its last file is complete, and then holds    *)
(* what one writer prepared, with a valid trace; in particular the writer  *)
(* that has validated its inputs and written its files finds its own       *)
(* bundle valid (experiment_bundle.py:203-214), although the trace may     *)
(* have been rewritten while it was read.                                  *)
(***************************************************************************)
VerifiesWhole ==
    /\ Verifies(root) => \E w \in Writers : \A name \in FileNames :
                            root.files[name] = Payload(w, name)
    /\ \A w \in Writers : writer[w].phase \in {"verify", "done"} => Verifies(root)
    /\ root # NoDirectory =>
          (IsComplete(root.files["sidecar"]) => Verifies(root))

\* What a verifier of the root sees: nothing, and then one bundle for good.
BundlePublication ==
    INSTANCE Publication WITH Nothing <- NoDirectory,
                              shown <- IF Verifies(root) THEN root ELSE NoDirectory
=============================================================================
