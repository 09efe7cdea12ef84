----------------------------- MODULE Artifacts -----------------------------
(***************************************************************************)
(* The three producers of artifacts: a Stage 1 set with several parents, a *)
(* corpus collection with a reader, and experiment bundles.  They meet in  *)
(* files only and share no directory, so that one of them at a time is     *)
(* looked at; which one is chosen in the initial state.                    *)
(***************************************************************************)
EXTENDS Stage1Set, CorpusCollection

CONSTANTS
    Writers,    \* invocations of write_experiment_bundle
    BaseFiles,  \* the artifacts each of them writes besides a trace
    Sources     \* traces one of them may embed

ASSUME BundleAssumption ==
    /\ BaseFiles \in Seq(STRING)
    /\ \A i, j \in DOMAIN BaseFiles : i # j => BaseFiles[i] # BaseFiles[j]
    /\ \A i \in DOMAIN BaseFiles : BaseFiles[i] \notin {"trace", "manifest", "sidecar"}
    /\ \A trace \in Sources : trace.kind = "trace"

VARIABLES
    producer,
    source,
    root,
    writer

Bundle == INSTANCE ExperimentBundle

artifactVars == <<setVars, corpusVars, producer, source, root, writer>>

ArtifactsInit ==
    /\ SetInit
    /\ CorpusInit
    /\ Bundle!BundleInit
    /\ producer \in {"set", "corpus", "bundle"}

SetStep ==
    /\ producer = "set"
    /\ SetNext
    /\ UNCHANGED <<corpusVars, source, root, writer>>

CorpusStep ==
    /\ producer = "corpus"
    /\ CorpusNext
    /\ UNCHANGED <<setVars, source, root, writer>>

BundleStep ==
    /\ producer = "bundle"
    /\ Bundle!BundleNext
    /\ UNCHANGED <<setVars, corpusVars>>

ArtifactsNext ==
    /\ SetStep \/ CorpusStep \/ BundleStep
    /\ UNCHANGED producer

ArtifactsSpec == ArtifactsInit /\ [][ArtifactsNext]_artifactVars /\ SetFairness

-----------------------------------------------------------------------------
(***************************************************************************)
(* A bundle root verifies exactly if its last file is complete, and then   *)
(* holds what one writer prepared, with a valid trace; in particular a     *)
(* writer finds its own bundle valid (experiment_bundle.py:203-213),       *)
(* although a collection may rewrite the trace while it is read.           *)
(***************************************************************************)
BundlesVerifyWhole == Bundle!VerifiesWhole

(***************************************************************************)
(* A verifier of the root sees nothing and then one bundle for good        *)
(* (experiment_bundle.py:173, 202-211), although its files are written     *)
(* one by one, a writer may be killed between them, and two writers may    *)
(* name the same root.                                                     *)
(***************************************************************************)
BundleIsPublishedOnce == Bundle!BundlePublication!Spec
=============================================================================
