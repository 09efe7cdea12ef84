-------------------------- MODULE CorpusCollection --------------------------
(***************************************************************************)
(* The corpus workflow (workflow.py).  collect_corpus writes the corpus,   *)
(* one trace per prompt, and at the end a manifest with their digests into *)
(* a directory that may hold an earlier collection.  load_suite_inputs     *)
(* reads them, file by file, perhaps while a collection is under way.      *)
(*                                                                         *)
(* A trace tells which text and revision it was collected with; what was   *)
(* routed is not a function of these, since the environment may differ.    *)
(***************************************************************************)
EXTENDS ArtifactFiles

CONSTANTS
    CorpusPrompts,  \* number of prompts of a corpus
    Corpora,        \* corpora a collection may be asked for
    Revisions,      \* model revisions a collection may be asked for
    Observations,   \* what a model may route
    MaxCollections  \* bound of the number of collections

ASSUME CorpusAssumption ==
    /\ CorpusPrompts \in Nat \ {0}
    /\ Corpora # {} /\ Revisions # {} /\ Observations # {}
    /\ MaxCollections \in Nat

VARIABLES
    suite,       \* the output directory
    collection,  \* the locals of the latest collect_corpus
    loader       \* the locals of load_suite_inputs

corpusVars == <<suite, collection, loader>>

PromptOrder == 1..CorpusPrompts

CorpusFile(corpus) == [kind |-> "corpus", corpus |-> corpus]

PromptTrace(corpus, revision, k, observation) ==
    [kind |-> "trace", corpus |-> corpus, revision |-> revision,
     prompt |-> k, observation |-> observation]

NoManifest == NoFile

CorpusInit ==
    /\ suite = [corpus |-> NoFile, manifest |-> NoFile,
                traces |-> [k \in PromptOrder |-> NoFile]]
    /\ collection = [phase |-> "idle", number |-> 0,
                     corpus |-> CHOOSE c \in Corpora : TRUE,
                     revision |-> CHOOSE r \in Revisions : TRUE,
                     records |-> <<>>, observation |-> CHOOSE o \in Observations : TRUE]
    /\ loader = [phase |-> "idle", manifest |-> NoManifest, loaded |-> <<>>,
                 disturbed |-> FALSE]

-----------------------------------------------------------------------------
Collecting == collection.phase \notin {"idle", "done", "failed"}
Loading == loader.phase \notin {"idle", "accepted", "refused"}

\* history: a collection has changed a file under the loader's hands
Disturbs == loader' = [loader EXCEPT !.disturbed = @ \/ Loading]

BeginCollection ==
    /\ ~ Collecting
    /\ collection.number < MaxCollections
    /\ \E corpus \in Corpora, revision \in Revisions :
          collection' = [collection EXCEPT !.phase = "corpus", !.number = @ + 1,
                                           !.corpus = corpus, !.revision = revision,
                                           !.records = <<>>]
    /\ UNCHANGED <<suite, loader>>

WriteCorpus ==
    /\ collection.phase = "corpus"
    /\ suite' = [suite EXCEPT !.corpus = Written(@, CorpusFile(collection.corpus))]
    /\ collection' = IF suite.corpus = Torn
                     THEN [collection EXCEPT !.phase = "collect"] ELSE collection
    /\ Disturbs

NextPrompt == Len(collection.records) + 1

\* collector.collect, and the structure check of the trace it returns
CollectPrompt ==
    /\ collection.phase = "collect"
    /\ NextPrompt \in PromptOrder
    /\ \E observation \in Observations :
          collection' = [collection EXCEPT !.phase = "trace", !.observation = observation]
    /\ UNCHANGED <<suite, loader>>

\* write_trace, and the digest of the file just written
WritePromptTrace ==
    /\ collection.phase = "trace"
    /\ LET trace == PromptTrace(collection.corpus, collection.revision, NextPrompt,
                                collection.observation)
       IN  /\ suite' = [suite EXCEPT !.traces[NextPrompt] = Written(@, trace)]
           /\ collection' = IF suite.traces[NextPrompt] = Torn
                            THEN [collection EXCEPT !.phase = "collect",
                                                    !.records = Append(@, trace)]
                            ELSE collection
    /\ Disturbs

SuiteManifest ==
    [kind |-> "manifest", number |-> collection.number, corpus |-> collection.corpus,
     revision |-> collection.revision, records |-> collection.records]

WriteManifest ==
    /\ collection.phase = "collect"
    /\ NextPrompt \notin PromptOrder
    /\ suite' = [suite EXCEPT !.manifest = Written(@, SuiteManifest)]
    /\ collection' = IF suite.manifest = Torn
                     THEN [collection EXCEPT !.phase = "done"] ELSE collection
    /\ Disturbs

\* an exception, or the process is killed: the directory stays as it is
CollectionStops ==
    /\ Collecting
    /\ collection' = [collection EXCEPT !.phase = "failed"]
    /\ UNCHANGED <<suite, loader>>

-----------------------------------------------------------------------------
ReadManifest ==
    /\ loader.phase = "idle"
    /\ loader' = [loader EXCEPT
                    !.phase = IF IsComplete(suite.manifest) THEN "corpus" ELSE "refused",
                    !.manifest = IF IsComplete(suite.manifest) THEN suite.manifest ELSE @]
    /\ UNCHANGED <<suite, collection>>

ReadCorpus ==
    /\ loader.phase = "corpus"
    /\ loader' = [loader EXCEPT
                    !.phase = IF suite.corpus = CorpusFile(loader.manifest.corpus)
                              THEN "hash" ELSE "refused"]
    /\ UNCHANGED <<suite, collection>>

NextLoaded == Len(loader.loaded) + 1

\* Slip: the digest of the trace is not compared.
CheckHashSkipped ==
    /\ loader.phase = "hash"
    /\ NextLoaded \in PromptOrder
    /\ loader' = [loader EXCEPT !.phase = "read"]
    /\ UNCHANGED <<suite, collection>>

\* file_sha256 reads the file once ...
CheckHash ==
    /\ loader.phase = "hash"
    /\ NextLoaded \in PromptOrder
    /\ loader' = [loader EXCEPT
                    !.phase = IF suite.traces[NextLoaded] = loader.manifest.records[NextLoaded]
                              THEN "read" ELSE "refused"]
    /\ UNCHANGED <<suite, collection>>

(***************************************************************************)
(* ... and read_trace a second time.  Text, revision, layers, positions    *)
(* and number of events are compared with the manifest, which a file that  *)
(* is being written does not pass.                                         *)
(***************************************************************************)
TraceMatches(trace, k) ==
    /\ IsComplete(trace)
    /\ trace.corpus = loader.manifest.corpus
    /\ trace.prompt = k
    /\ trace.revision = loader.manifest.revision

ReadTrace ==
    /\ loader.phase = "read"
    /\ LET trace == suite.traces[NextLoaded]
       IN  loader' = IF TraceMatches(trace, NextLoaded)
                     THEN [loader EXCEPT !.phase = "hash", !.loaded = Append(@, trace)]
                     ELSE [loader EXCEPT !.phase = "refused"]
    /\ UNCHANGED <<suite, collection>>

AcceptSuite ==
    /\ loader.phase = "hash"
    /\ NextLoaded \notin PromptOrder
    /\ loader' = [loader EXCEPT !.phase = "accepted"]
    /\ UNCHANGED <<suite, collection>>

\* another call of load_suite_inputs
LoadAgain ==
    /\ loader.phase \in {"accepted", "refused"}
    /\ loader' = [phase |-> "idle", manifest |-> NoManifest, loaded |-> <<>>,
                  disturbed |-> FALSE]
    /\ UNCHANGED <<suite, collection>>

CollectionStep ==
    \/ WriteCorpus
    \/ CollectPrompt
    \/ WritePromptTrace
    \/ WriteManifest

LoaderStep ==
    \/ ReadManifest
    \/ ReadCorpus
    \/ CheckHash
    \/ ReadTrace
    \/ AcceptSuite

CorpusNext ==
    \/ BeginCollection
    \/ CollectionStep
    \/ CollectionStops
    \/ LoaderStep
    \/ LoadAgain

-----------------------------------------------------------------------------
(***************************************************************************)
(* A suite that load_suite_inputs accepts is one collection's              *)
(* (workflow.py:233-372), although the directory is reused and a           *)
(* collection may have stopped anywhere in it: the traces are those whose  *)
(* digests the manifest records.  If a collection writes while the loader  *)
(* reads, each trace is still of the manifest's corpus and revision.       *)
(***************************************************************************)
AcceptedSuiteIsOneRun ==
    loader.phase = "accepted" =>
        /\ Len(loader.loaded) = CorpusPrompts
        /\ \A k \in PromptOrder : TraceMatches(loader.loaded[k], k)
        /\ loader.disturbed \/ loader.loaded = loader.manifest.records
=============================================================================
