CONSTANTS
    Parents = {1, 2}
    Repetitions = 2
    Prompts = 2
    Routings = {1, 2, 3}
    PrefixOf <- Prefixes
    TrustedPrefix = 1
    Deadline = 1
    MaxClock = 2
    CorpusPrompts = 2
    Corpora = {1, 2}
    Revisions = {1, 2}
    Observations = {1, 2}
    MaxCollections = 2
    Writers = {1, 2}
    BaseFiles <- RequiredArtifacts
    Sources <- SourceTraces
SPECIFICATION ArtifactsSpec
INVARIANTS
    PublishedSetValidates
    AcceptedSuiteIsOneRun
    BundlesVerifyWhole
PROPERTIES
    SetIsPublishedOnce
    BundleIsPublishedOnce
    EverySetEnds
CHECK_DEADLOCK FALSE
