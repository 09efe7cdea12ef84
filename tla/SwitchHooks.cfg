CONSTANTS
    Prompts <- TwoPrompts
    Continuations <- FourContinuations
    EosTokens = {1}
    Horizon = 2
    NumExperts = 3
    ExpertsPerToken = 2
    Selected <- Routing
    MaxUses = 2
    MaxFailing = 1
    RoutedLayers = 2
    NewTokens = {1, 2}
    ChildNumbers = {1, 2}
    CalibrationIds <- CalibrationPrompts
    EvaluationIds <- EvaluationPrompts
    Behaviours <- TwoContinuations
    Trusted <- TrustedOutcomes
    SparseLayers <- SparseStages
    DecoderStart = 0
    MaxSteps = {0, 2}
SPECIFICATION CollectionSpec
INVARIANT
    HooksAreTemporary
CHECK_DEADLOCK FALSE
