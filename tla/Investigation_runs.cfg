SPECIFICATION Spec
CONSTANTS
    Texts = {"text"}
    ReposDir = FALSE
    ClonedFiles = {}
    Models <- TheModels
    PRICES <- ThePrices
    AgentTexts <- AllTexts
    MaxRuns = 2
    MaxResponses <- TwoThenNone
    PastSpans <- ThePast
INVARIANTS TypeOK VerdictKept InfraFailureNotSaved NotHighOnNothing BookedOnce BookedTriggerRight EvalsKeptApart
PROPERTIES BookedSpend
CHECK_DEADLOCK FALSE
