SPECIFICATION FairSpec
CONSTANTS
    MaxChecks = 3
    Concurrency = 2
    Required = {1}
    RunStates = {"pass"}
    MayIgnoreCtx = {1}
PROPERTIES
    CancelReturns
    EveryGoroutineEnds
    SiblingsSettled
