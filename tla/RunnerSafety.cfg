SPECIFICATION Spec
CONSTANTS
    MaxChecks = 3
    Concurrency = 2
    Required = {1, 2}
    RunStates = {"pass", "fail"}
    MayIgnoreCtx = {}
INVARIANTS
    IInv
    InputOrder
    CompleteReport
    SummaryMatchesResults
    AbandonedOnlyWhenCanceled
    NoLeakWithoutCancel
    LogMatchesReport
PROPERTIES
    SettledOnce
    ImplementsRunReport
