SPECIFICATION Spec
CONSTANTS
    MaxChecks = 3
    Concurrency = 2
    Required = {1, 2}
    RunStates = {"pass", "fail"}
    MayIgnoreCtx = {}
PROPERTIES
    NoDispatchAfterCancel
