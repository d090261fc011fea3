SPECIFICATION Spec
CONSTANTS
    CheckNames <- MCCheckNames
    RunStates = {"pass"}
    CommandLines <- FilterLines
    Environments <- PlainEnvironment
    OSReleaseFiles <- NoLines
INVARIANTS
    EmptyFilterIsLoud
