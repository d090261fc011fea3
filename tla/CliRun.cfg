SPECIFICATION FairSpec
CONSTANTS
    CheckNames <- MCCheckNames
    RunStates = {"pass", "fail", "error"}
    CommandLines <- MCCommandLines
    Environments <- MCEnvironments
    OSReleaseFiles <- MCOSReleaseFiles
INVARIANTS
    IInv
    VerdictMatchesReport
    NoVerdictFromCancelledRun
    DocumentTellsEveryCheck
    OptionsAreTheLastGiven
    HostIsAsWritten
PROPERTIES
    OldReportKeptUntilReady
    SignalEndsProcess
