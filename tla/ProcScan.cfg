SPECIFICATION Spec
CONSTANTS
    NumPids = 3
    MaxChanges = 3
INVARIANTS
    SilenceIsEvidence
    CandidatesAreReal
    ReportIsPrefix
