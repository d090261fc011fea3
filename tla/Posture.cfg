SPECIFICATION Spec
CONSTANTS
    NumFiles = 2
    MaxLines = 3
    MaxChanges = 1
INVARIANTS
    IInv
    ParserReadsLogicalLines
    AllPassMeansMitigated
    ChainLinearizable
    NoPassOverErrors
