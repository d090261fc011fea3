SPECIFICATION Spec
CONSTANTS
    NumFiles = 2
    MaxLines = 1
    MaxChanges = 1
INVARIANT
    BrokenSymlinkIsProbeFailure
