SPECIFICATION FairSpec
CONSTANTS
    MaxOutput = 1
    MaxWritten = 0
    MayFork = TRUE
PROPERTIES
    TimeoutBoundsRun
