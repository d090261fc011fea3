SPECIFICATION FairSpec
CONSTANTS
    MaxOutput = 2
    MaxWritten = 3
    MayFork = TRUE
INVARIANTS
    IInv
PROPERTIES
    ImplementsContract
    ReturnsUnlessPipesHeld
