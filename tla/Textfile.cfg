SPECIFICATION Spec
CONSTANTS
    Writers = {w1, w2, w3}
    Suffixes = {s1, s2}
    Blocks = 2
    None = None
INVARIANTS
    IInv
    ReaderSeesWhole
    WholeAfterPowerLoss
    OutcomeMatchesPublication
    NoDebris
