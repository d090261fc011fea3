SPECIFICATION Spec
CONSTANTS
    Packages = {p1, p2, odd}
    OddPackages = {odd}
INVARIANTS
    IInv
PROPERTIES
    OwnerIsTheOwner
    CleanIsEvidence
    FlagsAreOwn
