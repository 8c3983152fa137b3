CONSTANTS
    p1 = p1
    p2 = p2
    before = before
    after = after
    dirA = dirA
    dirB = dirB
    Proc <- TwoProcs
    Driver <- Builds
    Key <- TwoKeys
    Caches <- Both
    MaxStarts = 3
    MaxText = 5
SPECIFICATION Spec
SYMMETRY Alike
CONSTRAINT ApartByBuild
CHECK_DEADLOCK FALSE
INVARIANTS
    OwnDriverOnly
    BankedLoads
