\* Two access documents, three iterations.
SPECIFICATION Spec
CONSTANTS
    Keys = {a, b}
    Issuers = {1}
    NumAc = 0
    NumAd = 2
    MaxIter = 2
    MaxDiff = 2
    MaxTime = 0
    MaxFaults = 1
    NoKey = NoKey
    NoDoc = NoDoc
    ZeroKey = ZeroKey
SYMMETRY KeySymmetry
CONSTRAINT TakingTurns
INVARIANTS NoOldDocument OneSlotPerKey
PROPERTY StartsAgain
