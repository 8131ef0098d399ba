\* An access credential and an access document, which share the Kpersistent keys.
SPECIFICATION Spec
CONSTANTS
    Keys = {a, b}
    Issuers = {1}
    NumAc = 1
    NumAd = 1
    MaxIter = 1
    MaxDiff = 1
    MaxTime = 0
    MaxFaults = 1
    NoKey = NoKey
    NoDoc = NoDoc
    ZeroKey = ZeroKey
SYMMETRY KeySymmetry
CONSTRAINT MoreToSay
INVARIANTS FreshIssuer FastPhaseVerifiesOwner CopiesAgree
