CONSTANTS
    W = 6
    M = 3
    C = 4
    Targets <- MCTargets
SPECIFICATION Spec
INVARIANT QualityIsExact
INVARIANT LosslessChain
PROPERTY EmbedThenProject
PROPERTY StartsUp
CHECK_DEADLOCK FALSE
