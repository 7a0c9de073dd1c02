\* A benchmark of the top of a block.
SPECIFICATION Spec
\* A simulation ends.
CHECK_DEADLOCK FALSE
CONSTANTS
    N = 3
    Sender <- TwoSenders
    DependsOn <- Neighbours
    MayReject = {}
    MayFail = FALSE
    Callers = {"bench"}
    Kinds = {"tob"}
    WarmUps = 2
    MaxMeasured = 3
INVARIANT NoPanic
