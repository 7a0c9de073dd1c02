\* A block range over one random transaction per block.
SPECIFICATION Spec
\* A simulation ends.
CHECK_DEADLOCK FALSE
CONSTANTS
    N = 3
    Sender <- TwoSenders
    DependsOn <- Neighbours
    MayReject = {}
    MayFail = FALSE
    Callers = {"range"}
    Kinds = {"tx"}
    WarmUps = 2
    MaxMeasured = 3
INVARIANT ComparesOwnReceipt
