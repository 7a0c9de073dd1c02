\* Every caller and every part, with a transaction that is always refused,
\* with reads that now and then fail, and without either.
SPECIFICATION Spec
\* A simulation ends.
CHECK_DEADLOCK FALSE
CONSTANTS
    N = 4
    Sender <- TwoSenders
    DependsOn <- Neighbours
    MayReject = {4}
    MayFail = TRUE
    Callers = {"run", "bench", "range"}
    Kinds = {"block", "tob", "bob", "tx"}
    WarmUps = 2
    MaxMeasured = 3
INVARIANTS
    TypeOK
    CanonicalResults
    MeasuredAreWhole
    RunComparesAll
PROPERTIES
    SpoiltForever
    RunIsRepeatable
