\* Two blocks in parallel, and the report on them.
SPECIFICATION Spec
\* The report is the end.
CHECK_DEADLOCK FALSE
SYMMETRY Symmetry
CONSTANTS
    b1 = b1
    b2 = b2
    a1 = a1
    a2 = a2
    c1 = c1
    c2 = c2
    Block = {b1, b2}
    Address = {a1, a2}
    NoAddress = NoAddress
    Code = {c1, c2}
    NoCode = NoCode
    MaxGas = 5
INVARIANTS
    TypeOK
    FollowsCalls
    NetIsOwn
    ReportIsOwn
    TopIsHeaviest
PROPERTIES
    DefaultTakesAll
