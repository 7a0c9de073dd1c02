\* The same, against what the README says of `selected`.
\* The block ends, and with it the system.
SPECIFICATION Spec
CHECK_DEADLOCK FALSE
SYMMETRY Symmetry
CONSTANTS
    a1 = a1
    a2 = a2
    c1 = c1
    c2 = c2
    Address = {a1, a2}
    Code = {c1, c2}
    NoCode = NoCode
    MaxEvents = 4
    MaxDepth = 2
INVARIANT CalledAreCompiled
