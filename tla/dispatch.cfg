\* The contracts of a block, selected and then executed compiled.
\* The block ends, and with it the system.
SPECIFICATION Spec
CHECK_DEADLOCK FALSE
SYMMETRY Symmetry
CONSTANTS
    a1 = a1
    a2 = a2
    c1 = c1
    c2 = c2
    Address = {a1, a2}
    Code = {c1, c2}
    NoCode = NoCode
    MaxEvents = 5
    MaxDepth = 3
INVARIANTS
    TypeOK
    OneEngine
    NativeExplained
    VerdictHonest
    TouchPurity
