\* Up to three chunks of two contracts, with and without repetitions.
SPECIFICATION Spec
CONSTANTS
    a = a
    b = b
    x = x
    y = y
    Contract = {a, b}
    MaxArgs = 5
    ChunkSize = 2
    Handle = {x, y}
    Nothing = Nothing
SYMMETRY Symmetry
INVARIANTS
    TypeOK
    NoDangling
    LeakExplained
    AllOrNothing
PROPERTIES
    ReleasedInOrder
    ImplementsPool
