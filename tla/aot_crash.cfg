\* One process at a time, which may die or fail anywhere.
SPECIFICATION Spec
CONSTANTS
    h1 = h1
    h2 = h2
    p1 = p1
    p2 = p2
    Process = {p1}
    Hash = {h1, h2}
    Level = {0, 2}
    LinkAttempts = 2
    MaxSilent = 3
    NoLink = FALSE
    Faults = {"translate", "mkdir", "object", "link", "crash"}
    NoFile = NoFile
    Partial = Partial
    Unread = Unread
SYMMETRY Symmetry
INVARIANTS
    TypeOK
    FreshIsLoaded
    InterpretedArePoisoned
PROPERTIES
    StaysPoisoned
    ImplementsCache
