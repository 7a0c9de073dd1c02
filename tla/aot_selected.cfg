\* Two processes and no fault at all.
SPECIFICATION Spec
CONSTANTS
    h1 = h1
    h2 = h2
    p1 = p1
    p2 = p2
    Process = {p1, p2}
    Hash = {h1}
    Level = {2}
    LinkAttempts = 2
    MaxSilent = 0
    NoLink = FALSE
    Faults = {}
    NoFile = NoFile
    Partial = Partial
    Unread = Unread
INVARIANT SelectedAreCompiled
