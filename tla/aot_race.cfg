\* Two processes fill the same entry at once.
SPECIFICATION FairSpec
CONSTANTS
    h1 = h1
    h2 = h2
    p1 = p1
    p2 = p2
    Process = {p1, p2}
    Hash = {h1}
    Level = {0, 2}
    LinkAttempts = 2
    MaxSilent = 1
    NoLink = FALSE
    Faults = {"listing", "translate", "mkdir", "object", "link", "load"}
    NoFile = NoFile
    Partial = Partial
    Unread = Unread
INVARIANTS
    PoisonExplained
PROPERTIES
    Answered
