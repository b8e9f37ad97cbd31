SPECIFICATION Spec
CONSTANTS
    SlotCount = 2
    Scripts = {c1, c2}
    EntryCounts = {1, 2}
    IdModulus = 3
    StepBound = 5
SYMMETRY Symmetry
INVARIANTS
    HandleNamesOwnDocument
    CountedEntriesReadable
    RepliesAreWhole
PROPERTIES
    ImplementsContract
