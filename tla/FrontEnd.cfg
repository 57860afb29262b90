SPECIFICATION Spec
CONSTANTS
    MaxOps = 2
    MaxTroubles = 1
    DeskRows = {1, 2}
    MaxInputs = 2
    MaxSends = 2
    MaxSetbacks = 1
    MaxVariants = 2
    MaxEdits = 2
    MaxMishaps = 1
    Variants = {1, 2}
    Removers = {1, 2}
INVARIANT OwnChangesShown
INVARIANT NothingAskedInVain
INVARIANT EnteredAsMeant
INVARIANT SavedAsTyped
INVARIANT RemovedUnusedOnly
PROPERTY StationNotices
CHECK_DEADLOCK FALSE
