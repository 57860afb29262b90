SPECIFICATION BackupFairSpec
CONSTANTS
    timer = timer
    admin = admin
    Day = 2
    Times = {0, 1}
    DefaultTime = 1
    Keep = 2
    MaxTime = 4
    MaxTroubles = 2
INVARIANT AlwaysACopy
PROPERTY CaughtUp
CHECK_DEADLOCK FALSE
