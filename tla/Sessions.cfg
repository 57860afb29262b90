SPECIFICATION SessionsFairSpec
CONSTANTS
    Users = {u1}
    Tabs = {t1, t2}
    MaxInFlight = 2
    MaxPairs = 3
    MaxIncidents = 1
    NoUser = NoUser
    NoPair = NoPair
INVARIANT HeldTokenStands
PROPERTY EveryCallEnds
CHECK_DEADLOCK FALSE
