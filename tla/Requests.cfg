\* Three requests, one key and none, two months, two retries.
SPECIFICATION FairSpec
CONSTANTS
    r1 = r1
    r2 = r2
    r3 = r3
    k1 = k1
    july = july
    august = august
    Requests = {r1, r2, r3}
    Keys = {k1}
    Series = {july, august}
    NoKey = NoKey
    Unsent = Unsent
    NoDoc = NoDoc
    Free = Free
    MaxRetries = 2
INVARIANT OncePerKey
INVARIANT Gapless
INVARIANT SameAnswer
INVARIANT RefusedLeavesNothing
PROPERTY OnceSpec
PROPERTY EveryRequestEnds
CHECK_DEADLOCK FALSE
