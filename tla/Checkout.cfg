SPECIFICATION CheckoutSpec
CONSTANTS
    NItems = 2
    Services = {2}
    Prices = {3, 4}
    ListPrice = 3
    Wholesale = 2
    MaxUnits = 2
    Changeable = {2}
    Discounts = {0, 3}
    Tendered = {0, 4}
    Rooms = {NoLimit, 3}
    NoLimit = NoLimit
    Attempts = {a1, a2}
    EditsInFlight = FALSE
    NoLine = NoLine
    NoDraft = NoDraft
    Nobody = Nobody
    Nothing = Nothing
INVARIANT AcceptedAlike
INVARIANT BookedOnceWhenHeard
INVARIANT ChargedAsShown
