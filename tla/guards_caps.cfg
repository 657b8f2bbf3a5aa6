SPECIFICATION GuardSpec
CONSTANTS
    Calls = {c1, c2}
    Apps = {food, api}
    Systems = {api}
    Households = {h1}
    Platform = Platform
    Cap = 2
    AppCap = 2
    GlobalCap = 4
    AppRate = 2
    HouseRate = 3
    Window = 2
    Estimates = {1, 2}
    Costs = {2}
    Expiry = 2
    MonthLength = 3
    MaxTime = 3
SYMMETRY Symmetric
INVARIANTS HouseholdBudget OvershootBounded ReservationsOwned
CHECK_DEADLOCK FALSE
