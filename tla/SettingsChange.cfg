\* One family from the first request of its page to the end of its submission,
\* with up to MaxWrites changes of settings anywhere in between.
CONSTANTS
    Family = {f1}
    Admin = {a1}
    Roster <- Families
    Deposit = {0, 40}
    MaxWrites = 3
    Code <- Tiers
    TierPrice <- TierPrices
    ChildUnder3 = "price_under3"
    PriceAmount <- Amounts
    DepositPence = 40
    DayPassPrice = "price_day"
    CoachPrice = "price_coach"
SPECIFICATION Spec
INVARIANTS
    TypeOK
    FullModeIsPriced
    ShownIsCharged
    RefusedForAReason
    PaidInFullChargedAll
CHECK_DEADLOCK FALSE
