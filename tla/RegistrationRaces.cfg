\* Two submissions and one sponsorship code, every step of either in any order,
\* with the administrator and Stripe: two families, or one that submits twice.
CONSTANTS
    Sub = {s1, s2}
    FreeCode = {k1}
    Roster <- Families
    None = None
    Code <- Tiers
    TierPrice <- TierPrices
    ChildUnder3 = "price_under3"
    PriceAmount <- Amounts
    DepositPence = 40
    DayPassPrice = "price_day"
    CoachPrice = "price_coach"
SPECIFICATION FairSpec
INVARIANTS
    TypeOK
    CodeRedeemedOnce
    PaymentMatchesCheckout
    CheckoutChargesForm
PROPERTIES
    CodesKeepPromise
    PaidUndoneByHandOnly
    CheckoutDecided
CHECK_DEADLOCK FALSE
