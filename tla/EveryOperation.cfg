\* One administrator, every operation of the three services in any order and
\* without a version, sponsored, paid-in-full and deposit groups,
\* with the sweep, the checkout and the webhooks at any moment.
CONSTANTS
    Code <- OneTier
    TierPrice <- OneTierPrice
    ChildUnder3 = "price_child_under3"
    Camper = {c1, c2}
    Registered = {c1}
    Age = {3, 8}
    Profile <- Everybody
    MaxInvoices = 2
    MaxVersion = 3
    Req = {r1}
    Hook = {h1}
    Op <- AllOp
    SkipOp <- AllOp
    AllowStale = FALSE
    DraftsLeft = FALSE
    Kinds = {"deposit", "free", "full"}
SPECIFICATION Spec
INVARIANTS
    TypeOK
    InvoiceMatchesGroup
    SponsoredNeverBilled
PROPERTY
    SettledUndoneOnlyByRelease
CHECK_DEADLOCK FALSE
