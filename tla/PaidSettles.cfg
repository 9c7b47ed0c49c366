\* Invoices nobody recorded, drafts that finalise themselves, and an
\* administrator changing the group: a paid invoice still settles it.
CONSTANTS
    Code <- OneTier
    TierPrice <- OneTierPrice
    ChildUnder3 = "price_child_under3"
    Camper = {c1, c2}
    Registered = {c1}
    Age = {8}
    Profile <- VisitorOrAdult
    MaxInvoices = 2
    MaxVersion = 3
    Req = {r1}
    Hook = {h1}
    Op = {"invoice", "add", "release", "delete", "mark_paid"}
    SkipOp = {"release"}
    AllowStale = TRUE
    DraftsLeft = TRUE
    Kinds = {"deposit"}
SPECIFICATION FairSpec
PROPERTY
    PaidIsSettled
CHECK_DEADLOCK FALSE
