\* A separate coach invoice, then a repriced camper and a new balance invoice.
CONSTANTS
    Code <- TwoTiers
    TierPrice <- TwoTierPrice
    ChildUnder3 = "price_child_under3"
    Camper = {c1}
    Registered = {c1}
    Age = {8}
    Profile <- OneAdult
    MaxInvoices = 3
    MaxVersion = 6
    Req = {r1}
    Hook = {h1}
    Op = {"allocate", "invoice", "coach", "coach_invoice", "edit"}
    SkipOp = {}
    AllowStale = FALSE
    DraftsLeft = FALSE
    Kinds = {"deposit"}
SPECIFICATION Spec
INVARIANT CoachFoldedOnce
CHECK_DEADLOCK FALSE
