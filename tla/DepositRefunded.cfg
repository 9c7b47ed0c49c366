\* A delete refunds, fails before it commits, and is tried again.
CONSTANTS
    Code <- OneTier
    TierPrice <- OneTierPrice
    ChildUnder3 = "price_child_under3"
    Camper = {c1, c2}
    Registered = {c1}
    Age = {8}
    Profile <- VisitorOrAdult
    MaxInvoices = 1
    MaxVersion = 6
    Req = {r1}
    Hook = {h1}
    Op = {"invoice", "add", "allocate", "delete"}
    SkipOp = {}
    AllowStale = FALSE
    DraftsLeft = FALSE
    Kinds = {"deposit"}
SPECIFICATION Spec
INVARIANT DepositKeptByDelete
CHECK_DEADLOCK FALSE
