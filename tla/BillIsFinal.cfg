\* One administrator, many steps: a group of two is edited before, between and
\* after its invoices, and paid at any moment, recorded invoice or not.
CONSTANTS
    Code <- OneTier
    TierPrice <- OneTierPrice
    ChildUnder3 = "price_child_under3"
    Camper = {c1, c2}
    Registered = {c1, c2}
    Age = {3, 8}
    Profile <- OneAdult
    MaxInvoices = 2
    MaxVersion = 5
    Req = {r1}
    Hook = {h1}
    Op = {"allocate", "invoice", "coach", "coach_invoice", "edit", "remove"}
    SkipOp = {}
    AllowStale = FALSE
    DraftsLeft = FALSE
    Kinds = {"deposit"}
SPECIFICATION Spec
PROPERTY
    SettledBillIsFinal
CHECK_DEADLOCK FALSE
