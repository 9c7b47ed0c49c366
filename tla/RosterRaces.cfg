\* Two dashboards: allocation, invoicing and roster edits of one group with a
\* version, releases without one, and the paid webhook.
CONSTANTS
    Code <- TwoTiers
    TierPrice <- TwoTierPrice
    ChildUnder3 = "price_child_under3"
    Camper = {c1, c2}
    Registered = {c1}
    Age = {8}
    Profile <- OneAdult
    MaxInvoices = 2
    MaxVersion = 3
    Req = {r1, r2}
    Hook = {h1}
    Op = {"allocate", "invoice", "add", "edit", "remove", "main_contact", "release"}
    SkipOp = {"release"}
    AllowStale = FALSE
    DraftsLeft = FALSE
    Kinds = {"deposit"}
SPECIFICATION Spec
SYMMETRY Slots
INVARIANTS
    PlacedWhenBilled
    InvoiceChargesRoster
    InvoiceCoversDeposits
    OneMainContact
    DecisionIsCurrent
    RefMatchesStatus
    DepositCountedOnce
PROPERTY
    BilledAtomically
CHECK_DEADLOCK FALSE
