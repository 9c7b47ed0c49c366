\* Two dashboards, every request with a version, current or superseded: the coach fee of a group
\* that paid in full at signup, with edits of its campers.
CONSTANTS
    Code <- OneTier
    TierPrice <- OneTierPrice
    ChildUnder3 = "price_child_under3"
    Camper = {c1}
    Registered = {c1}
    Age = {3, 8}
    Profile <- FullWeekers
    MaxInvoices = 2
    MaxVersion = 4
    Req = {r1, r2}
    Hook = {h1}
    Op = {"coach", "coach_invoice", "waive_coach", "unwaive_coach", "edit"}
    SkipOp = {}
    AllowStale = TRUE
    DraftsLeft = FALSE
    Kinds = {"full"}
SPECIFICATION Spec
SYMMETRY Slots
INVARIANTS
    WaivedHasNoCoachInvoice
    PaidInFullNotChargedCoach
    CoachInvoiceIsCurrent
CHECK_DEADLOCK FALSE
