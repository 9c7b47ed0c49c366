----------------------------- MODULE Lifecycle -----------------------------
(***************************************************************************)
(* The rules of internal/registration/domain: which billing moves a        *)
(* registration group may make, who counts as a coach passenger, and what  *)
(* a roster edit does to the invoice.  Pure operators over one group row   *)
(* g, one camper row c, or a set of camper rows.  Nothing here has state.  *)
(*                                                                         *)
(* Names of people, amounts of money and e-mail wording are abstracted: no *)
(* rule below looks at them.                                               *)
(*                                                                         *)
(* An operator commented "Faulty:" is no part of the model.  It stands     *)
(* before the operator it varies, changed as a slip in the code would, and *)
(* README.md says which property refutes it.                               *)
(***************************************************************************)
EXTENDS Integers

CONSTANTS
    Code,           \* accommodation tiers (accommodation_types.code)
    TierPrice,      \* tier -> Stripe Price id; two tiers may share a price
    ChildUnder3     \* STRIPE_PRICE_CHILD_UNDER3

NoCode  == ""       \* allocated_accommodation_code IS NULL
NoPrice == ""       \* PriceFor of an unplaced or sponsored camper
NoInvoice == 0      \* a NULL invoice reference; ids are positive

ASSUME CodesArePriced ==
    /\ NoCode \notin Code
    /\ TierPrice \in [Code -> STRING \ {NoPrice}]
    /\ ChildUnder3 \in STRING \ {NoPrice}

\* "cancelled" stands also for failed, failed_capacity and refunded, which no
\* rule tells apart.
PaymentStatus == {"pending", "paid", "cancelled"}
BillingStatus == {"none", "allocated", "invoiced", "balance_paid",
                  "released", "free_confirmed"}

MinDepositAge            == 4
MaxChildAccommodationAge == 12
ChildTier                == "child"

(* The zero BillingTransition asks for no particular status and changes   *)
(* none; any other is a compare-and-set of billing_status.                *)
Keep           == [from |-> "", to |-> ""]
Move(g, to)    == [from |-> g.billing, to |-> to]
ChangesBilling(tr) == tr.from # "" /\ tr.to # tr.from

----------------------------------------------------------------------------
(* Rosters.  rows is a set of camper rows.                                *)

IsFullWeek(c)     == c.att = "full_week"
IsUnplaced(c)     == IsFullWeek(c) /\ c.code = NoCode
CoachEligible(c)  == IsFullWeek(c) /\ c.coach /\ c.age >= MinDepositAge
AllocatedOrNone(rows) ==
    IF (\E c \in rows : IsFullWeek(c)) /\ ~(\E c \in rows : IsUnplaced(c))
    THEN "allocated" ELSE "none"

(* The Stripe Price of a placement; PriceFor is empty when nothing is due. *)
AccommodationPriceID(code, age) ==
    IF code = ChildTier /\ age < MinDepositAge THEN ChildUnder3 ELSE TierPrice[code]
PriceFor(code, age, isFree) ==
    IF code = NoCode \/ isFree THEN NoPrice ELSE AccommodationPriceID(code, age)

----------------------------------------------------------------------------
(* Balance lifecycle: a guard and the transition it approves.             *)

HasOpenInvoice(g) == g.billing = "invoiced" /\ g.ref # NoInvoice
BalanceSettled(g)       == g.billing = "balance_paid"
HasSettledBalanceInvoice(g) == BalanceSettled(g) /\ g.ref # NoInvoice

CanAllocate(g) ==
    /\ g.pay = "paid"
    /\ g.billing # "invoiced"
    /\ g.billing = "balance_paid" => g.pif
AllocateTr(g) == Move(g, IF g.pif THEN g.billing ELSE "allocated")

\* Faulty: a settled group can be sent back to none.
CanUnallocateSettled(g) == g.billing # "invoiced"
CanUnallocate(g) ==
    /\ g.billing # "invoiced"
    /\ g.billing = "balance_paid" => g.pif
UnallocateTr(g) == Move(g, IF g.pif THEN g.billing ELSE "none")

\* Faulty: a sponsored group is invoiced like any other.
CanInvoiceSponsored(g, hasFullWeek) ==
    /\ ~g.pif /\ g.pay = "paid"
    /\ g.billing \in {"allocated", "none", "released"}
    /\ g.billing \in {"none", "released"} => ~hasFullWeek
CanInvoice(g, hasFullWeek) ==
    /\ ~g.free /\ ~g.pif
    /\ g.pay = "paid"
    /\ g.billing \notin {"balance_paid", "invoiced"}
    /\ g.billing \in {"none", "released"} => ~hasFullWeek
InvoiceTr(g) == Move(g, "invoiced")

CanConfirmSponsorship(g) == g.free /\ g.pay = "paid" /\ g.billing = "allocated"
ConfirmSponsorshipTr(g)  == Move(g, "free_confirmed")

CanMarkBalancePaid(g) ==
    g.pay = "paid" /\ ~g.free /\ g.billing \in {"allocated", "invoiced"}
SettleBalanceTr(g)     == Move(g, "balance_paid")

\* Faulty: a released group takes the payment status of a cancelled one.
ReleaseToCancelled(g)  == Move(g, "cancelled")
ReleaseTr(g)           == Move(g, "released")
OpenInvoiceTr(g)       == Move(g, g.billing)   \* requires invoiced, keeps it
CanResendInvoice(g) == g.ref # NoInvoice /\ g.billing = "invoiced"
CanDelete(g)           == ~(g.pif /\ g.pay = "paid")

(* What editing the roster does to billing: a stale open invoice drops the *)
(* group back to allocated or none, and an allocated group with somebody   *)
(* unplaced drops to none.                                                 *)
\* Faulty: an allocated group keeps its status when somebody is unplaced.
RosterChangedIgnoresUnplaced(g, rowsAfter, invoiceStale) ==
    IF HasOpenInvoice(g) /\ invoiceStale THEN Move(g, AllocatedOrNone(rowsAfter))
    ELSE Keep
\* Faulty: a group stays invoiced when its roster changes.
RosterChangedKeepsInvoiced(g, rowsAfter, invoiceStale) ==
    IF g.billing = "allocated" /\ \E c \in rowsAfter : IsUnplaced(c)
    THEN Move(g, "none") ELSE Keep
RosterChangedTr(g, rowsAfter, invoiceStale) ==
    IF HasOpenInvoice(g) /\ invoiceStale THEN Move(g, AllocatedOrNone(rowsAfter))
    ELSE IF g.billing = "allocated" /\ \E c \in rowsAfter : IsUnplaced(c)
         THEN Move(g, "none")
    ELSE Keep

----------------------------------------------------------------------------
(* The coach fee, tracked beside the balance.                             *)

\* Faulty: the fee paid with the balance, or at signup, is forgotten.
CoachInvoicedSeparately(g) == g.coachRef # NoInvoice
CoachAlreadyCharged(g) == g.coachIn \/ g.coachRef # NoInvoice
CanSendCoachInvoice(g) ==
    /\ ~g.free /\ ~g.waived
    /\ g.billing \in {"invoiced", "balance_paid"}
    /\ ~CoachAlreadyCharged(g)
CanWaiveCoachFee(g)     == ~g.free /\ ~g.waived /\ ~g.coachIn /\ ~g.coachPaid
\* Faulty: the test for a payment is inverted.
HasPaidCoachInvoice(g)   == g.coachRef # NoInvoice /\ g.coachPaid
HasUnpaidCoachInvoice(g) == g.coachRef # NoInvoice /\ ~g.coachPaid

(* CoachChange with a changed value; asking for the current value is a    *)
(* no-op that writes nothing.                                             *)
CanChangeCoach(g, target) ==
    /\ IsFullWeek(target)
    /\ ~g.coachPaid
    /\ ~g.coachIn

----------------------------------------------------------------------------
(* Roster edits.                                                          *)

CanRemoveCamper(g, target, size) ==
    ~target.main /\ size > 1 /\ ~BalanceSettled(g)
CanConvertToDayVisitor(g, target) ==
    IsFullWeek(target) /\ ~g.free /\ ~BalanceSettled(g)
CheckReprice(g, repriced) == repriced => ~BalanceSettled(g)
CanAddCamper(g) == g.pay = "paid" /\ ~g.free /\ ~g.pif /\ ~BalanceSettled(g)
CanWaiveCamperDeposit(g)  == ~BalanceSettled(g)
ChildTierAllowed(code, age) == code = ChildTier => age <= MaxChildAccommodationAge
=============================================================================
