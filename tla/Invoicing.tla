------------------------------ MODULE Invoicing ------------------------------
(***************************************************************************)
(* internal/billing/invoicing: the balance invoice, the separate coach     *)
(* invoice and its waiver, settling a balance by hand, and deleting a      *)
(* registration.                                                           *)
(***************************************************************************)
EXTENDS BillingStore

(* The customer to bill, creating one when the group read has none.        *)
Billed(g, plan) ==
    [plan EXCEPT !.cust = g.cust,
                 !.todo = If(g.cust = NoCust, "customer") \o plan.todo]

(* What each camper of the group costs on the balance invoice, at the      *)
(* prices configured now.                                                  *)
ChargeOf(row) ==
    IF IsFullWeek(row) THEN AccommodationPriceID(row.code, row.age) ELSE DayPassPrice
Charges(cs) == {<<c, ChargeOf(cs[c])>> : c \in Here(cs)}

(* SendInvoice bills every placed full-week camper and every day pass, any *)
(* deposit still owed, and the coach fee unless it is waived.  Its bulk    *)
(* form is the same call with SkipVersionCheck, after skipping sponsored   *)
(* and paid-in-full groups, which the call would refuse anyway.            *)
BeginSendInvoice(r) ==
    /\ \E hasFullWeek \in BOOLEAN : CanInvoice(group, hasFullWeek)
    /\ Begin(r, "invoice")

DecideSendInvoice(r) ==
    LET g      == reqs[r].snap
        riders == IF g.waived THEN {} ELSE CoachPassengers(campers)
    IN /\ Decides(r, "invoice")
       /\ CanInvoice(g, FullWeek(campers) # {})
       /\ \A c \in FullWeek(campers) : ~IsUnplaced(campers[c])
       /\ Here(campers) # {}
       /\ Decided(r, Billed(g,
            [NoPlan EXCEPT !.tr       = InvoiceTr(g),
                           !.todo     = <<"create">>,
                           !.kind     = "balance",
                           !.lines    = Charges(campers),
                           !.deposits = Owing(campers),
                           !.riders   = riders]))

\* Faulty: coach_included_in_balance is not written.
CommitSendInvoiceWithoutCoach(r) ==
    LET plan == reqs[r].plan IN
    /\ MayCommit(r, "invoice", {})
    /\ Committed(r, [Stamp(group, plan.tr) EXCEPT !.ref = plan.inv, !.due = "future"],
                 campers)

(* SetInvoiceDetailsMeta                                                   *)
CommitSendInvoice(r) ==
    LET plan == reqs[r].plan IN
    /\ MayCommit(r, "invoice", {})
    /\ Committed(r,
         [Stamp(group, plan.tr) EXCEPT !.ref     = plan.inv,
                                       !.due     = "future",
                                       !.coachIn = (plan.riders # {})],
         campers)

BeginSendCoachInvoice(r) == CanSendCoachInvoice(group) /\ Begin(r, "coach_invoice")

DecideSendCoachInvoice(r) ==
    /\ Decides(r, "coach_invoice")
    /\ CoachPassengers(campers) # {}
    /\ Decided(r, Billed(reqs[r].snap,
         [NoPlan EXCEPT !.todo = <<"create">>, !.kind = "coach",
                 !.riders = CoachPassengers(campers)]))

(* SetCoachInvoiceMeta changes no billing status, so no compare-and-set    *)
(* stands between two of these without a version.                          *)
CommitSendCoachInvoice(r) ==
    /\ MayCommit(r, "coach_invoice", {})
    /\ Committed(r, [Stamp(group, Keep) EXCEPT !.coachRef = reqs[r].plan.inv], campers)

BeginWaiveCoachFee(r) == CanWaiveCoachFee(group) /\ Begin(r, "waive_coach")

DecideWaiveCoachFee(r) ==
    LET g == reqs[r].snap IN
    /\ Decides(r, "waive_coach")
    /\ CoachPassengers(campers) # {}
    /\ Decided(r, [NoPlan EXCEPT !.coachRef = g.coachRef,
                                 !.todo = If(g.coachRef # NoInvoice, "void_coach")])

(* WaiveCoachFeeMeta                                                       *)
CommitWaiveCoachFee(r) ==
    /\ MayCommit(r, "waive_coach", {})
    /\ Committed(r, [Stamp(group, Keep) EXCEPT !.waived = TRUE, !.coachRef = NoInvoice],
                 campers)

BeginUnwaiveCoachFee(r) == group.waived /\ BeginDecided(r, "unwaive_coach", NoPlan)

CommitUnwaiveCoachFee(r) ==
    /\ MayCommit(r, "unwaive_coach", {})
    /\ Committed(r, [Stamp(group, Keep) EXCEPT !.waived = FALSE], campers)

BeginMarkBalancePaid(r) ==
    /\ CanMarkBalancePaid(group)
    /\ BeginDecided(r, "mark_paid",
         [NoPlan EXCEPT !.tr   = SettleBalanceTr(group),
                        !.ref  = group.ref,
                        !.todo = If(HasOpenInvoice(group), "void")])

(* MarkBalancePaid under the group lock.                                   *)
CommitMarkBalancePaid(r) ==
    /\ reqs[r].exp # Skip
    /\ MayCommit(r, "mark_paid", Owing(campers))
    /\ Committed(r, Stamp(group, reqs[r].plan.tr), SettleDeposits(campers, Owing(campers)))

(* Without a version the same function is the two steps of Reconcile: it   *)
(* updates the camper rows it can see and holds them, and settles the group *)
(* if its compare-and-set holds (CommitBalancePaid, or DeliveryFails).     *)
SettleByHand(r, h) ==
    LET q == reqs[r] IN
    /\ q.pc = "work" /\ q.op = "mark_paid" /\ q.exp = Skip
    /\ q.plan.todo = <<>>
    /\ hooks[h] = NoHook
    /\ Unlocked(Owing(campers))
    /\ reqs' = [reqs EXCEPT ![r] = Idle]
    /\ hooks' = [hooks EXCEPT ![h] = [NoHook EXCEPT !.pc = "locked", !.tr = q.plan.tr,
                                                   !.rows = Owing(campers)]]
    /\ UNCHANGED <<db, external>>

BeginDelete(r) == CanDelete(group) /\ Begin(r, "delete")

(* The refund keeps the deposits this group paid on its balance invoice.   *)
DecideDelete(r) ==
    LET g == reqs[r].snap IN
    /\ Decides(r, "delete")
    /\ Decided(r,
         [NoPlan EXCEPT !.ref      = g.ref,
                        !.coachRef = g.coachRef,
                        !.keep = \E c \in Here(campers) : campers[c].paid > 0,
                        !.todo = If(HasSettledBalanceInvoice(g), "refund")
                                   \o If(HasOpenInvoice(g), "void")
                                   \o If(HasUnpaidCoachInvoice(g), "void_coach")])

(* DeleteGroupMeta; the campers go with the group (foreign-key cascade).   *)
CommitDelete(r) ==
    /\ MayCommit(r, "delete", Here(campers))
    /\ Committed(r, [group EXCEPT !.exists = FALSE],
         [c \in Camper |-> IF c \in Here(campers) THEN [campers[c] EXCEPT !.st = "gone"]
                                                  ELSE campers[c]])

(* ResendInvoice asks Stripe, or our own mailer, to send the link again.   *)
BeginResendInvoice(r) ==
    /\ CanResendInvoice(group)
    /\ BeginDecided(r, "resend", [NoPlan EXCEPT !.tr = OpenInvoiceTr(group)])

BeginExtendDue(r) ==
    /\ group.billing = "invoiced"
    /\ \E due \in {"future", "past"} :
         BeginDecided(r, "extend", [NoPlan EXCEPT !.tr = OpenInvoiceTr(group), !.due = due])

CommitResendInvoice(r) ==
    /\ MayCommit(r, "resend", {})
    /\ Committed(r, Stamp(group, reqs[r].plan.tr), campers)

(* ExtendInvoiceDueAtMeta                                                  *)
CommitExtendDue(r) ==
    /\ MayCommit(r, "extend", {})
    /\ Committed(r, [Stamp(group, reqs[r].plan.tr) EXCEPT !.due = reqs[r].plan.due], campers)

InvoicingStep(r) ==
    \/ BeginSendInvoice(r)      \/ DecideSendInvoice(r)      \/ CommitSendInvoice(r)
    \/ BeginSendCoachInvoice(r) \/ DecideSendCoachInvoice(r) \/ CommitSendCoachInvoice(r)
    \/ BeginWaiveCoachFee(r)    \/ DecideWaiveCoachFee(r)    \/ CommitWaiveCoachFee(r)
    \/ BeginUnwaiveCoachFee(r)  \/ CommitUnwaiveCoachFee(r)
    \/ BeginMarkBalancePaid(r)  \/ CommitMarkBalancePaid(r)
    \/ BeginDelete(r)           \/ DecideDelete(r)           \/ CommitDelete(r)
    \/ BeginResendInvoice(r)    \/ CommitResendInvoice(r)
    \/ BeginExtendDue(r)        \/ CommitExtendDue(r)
=============================================================================
