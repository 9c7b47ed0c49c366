------------------------------- MODULE Billing -------------------------------
(***************************************************************************)
(* The billing life of one registration group, from the moment it is       *)
(* stored: the checkout settles it, the White Team allocates, invoices and *)
(* edits it, the family pays, Stripe reports it, the sweep releases it.    *)
(***************************************************************************)
EXTENDS Allocation, Invoicing, CamperEdit, Reconcile

CONSTANTS
    Registered,     \* the campers of the submitted form
    Kinds           \* subset of {"deposit", "free", "full"}: how it was submitted

ASSUME BillingAssumption ==
    /\ Registered \subseteq Camper /\ Registered # {}
    /\ Kinds \subseteq {"deposit", "free", "full"}

(* What Submit charges: in deposit mode a deposit for every full-week camper *)
(* of depositable age, in full mode the whole camp, nothing with a sponsor. *)
ChargeDue(kind, rows) ==
    \/ kind = "full"
    \/ kind = "deposit" /\ \E c \in rows : IsFullWeek(c) /\ c.age >= MinDepositAge

(* A submitted registration: one main contact, nobody placed, no deposit   *)
(* owed or paid on an invoice.  One with nothing to charge is settled in   *)
(* the same transaction; the others wait for their checkout.               *)
SubmittedGroup(kind, due) ==
    [NullGroup EXCEPT !.exists = TRUE,
                      !.pay    = IF due THEN "pending" ELSE "paid",
                      !.free   = (kind = "free"),
                      !.pif    = (kind = "full")]

Init ==
    /\ \E main \in Registered, who \in [Registered -> Profile] :
         campers = [c \in Camper |->
           IF c \in Registered
           THEN [NewRow EXCEPT !.st = "here", !.main = (c = main), !.att = who[c].att,
                               !.age = who[c].age, !.coach = who[c].coach]
           ELSE NewRow]
    /\ \E kind \in Kinds :
         group = SubmittedGroup(kind, ChargeDue(kind, Rows(campers, Registered)))
    /\ stripe = [i \in Invoice |-> NotCreated]
    /\ credits = [c \in Camper |-> NoCust]
    /\ events = {}
    /\ reqs = [r \in Req |-> Idle]
    /\ hooks = [h \in Hook |-> NoHook]

(* checkout.session.completed: one transaction that locks the group.  A    *)
(* family that paid in full is settled, with the coach fee if anybody      *)
(* rides, unless it was settled before an override made it pending again;  *)
(* the version does not move.                                              *)
CheckoutCompleted ==
    /\ group.exists
    /\ group.pay = "pending"
    /\ group' = IF group.pif
                THEN [group EXCEPT !.pay = "paid", !.billing = "balance_paid",
                                   !.coachIn = @ \/ /\ ~BalanceSettled(group)
                                                    /\ CoachPassengers(campers) # {}]
                ELSE [group EXCEPT !.pay = "paid"]
    /\ UNCHANGED <<campers, external, reqs, hooks>>

(* checkout.session.expired                                                *)
CheckoutExpired ==
    /\ group.exists
    /\ group.pay = "pending"
    /\ group' = [group EXCEPT !.pay = "cancelled"]
    /\ UNCHANGED <<campers, external, reqs, hooks>>

(* The administrator's PATCH of payment_status has no transition rules and  *)
(* does not move the version.  Its own read and compare-and-set lose to any *)
(* other change of the payment status, so it is one step.                   *)
OverridePaymentStatus ==
    /\ "override" \in Op
    /\ group.exists
    /\ \E pay \in PaymentStatus \ {group.pay} : group' = [group EXCEPT !.pay = pay]
    /\ UNCHANGED <<campers, external, reqs, hooks>>

RequestStep(r) ==
    \/ AllocationStep(r)
    \/ InvoicingStep(r)
    \/ CamperEditStep(r)
    \/ StripeCall(r)
    \/ GiveUp(r)

Next ==
    \/ CheckoutCompleted \/ CheckoutExpired \/ OverridePaymentStatus
    \/ \E r \in Req : RequestStep(r)
    \/ \E r \in Req, h \in Hook : SettleByHand(r, h)
    \/ \E h \in Hook : ReconcileStep(h)
    \/ \E i \in Invoice : PayInvoice(i) \/ FinalizeDraft(i)
    \/ DueDatePasses

Spec == Init /\ [][Next]_vars

(* Stripe keeps delivering an event until it is answered with 200, so a    *)
(* delivery that can start, or make progress, again and again eventually   *)
(* does; and a transaction that has lost its compare-and-set ends.  Nothing *)
(* obliges an administrator, the family or the sweep to do anything.        *)
Fairness ==
    /\ \A i \in Invoice : SF_vars(\E h \in Hook : DeliverEvent(h, i))
    /\ \A h \in Hook :
      /\ SF_vars(SettleOwedDeposits(h))
      /\ SF_vars(CommitBalancePaid(h))
      /\ SF_vars(CommitCoachFeePaid(h))
      /\ WF_vars(DeliveryFails(h) /\ ~(group.exists /\ group.billing = hooks[h].tr.from))

FairSpec == Spec /\ Fairness

----------------------------------------------------------------------------
(* What requests and deliveries in flight may carry, whatever has happened *)
(* to the group since they read it: the strengthening that makes           *)
(* RefMatchesStatus, DepositCountedOnce and SettledUndoneOnlyByRelease     *)
(* inductive.                                                              *)

Unbilled == {"none", "allocated", "released", "free_confirmed"}
RosterEdit == {"remove", "convert", "edit", "add"}

(* Placing, or unplacing, leaves a settled group settled.                  *)
Places(tr, status) ==
    /\ tr.from \in Unbilled \cup {"balance_paid"}
    /\ \/ tr.to = tr.from
       \/ tr.to = status /\ tr.from # "balance_paid"

(* A settlement starts from a balance that is not settled.                 *)
SettlesTr(tr) == tr.from \notin {"", "balance_paid"} /\ tr.to = "balance_paid"

LegalTr(op, tr) ==
    /\ op = "allocate"     => Places(tr, "allocated")
    /\ op = "unallocate"   => Places(tr, "none")
    /\ op = "confirm_free" => tr = [from |-> "allocated", to |-> "free_confirmed"]
    /\ op \in {"release", "cancel", "sweep"} => tr.from # "" /\ tr.to = "released"
    /\ op = "invoice"      => tr.from \in Unbilled /\ tr.to = "invoiced"
    /\ op = "mark_paid"    => SettlesTr(tr)
    /\ op \in {"resend", "extend"} => tr = [from |-> "invoiced", to |-> "invoiced"]
    /\ op \in RosterEdit   => \/ tr = Keep
                              \/ /\ tr.from \in {"allocated", "invoiced"}
                                 /\ tr.to \in {"none", "allocated"}

(* An invoice is recorded only after it was created.                       *)
CreatedOrWillBe(plan) ==
    \/ plan.inv # NoInvoice
    \/ plan.todo # << >> /\ plan.todo[Len(plan.todo)] = "create"

CountedOnce(row) == row.owed + row.paid <= Deposit
OwedOnly(row) == CountedOnce(row) /\ row.paid = 0

LegalPlan(op, plan) ==
    /\ LegalTr(op, plan.tr)
    /\ op = "invoice" => CreatedOrWillBe(plan)
    /\ OwedOnly(plan.row)

LegalRequest(q) ==
    /\ q.pc = "listed" => q.op = "sweep"
    /\ q.pc = "read" /\ q.op = "allocate" => CanAllocate(q.snap)
    /\ q.pc = "work" => LegalPlan(q.op, q.plan)

(* No request is planned that the domain rules forbid, and a webhook only  *)
(* ever settles (the transitions of internal/registration/domain).         *)
PlansLegal ==
    /\ \A r \in Req : LegalRequest(reqs[r])
    /\ \A h \in Hook : hooks[h].tr = Keep \/ SettlesTr(hooks[h].tr)

----------------------------------------------------------------------------
(* The invoice reference and the status agree: an invoiced group has a     *)
(* reference, and only an invoiced or settled group keeps one.  Every      *)
(* transaction that leaves "invoiced" must clear it (camperedit storage)   *)
(* or settle the group, whatever other requests do meanwhile.              *)
RefAgrees(g) ==
    /\ g.billing = "invoiced" => g.ref # NoInvoice
    /\ g.ref # NoInvoice => g.billing \in {"invoiced", "balance_paid"}
RefMatchesStatus == RefAgrees(group)

(* The invoice an invoiced group refers to is a balance invoice that was   *)
(* sent, and coach_included_in_balance says whether it charges the coach.  *)
InvoiceMatchesGroup ==
    group.billing = "invoiced" =>
        LET inv == stripe[group.ref] IN
        /\ inv.kind = "balance" /\ inv.st \in {"open", "void", "paid"}
        /\ (inv.riders # {}) = group.coachIn

(* Nobody is invoiced without a bed: in an allocated or invoiced group     *)
(* every full-week camper is placed (allocation and roster edits together). *)
PlacedWhenBilled ==
    group.exists /\ group.billing \in {"allocated", "invoiced"} =>
        \A c \in Here(campers) : ~IsUnplaced(campers[c])

(* What a roster costs.  Of a roster with a bed for everybody it is what   *)
(* SendInvoice charges.                                                    *)
Cost(row) == IF IsFullWeek(row) THEN PriceFor(row.code, row.age, FALSE) ELSE DayPassPrice
Bill(cs)  == {<<c, Cost(cs[c])>> : c \in Here(cs)}

(* The balance invoice an invoiced group refers to charges exactly the     *)
(* campers the group has now, at the price of where they are placed now,   *)
(* and, when it charges the coach, exactly those who ride: every edit that *)
(* reprices voids it (EditCamper, RosterChanged).                          *)
InvoiceChargesRoster ==
    group.exists /\ group.billing = "invoiced" =>
        /\ stripe[group.ref].lines = Bill(campers)
        /\ group.coachIn => stripe[group.ref].riders = CoachPassengers(campers)

(* Whoever owes a deposit in an invoiced group finds it on the invoice.    *)
InvoiceCoversDeposits ==
    group.exists /\ group.billing = "invoiced" =>
        Owing(campers) \subseteq stripe[group.ref].deposits

(* A group has exactly one main contact (RemoveCamper, MakeMainContact).   *)
OneMainContact ==
    group.exists => Cardinality({c \in Here(campers) : campers[c].main}) = 1

(* The separate coach invoice of a settled paid-in-full group charges the  *)
(* passengers the group has now: no edit that changes them is allowed      *)
(* but UpdateCamperCoach, which voids the invoice.                         *)
CoachInvoiceIsCurrent ==
    (/\ group.exists /\ group.pif /\ BalanceSettled(group)
     /\ group.coachRef # NoInvoice /\ stripe[group.coachRef].st = "open")
        => stripe[group.coachRef].riders = CoachPassengers(campers)

(* A family that paid the coach at signup gets no separate coach invoice.  *)
PaidInFullNotChargedCoach ==
    group.pif /\ group.coachIn => group.coachRef = NoInvoice

(* No balance invoice exists in Stripe for a sponsored group or one that   *)
(* paid in full, and no invoice at all for a sponsored one.                *)
SponsoredNeverBilled ==
    \A i \in Invoice : stripe[i].st # "unused" =>
        /\ ~group.free
        /\ group.pif => stripe[i].kind = "coach"

(* A waived coach fee has no separate coach invoice on file.               *)
WaivedHasNoCoachInvoice == group.waived => group.coachRef = NoInvoice

(* However often invoice.paid is delivered and a group is released and     *)
(* settled again, a deposit is owed or paid, and counted once.             *)
DepositCountedOnce == \A c \in Camper : CountedOnce(campers[c])

(* A settled balance is undone by a release or a deletion and nothing else. *)
SettledUndoneOnlyByRelease ==
    [][group.exists /\ group'.exists /\ group.billing = "balance_paid"
         => group'.billing \in {"balance_paid", "released"}]_vars

(* However calls and deliveries overlap, fail and are repeated, the family *)
(* sees the steps of AtomicBilling one after the other: deposits are paid  *)
(* in the step that settles the balance and in no other, a paid one stays  *)
(* paid, an invoice is on file from the step that sends it to the one that *)
(* takes it back, and a deleted group does not change (the transactions of *)
(* the storage packages of billing).                                       *)
DepositOf(row) ==
    IF row.st = "new" \/ row.owed + row.paid = 0 THEN "none"
    ELSE IF row.paid > 0 THEN "paid" ELSE "owed"
Atomic == INSTANCE AtomicBilling WITH
    status  <- IF group.exists THEN group.billing ELSE "deleted",
    ref     <- group.ref,
    deposit <- [c \in Camper |-> DepositOf(campers[c])]
BilledAtomically == Atomic!Spec

(* What a family has paid stands: while a group that pays by invoice stays *)
(* settled, nobody joins, leaves or is repriced, and when the coach was on *)
(* the balance nobody takes it or gives it up; not by an edit decided      *)
(* before the payment arrived either.                                      *)
SettledBillIsFinal ==
    [][(/\ group.exists /\ group.billing = "balance_paid" /\ ~group.pif
        /\ group'.exists /\ group'.billing = "balance_paid")
         => /\ Bill(campers') = Bill(campers)
            /\ group.coachIn => CoachPassengers(campers') = CoachPassengers(campers)]_vars

(* The point of the version: when a request that carries one may commit,    *)
(* what it decided from its two reads is what it would decide now.          *)
Edited(row, to) == [row EXCEPT !.age = to.age, !.code = to.code]
CurrentDecision(g, cs, op, plan) ==
    LET c      == plan.target
        full   == FullWeek(cs)
        others == Rows(cs, Here(cs) \ {c})
    IN /\ op = "allocate" =>
            /\ CanAllocate(g) /\ plan.tr = AllocateTr(g)
            /\ full = {x \in Camper : plan.codes[x] # NoCode}
       /\ op = "unallocate" => CanUnallocate(g) /\ plan.tr = UnallocateTr(g)
       /\ op = "confirm_free" => CanConfirmSponsorship(g)
       /\ op = "invoice" =>
            /\ CanInvoice(g, full # {}) /\ plan.tr = InvoiceTr(g)
            /\ plan.lines = Bill(cs)
            /\ plan.deposits = Owing(cs)
            /\ plan.riders = IF g.waived THEN {} ELSE CoachPassengers(cs)
       /\ op = "coach_invoice" =>
            CanSendCoachInvoice(g) /\ plan.riders = CoachPassengers(cs)
       /\ op = "waive_coach" => CanWaiveCoachFee(g) /\ CoachPassengers(cs) # {}
       /\ op = "unwaive_coach" => g.waived
       /\ op = "mark_paid" => CanMarkBalancePaid(g) /\ plan.tr = SettleBalanceTr(g)
       /\ op = "remove" =>
            /\ CanRemoveCamper(g, cs[c], Cardinality(Here(cs)))
            /\ plan.tr = RosterChangedTr(g, others, TRUE)
       /\ op = "convert" =>
            /\ CanConvertToDayVisitor(g, cs[c])
            /\ plan.tr = RosterChangedTr(g, others, TRUE)
       /\ op = "coach" =>
            CanChangeCoach(g, cs[c]) /\ plan.row.coach = ~cs[c].coach
       /\ op = "edit" =>
            LET new   == Edited(cs[c], plan.row)
                stale == Repriced(g, cs[c], new)
            IN /\ CheckReprice(g, stale)
               /\ plan.tr = RosterChangedTr(g, others \cup {new}, stale)
       /\ op = "add" =>
            /\ CanAddCamper(g)
            /\ plan.tr = RosterChangedTr(g, Rows(cs, Here(cs)) \cup {plan.row},
                                         TRUE)
       /\ op = "main_contact" => c \in Here(cs)
       /\ op = "waive_deposit" => c \in Owing(cs)

DecisionIsCurrent ==
    \A r \in Req :
      (/\ reqs[r].pc = "work" /\ reqs[r].plan.todo = <<>>
       /\ group.exists /\ reqs[r].exp = group.version) =>
          /\ CurrentDecision(group, campers, reqs[r].op, reqs[r].plan)
          /\ reqs[r].op = "invoice" => stripe[reqs[r].plan.inv].lines = reqs[r].plan.lines

(* A paid balance invoice whose event is outstanding settles the group,    *)
(* unless the group is deleted first (reconcile and Stripe's retries).     *)
PaidIsSettled ==
    (\E i \in events : stripe[i].kind = "balance")
        ~> (group.billing = "balance_paid" \/ ~group.exists)
=============================================================================
