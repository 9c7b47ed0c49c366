--------------------------- MODULE InvoiceProofs ---------------------------
(***************************************************************************)
(* Whom the invoices of a group charge, and what for, for every roster,    *)
(* any number of calls and deliveries in flight and every value of the     *)
(* bounds: the balance invoice on file, who is billed at all, a paid bill, *)
(* and the separate coach invoice.                                         *)
(***************************************************************************)
EXTENDS BillingProofs

-----------------------------------------------------------------------------
(***************************************************************************)
(* The balance invoice on file.                                            *)
(*                                                                         *)
(* What the balance invoice on file is worth, for every roster, any number *)
(* of calls and deliveries in flight and every value of the bounds: that   *)
(* it is the invoice the group believes it is whatever carries a version,  *)
(* and that it charges the group as it is now when the calls that place,   *)
(* bill and edit campers carry one.                                        *)
(***************************************************************************)

(* The invoice on file was sent, for the balance, with or without a coach. *)
SentWith(inv, coach) ==
    /\ inv.kind = "balance" /\ inv.st \in {"open", "void", "paid"}
    /\ (inv.riders # {}) = coach

BillOnFile ==
    group.billing = "invoiced" =>
        group.ref \in Invoice /\ SentWith(stripe[group.ref], group.coachIn)

(* A step that sends nothing keeps an invoice on file as it is, or takes   *)
(* it back.                                                                *)
KeepsBill(g, h) ==
    h.billing = "invoiced" =>
        g.billing = "invoiced" /\ h.ref = g.ref /\ h.coachIn = g.coachIn

LEMMA BillKept ==
  ASSUME BillOnFile, KeepsBill(group, group'), \A i \in Invoice : SameBill(i)
  PROVE  BillOnFile'
  BY DEF BillOnFile, KeepsBill, SameBill, SentWith

(* The rest of a stamped group.                                            *)
LEMMA StampRest ==
  ASSUME NEW g \in GroupRow, NEW tr \in Transition, NEW s, s = Stamp(g, tr)
  PROVE  /\ s \in GroupRow
         /\ s.billing = IF ChangesBilling(tr) THEN tr.to ELSE g.billing
         /\ s.ref = g.ref /\ s.coachIn = g.coachIn /\ s.exists = g.exists
         /\ s.free = g.free /\ s.version = g.version + 1
<1>1. s \in GroupRow /\ s.ref = g.ref
      /\ s.billing = IF ChangesBilling(tr) THEN tr.to ELSE g.billing
  BY StampTyped
<1>2. /\ s.coachIn = g.coachIn /\ s.exists = g.exists
      /\ s.free = g.free /\ s.version = g.version + 1
  BY <1>1 DEF Stamp, GroupRow
<1> QED
  BY <1>1, <1>2

LEMMA ClearRest ==
  ASSUME NEW g \in GroupRow
  PROVE  /\ ClearInvoice(g).billing = g.billing /\ ClearInvoice(g).exists = g.exists
         /\ ClearInvoice(g).coachIn = g.coachIn /\ ClearInvoice(g).free = g.free
  BY DEF ClearInvoice, GroupRow

LEMMA KeepRest ==
  ASSUME NEW g \in GroupRow, NEW s, s = Stamp(g, Keep)
  PROVE  /\ s \in GroupRow /\ s.billing = g.billing
         /\ s.ref = g.ref /\ s.coachIn = g.coachIn /\ s.exists = g.exists
<1>1. ~ChangesBilling(Keep)
  BY DEF ChangesBilling, Keep
<1> QED
  BY <1>1, KeepTyped, StampRest

LEMMA RosterRest ==
  ASSUME NEW g \in GroupRow, NEW tr \in Transition, NEW s, s = StampRoster(g, tr)
  PROVE  /\ s.billing = IF ChangesBilling(tr) THEN tr.to ELSE g.billing
         /\ s.coachIn = g.coachIn /\ s.exists = g.exists /\ s.free = g.free
         /\ ~ChangesBilling(tr) => s.ref = g.ref
<1> DEFINE t == Stamp(g, tr)
<1>1. /\ t \in GroupRow
      /\ t.billing = IF ChangesBilling(tr) THEN tr.to ELSE g.billing
      /\ t.ref = g.ref /\ t.coachIn = g.coachIn /\ t.exists = g.exists /\ t.free = g.free
  BY StampRest
<1>2. s = IF ChangesBilling(tr) THEN ClearInvoice(t) ELSE t
  BY DEF StampRoster
<1> HIDE DEF t
<1> QED
  BY <1>1, <1>2, ClearRest

(* The only transition to "invoiced" is that of SendInvoice.               *)
LEMMA NotToInvoiced ==
  ASSUME NEW op \in Stamping, NEW tr \in Transition, LegalTr(op, tr),
         ChangesBilling(tr)
  PROVE  tr.to # "invoiced"
<1>1. CASE op = "allocate" \/ op = "unallocate"
  BY <1>1 DEF LegalTr, Places, ChangesBilling
<1>2. CASE op \in {"release", "cancel", "sweep", "mark_paid"}
  BY <1>2 DEF LegalTr, SettlesTr
<1>3. CASE op \in {"confirm_free", "resend", "extend"}
  <2>1. \/ tr = [from |-> "allocated", to |-> "free_confirmed"]
        \/ tr = [from |-> "invoiced", to |-> "invoiced"]
    BY <1>3, Zenon DEF LegalTr
  <2>2. tr.to = "free_confirmed" \/ tr.to = tr.from
    BY <2>1
  <2> QED
    BY <2>2 DEF ChangesBilling
<1>4. CASE op \in RosterEdit
  <2>1. ~ChangesBilling(Keep)
    BY DEF ChangesBilling, Keep
  <2>2. tr.to \in {"none", "allocated"}
    BY <1>4, <2>1 DEF LegalTr
  <2> QED
    BY <2>2
<1> QED
  BY <1>1, <1>2, <1>3, <1>4 DEF Stamping

(* What a commit stamps.                                                   *)
LEMMA CommitStampRest ==
  ASSUME IInv, NEW r \in Req, NEW op \in Stamping, NEW S,
         MayCommit(r, op, S), NEW tr, tr = reqs[r].plan.tr, NEW s, s = Stamp(group, tr)
  PROVE  /\ tr \in Transition /\ LegalTr(op, tr) /\ group \in GroupRow /\ s \in GroupRow
         /\ KeepsBill(group, s)
<1>1. tr \in Transition /\ LegalTr(op, tr) /\ group \in GroupRow
  BY FlightTyped DEF MayCommit, LegalRequest, LegalPlan
<1>2. /\ s \in GroupRow
      /\ s.billing = IF ChangesBilling(tr) THEN tr.to ELSE group.billing
      /\ s.ref = group.ref /\ s.coachIn = group.coachIn
  BY <1>1, StampRest
<1>3. ChangesBilling(tr) => tr.to # "invoiced"
  BY <1>1, NotToInvoiced
<1> QED
  BY <1>1, <1>2, <1>3 DEF KeepsBill

LEMMA GroupKeepsBill == KeepsBill(group, group)
  BY DEF KeepsBill

LEMMA AllocationKeepsBill ==
  ASSUME IInv, NEW r \in Req, AllocationStep(r)
  PROVE  KeepsBill(group, group')
<1> DEFINE s == Stamp(group, reqs[r].plan.tr)
<1>1. CASE CommitAllocate(r)
  BY <1>1, CommitStampRest DEF CommitAllocate, Committed, Stamping
<1>2. CASE CommitUnallocate(r)
  BY <1>2, CommitStampRest DEF CommitUnallocate, Committed, Stamping
<1>3. CASE CommitConfirmFree(r)
  BY <1>3, CommitStampRest DEF CommitConfirmFree, Committed, Stamping
<1>4. CASE CommitRelease(r)
  <2>1. PICK op \in {"release", "cancel", "sweep"} : MayCommit(r, op, Here(campers))
    BY <1>4 DEF CommitRelease
  <2>2. /\ s \in GroupRow /\ LegalTr(op, reqs[r].plan.tr) /\ group \in GroupRow
        /\ reqs[r].plan.tr \in Transition /\ reqs[r].plan.tr.from \in {"", group.billing}
    BY <2>1, CommitStampRest DEF Stamping, MayCommit
  <2>3. reqs[r].plan.tr.from = group.billing /\ reqs[r].plan.tr.to = "released"
    BY <2>2 DEF LegalTr
  <2>4. s.billing = "released"
    BY <2>2, <2>3, StampTo
  <2>5. group' = ClearInvoice(s)
    BY <1>4 DEF CommitRelease, Committed
  <2> HIDE DEF s
  <2> QED
    BY <2>2, <2>4, <2>5, ClearRest DEF KeepsBill
<1>5. CASE group' = group
  BY <1>5, GroupKeepsBill
<1> QED
  BY <1>1, <1>2, <1>3, <1>4, <1>5
     DEF AllocationStep, BeginAllocate, DecideAllocate, BeginUnallocate, BeginConfirmFree,
         BeginRelease, SweepList, SweepRelease, Begin, BeginDecided, Decided, db

LEMMA InvoicingKeepsBill ==
  ASSUME IInv, NEW r \in Req, InvoicingStep(r), ~CommitSendInvoice(r)
  PROVE  KeepsBill(group, group')
<1> DEFINE k == Stamp(group, Keep)
           s == Stamp(group, reqs[r].plan.tr)
<1>0. group \in GroupRow
  BY FlightTyped
<1>1. CASE CommitSendCoachInvoice(r) \/ CommitWaiveCoachFee(r) \/ CommitUnwaiveCoachFee(r)
  <2>1. \/ group' = [k EXCEPT !.coachRef = reqs[r].plan.inv]
        \/ group' = [k EXCEPT !.waived = TRUE, !.coachRef = NoInvoice]
        \/ group' = [k EXCEPT !.waived = FALSE]
    BY <1>1 DEF CommitSendCoachInvoice, CommitWaiveCoachFee, CommitUnwaiveCoachFee, Committed
  <2>2. k \in GroupRow /\ k.billing = group.billing /\ k.ref = group.ref
        /\ k.coachIn = group.coachIn
    BY <1>0, KeepRest
  <2> HIDE DEF k
  <2> QED
    BY <2>1, <2>2 DEF KeepsBill, GroupRow
<1>2. CASE CommitMarkBalancePaid(r)
  BY <1>2, CommitStampRest DEF CommitMarkBalancePaid, Committed, Stamping
<1>3. CASE CommitDelete(r)
  <2>1. group' = [group EXCEPT !.exists = FALSE]
    BY <1>3 DEF CommitDelete, Committed
  <2> QED
    BY <1>0, <2>1 DEF KeepsBill, GroupRow
<1>4. CASE CommitResendInvoice(r)
  BY <1>4, CommitStampRest DEF CommitResendInvoice, Committed, Stamping
<1>5. CASE CommitExtendDue(r)
  <2>1. s \in GroupRow /\ KeepsBill(group, s)
    BY <1>5, CommitStampRest DEF CommitExtendDue, Stamping
  <2>2. group' = [s EXCEPT !.due = reqs[r].plan.due]
    BY <1>5 DEF CommitExtendDue, Committed
  <2> HIDE DEF s
  <2> QED
    BY <2>1, <2>2 DEF KeepsBill, GroupRow
<1>6. CASE group' = group
  BY <1>6, GroupKeepsBill
<1> QED
  BY <1>1, <1>2, <1>3, <1>4, <1>5, <1>6
     DEF InvoicingStep, BeginSendInvoice, DecideSendInvoice, BeginSendCoachInvoice,
         DecideSendCoachInvoice, BeginWaiveCoachFee, DecideWaiveCoachFee,
         BeginUnwaiveCoachFee, BeginMarkBalancePaid, BeginDelete, DecideDelete,
         BeginResendInvoice, BeginExtendDue, Begin, BeginDecided, Decided, db

LEMMA CamperEditKeepsBill ==
  ASSUME IInv, NEW r \in Req, CamperEditStep(r)
  PROVE  KeepsBill(group, group')
<1> DEFINE k == Stamp(group, Keep)
<1>0. group \in GroupRow
  BY FlightTyped
<1>1. CASE CommitRemoveCamper(r) \/ CommitConvertToDayVisitor(r) \/ CommitEditCamper(r)
           \/ CommitAddCamper(r)
  <2>1. /\ group' = StampRoster(group, reqs[r].plan.tr)
        /\ \E op \in RosterEdit : \E S : MayCommit(r, op, S)
    BY <1>1 DEF CommitRemoveCamper, CommitConvertToDayVisitor, CommitEditCamper,
       CommitAddCamper, RowCommitted, Committed, RosterEdit
  <2>2. PICK op \in RosterEdit : \E S : MayCommit(r, op, S)
    BY <2>1
  <2>3. reqs[r].plan.tr \in Transition /\ LegalTr(op, reqs[r].plan.tr) /\ op \in Stamping
    BY <2>2, FlightTyped DEF MayCommit, LegalRequest, LegalPlan, Stamping
  <2>4. ChangesBilling(reqs[r].plan.tr) => reqs[r].plan.tr.to # "invoiced"
    BY <2>3, NotToInvoiced
  <2> QED
    BY <1>0, <2>1, <2>3, <2>4, RosterRest DEF KeepsBill
<1>2. CASE CommitUpdateDayPass(r) \/ CommitUpdateCoach(r) \/ CommitMakeMainContact(r)
           \/ CommitWaiveDeposit(r)
  <2>1. group' = k \/ group' = [k EXCEPT !.coachRef = NoInvoice]
    BY <1>2 DEF CommitUpdateDayPass, CommitUpdateCoach, CommitMakeMainContact,
       CommitWaiveDeposit, RowCommitted, Committed
  <2>2. k \in GroupRow /\ k.billing = group.billing /\ k.ref = group.ref
        /\ k.coachIn = group.coachIn
    BY <1>0, KeepRest
  <2> HIDE DEF k
  <2> QED
    BY <2>1, <2>2 DEF KeepsBill, GroupRow
<1>3. CASE group' = group
  BY <1>3, GroupKeepsBill
<1> QED
  BY <1>1, <1>2, <1>3
     DEF CamperEditStep, BeginRemoveCamper, DecideRemoveCamper, BeginConvertToDayVisitor,
         DecideConvertToDayVisitor, BeginUpdateDayPass, DecideUpdateDayPass,
         BeginUpdateCoach, DecideUpdateCoach, BeginEditCamper, DecideEditCamper,
         BeginAddCamper, DecideAddCamper, BeginMakeMainContact, DecideMakeMainContact,
         BeginWaiveDeposit, DecideWaiveDeposit, Begin, Decided, db

(* Everything that is not a step of a service.                             *)
LEMMA OthersKeepBill ==
  ASSUME IInv,
         \/ \E r \in Req : StripeCall(r) \/ GiveUp(r)
         \/ \E r \in Req, h \in Hook : SettleByHand(r, h)
         \/ \E h \in Hook : ReconcileStep(h)
         \/ CheckoutCompleted \/ CheckoutExpired \/ OverridePaymentStatus \/ DueDatePasses
         \/ \E i \in Invoice : PayInvoice(i) \/ FinalizeDraft(i)
         \/ UNCHANGED vars
  PROVE  KeepsBill(group, group')
<1>0. group \in GroupRow
  BY DEF IInv, DataInv
<1>1. CASE \E h \in Hook : CommitBalancePaid(h)
  BY <1>1, SettlingStamp DEF CommitBalancePaid, KeepsBill
<1>2. CASE \E h \in Hook : CommitCoachFeePaid(h)
  <2> DEFINE k == Stamp(group, Keep)
  <2>1. k \in GroupRow /\ k.billing = group.billing /\ k.ref = group.ref
        /\ k.coachIn = group.coachIn
    BY <1>0, KeepRest
  <2>2. group' = [k EXCEPT !.coachPaid = TRUE]
    BY <1>2 DEF CommitCoachFeePaid
  <2> HIDE DEF k
  <2> QED
    BY <2>1, <2>2 DEF KeepsBill, GroupRow
<1>3. CASE CheckoutCompleted \/ CheckoutExpired \/ OverridePaymentStatus \/ DueDatePasses
  BY <1>0, <1>3 DEF CheckoutCompleted, CheckoutExpired, OverridePaymentStatus,
     DueDatePasses, KeepsBill, GroupRow
<1>4. CASE \E r \in Req : EnsureCustomer(r)
  BY <1>0, <1>4 DEF EnsureCustomer, KeepsBill, GroupRow
<1>5. CASE group' = group
  BY <1>5, GroupKeepsBill
<1> QED
  BY <1>1, <1>2, <1>3, <1>4, <1>5, SettleByHandAlone
     DEF StripeCall, CreditCustomerBalance, VoidBalanceInvoice, VoidCoachInvoice,
         TryVoidInvoice, TryVoidCoachInvoice, RefundInvoiceKeeping, CreateInvoice,
         CreateInvoicePartly, GiveUp, ReconcileStep, DeliverEvent, SettleOwedDeposits,
         DeliveryFails, PayInvoice, FinalizeDraft, db, vars

(* The commit that sends: from the plan, the invoice it created.           *)
LEMMA SendInvoiceShape ==
  ASSUME IInv, BillsCreated, NEW r \in Req, CommitSendInvoice(r), NEW plan,
         plan = reqs[r].plan
  PROVE  /\ reqs[r].op = "invoice" /\ reqs[r].pc = "work" /\ reqs[r].plan.todo = <<>>
         /\ group.exists /\ reqs[r].exp \in {Skip, group.version}
         /\ plan \in Plan /\ plan.inv \in Invoice /\ SentAs(stripe[plan.inv], plan)
         /\ plan.kind = "balance"
         /\ group'.billing = "invoiced" /\ group'.ref = plan.inv /\ group'.exists
         /\ group'.coachIn = (plan.riders # {}) /\ group'.free = group.free
         /\ campers' = campers /\ stripe' = stripe
<1> DEFINE tr == plan.tr
           s  == Stamp(group, tr)
           g  == [s EXCEPT !.ref = plan.inv, !.due = "future",
                           !.coachIn = (plan.riders # {})]
<1>1. MayCommit(r, "invoice", {}) /\ Committed(r, g, campers)
  BY DEF CommitSendInvoice
<1>2. /\ reqs[r].pc = "work" /\ reqs[r].op = "invoice" /\ plan.todo = << >>
      /\ tr.from \in {"", group.billing} /\ group.exists
      /\ reqs[r].exp \in {Skip, group.version}
  BY <1>1 DEF MayCommit
<1>3. /\ tr.from \in Unbilled /\ tr.to = "invoiced" /\ CreatedOrWillBe(plan)
      /\ tr \in Transition /\ group \in GroupRow /\ plan \in Plan
  BY <1>2, FlightTyped DEF LegalRequest, LegalPlan, LegalTr
<1>4. plan.inv # NoInvoice
  BY <1>2, <1>3 DEF CreatedOrWillBe
<1>5. plan.inv \in Invoice /\ SentAs(stripe[plan.inv], plan) /\ plan.kind = "balance"
  BY <1>2, <1>4 DEF BillsCreated, BillCreated
<1> HIDE DEF tr
<1>6. tr.from = group.billing
  BY <1>2, <1>3 DEF Unbilled
<1>7. s \in GroupRow /\ s.billing = "invoiced" /\ s.exists = group.exists
      /\ s.free = group.free
  BY <1>3, <1>6, StampTo, StampRest
<1> HIDE DEF s
<1>8. /\ g.billing = "invoiced" /\ g.ref = plan.inv /\ g.exists /\ g.free = group.free
      /\ g.coachIn = (plan.riders # {})
  BY <1>2, <1>7 DEF GroupRow
<1>9. group' = g /\ campers' = campers /\ stripe' = stripe
  BY <1>1 DEF Committed, external
<1> QED
  BY <1>2, <1>3, <1>5, <1>8, <1>9

LEMMA NextBillOnFile ==
  ASSUME IInv, BillsCreated, BillOnFile, [Next]_vars
  PROVE  BillOnFile'
<1>1. \A i \in Invoice : SameBill(i)
  BY NextBills
<1>2. CASE KeepsBill(group, group')
  BY <1>1, <1>2, BillKept
<1>3. CASE \E r \in Req : CommitSendInvoice(r)
  BY <1>3, SendInvoiceShape DEF BillOnFile, SentAs, SentWith
<1> QED
  BY <1>2, <1>3, AllocationKeepsBill, InvoicingKeepsBill, CamperEditKeepsBill, OthersKeepBill
     DEF Next, RequestStep

LEMMA InitBills == ASSUME Init PROVE BillsCreated /\ BillOnFile
<1>1. \A r \in Req : reqs[r] = Idle
  BY DEF Init
<1>2. group.billing = "none"
  BY DEF Init, SubmittedGroup, NullGroup
<1> QED
  BY <1>1, <1>2 DEF BillsCreated, BillCreated, BillOnFile, Idle

(* An invoiced group refers to a balance invoice that was sent, and knows   *)
(* whether it charges the coach, whatever carries a version and however    *)
(* calls, failures, edits and payments overlap (SendInvoiceMeta and the    *)
(* transactions that take an invoice back).                                *)
THEOREM InvoiceOnFileMatches == Spec => []InvoiceMatchesGroup
<1>1. Init => BillsCreated /\ BillOnFile
  BY InitBills
<1>2. IInv /\ BillsCreated /\ BillOnFile /\ [Next]_vars => BillsCreated' /\ BillOnFile'
  BY NextBills, NextBillOnFile
<1>3. BillOnFile => InvoiceMatchesGroup
  BY DEF BillOnFile, SentWith, InvoiceMatchesGroup
<1> QED
  BY <1>1, <1>2, <1>3, Invariance, PTL DEF Spec

----------------------------------------------------------------------------
(* A call that is not begun without a version carries one to its commit.   *)

Versioned(op) == op \notin SkipOp \cup {"sweep"}
CarriesVersion ==
    \A r \in Req : reqs[r].pc \in {"read", "work"} /\ Versioned(reqs[r].op)
                     => reqs[r].exp # Skip

LEMMA OneCarries ==
  ASSUME CarriesVersion, NEW r \in Req, \A x \in Req \ {r} : reqs'[x] = reqs[x],
         reqs'[r].pc \in {"read", "work"} /\ Versioned(reqs'[r].op) => reqs'[r].exp # Skip
  PROVE  CarriesVersion'
  BY DEF CarriesVersion, Versioned

LEMMA CallCarries ==
  ASSUME IInv, CarriesVersion, NEW r \in Req,
         \/ \E op : Begin(r, op)
         \/ \E op, plan : BeginDecided(r, op, plan)
         \/ \E plan : Decided(r, plan) /\ (reqs[r].pc = "read" \/ reqs[r].op = "sweep")
         \/ \E g, cs : Committed(r, g, cs)
  PROVE  CarriesVersion'
<1>1. CASE \E op : Begin(r, op)
  BY <1>1, BeginShape, OneCarries DEF Versioned
<1>2. CASE \E op, plan : BeginDecided(r, op, plan)
  BY <1>2, BeginDecidedShape, OneCarries DEF Versioned
<1>3. CASE \E plan : Decided(r, plan) /\ (reqs[r].pc = "read" \/ reqs[r].op = "sweep")
  <2>1. PICK plan : Decided(r, plan) /\ (reqs[r].pc = "read" \/ reqs[r].op = "sweep")
    BY <1>3
  <2>2. /\ reqs'[r].op = reqs[r].op /\ reqs'[r].exp = reqs[r].exp
        /\ \A x \in Req \ {r} : reqs'[x] = reqs[x]
    BY <2>1, DecidedShape
  <2> QED
    BY <2>1, <2>2, OneCarries DEF CarriesVersion, Versioned
<1>4. CASE \E g, cs : Committed(r, g, cs)
  <2>1. reqs'[r] = Idle /\ \A x \in Req \ {r} : reqs'[x] = reqs[x]
    BY <1>4, CommittedShape
  <2> QED
    BY <2>1, OneCarries DEF Idle
<1> QED
  BY <1>1, <1>2, <1>3, <1>4

LEMMA AllocationCarries ==
  ASSUME IInv, CarriesVersion, NEW r \in Req, AllocationStep(r)
  PROVE  CarriesVersion'
<1>1. CASE SweepList(r)
  <2>1. /\ reqs'[r].pc = "listed" /\ \A x \in Req \ {r} : reqs'[x] = reqs[x]
    BY <1>1 DEF SweepList, IInv, FlightInv, Idle
  <2> QED
    BY <2>1, OneCarries
<1>2. CASE SweepRelease(r)
  BY <1>2, FlightTyped, CallCarries DEF SweepRelease, LegalRequest
<1>3. CASE DecideAllocate(r)
  BY <1>3, CallCarries DEF DecideAllocate, Decides
<1> QED
  BY <1>1, <1>2, <1>3, CallCarries
     DEF AllocationStep, BeginAllocate, CommitAllocate, BeginUnallocate, CommitUnallocate,
         BeginConfirmFree, CommitConfirmFree, BeginRelease, CommitRelease

LEMMA InvoicingCarries ==
  ASSUME IInv, CarriesVersion, NEW r \in Req, InvoicingStep(r)
  PROVE  CarriesVersion'
<1>1. CASE DecideSendInvoice(r) \/ DecideSendCoachInvoice(r) \/ DecideWaiveCoachFee(r)
           \/ DecideDelete(r)
  <2>1. reqs[r].pc = "read" /\ \E plan : Decided(r, plan)
    BY <1>1 DEF DecideSendInvoice, DecideSendCoachInvoice, DecideWaiveCoachFee,
       DecideDelete, Decides
  <2> QED
    BY <2>1, CallCarries
<1>2. CASE BeginSendInvoice(r) \/ BeginSendCoachInvoice(r) \/ BeginWaiveCoachFee(r)
           \/ BeginDelete(r)
  BY <1>2, CallCarries
     DEF BeginSendInvoice, BeginSendCoachInvoice, BeginWaiveCoachFee, BeginDelete
<1>3. CASE BeginUnwaiveCoachFee(r) \/ BeginMarkBalancePaid(r) \/ BeginResendInvoice(r)
           \/ BeginExtendDue(r)
  BY <1>3, CallCarries
     DEF BeginUnwaiveCoachFee, BeginMarkBalancePaid, BeginResendInvoice, BeginExtendDue
<1>4. CASE CommitSendInvoice(r) \/ CommitSendCoachInvoice(r) \/ CommitWaiveCoachFee(r)
           \/ CommitUnwaiveCoachFee(r) \/ CommitMarkBalancePaid(r) \/ CommitDelete(r)
           \/ CommitResendInvoice(r) \/ CommitExtendDue(r)
  <2>1. \E g, cs : Committed(r, g, cs)
    BY <1>4 DEF CommitSendInvoice, CommitSendCoachInvoice, CommitWaiveCoachFee,
       CommitUnwaiveCoachFee, CommitMarkBalancePaid, CommitDelete, CommitResendInvoice,
       CommitExtendDue
  <2> QED
    BY <2>1, CallCarries
<1> QED
  BY <1>1, <1>2, <1>3, <1>4 DEF InvoicingStep

LEMMA CamperEditCarries ==
  ASSUME IInv, CarriesVersion, NEW r \in Req, CamperEditStep(r)
  PROVE  CarriesVersion'
<1>1. CASE BeginRemoveCamper(r) \/ BeginConvertToDayVisitor(r) \/ BeginUpdateDayPass(r)
           \/ BeginUpdateCoach(r) \/ BeginEditCamper(r) \/ BeginAddCamper(r)
           \/ BeginMakeMainContact(r) \/ BeginWaiveDeposit(r)
  BY <1>1, CallCarries
     DEF BeginRemoveCamper, BeginConvertToDayVisitor, BeginUpdateDayPass,
     BeginUpdateCoach, BeginEditCamper, BeginAddCamper, BeginMakeMainContact,
     BeginWaiveDeposit
<1>2. CASE DecideRemoveCamper(r) \/ DecideConvertToDayVisitor(r) \/ DecideUpdateDayPass(r)
           \/ DecideUpdateCoach(r)
  <2>1. reqs[r].pc = "read" /\ \E plan : Decided(r, plan)
    BY <1>2, Zenon DEF DecideRemoveCamper, DecideConvertToDayVisitor, DecideUpdateDayPass,
       DecideUpdateCoach, Decides
  <2> QED
    BY <2>1, CallCarries
<1>4. CASE DecideEditCamper(r) \/ DecideAddCamper(r) \/ DecideMakeMainContact(r)
           \/ DecideWaiveDeposit(r)
  <2>1. reqs[r].pc = "read" /\ \E plan : Decided(r, plan)
    BY <1>4, Zenon DEF DecideEditCamper, DecideAddCamper, DecideMakeMainContact,
       DecideWaiveDeposit, Decides
  <2> QED
    BY <2>1, CallCarries
<1>3. CASE CommitRemoveCamper(r) \/ CommitConvertToDayVisitor(r) \/ CommitUpdateDayPass(r)
           \/ CommitUpdateCoach(r) \/ CommitEditCamper(r) \/ CommitAddCamper(r)
           \/ CommitMakeMainContact(r) \/ CommitWaiveDeposit(r)
  <2>1. \E g, cs : Committed(r, g, cs)
    BY <1>3 DEF CommitRemoveCamper, CommitConvertToDayVisitor, CommitUpdateDayPass,
       CommitUpdateCoach, CommitEditCamper, CommitAddCamper, CommitMakeMainContact,
       CommitWaiveDeposit, RowCommitted
  <2> QED
    BY <2>1, CallCarries
<1> QED
  BY <1>1, <1>2, <1>3, <1>4 DEF CamperEditStep

LEMMA StripeCallCarries ==
  ASSUME IInv, CarriesVersion, NEW r \in Req, StripeCall(r)
  PROVE  CarriesVersion'
  BY StripeCallShape DEF CarriesVersion, Versioned, Alike, Idle

LEMMA NextCarries ==
  ASSUME IInv, CarriesVersion, [Next]_vars
  PROVE  CarriesVersion'
<1>1. CASE reqs' = reqs
  BY <1>1 DEF CarriesVersion, Versioned
<1>2. CASE \E r \in Req : GiveUp(r)
  <2>1. PICK r \in Req : GiveUp(r)
    BY <1>2
  <2>2. reqs'[r] = Idle /\ \A x \in Req \ {r} : reqs'[x] = reqs[x]
    BY <2>1 DEF GiveUp, IInv, FlightInv
  <2> QED
    BY <2>2, OneCarries DEF Idle
<1>6. CASE \E r \in Req, h \in Hook : SettleByHand(r, h)
  BY <1>6, SettleByHandAlone, OneCarries DEF Idle
<1>3. CASE \E r \in Req : AllocationStep(r) \/ InvoicingStep(r) \/ CamperEditStep(r)
                          \/ StripeCall(r)
  BY <1>3, AllocationCarries, InvoicingCarries, CamperEditCarries, StripeCallCarries
<1>4. CASE \E h \in Hook : ReconcileStep(h)
  <2>1. reqs' = reqs
    BY <1>4, Zenon DEF ReconcileStep, DeliverEvent, SettleOwedDeposits, CommitBalancePaid,
       CommitCoachFeePaid, DeliveryFails
  <2> QED
    BY <1>1, <2>1
<1>5. CASE \/ CheckoutCompleted \/ CheckoutExpired \/ OverridePaymentStatus \/ DueDatePasses
           \/ \E i \in Invoice : PayInvoice(i) \/ FinalizeDraft(i)
           \/ UNCHANGED vars
  BY <1>1, <1>5 DEF CheckoutCompleted, CheckoutExpired, OverridePaymentStatus,
     DueDatePasses, PayInvoice, FinalizeDraft, vars
<1> QED
  BY <1>2, <1>3, <1>4, <1>5, <1>6 DEF Next, RequestStep

----------------------------------------------------------------------------
(* Everybody an allocated or invoiced group bills has a bed, and the       *)
(* invoice on file charges the roster as it is.                            *)

Placed(cs) == \A c \in Here(cs) : ~IsUnplaced(cs[c])

ChargesNow(inv, cs, coach) ==
    /\ inv.lines = Bill(cs)
    /\ coach => inv.riders = CoachPassengers(cs)
    /\ Owing(cs) \subseteq inv.deposits

RosterInv ==
    group.exists =>
      /\ group.billing \in {"allocated", "invoiced"} => Placed(campers)
      /\ group.billing = "invoiced" =>
           ~group.free /\ ChargesNow(stripe[group.ref], campers, group.coachIn)

(* Two rosters an invoice charges alike.                                   *)
ChargedAlike(cs, ds, coach) ==
    /\ Placed(cs) => Placed(ds)
    /\ Bill(ds) = Bill(cs)
    /\ coach => CoachPassengers(ds) = CoachPassengers(cs)
    /\ Owing(ds) \subseteq Owing(cs)

(* A step that bills and places nobody leaves the group as it was placed   *)
(* and charged, or takes it out of both.                                   *)
KeepsRoster ==
    group'.exists /\ group'.billing \in {"allocated", "invoiced"} =>
      /\ group.exists /\ group.billing = group'.billing
      /\ ChargedAlike(campers, campers', group.coachIn)

LEMMA RosterKept ==
  ASSUME BillOnFile, RosterInv, KeepsBill(group, group'), KeepsRoster,
         group'.free = group.free, \A i \in Invoice : SameBill(i)
  PROVE  RosterInv'
<1> SUFFICES ASSUME group'.exists, group'.billing \in {"allocated", "invoiced"}
             PROVE  /\ Placed(campers')
                    /\ group'.billing = "invoiced" =>
                         /\ ~group'.free
                         /\ ChargesNow(stripe'[group'.ref], campers', group'.coachIn)
  BY DEF RosterInv
<1>1. /\ group.exists /\ group.billing = group'.billing /\ Placed(campers)
      /\ ChargedAlike(campers, campers', group.coachIn)
  BY DEF KeepsRoster, RosterInv
<1>2. Placed(campers')
  BY <1>1 DEF ChargedAlike
<1>3. CASE group'.billing = "invoiced"
  <2>1. /\ group'.ref = group.ref /\ group'.coachIn = group.coachIn
        /\ group.ref \in Invoice /\ SentWith(stripe[group.ref], group.coachIn)
    BY <1>1, <1>3 DEF KeepsBill, BillOnFile
  <2>2. /\ stripe'[group.ref].lines = stripe[group.ref].lines
        /\ stripe'[group.ref].riders = stripe[group.ref].riders
        /\ stripe'[group.ref].deposits = stripe[group.ref].deposits
    BY <2>1 DEF SameBill, SentWith
  <2>3. ~group.free /\ ChargesNow(stripe[group.ref], campers, group.coachIn)
    BY <1>1, <1>3 DEF RosterInv
  <2> QED
    BY <1>1, <1>2, <2>1, <2>2, <2>3 DEF ChargesNow, ChargedAlike
<1> QED
  BY <1>2, <1>3

(* Rows an invoice does not tell apart.                                    *)
SameCharge(row, new) ==
    /\ new.st = "here" <=> row.st = "here"
    /\ IsFullWeek(new) <=> IsFullWeek(row)
    /\ new.age = row.age /\ new.code = row.code /\ new.coach = row.coach
    /\ new.owed > 0 => row.owed > 0

LEMMA SameRowsChargedAlike ==
  ASSUME NEW cs, NEW ds, \A c \in Camper : SameCharge(cs[c], ds[c]), NEW coach
  PROVE  ChargedAlike(cs, ds, coach)
<1>1. Here(ds) = Here(cs)
  BY DEF Here, SameCharge
<1>2. \A c \in Here(cs) : /\ IsUnplaced(ds[c]) <=> IsUnplaced(cs[c])
                          /\ Cost(ds[c]) = Cost(cs[c])
                          /\ CoachEligible(ds[c]) <=> CoachEligible(cs[c])
                          /\ ds[c].owed > 0 => cs[c].owed > 0
  <2> SUFFICES ASSUME NEW c \in Here(cs)
               PROVE  /\ IsUnplaced(ds[c]) <=> IsUnplaced(cs[c])
                      /\ Cost(ds[c]) = Cost(cs[c])
                      /\ CoachEligible(ds[c]) <=> CoachEligible(cs[c])
                      /\ ds[c].owed > 0 => cs[c].owed > 0
    OBVIOUS
  <2>1. SameCharge(cs[c], ds[c])
    BY DEF Here
  <2> QED
    BY <2>1 DEF SameCharge, IsUnplaced, Cost, CoachEligible
<1>3. Bill(ds) = Bill(cs)
  BY <1>1, <1>2 DEF Bill
<1>4. CoachPassengers(ds) = CoachPassengers(cs) /\ Owing(ds) \subseteq Owing(cs)
  BY <1>1, <1>2 DEF CoachPassengers, Owing
<1> QED
  BY <1>1, <1>2, <1>3, <1>4 DEF ChargedAlike, Placed

LEMMA SameRosterAlike == ASSUME IInv, NEW coach PROVE ChargedAlike(campers, campers, coach)
  BY SameRowsChargedAlike DEF SameCharge

LEMMA SettledAlike ==
  ASSUME IInv, NEW S, NEW coach
  PROVE  ChargedAlike(campers, SettleDeposits(campers, S), coach)
<1> DEFINE ds == SettleDeposits(campers, S)
<1>1. ASSUME NEW c \in Camper PROVE SameCharge(campers[c], ds[c])
  <2> DEFINE paid == campers[c].paid + campers[c].owed
             row  == [campers[c] EXCEPT !.paid = paid, !.owed = 0]
  <2>1. ds[c] = campers[c] \/ ds[c] = row
    BY DEF SettleDeposits
  <2> HIDE DEF paid
  <2>2. SameCharge(campers[c], row)
    <3>1. campers[c] \in CamperRow
      BY DEF IInv, DataInv
    <3>2. /\ row.st = campers[c].st /\ row.att = campers[c].att
          /\ row.age = campers[c].age /\ row.code = campers[c].code
          /\ row.coach = campers[c].coach /\ row.owed = 0
      BY <3>1 DEF CamperRow
    <3> QED
      BY <3>2 DEF SameCharge, IsFullWeek
  <2> HIDE DEF row, ds
  <2> QED
    BY <2>1, <2>2 DEF SameCharge
<1> QED
  BY <1>1, SameRowsChargedAlike

LEMMA RowAlike ==
  ASSUME IInv, NEW c \in Camper, NEW row, SameCharge(campers[c], row), NEW coach
  PROVE  ChargedAlike(campers, [campers EXCEPT ![c] = row], coach)
<1>1. campers \in [Camper -> CamperRow]
  BY DEF IInv, DataInv
<1>2. \A x \in Camper : SameCharge(campers[x], [campers EXCEPT ![c] = row][x])
  BY <1>1 DEF SameCharge
<1> QED
  BY <1>2, SameRowsChargedAlike

(* A commit that carries a version does what would be decided now.         *)
LEMMA CommitCurrent ==
  ASSUME VersionInv, CarriesVersion, NEW r \in Req, NEW op, NEW S, MayCommit(r, op, S),
         Versioned(op)
  PROVE  CurrentDecision(group, campers, op, reqs[r].plan)
<1>1. reqs[r].pc = "work" /\ reqs[r].op = op /\ group.exists
      /\ reqs[r].exp \in {Skip, group.version}
  BY DEF MayCommit
<1>2. reqs[r].exp = group.version
  BY <1>1 DEF CarriesVersion
<1> QED
  BY <1>1, <1>2 DEF VersionInv, Current

----------------------------------------------------------------------------
(* Allocation and invoicing.                                               *)

LEMMA AllocateRoster ==
  ASSUME IInv, VersionInv, CarriesVersion, NEW r \in Req, CommitAllocate(r),
         Versioned("allocate")
  PROVE  RosterInv'
<1> DEFINE plan   == reqs[r].plan
           placed == {c \in Camper : plan.codes[c] # NoCode}
           s      == Stamp(group, plan.tr)
<1>1. MayCommit(r, "allocate", placed) /\ Committed(r, s,
        [c \in Camper |-> IF c \in placed THEN [campers[c] EXCEPT !.code = plan.codes[c]]
                          ELSE campers[c]])
  BY DEF CommitAllocate
<1>2. CurrentDecision(group, campers, "allocate", plan) /\ ~group.pif
  BY <1>1, CommitCurrent DEF VersionInv
<1>3. plan.tr = AllocateTr(group) /\ FullWeek(campers) = placed
  BY <1>2 DEF CurrentDecision
<1>4. plan.tr \in Transition /\ group \in GroupRow /\ campers \in [Camper -> CamperRow]
  BY FlightTyped
<1>5. plan.tr.from = group.billing /\ plan.tr.to = "allocated"
  BY <1>2, <1>3 DEF AllocateTr, Move
<1>6. s.billing = "allocated"
  BY <1>4, <1>5, StampTo
<1>7. Placed(campers')
  <2> SUFFICES ASSUME NEW c \in Here(campers'), IsUnplaced(campers'[c]) PROVE FALSE
    BY DEF Placed
  <2> DEFINE new == [campers[c] EXCEPT !.code = plan.codes[c]]
  <2>1. c \in Camper /\ campers'[c].st = "here" /\ campers[c] \in CamperRow
    BY <1>4 DEF Here
  <2>2. campers'[c] = IF c \in placed THEN new ELSE campers[c]
    BY <1>1, <2>1 DEF Committed
  <2>3. new.st = campers[c].st /\ new.att = campers[c].att /\ new.code = plan.codes[c]
    BY <2>1 DEF CamperRow
  <2> HIDE DEF new, placed
  <2>4. c \in Here(campers) /\ IsFullWeek(campers[c])
    BY <2>1, <2>2, <2>3 DEF Here, IsUnplaced, IsFullWeek
  <2>5. c \in placed
    BY <1>3, <2>4 DEF FullWeek
  <2> QED
    BY <2>2, <2>3, <2>5 DEF IsUnplaced, placed
<1>8. group' = s
  BY <1>1 DEF Committed
<1> HIDE DEF s
<1> QED
  BY <1>6, <1>7, <1>8 DEF RosterInv

LEMMA StampLeaves ==
  ASSUME NEW g \in GroupRow, NEW tr \in Transition, tr.from = g.billing,
         tr.to \notin {"allocated", "invoiced"}
  PROVE  Stamp(g, tr).billing \notin {"allocated", "invoiced"}
  BY StampTo

LEMMA UnallocateRoster ==
  ASSUME IInv, VersionInv, CarriesVersion, NEW r \in Req, CommitUnallocate(r),
         Versioned("unallocate")
  PROVE  KeepsRoster
<1> DEFINE tr == reqs[r].plan.tr
<1>1. MayCommit(r, "unallocate", Here(campers)) /\ group' = Stamp(group, tr)
  BY DEF CommitUnallocate, Committed
<1>2. CurrentDecision(group, campers, "unallocate", reqs[r].plan) /\ ~group.pif
  BY <1>1, CommitCurrent DEF VersionInv
<1>3. tr = UnallocateTr(group)
  BY <1>2 DEF CurrentDecision
<1>4. tr.from = group.billing /\ tr.to = "none"
  BY <1>2, <1>3 DEF UnallocateTr, Move
<1> HIDE DEF tr
<1>5. group'.billing \notin {"allocated", "invoiced"}
  BY <1>1, <1>4, FlightTyped, StampLeaves DEF tr
<1> QED
  BY <1>5 DEF KeepsRoster

LEMMA AllocationRoster ==
  ASSUME IInv, VersionInv, CarriesVersion, NEW r \in Req, AllocationStep(r),
         Versioned("unallocate")
  PROVE  KeepsRoster \/ CommitAllocate(r)
<1> DEFINE tr == reqs[r].plan.tr
           s  == Stamp(group, tr)
<1>1. CASE CommitUnallocate(r)
  BY <1>1, UnallocateRoster
<1>2. CASE CommitConfirmFree(r)
  <2>1. MayCommit(r, "confirm_free", {}) /\ group' = s
    BY <1>2 DEF CommitConfirmFree, Committed
  <2>2. LegalTr("confirm_free", tr) /\ tr \in Transition /\ group \in GroupRow
    BY <2>1, CommitStampRest DEF Stamping
  <2>3. tr = [from |-> "allocated", to |-> "free_confirmed"]
    BY <2>2, Zenon DEF LegalTr
  <2>4. tr.from = "allocated" /\ tr.to = "free_confirmed"
    BY <2>3
  <2>5. tr.from = group.billing
    BY <2>1, <2>4 DEF MayCommit
  <2> QED
    BY <2>1, <2>2, <2>4, <2>5, StampLeaves DEF KeepsRoster
<1>3. CASE CommitRelease(r)
  <2>1. PICK op \in {"release", "cancel", "sweep"} : MayCommit(r, op, Here(campers))
    BY <1>3 DEF CommitRelease
  <2>2. LegalTr(op, tr) /\ tr \in Transition /\ group \in GroupRow /\ s \in GroupRow
    BY <2>1, CommitStampRest DEF Stamping
  <2>3. tr.from # "" /\ tr.to = "released"
    BY <2>2 DEF LegalTr
  <2>4. tr.from = group.billing
    BY <2>1, <2>3 DEF MayCommit
  <2>5. s.billing = "released"
    BY <2>2, <2>3, <2>4, StampTo
  <2>6. group' = ClearInvoice(s)
    BY <1>3 DEF CommitRelease, Committed
  <2> HIDE DEF s
  <2> QED
    BY <2>2, <2>5, <2>6, ClearRest DEF KeepsRoster
<1>4. CASE UNCHANGED db
  BY <1>4, SameRosterAlike DEF KeepsRoster, db
<1> QED
  BY <1>1, <1>2, <1>3, <1>4
     DEF AllocationStep, BeginAllocate, DecideAllocate, BeginUnallocate, BeginConfirmFree,
         BeginRelease, SweepList, SweepRelease, Begin, BeginDecided, Decided

(* A full-week camper nobody has placed has no price.                      *)
LEMMA PricedPlaced ==
  ASSUME NEW cs, Bill(cs) \subseteq Camper \X Price
  PROVE  Placed(cs)
<1> SUFFICES ASSUME NEW c \in Here(cs), IsUnplaced(cs[c]) PROVE FALSE
  BY DEF Placed
<1>1. Cost(cs[c]) = NoPrice
  BY DEF IsUnplaced, Cost, PriceFor
<1>2. <<c, Cost(cs[c])>> \in Bill(cs)
  BY DEF Bill
<1>3. Cost(cs[c]) \in Price
  BY <1>2
<1>4. ASSUME NEW code \in Code PROVE TierPrice[code] # NoPrice
  BY CodesArePriced
<1>5. ChildUnder3 # NoPrice /\ DayPassPrice # NoPrice
  BY CodesArePriced DEF DayPassPrice, NoPrice
<1> QED
  BY <1>1, <1>3, <1>4, <1>5 DEF Price

LEMMA SendInvoiceRoster ==
  ASSUME IInv, VersionInv, CarriesVersion, BillsCreated, NEW r \in Req,
         CommitSendInvoice(r), Versioned("invoice")
  PROVE  RosterInv'
<1> DEFINE plan == reqs[r].plan
<1>1. /\ plan \in Plan /\ plan.inv \in Invoice /\ SentAs(stripe[plan.inv], plan)
      /\ group'.billing = "invoiced" /\ group'.ref = plan.inv
      /\ group'.coachIn = (plan.riders # {}) /\ group'.free = group.free
      /\ campers' = campers /\ stripe' = stripe
  BY SendInvoiceShape
<1>2. CurrentDecision(group, campers, "invoice", plan)
  BY CommitCurrent DEF CommitSendInvoice
<1> HIDE DEF plan
<1>3. /\ ~group.free /\ plan.lines = Bill(campers) /\ plan.deposits = Owing(campers)
      /\ plan.riders = IF group.waived THEN {} ELSE CoachPassengers(campers)
  BY <1>2 DEF CurrentDecision, CanInvoice
<1>4. plan.lines \subseteq Camper \X Price
  BY <1>1 DEF Plan
<1>5. Placed(campers)
  BY <1>3, <1>4, PricedPlaced
<1>6. ChargesNow(stripe[plan.inv], campers, plan.riders # {})
  BY <1>1, <1>3 DEF SentAs, ChargesNow
<1> QED
  BY <1>1, <1>3, <1>5, <1>6 DEF RosterInv

LEMMA InvoicingRoster ==
  ASSUME IInv, NEW r \in Req, InvoicingStep(r), ~CommitSendInvoice(r)
  PROVE  KeepsRoster
<1> DEFINE tr == reqs[r].plan.tr
           k  == Stamp(group, Keep)
           s  == Stamp(group, tr)
<1>0. group \in GroupRow
  BY FlightTyped
<1>1. CASE CommitSendCoachInvoice(r) \/ CommitWaiveCoachFee(r) \/ CommitUnwaiveCoachFee(r)
  <2>1. \/ group' = [k EXCEPT !.coachRef = reqs[r].plan.inv]
        \/ group' = [k EXCEPT !.waived = TRUE, !.coachRef = NoInvoice]
        \/ group' = [k EXCEPT !.waived = FALSE]
    BY <1>1 DEF CommitSendCoachInvoice, CommitWaiveCoachFee, CommitUnwaiveCoachFee, Committed
  <2>2. campers' = campers
    BY <1>1 DEF CommitSendCoachInvoice, CommitWaiveCoachFee, CommitUnwaiveCoachFee, Committed
  <2>3. k \in GroupRow /\ k.billing = group.billing /\ k.exists = group.exists
    BY <1>0, KeepRest
  <2> HIDE DEF k
  <2>4. group'.billing = group.billing /\ group'.exists = group.exists
    BY <2>1, <2>3 DEF GroupRow
  <2> QED
    BY <2>2, <2>4, SameRosterAlike DEF KeepsRoster
<1>2. CASE CommitMarkBalancePaid(r)
  <2>1. MayCommit(r, "mark_paid", Owing(campers)) /\ group' = s
    BY <1>2 DEF CommitMarkBalancePaid, Committed
  <2>2. LegalTr("mark_paid", tr) /\ tr \in Transition
    BY <2>1, CommitStampRest DEF Stamping
  <2>3. tr.from # "" /\ tr.to = "balance_paid"
    BY <2>2 DEF LegalTr, SettlesTr
  <2>4. tr.from = group.billing
    BY <2>1, <2>3 DEF MayCommit
  <2> QED
    BY <1>0, <2>1, <2>2, <2>3, <2>4, StampLeaves DEF KeepsRoster
<1>3. CASE CommitDelete(r)
  <2>1. group' = [group EXCEPT !.exists = FALSE]
    BY <1>3 DEF CommitDelete, Committed
  <2> QED
    BY <1>0, <2>1 DEF KeepsRoster, GroupRow
<1>4. CASE CommitResendInvoice(r) \/ CommitExtendDue(r)
  <2>1. \E op \in {"resend", "extend"} : MayCommit(r, op, {})
    BY <1>4 DEF CommitResendInvoice, CommitExtendDue
  <2>2. PICK op \in {"resend", "extend"} : MayCommit(r, op, {})
    BY <2>1
  <2>3. LegalTr(op, tr) /\ tr \in Transition
    BY <2>2, CommitStampRest DEF Stamping
  <2>4. tr = [from |-> "invoiced", to |-> "invoiced"]
    BY <2>3, Zenon DEF LegalTr
  <2>5. ~ChangesBilling(tr)
    BY <2>4 DEF ChangesBilling
  <2>6. s \in GroupRow /\ s.billing = group.billing /\ s.exists = group.exists
    BY <1>0, <2>3, <2>5, StampRest
  <2>7. (group' = s \/ group' = [s EXCEPT !.due = reqs[r].plan.due]) /\ campers' = campers
    BY <1>4 DEF CommitResendInvoice, CommitExtendDue, Committed
  <2> HIDE DEF s
  <2>8. group'.billing = group.billing /\ group'.exists = group.exists
    BY <2>6, <2>7 DEF GroupRow
  <2> QED
    BY <2>7, <2>8, SameRosterAlike DEF KeepsRoster
<1>5. CASE UNCHANGED db
  BY <1>5, SameRosterAlike DEF KeepsRoster, db
<1> QED
  BY <1>1, <1>2, <1>3, <1>4, <1>5
     DEF InvoicingStep, BeginSendInvoice, DecideSendInvoice, BeginSendCoachInvoice,
         DecideSendCoachInvoice, BeginWaiveCoachFee, DecideWaiveCoachFee,
         BeginUnwaiveCoachFee, BeginMarkBalancePaid, BeginDelete, DecideDelete,
         BeginResendInvoice, BeginExtendDue, Begin, BeginDecided, Decided

LEMMA OthersRoster ==
  ASSUME IInv, ~group.pif,
         \/ \E r \in Req : StripeCall(r) \/ GiveUp(r)
         \/ \E r \in Req, h \in Hook : SettleByHand(r, h)
         \/ \E h \in Hook : ReconcileStep(h)
         \/ CheckoutCompleted \/ CheckoutExpired \/ OverridePaymentStatus \/ DueDatePasses
         \/ \E i \in Invoice : PayInvoice(i) \/ FinalizeDraft(i)
         \/ UNCHANGED vars
  PROVE  KeepsRoster
<1>0. group \in GroupRow
  BY DEF IInv, DataInv
<1>1. CASE \E h \in Hook : CommitBalancePaid(h)
  BY <1>1, SettlingStamp DEF CommitBalancePaid, KeepsRoster
<1>2. CASE \E h \in Hook : CommitCoachFeePaid(h)
  <2> DEFINE k == Stamp(group, Keep)
  <2>1. k \in GroupRow /\ k.billing = group.billing /\ k.exists = group.exists
    BY <1>0, KeepRest
  <2>2. group' = [k EXCEPT !.coachPaid = TRUE] /\ campers' = campers
    BY <1>2 DEF CommitCoachFeePaid
  <2> HIDE DEF k
  <2>3. group'.billing = group.billing /\ group'.exists = group.exists
    BY <2>1, <2>2 DEF GroupRow
  <2> QED
    BY <2>2, <2>3, SameRosterAlike DEF KeepsRoster
<1>3. CASE CheckoutCompleted \/ CheckoutExpired \/ OverridePaymentStatus \/ DueDatePasses
           \/ \E r \in Req : EnsureCustomer(r)
  <2>1. group'.billing = group.billing /\ group'.exists = group.exists /\ campers' = campers
    BY <1>0, <1>3 DEF CheckoutCompleted, CheckoutExpired, OverridePaymentStatus,
       DueDatePasses, EnsureCustomer, GroupRow
  <2> QED
    BY <2>1, SameRosterAlike DEF KeepsRoster
<1>4. CASE UNCHANGED db
  BY <1>4, SameRosterAlike DEF KeepsRoster, db
<1> QED
  BY <1>1, <1>2, <1>3, <1>4, SettleByHandAlone
     DEF StripeCall, CreditCustomerBalance, VoidBalanceInvoice, VoidCoachInvoice,
         TryVoidInvoice, TryVoidCoachInvoice, RefundInvoiceKeeping, CreateInvoice,
         CreateInvoicePartly, GiveUp, ReconcileStep, DeliverEvent, SettleOwedDeposits,
         DeliveryFails, PayInvoice, FinalizeDraft, db, vars

----------------------------------------------------------------------------
(* Roster edits.                                                           *)

(* What RosterChanged decides is right for the rows the edit leaves, when  *)
(* an edit that leaves an open invoice alone changes nothing it charges.   *)
LEMMA RosterRight ==
  ASSUME IInv, BillOnFile, RosterInv, \A i \in Invoice : SameBill(i),
         KeepsBill(group, group'), NEW rows, NEW stale \in BOOLEAN, NEW tr \in Transition,
         tr = RosterChangedTr(group, rows, stale), group' = StampRoster(group, tr),
         \A c \in Here(campers') : campers'[c] \in rows \/ ~IsUnplaced(campers'[c]),
         group.exists /\ group.billing = "invoiced" /\ ~stale =>
           ChargedAlike(campers, campers', group.coachIn)
  PROVE  RosterInv'
<1>0. group \in GroupRow /\ RefAgrees(group)
  BY DEF IInv, DataInv, RefMatchesStatus
<1>1. /\ group'.billing = IF ChangesBilling(tr) THEN tr.to ELSE group.billing
      /\ group'.exists = group.exists /\ group'.free = group.free
  BY <1>0, RosterRest
<1>2. (\A row \in rows : ~IsUnplaced(row)) => Placed(campers')
  BY DEF Placed
<1>3. CASE HasOpenInvoice(group) /\ stale
  <2>1. tr.from = group.billing /\ tr.to = AllocatedOrNone(rows)
    BY <1>3 DEF RosterChangedTr, Move
  <2>2. tr.to # "invoiced" /\ (tr.to = "allocated" => Placed(campers'))
    BY <1>2, <2>1 DEF AllocatedOrNone
  <2>3. group.billing = "invoiced" /\ group.billing # ""
    BY <1>3 DEF HasOpenInvoice
  <2>4. group'.billing = tr.to
    BY <1>1, <2>1, <2>2, <2>3 DEF ChangesBilling
  <2> QED
    BY <2>2, <2>4 DEF RosterInv
<1>4. CASE /\ ~(HasOpenInvoice(group) /\ stale)
           /\ group.billing = "allocated" /\ \E row \in rows : IsUnplaced(row)
  <2>1. tr.from = group.billing /\ tr.to = "none"
    BY <1>4, Zenon DEF RosterChangedTr, Move
  <2>2. group'.billing = "none"
    BY <1>1, <1>4, <2>1 DEF ChangesBilling
  <2> QED
    BY <2>2 DEF RosterInv
<1>5. CASE /\ ~(HasOpenInvoice(group) /\ stale)
           /\ ~(group.billing = "allocated" /\ \E row \in rows : IsUnplaced(row))
  <2>1. tr = Keep
    BY <1>5, Zenon DEF RosterChangedTr
  <2>2. group'.billing = group.billing
    <3>1. ~ChangesBilling(Keep)
      BY DEF ChangesBilling, Keep
    <3> QED
      BY <1>1, <2>1, <3>1
  <2>3. CASE group.billing = "invoiced"
    <3>1. ~stale
      BY <1>0, <1>5, <2>3 DEF HasOpenInvoice, RefAgrees
    <3>2. KeepsRoster
      BY <1>1, <2>2, <2>3, <3>1 DEF KeepsRoster
    <3> QED
      BY <1>1, <3>2, RosterKept
  <2>4. CASE group.billing = "allocated"
    BY <1>2, <1>5, <2>2, <2>4 DEF RosterInv
  <2>5. CASE group.billing \notin {"allocated", "invoiced"}
    BY <2>2, <2>5 DEF RosterInv
  <2> QED
    BY <2>3, <2>4, <2>5
<1> QED
  BY <1>3, <1>4, <1>5

(* A row the edit does not touch is among those RosterChanged looked at.   *)
LEMMA OthersInRows ==
  ASSUME NEW c \in Camper, NEW S, NEW x \in Here(campers), x # c
  PROVE  campers[x] \in Rows(campers, Here(campers) \ {c})
  BY DEF Rows

LEMMA RowCommittedShape ==
  ASSUME IInv, NEW r \in Req, NEW g, NEW row, NEW c, c = reqs[r].plan.target,
         RowCommitted(r, g, row)
  PROVE  /\ c \in Camper /\ campers[c] \in CamperRow
         /\ group' = g /\ campers' = [campers EXCEPT ![c] = row]
         /\ campers'[c] = row /\ \A x \in Camper \ {c} : campers'[x] = campers[x]
<1>1. c \in Camper /\ campers \in [Camper -> CamperRow]
  BY FlightTyped DEF Plan
<1> QED
  BY <1>1 DEF RowCommitted, Committed

LEMMA RemoveRoster ==
  ASSUME IInv, BillOnFile, RosterInv, VersionInv, CarriesVersion,
         \A i \in Invoice : SameBill(i), KeepsBill(group, group'),
         NEW r \in Req, CommitRemoveCamper(r), Versioned("remove")
  PROVE  RosterInv'
<1> DEFINE plan == reqs[r].plan
           c    == plan.target
           rows == Rows(campers, Here(campers) \ {c})
           gone == [campers[c] EXCEPT !.st = "gone"]
<1>1. MayCommit(r, "remove", {c}) /\ RowCommitted(r, StampRoster(group, plan.tr), gone)
  BY DEF CommitRemoveCamper
<1>2. CurrentDecision(group, campers, "remove", plan)
  BY <1>1, CommitCurrent
<1>3. plan.tr = RosterChangedTr(group, rows, TRUE)
  BY <1>2 DEF CurrentDecision
<1>4. /\ c \in Camper /\ campers[c] \in CamperRow
      /\ group' = StampRoster(group, plan.tr)
      /\ campers'[c] = gone /\ \A x \in Camper \ {c} : campers'[x] = campers[x]
  BY <1>1, RowCommittedShape
<1>5. gone.st = "gone"
  BY <1>4 DEF CamperRow
<1> HIDE DEF gone
<1>6. \A x \in Here(campers') : campers'[x] \in rows
  BY <1>4, <1>5 DEF Here, Rows
<1> HIDE DEF rows, c
<1>7. \E stale \in BOOLEAN : stale /\ plan.tr = RosterChangedTr(group, rows, stale)
  BY <1>3
<1>8. PICK stale \in BOOLEAN : stale /\ plan.tr = RosterChangedTr(group, rows, stale)
  BY <1>7
<1>9. plan.tr \in Transition
  BY FlightTyped
<1> QED
  BY <1>4, <1>6, <1>8, <1>9, RosterRight

LEMMA ConvertRoster ==
  ASSUME IInv, BillOnFile, RosterInv, VersionInv, CarriesVersion,
         \A i \in Invoice : SameBill(i), KeepsBill(group, group'),
         NEW r \in Req, CommitConvertToDayVisitor(r), Versioned("convert")
  PROVE  RosterInv'
<1> DEFINE plan   == reqs[r].plan
           c      == plan.target
           rows   == Rows(campers, Here(campers) \ {c})
           credit == plan.row.credit
           day    == [campers[c] EXCEPT !.att = "day_pass", !.coach = FALSE,
                                        !.code = NoCode, !.credit = credit, !.owed = 0]
<1>1. MayCommit(r, "convert", {c}) /\ RowCommitted(r, StampRoster(group, plan.tr), day)
      /\ campers[c].st = "here"
  BY DEF CommitConvertToDayVisitor
<1>2. CurrentDecision(group, campers, "convert", plan)
  BY <1>1, CommitCurrent
<1>3. plan.tr = RosterChangedTr(group, rows, TRUE)
  BY <1>2 DEF CurrentDecision
<1>4. /\ c \in Camper /\ campers[c] \in CamperRow
      /\ group' = StampRoster(group, plan.tr)
      /\ campers'[c] = day /\ \A x \in Camper \ {c} : campers'[x] = campers[x]
  BY <1>1, RowCommittedShape
<1> HIDE DEF credit
<1>5. day.att = "day_pass" /\ day.st = campers[c].st
  BY <1>4 DEF CamperRow
<1> HIDE DEF day
<1>6. \A x \in Here(campers') : campers'[x] \in rows \/ ~IsUnplaced(campers'[x])
  BY <1>1, <1>4, <1>5 DEF Here, Rows, IsUnplaced, IsFullWeek
<1> HIDE DEF rows, c
<1>7. \E stale \in BOOLEAN : stale /\ plan.tr = RosterChangedTr(group, rows, stale)
  BY <1>3
<1>8. PICK stale \in BOOLEAN : stale /\ plan.tr = RosterChangedTr(group, rows, stale)
  BY <1>7
<1>9. plan.tr \in Transition
  BY FlightTyped
<1> QED
  BY <1>4, <1>6, <1>8, <1>9, RosterRight

LEMMA AddRoster ==
  ASSUME IInv, BillOnFile, RosterInv, VersionInv, CarriesVersion,
         \A i \in Invoice : SameBill(i), KeepsBill(group, group'),
         NEW r \in Req, CommitAddCamper(r), Versioned("add")
  PROVE  RosterInv'
<1> DEFINE plan == reqs[r].plan
           row  == plan.row
           rows == Rows(campers, Here(campers)) \cup {row}
<1>1. MayCommit(r, "add", {})
  BY DEF CommitAddCamper
<1>2. CurrentDecision(group, campers, "add", plan)
  BY <1>1, CommitCurrent
<1>3. plan.tr = RosterChangedTr(group, rows, TRUE)
  BY <1>2 DEF CurrentDecision
<1>4. PICK c \in Camper :
        /\ campers[c].st = "new"
        /\ Committed(r, StampRoster(group, plan.tr), [campers EXCEPT ![c] = row])
  BY DEF CommitAddCamper
<1>5. /\ group' = StampRoster(group, plan.tr)
      /\ campers'[c] = row /\ \A x \in Camper \ {c} : campers'[x] = campers[x]
  BY <1>4, FlightTyped DEF Committed
<1> HIDE DEF row
<1>6. \A x \in Here(campers') : campers'[x] \in rows
  BY <1>5 DEF Here, Rows
<1> HIDE DEF rows
<1>7. \E stale \in BOOLEAN : stale /\ plan.tr = RosterChangedTr(group, rows, stale)
  BY <1>3
<1>8. PICK stale \in BOOLEAN : stale /\ plan.tr = RosterChangedTr(group, rows, stale)
  BY <1>7
<1>9. plan.tr \in Transition
  BY FlightTyped
<1> QED
  BY <1>5, <1>6, <1>8, <1>9, RosterRight

(* An edit that is no repricing, of a placed camper who pays, leaves them  *)
(* placed at the same price and in the same seat.                          *)
LEMMA NotRepricedAlike ==
  ASSUME NEW g, ~g.free, NEW old \in CamperRow, NEW new \in CamperRow, ~IsUnplaced(old),
         new.st = old.st, new.att = old.att, new.coach = old.coach, new.owed = old.owed,
         ~IsFullWeek(old) => new.code = old.code, ~Repriced(g, old, new)
  PROVE  /\ ~IsUnplaced(new) /\ Cost(new) = Cost(old)
         /\ CoachEligible(new) <=> CoachEligible(old)
<1>1. CASE ~IsFullWeek(old)
  BY <1>1 DEF IsFullWeek, IsUnplaced, Cost, CoachEligible
<1>2. CASE IsFullWeek(old)
  <2> DEFINE age   == new.age
             older == [old EXCEPT !.age = age]
  <2>1. /\ older.att = old.att /\ older.coach = old.coach /\ older.age = new.age
    BY DEF CamperRow
  <2>2. /\ PriceFor(old.code, old.age, FALSE) = PriceFor(new.code, new.age, FALSE)
        /\ CoachEligible(old) <=> CoachEligible(older)
    BY <1>2, Zenon DEF Repriced, PriceFor
  <2> HIDE DEF older
  <2>3. CoachEligible(new) <=> CoachEligible(old)
    BY <2>1, <2>2 DEF CoachEligible, IsFullWeek
  <2>4. old.code \in Code /\ new.code \in Code \cup {NoCode}
    BY <1>2 DEF IsUnplaced, CamperRow
  <2>5. PriceFor(old.code, old.age, FALSE) # NoPrice
    BY <2>4, CodesArePriced DEF PriceFor, AccommodationPriceID
  <2>6. new.code # NoCode
    BY <2>2, <2>5 DEF PriceFor
  <2> QED
    BY <1>2, <2>2, <2>3, <2>6 DEF IsUnplaced, IsFullWeek, Cost
<1> QED
  BY <1>1, <1>2

LEMMA OneRowAlike ==
  ASSUME NEW c \in Camper, NEW cs, NEW ds, \A x \in Camper \ {c} : ds[x] = cs[x],
         ds[c].st = cs[c].st, ~IsUnplaced(ds[c]), Cost(ds[c]) = Cost(cs[c]),
         CoachEligible(ds[c]) <=> CoachEligible(cs[c]), ds[c].owed = cs[c].owed, NEW coach
  PROVE  ChargedAlike(cs, ds, coach)
<1>1. Here(ds) = Here(cs)
  BY DEF Here
<1>2. \A x \in Here(cs) : /\ IsUnplaced(ds[x]) => IsUnplaced(cs[x])
                          /\ Cost(ds[x]) = Cost(cs[x])
                          /\ CoachEligible(ds[x]) <=> CoachEligible(cs[x])
                          /\ ds[x].owed = cs[x].owed
  BY DEF Here
<1>3. Bill(ds) = Bill(cs)
  BY <1>1, <1>2 DEF Bill
<1>4. CoachPassengers(ds) = CoachPassengers(cs) /\ Owing(ds) \subseteq Owing(cs)
  BY <1>1, <1>2 DEF CoachPassengers, Owing
<1> QED
  BY <1>1, <1>2, <1>3, <1>4 DEF ChargedAlike, Placed

LEMMA EditRoster ==
  ASSUME IInv, BillOnFile, RosterInv, VersionInv, CarriesVersion,
         \A i \in Invoice : SameBill(i), KeepsBill(group, group'),
         NEW r \in Req, CommitEditCamper(r), Versioned("edit")
  PROVE  RosterInv'
<1> DEFINE plan  == reqs[r].plan
           c     == plan.target
           old   == campers[c]
           age   == plan.row.age
           code  == IF IsFullWeek(old) THEN plan.row.code ELSE old.code
           row   == [old EXCEPT !.age = age, !.code = code]
           new   == Edited(old, plan.row)
           rows  == Rows(campers, Here(campers) \ {c}) \cup {new}
           stale == Repriced(group, old, new)
<1>1. MayCommit(r, "edit", {c}) /\ RowCommitted(r, StampRoster(group, plan.tr), row)
      /\ old.st = "here"
  BY DEF CommitEditCamper
<1>2. CurrentDecision(group, campers, "edit", plan)
  BY <1>1, CommitCurrent
<1>3. plan.tr = RosterChangedTr(group, rows, stale)
  BY <1>2 DEF CurrentDecision
<1>4. /\ c \in Camper /\ old \in CamperRow /\ plan.row \in CamperRow
      /\ group' = StampRoster(group, plan.tr) /\ plan.tr \in Transition
      /\ campers'[c] = row /\ \A x \in Camper \ {c} : campers'[x] = campers[x]
  BY <1>1, RowCommittedShape, FlightTyped DEF Plan
<1>5. age \in Age /\ code \in Code \cup {NoCode}
  BY <1>4 DEF CamperRow
<1>6. IsFullWeek(old) => row = new
  BY DEF Edited
<1> HIDE DEF code
<1>7. /\ row \in CamperRow /\ row.st = old.st /\ row.att = old.att /\ row.coach = old.coach
      /\ row.owed = old.owed /\ row.age = age /\ row.code = code
  BY <1>4, <1>5 DEF CamperRow
<1>8. ~IsFullWeek(old) => row.code = old.code
  BY <1>7 DEF code
<1>9. stale \in BOOLEAN
  BY DEF Repriced
<1> HIDE DEF row, new
<1>10. \A x \in Here(campers') : campers'[x] \in rows \/ ~IsUnplaced(campers'[x])
  <2> SUFFICES ASSUME NEW x \in Here(campers'), IsUnplaced(campers'[x])
               PROVE  campers'[x] \in rows
    OBVIOUS
  <2>1. CASE x = c
    <3>1. IsFullWeek(old)
      BY <1>4, <1>7, <2>1 DEF IsUnplaced, IsFullWeek
    <3> QED
      BY <1>4, <1>6, <2>1, <3>1
  <2>2. CASE x # c
    <3>1. x \in Here(campers) /\ campers'[x] = campers[x]
      BY <1>4, <2>2 DEF Here
    <3> QED
      BY <1>4, <2>2, <3>1, OthersInRows
  <2> QED
    BY <2>1, <2>2
<1>11. ASSUME group.exists, group.billing = "invoiced", ~stale
       PROVE  ChargedAlike(campers, campers', group.coachIn)
  <2>1. ~group.free /\ Placed(campers)
    BY <1>11 DEF RosterInv
  <2>2. ~IsUnplaced(old)
    BY <1>1, <1>4, <2>1 DEF Placed, Here
  <2>3. ~Repriced(group, old, row)
    BY <1>6, <1>11 DEF Repriced
  <2>4. /\ ~IsUnplaced(row) /\ Cost(row) = Cost(old)
        /\ CoachEligible(row) <=> CoachEligible(old)
    BY <1>4, <1>7, <1>8, <2>1, <2>2, <2>3, NotRepricedAlike
  <2> QED
    BY <1>4, <1>7, <2>4, OneRowAlike
<1> HIDE DEF rows, stale, c
<1> QED
  BY <1>3, <1>4, <1>9, <1>10, <1>11, RosterRight

(* The edits that never touch the invoice.                                 *)
LEMMA OtherEditAlike ==
  ASSUME IInv, VersionInv, CarriesVersion, NEW r \in Req, Versioned("coach"),
         \/ CommitUpdateDayPass(r) \/ CommitUpdateCoach(r) \/ CommitMakeMainContact(r)
         \/ CommitWaiveDeposit(r)
  PROVE  /\ group'.billing = group.billing /\ group'.exists = group.exists
         /\ ChargedAlike(campers, campers', group.coachIn)
<1> DEFINE plan == reqs[r].plan
           c    == plan.target
           k    == Stamp(group, Keep)
<1>0. group \in GroupRow /\ c \in Camper /\ campers[c] \in CamperRow
      /\ campers \in [Camper -> CamperRow]
  BY FlightTyped DEF Plan
<1>1. k \in GroupRow /\ k.billing = group.billing /\ k.exists = group.exists
  BY <1>0, KeepRest
<1>2. group' = k \/ group' = [k EXCEPT !.coachRef = NoInvoice]
  BY DEF CommitUpdateDayPass, CommitUpdateCoach, CommitMakeMainContact,
     CommitWaiveDeposit, RowCommitted, Committed
<1> HIDE DEF k
<1>3. group'.billing = group.billing /\ group'.exists = group.exists
  BY <1>1, <1>2 DEF GroupRow
<1>4. CASE CommitUpdateDayPass(r)
  BY <1>3, <1>4, SameRosterAlike DEF CommitUpdateDayPass, Committed
<1>5. CASE CommitMakeMainContact(r)
  <2>1. \A x \in Camper : SameCharge(campers[x], campers'[x])
    <3> SUFFICES ASSUME NEW x \in Camper PROVE SameCharge(campers[x], campers'[x])
      OBVIOUS
    <3> DEFINE main == (x = c)
               row  == [campers[x] EXCEPT !.main = main]
    <3>1. campers'[x] = campers[x] \/ campers'[x] = row
      BY <1>5 DEF CommitMakeMainContact, Committed
    <3> HIDE DEF main
    <3>2. /\ row.st = campers[x].st /\ row.att = campers[x].att /\ row.age = campers[x].age
          /\ row.code = campers[x].code /\ row.coach = campers[x].coach
          /\ row.owed = campers[x].owed
      BY <1>0 DEF CamperRow
    <3> HIDE DEF row
    <3> QED
      BY <3>1, <3>2 DEF SameCharge, IsFullWeek
  <2> QED
    BY <1>3, <2>1, SameRowsChargedAlike
<1>6. CASE CommitWaiveDeposit(r)
  <2> DEFINE row == [campers[c] EXCEPT !.owed = 0]
  <2>1. campers' = [campers EXCEPT ![c] = row]
    BY <1>6, RowCommittedShape DEF CommitWaiveDeposit
  <2>2. SameCharge(campers[c], row)
    BY <1>0 DEF CamperRow, SameCharge, IsFullWeek
  <2> HIDE DEF row, c
  <2> QED
    BY <1>0, <1>3, <2>1, <2>2, RowAlike
<1>7. CASE CommitUpdateCoach(r)
  <2> DEFINE coach == plan.row.coach
             row   == [campers[c] EXCEPT !.coach = coach]
  <2>1. MayCommit(r, "coach", {c})
    BY <1>7 DEF CommitUpdateCoach
  <2>2. CurrentDecision(group, campers, "coach", plan)
    BY <2>1, CommitCurrent
  <2>3. ~group.coachIn
    BY <2>2 DEF CurrentDecision, CanChangeCoach
  <2>4. campers'[c] = row /\ \A x \in Camper \ {c} : campers'[x] = campers[x]
    <3>1. \E g : RowCommitted(r, g, row)
      BY <1>7 DEF CommitUpdateCoach
    <3> QED
      BY <3>1, RowCommittedShape
  <2> HIDE DEF coach
  <2>5. /\ row.st = campers[c].st /\ row.att = campers[c].att /\ row.age = campers[c].age
        /\ row.code = campers[c].code /\ row.owed = campers[c].owed
    BY <1>0 DEF CamperRow
  <2> HIDE DEF row, c
  <2>6. \A x \in Camper : /\ campers'[x].st = campers[x].st
                          /\ IsUnplaced(campers'[x]) <=> IsUnplaced(campers[x])
                          /\ Cost(campers'[x]) = Cost(campers[x])
                          /\ campers'[x].owed = campers[x].owed
    BY <2>4, <2>5 DEF IsUnplaced, IsFullWeek, Cost
  <2>7. Here(campers') = Here(campers)
    BY <2>6 DEF Here
  <2>8. /\ Bill(campers') = Bill(campers) /\ Owing(campers') = Owing(campers)
        /\ Placed(campers) => Placed(campers')
    BY <2>6, <2>7 DEF Bill, Owing, Placed, Here
  <2> QED
    BY <1>3, <2>3, <2>8 DEF ChargedAlike
<1> QED
  BY <1>4, <1>5, <1>6, <1>7

LEMMA CamperEditRoster ==
  ASSUME IInv, BillOnFile, RosterInv, VersionInv, CarriesVersion,
         \A i \in Invoice : SameBill(i), KeepsBill(group, group'),
         group'.free = group.free, NEW r \in Req, CamperEditStep(r),
         \A op \in {"remove", "convert", "edit", "add", "coach"} : Versioned(op)
  PROVE  RosterInv'
<1>1. CASE UNCHANGED db
  <2>1. KeepsRoster
    BY <1>1, SameRosterAlike DEF KeepsRoster, db
  <2> QED
    BY <2>1, RosterKept
<1>2. CASE \/ CommitUpdateDayPass(r) \/ CommitUpdateCoach(r) \/ CommitMakeMainContact(r)
           \/ CommitWaiveDeposit(r)
  BY <1>2, OtherEditAlike, RosterKept DEF KeepsRoster
<1> QED
  BY <1>1, <1>2, RemoveRoster, ConvertRoster, AddRoster, EditRoster
     DEF CamperEditStep, BeginRemoveCamper, DecideRemoveCamper, BeginConvertToDayVisitor,
         DecideConvertToDayVisitor, BeginUpdateDayPass, DecideUpdateDayPass,
         BeginUpdateCoach, DecideUpdateCoach, BeginEditCamper, DecideEditCamper,
         BeginAddCamper, DecideAddCamper, BeginMakeMainContact, DecideMakeMainContact,
         BeginWaiveDeposit, DecideWaiveDeposit, Begin, Decided

(* The calls whose version the bill rests on; bulk allocation and bulk     *)
(* invoicing are these without one.                                        *)
MoneyOp == {"allocate", "unallocate", "invoice", "remove", "convert", "edit", "add", "coach"}

LEMMA NextRoster ==
  ASSUME IInv, BillsCreated, BillOnFile, RosterInv, VersionInv, CarriesVersion,
         [Next]_vars, SkipOp \cap MoneyOp = {}
  PROVE  RosterInv'
<1>1. \A op \in MoneyOp : Versioned(op)
  BY DEF MoneyOp, Versioned
<1>2. \A i \in Invoice : SameBill(i)
  BY NextBills
<1>3. group'.free = group.free
  BY NextMoves DEF MovesVersion, SameKind
<1>4. ASSUME KeepsBill(group, group'), KeepsRoster PROVE RosterInv'
  BY <1>2, <1>3, <1>4, RosterKept
<1>5. CASE \E r \in Req : AllocationStep(r)
  BY <1>1, <1>4, <1>5, AllocationKeepsBill, AllocationRoster, AllocateRoster DEF MoneyOp
<1>6. CASE \E r \in Req : InvoicingStep(r)
  BY <1>1, <1>4, <1>6, InvoicingKeepsBill, InvoicingRoster, SendInvoiceRoster DEF MoneyOp
<1>7. CASE \E r \in Req : CamperEditStep(r)
  BY <1>1, <1>2, <1>3, <1>7, CamperEditKeepsBill, CamperEditRoster DEF MoneyOp
<1>8. ASSUME \/ \E r \in Req : StripeCall(r) \/ GiveUp(r)
             \/ \E r \in Req, h \in Hook : SettleByHand(r, h)
             \/ \E h \in Hook : ReconcileStep(h)
             \/ CheckoutCompleted \/ CheckoutExpired \/ OverridePaymentStatus \/ DueDatePasses
             \/ \E i \in Invoice : PayInvoice(i) \/ FinalizeDraft(i)
             \/ UNCHANGED vars
      PROVE  RosterInv'
  BY <1>4, <1>8, OthersKeepBill, OthersRoster DEF VersionInv
<1> QED
  BY <1>5, <1>6, <1>7, <1>8 DEF Next, RequestStep

LEMMA InitRoster == ASSUME Init PROVE RosterInv /\ CarriesVersion
<1>1. group.billing = "none" /\ \A r \in Req : reqs[r] = Idle
  BY DEF Init, SubmittedGroup, NullGroup
<1> QED
  BY <1>1 DEF RosterInv, CarriesVersion, Idle

LEMMA RosterAlways ==
  ASSUME "override" \notin Op, "full" \notin Kinds, SkipOp \cap MoneyOp = {}
  PROVE  Spec => []RosterInv
<1> DEFINE Inv == VersionInv /\ BillsCreated /\ BillOnFile /\ RosterInv /\ CarriesVersion
<1>1. Init => Inv
  BY InitCurrent, InitBills, InitRoster
<1>2. IInv /\ IInv' /\ Inv /\ [Next]_vars => Inv'
  BY NextCurrent, NextBills, NextBillOnFile, NextRoster, NextCarries
<1> QED
  BY <1>1, <1>2, Invariance, PTL DEF Spec

(* Nobody is allocated or invoiced without a bed, when the calls that      *)
(* place, bill and edit campers carry a version; whatever the other calls  *)
(* send, and however all of them overlap, fail and are repeated.           *)
THEOREM NobodyBilledWithoutBed ==
  ASSUME "override" \notin Op, "full" \notin Kinds, SkipOp \cap MoneyOp = {}
  PROVE  Spec => []PlacedWhenBilled
<1>1. RosterInv => PlacedWhenBilled
  BY DEF RosterInv, Placed, PlacedWhenBilled
<1> QED
  BY <1>1, RosterAlways, PTL

(* Under the same assumptions the balance invoice on file charges exactly  *)
(* the campers the group has, at the price of where they are now, and the  *)
(* coach for exactly those who ride (RosterChanged and the edits that void *)
(* the invoice before they write).                                         *)
THEOREM InvoiceIsCurrent ==
  ASSUME "override" \notin Op, "full" \notin Kinds, SkipOp \cap MoneyOp = {}
  PROVE  Spec => []InvoiceChargesRoster
<1>1. RosterInv => InvoiceChargesRoster
  BY DEF RosterInv, ChargesNow, InvoiceChargesRoster
<1> QED
  BY <1>1, RosterAlways, PTL

(* And whoever owes a deposit finds it on the invoice (SendInvoice bills   *)
(* the deposits AddCamper left owing).                                     *)
THEOREM OwedDepositsAreBilled ==
  ASSUME "override" \notin Op, "full" \notin Kinds, SkipOp \cap MoneyOp = {}
  PROVE  Spec => []InvoiceCoversDeposits
<1>1. RosterInv => InvoiceCoversDeposits
  BY DEF RosterInv, ChargesNow, InvoiceCoversDeposits
<1> QED
  BY <1>1, RosterAlways, PTL

-----------------------------------------------------------------------------
(***************************************************************************)
(* Who is billed, and once.                                                *)
(*                                                                         *)
(* Who is billed at all, and that a paid bill stands, for every roster,    *)
(* any number of calls and deliveries in flight and every value of the     *)
(* bounds: nothing is charged to a sponsored group, nothing but the coach  *)
(* to one that paid in full, nobody changes what a settled invoice has     *)
(* charged, and a coach fee waived or paid at signup is not invoiced.      *)
(***************************************************************************)

(* Which invoices the group's signup allows.                               *)
Billable(kind) == ~group.free /\ (group.pif => kind = "coach")

(* The Stripe calls that create no invoice.                                *)
Harmless == Step \ {"create"}

(* A call that may still create an invoice was decided for a group that    *)
(* may be sent it, and one that settles by hand for a group that pays.     *)
MayBill(r) ==
    /\ reqs[r].pc = "read" => SameKind(reqs[r].snap, group)
    /\ reqs[r].pc = "read" /\ reqs[r].op = "coach_invoice" => ~group.free
    /\ reqs[r].pc = "work" => \/ reqs[r].plan.todo \in Seq(Harmless)
                              \/ Billable(reqs[r].plan.kind)
    /\ reqs[r].pc = "work" /\ reqs[r].op = "mark_paid" => ~group.free

(* Likewise what settles: a delivery an invoice that was sent, a settlement *)
(* by hand (which is of no invoice) a group that pays.                     *)
PaysFor(h) == hooks[h].tr # Keep => /\ ~group.free
                                    /\ hooks[h].inv # NoInvoice => ~group.pif

SponsorInv ==
    /\ ~(group.free /\ group.pif)
    /\ \A r \in Req : MayBill(r)
    /\ SponsoredNeverBilled
    /\ \A i \in events : stripe[i].st # "unused"
    /\ \A h \in Hook : PaysFor(h)
    /\ group.free => group.billing # "balance_paid"

----------------------------------------------------------------------------
(* The requests.                                                           *)

LEMMA OthersMayBill ==
  ASSUME SameKind(group, group'), \A x \in Req : MayBill(x),
         NEW r \in Req, \A x \in Req \ {r} : reqs'[x] = reqs[x], MayBill(r)'
  PROVE  \A x \in Req : MayBill(x)'
<1>1. ASSUME NEW x \in Req \ {r} PROVE MayBill(x)'
  BY <1>1 DEF MayBill, SameKind, Billable
<1> QED
  BY <1>1

LEMMA BeginBills ==
  ASSUME IInv, \A x \in Req : MayBill(x), NEW r \in Req, NEW op, Begin(r, op),
         op = "coach_invoice" => ~group.free
  PROVE  \A x \in Req : MayBill(x)'
<1>1. /\ reqs'[r].pc = "read" /\ reqs'[r].op = op /\ reqs'[r].snap = group
      /\ \A x \in Req \ {r} : reqs'[x] = reqs[x]
      /\ group' = group
  BY BeginShape DEF db
<1> QED
  BY <1>1, OthersMayBill DEF MayBill, SameKind

LEMMA BeginDecidedBills ==
  ASSUME IInv, \A x \in Req : MayBill(x), NEW r \in Req, NEW op, NEW plan,
         BeginDecided(r, op, plan), plan.todo \in Seq(Harmless),
         op = "mark_paid" => ~group.free
  PROVE  \A x \in Req : MayBill(x)'
<1>1. /\ reqs'[r].pc = "work" /\ reqs'[r].op = op /\ reqs'[r].plan = plan
      /\ \A x \in Req \ {r} : reqs'[x] = reqs[x]
      /\ group' = group
  BY BeginDecidedShape DEF db
<1> QED
  BY <1>1, OthersMayBill DEF MayBill, SameKind

LEMMA DecidedBills ==
  ASSUME IInv, \A x \in Req : MayBill(x), NEW r \in Req, NEW plan, Decided(r, plan),
         plan.todo \in Seq(Harmless) \/ Billable(plan.kind), reqs[r].op # "mark_paid"
  PROVE  \A x \in Req : MayBill(x)'
<1>1. /\ reqs'[r].pc = "work" /\ reqs'[r].op = reqs[r].op /\ reqs'[r].plan = plan
      /\ \A x \in Req \ {r} : reqs'[x] = reqs[x]
      /\ group' = group
  BY DecidedShape DEF db
<1> QED
  BY <1>1, OthersMayBill DEF MayBill, SameKind, Billable

LEMMA CommittedBills ==
  ASSUME IInv, \A x \in Req : MayBill(x), NEW r \in Req, SameKind(group, group'),
         \E g, cs : Committed(r, g, cs)
  PROVE  \A x \in Req : MayBill(x)'
<1>1. reqs'[r] = Idle /\ \A x \in Req \ {r} : reqs'[x] = reqs[x]
  BY CommittedShape
<1> QED
  BY <1>1, OthersMayBill DEF MayBill, Idle

(* Plans put together from harmless calls.                                 *)
LEMMA IfHarmless ==
  ASSUME NEW cond, NEW step \in Harmless
  PROVE  If(cond, step) \in Seq(Harmless)
<1>1. <<step>> \in Seq(Harmless) /\ << >> \in Seq(Harmless)
  OBVIOUS
<1> QED
  BY <1>1 DEF If

LEMMA HarmlessCalls ==
  {"customer", "credit", "refund", "void", "try_void", "void_coach", "try_void_coach"}
     = Harmless
  BY DEF Harmless, Step

LEMMA NothingHarmless == NoPlan.todo \in Seq(Harmless)
<1>1. << >> \in Seq(Harmless)
  OBVIOUS
<1> QED
  BY <1>1 DEF NoPlan

LEMMA ReleaseHarmless ==
  ASSUME NEW g PROVE ReleasePlan(g).todo \in Seq(Harmless)
<1> DEFINE todo == If(HasOpenInvoice(g), "try_void")
           tr   == ReleaseTr(g)
           ref  == g.ref
<1>1. todo \in Seq(Harmless)
  BY HarmlessCalls, IfHarmless
<1> HIDE DEF todo, tr, ref
<1>2. ReleasePlan(g) = [NoPlan EXCEPT !.tr = tr, !.ref = ref, !.todo = todo]
  BY DEF ReleasePlan, todo, tr, ref
<1> QED
  BY <1>1, <1>2 DEF NoPlan

LEMMA DisturbingHarmless ==
  ASSUME NEW g, NEW rows, NEW stale, NEW plan, DOMAIN plan = DOMAIN NoPlan,
         plan.todo \in Seq(Harmless)
  PROVE  /\ Disturbing(g, rows, stale, plan).todo \in Seq(Harmless)
         /\ DOMAIN Disturbing(g, rows, stale, plan) = DOMAIN NoPlan
<1> DEFINE void == If(HasOpenInvoice(g) /\ stale, "void")
           todo == plan.todo \o void
           tr   == RosterChangedTr(g, rows, stale)
           ref  == g.ref
<1>1. void \in Seq(Harmless)
  BY HarmlessCalls, IfHarmless
<1> HIDE DEF void
<1>2. todo \in Seq(Harmless)
  BY <1>1
<1>3. Disturbing(g, rows, stale, plan) = [plan EXCEPT !.tr = tr, !.ref = ref, !.todo = todo]
  BY DEF Disturbing, void
<1> HIDE DEF todo, tr, ref
<1> QED
  BY <1>2, <1>3 DEF NoPlan

LEMMA AllocationMayBill ==
  ASSUME IInv, \A x \in Req : MayBill(x), SameKind(group, group'), NEW r \in Req,
         AllocationStep(r)
  PROVE  \A x \in Req : MayBill(x)'
<1>1. CASE BeginAllocate(r)
  BY <1>1, BeginBills DEF BeginAllocate
<1>2. CASE DecideAllocate(r)
  <2>1. PICK codes \in [FullWeek(campers) -> Code] :
          Decided(r, [NoPlan EXCEPT
             !.tr = AllocateTr(reqs[r].snap),
             !.codes = [c \in Camper |->
                          IF c \in FullWeek(campers) THEN codes[c] ELSE NoCode]])
    BY <1>2 DEF DecideAllocate
  <2> DEFINE tr == AllocateTr(reqs[r].snap)
             all == [c \in Camper |-> IF c \in FullWeek(campers) THEN codes[c] ELSE NoCode]
             plan == [NoPlan EXCEPT !.tr = tr, !.codes = all]
  <2>2. Decided(r, plan)
    BY <2>1
  <2> HIDE DEF tr, all
  <2>3. plan.todo = NoPlan.todo
    BY DEF NoPlan
  <2>4. reqs[r].op # "mark_paid"
    BY <1>2 DEF DecideAllocate, Decides
  <2> HIDE DEF plan
  <2> QED
    BY <2>2, <2>3, <2>4, NothingHarmless, DecidedBills
<1>3. CASE BeginUnallocate(r) \/ BeginConfirmFree(r)
  <2>1. \E op \in {"unallocate", "confirm_free"} : \E tr :
          BeginDecided(r, op, [NoPlan EXCEPT !.tr = tr])
    BY <1>3 DEF BeginUnallocate, BeginConfirmFree
  <2>2a. PICK op \in {"unallocate", "confirm_free"} : \E tr :
          BeginDecided(r, op, [NoPlan EXCEPT !.tr = tr])
    BY <2>1
  <2>2. PICK tr : BeginDecided(r, op, [NoPlan EXCEPT !.tr = tr])
    BY <2>2a
  <2> DEFINE plan == [NoPlan EXCEPT !.tr = tr]
  <2>3. plan.todo = NoPlan.todo
    BY DEF NoPlan
  <2>4. BeginDecided(r, op, plan)
    BY <2>2
  <2> HIDE DEF plan
  <2> QED
    BY <2>2, <2>3, <2>4, NothingHarmless, BeginDecidedBills
<1>4. CASE BeginRelease(r)
  <2>1. PICK op \in {"release", "cancel"} : BeginDecided(r, op, ReleasePlan(group))
    BY <1>4 DEF BeginRelease
  <2> QED
    BY <2>1, ReleaseHarmless, BeginDecidedBills
<1>5. CASE SweepList(r)
  <2>1. /\ reqs'[r].pc = "listed" /\ \A x \in Req \ {r} : reqs'[x] = reqs[x]
    BY <1>5 DEF SweepList, IInv, FlightInv, Idle
  <2> QED
    BY <2>1, OthersMayBill DEF MayBill
<1>6. CASE SweepRelease(r)
  <2>1. reqs[r].op # "mark_paid" /\ Decided(r, ReleasePlan(group))
    BY <1>6, FlightTyped DEF SweepRelease, LegalRequest
  <2> QED
    BY <2>1, ReleaseHarmless, DecidedBills
<1>7. CASE CommitAllocate(r) \/ CommitUnallocate(r) \/ CommitConfirmFree(r)
           \/ CommitRelease(r)
  <2>1. \E g, cs : Committed(r, g, cs)
    BY <1>7 DEF CommitAllocate, CommitUnallocate, CommitConfirmFree, CommitRelease
  <2> QED
    BY <2>1, CommittedBills
<1> QED
  BY <1>1, <1>2, <1>3, <1>4, <1>5, <1>6, <1>7 DEF AllocationStep

LEMMA DecideInvoiceMayBill ==
  ASSUME IInv, \A x \in Req : MayBill(x), NEW r \in Req,
         DecideSendInvoice(r) \/ DecideSendCoachInvoice(r)
  PROVE  \A x \in Req : MayBill(x)'
<1> DEFINE g == reqs[r].snap
<1>1. CASE DecideSendInvoice(r)
  <2>1. PICK plan : Decided(r, plan)
    BY <1>1 DEF DecideSendInvoice
  <2>2. /\ reqs[r].pc = "read" /\ reqs[r].op = "invoice"
        /\ CanInvoice(g, FullWeek(campers) # {})
    BY <1>1 DEF DecideSendInvoice, Decides
  <2>3. Billable(plan.kind)
    BY <2>2 DEF MayBill, SameKind, CanInvoice, Billable
  <2> QED
    BY <2>1, <2>2, <2>3, DecidedBills
<1>2. CASE DecideSendCoachInvoice(r)
  <2> DEFINE riders == CoachPassengers(campers)
             inner  == [NoPlan EXCEPT !.todo = <<"create">>, !.kind = "coach",
                                      !.riders = riders]
             cust   == g.cust
             todo   == If(g.cust = NoCust, "customer") \o inner.todo
             plan   == Billed(g, inner)
  <2>1. Decided(r, plan)
    BY <1>2 DEF DecideSendCoachInvoice
  <2> HIDE DEF riders
  <2>2. inner.kind = "coach" /\ DOMAIN inner = DOMAIN NoPlan
    BY DEF NoPlan
  <2>3. plan = [inner EXCEPT !.cust = cust, !.todo = todo]
    BY DEF Billed
  <2> HIDE DEF inner, cust, todo
  <2>4. plan.kind = "coach"
    BY <2>2, <2>3
  <2> HIDE DEF plan
  <2>5. reqs[r].pc = "read" /\ reqs[r].op = "coach_invoice"
    BY <1>2 DEF DecideSendCoachInvoice, Decides
  <2>6. Billable(plan.kind)
    BY <2>4, <2>5 DEF MayBill, Billable
  <2> QED
    BY <2>1, <2>5, <2>6, DecidedBills
<1> QED
  BY <1>1, <1>2

LEMMA DecideDeleteMayBill ==
  ASSUME IInv, \A x \in Req : MayBill(x), NEW r \in Req,
         DecideDelete(r) \/ DecideWaiveCoachFee(r)
  PROVE  \A x \in Req : MayBill(x)'
<1> DEFINE g    == reqs[r].snap
           ref  == g.ref
           cref == g.coachRef
<1>1. CASE DecideDelete(r)
  <2> DEFINE refund == If(HasSettledBalanceInvoice(g), "refund")
             void   == If(HasOpenInvoice(g), "void")
             coach  == If(HasUnpaidCoachInvoice(g), "void_coach")
             keep   == \E c \in Here(campers) : campers[c].paid > 0
             todo   == refund \o void \o coach
             plan   == [NoPlan EXCEPT !.ref = ref, !.coachRef = cref, !.keep = keep,
                                      !.todo = todo]
  <2>1. Decided(r, plan) /\ reqs[r].op = "delete"
    BY <1>1 DEF DecideDelete, Decides
  <2>2. /\ refund \in Seq(Harmless) /\ void \in Seq(Harmless) /\ coach \in Seq(Harmless)
    BY HarmlessCalls, IfHarmless
  <2> HIDE DEF refund, void, coach
  <2>3. todo \in Seq(Harmless)
    BY <2>2
  <2> HIDE DEF keep, todo, ref, cref
  <2>4. plan.todo \in Seq(Harmless)
    BY <2>3 DEF NoPlan
  <2> HIDE DEF plan
  <2> QED
    BY <2>1, <2>4, DecidedBills
<1>2. CASE DecideWaiveCoachFee(r)
  <2> DEFINE todo == If(g.coachRef # NoInvoice, "void_coach")
             plan == [NoPlan EXCEPT !.coachRef = cref, !.todo = todo]
  <2>1. Decided(r, plan) /\ reqs[r].op = "waive_coach"
    BY <1>2 DEF DecideWaiveCoachFee, Decides
  <2>2. todo \in Seq(Harmless)
    BY HarmlessCalls, IfHarmless
  <2> HIDE DEF todo, cref
  <2>3. plan.todo \in Seq(Harmless)
    BY <2>2 DEF NoPlan
  <2> HIDE DEF plan
  <2> QED
    BY <2>1, <2>3, DecidedBills
<1> QED
  BY <1>1, <1>2

LEMMA BeginDecidedMayBill ==
  ASSUME IInv, \A x \in Req : MayBill(x), NEW r \in Req,
         \/ BeginUnwaiveCoachFee(r) \/ BeginMarkBalancePaid(r)
         \/ BeginResendInvoice(r) \/ BeginExtendDue(r)
  PROVE  \A x \in Req : MayBill(x)'
<1> DEFINE ref == group.ref
<1>1. CASE BeginUnwaiveCoachFee(r)
  BY <1>1, NothingHarmless, BeginDecidedBills DEF BeginUnwaiveCoachFee
<1>2. CASE BeginMarkBalancePaid(r)
  <2> DEFINE todo == If(HasOpenInvoice(group), "void")
             tr   == SettleBalanceTr(group)
             plan == [NoPlan EXCEPT !.tr = tr, !.ref = ref, !.todo = todo]
  <2>1. BeginDecided(r, "mark_paid", plan) /\ ~group.free
    BY <1>2 DEF BeginMarkBalancePaid, CanMarkBalancePaid
  <2>2. todo \in Seq(Harmless)
    BY HarmlessCalls, IfHarmless
  <2> HIDE DEF todo, tr, ref
  <2>3. plan.todo \in Seq(Harmless)
    BY <2>2 DEF NoPlan
  <2> HIDE DEF plan
  <2> QED
    BY <2>1, <2>3, BeginDecidedBills
<1>3. CASE BeginResendInvoice(r)
  <2> DEFINE tr   == OpenInvoiceTr(group)
             plan == [NoPlan EXCEPT !.tr = tr]
  <2>1. BeginDecided(r, "resend", plan)
    BY <1>3 DEF BeginResendInvoice
  <2> HIDE DEF tr
  <2>2. plan.todo = NoPlan.todo
    BY DEF NoPlan
  <2> HIDE DEF plan
  <2> QED
    BY <2>1, <2>2, NothingHarmless, BeginDecidedBills
<1>4. CASE BeginExtendDue(r)
  <2> DEFINE tr        == OpenInvoiceTr(group)
             plan(due) == [NoPlan EXCEPT !.tr = tr, !.due = due]
  <2>1. PICK due \in {"future", "past"} : BeginDecided(r, "extend", plan(due))
    BY <1>4 DEF BeginExtendDue
  <2> HIDE DEF tr
  <2>2. plan(due).todo = NoPlan.todo
    BY DEF NoPlan
  <2> HIDE DEF plan
  <2> QED
    BY <2>1, <2>2, NothingHarmless, BeginDecidedBills
<1> QED
  BY <1>1, <1>2, <1>3, <1>4

LEMMA InvoicingMayBill ==
  ASSUME IInv, \A x \in Req : MayBill(x), SameKind(group, group'), NEW r \in Req,
         InvoicingStep(r)
  PROVE  \A x \in Req : MayBill(x)'
<1>1. CASE BeginSendInvoice(r) \/ BeginSendCoachInvoice(r) \/ BeginWaiveCoachFee(r)
           \/ BeginDelete(r)
  BY <1>1, BeginBills
     DEF BeginSendInvoice, BeginSendCoachInvoice, CanSendCoachInvoice, BeginWaiveCoachFee,
         BeginDelete
<1>2. CASE CommitSendInvoice(r) \/ CommitSendCoachInvoice(r) \/ CommitWaiveCoachFee(r)
           \/ CommitUnwaiveCoachFee(r) \/ CommitMarkBalancePaid(r) \/ CommitDelete(r)
           \/ CommitResendInvoice(r) \/ CommitExtendDue(r)
  <2>1. \E g, cs : Committed(r, g, cs)
    BY <1>2 DEF CommitSendInvoice, CommitSendCoachInvoice, CommitWaiveCoachFee,
       CommitUnwaiveCoachFee, CommitMarkBalancePaid, CommitDelete, CommitResendInvoice,
       CommitExtendDue
  <2> QED
    BY <2>1, CommittedBills
<1> QED
  BY <1>1, <1>2, DecideInvoiceMayBill, DecideDeleteMayBill, BeginDecidedMayBill
     DEF InvoicingStep

LEMMA DecideDisturbingMayBill ==
  ASSUME IInv, \A x \in Req : MayBill(x), NEW r \in Req,
         \/ DecideRemoveCamper(r) \/ DecideConvertToDayVisitor(r)
         \/ DecideEditCamper(r) \/ DecideAddCamper(r)
  PROVE  \A x \in Req : MayBill(x)'
<1> DEFINE g == reqs[r].snap
<1>1. CASE DecideRemoveCamper(r)
  <2> DEFINE cref     == g.coachRef
             inner(c) == [NoPlan EXCEPT !.target = c, !.coachRef = cref]
             plan(c)  == Disturbing(g, Others(c), TRUE, inner(c))
             coachless(c) == /\ HasUnpaidCoachInvoice(g)
                             /\ CoachPassengers(campers) \ {c} = {}
             coach(c) == If(coachless(c), "try_void_coach")
  <2>1. PICK c : Decided(r, [plan(c) EXCEPT !.todo = @ \o coach(c)])
    BY <1>1 DEF DecideRemoveCamper
  <2>2. reqs[r].op = "remove"
    BY <1>1 DEF DecideRemoveCamper, Decides
  <2> HIDE DEF cref
  <2>3. inner(c).todo = NoPlan.todo /\ DOMAIN inner(c) = DOMAIN NoPlan
    BY DEF NoPlan
  <2> HIDE DEF inner
  <2>4. plan(c).todo \in Seq(Harmless) /\ DOMAIN plan(c) = DOMAIN NoPlan
    BY <2>3, NothingHarmless, DisturbingHarmless
  <2>5. coach(c) \in Seq(Harmless)
    BY HarmlessCalls, IfHarmless
  <2> HIDE DEF plan, coach
  <2> DEFINE todo == plan(c).todo \o coach(c)
             new  == [plan(c) EXCEPT !.todo = todo]
  <2>6. Decided(r, new)
    BY <2>1
  <2>7. todo \in Seq(Harmless)
    BY <2>4, <2>5
  <2> HIDE DEF todo
  <2>8. new.todo \in Seq(Harmless)
    BY <2>4, <2>7 DEF NoPlan
  <2> HIDE DEF new
  <2> QED
    BY <2>2, <2>6, <2>8, DecidedBills
<1>2. CASE DecideConvertToDayVisitor(r)
  <2> DEFINE credited(c) == /\ g.pay = "paid" /\ campers[c].age >= MinDepositAge
                            /\ campers[c].owed = 0
             row(c)  == [NewRow EXCEPT !.credit = IF credited(c) THEN Deposit ELSE 0]
             cust    == g.cust
             first(c) == If(credited(c) /\ g.cust = NoCust, "customer")
             then(c) == If(credited(c), "credit")
             todo(c) == first(c) \o then(c)
             inner(c) == [NoPlan EXCEPT !.target = c, !.cust = cust, !.row = row(c),
                                        !.todo = todo(c)]
             plan(c) == Disturbing(g, Others(c), TRUE, inner(c))
  <2>1. PICK c : Decided(r, plan(c))
    BY <1>2 DEF DecideConvertToDayVisitor
  <2>2. reqs[r].op = "convert"
    BY <1>2 DEF DecideConvertToDayVisitor, Decides
  <2>3. first(c) \in Seq(Harmless) /\ then(c) \in Seq(Harmless)
    BY HarmlessCalls, IfHarmless
  <2> HIDE DEF first, then
  <2>4. todo(c) \in Seq(Harmless)
    BY <2>3
  <2> HIDE DEF todo, row, cust
  <2>5. inner(c).todo \in Seq(Harmless) /\ DOMAIN inner(c) = DOMAIN NoPlan
    BY <2>4 DEF NoPlan
  <2> HIDE DEF inner
  <2>6. plan(c).todo \in Seq(Harmless)
    BY <2>5, DisturbingHarmless
  <2> HIDE DEF plan
  <2> QED
    BY <2>1, <2>2, <2>6, DecidedBills
<1>3. CASE DecideEditCamper(r)
  <2>1. reqs[r].op = "edit"
    BY <1>3 DEF DecideEditCamper, Decides
  <2> DEFINE row(age, code)      == [NewRow EXCEPT !.age = age, !.code = code]
             inner(c, age, code) == [NoPlan EXCEPT !.target = c, !.row = row(age, code)]
  <2>2. \E c, age, code, rows, stale :
          Decided(r, Disturbing(g, rows, stale, inner(c, age, code)))
    BY <1>3 DEF DecideEditCamper
  <2>3. PICK c, age, code, rows, stale :
          Decided(r, Disturbing(g, rows, stale, inner(c, age, code)))
    BY <2>2
  <2> HIDE DEF row
  <2>4. inner(c, age, code).todo = NoPlan.todo /\ DOMAIN inner(c, age, code) = DOMAIN NoPlan
    BY DEF NoPlan
  <2> HIDE DEF inner
  <2>5. Disturbing(g, rows, stale, inner(c, age, code)).todo \in Seq(Harmless)
    BY <2>4, NothingHarmless, DisturbingHarmless
  <2> QED
    BY <2>1, <2>3, <2>5, DecidedBills
<1>4. CASE DecideAddCamper(r)
  <2>1. reqs[r].op = "add"
    BY <1>4 DEF DecideAddCamper, Decides
  <2> DEFINE inner(row) == [NoPlan EXCEPT !.row = row]
             rows(row)  == Rows(campers, Here(campers)) \cup {row}
  <2>2. PICK row : Decided(r, Disturbing(g, rows(row), TRUE, inner(row)))
    BY <1>4 DEF DecideAddCamper
  <2>3. inner(row).todo = NoPlan.todo /\ DOMAIN inner(row) = DOMAIN NoPlan
    BY DEF NoPlan
  <2> HIDE DEF inner, rows
  <2>4. Disturbing(g, rows(row), TRUE, inner(row)).todo \in Seq(Harmless)
    BY <2>3, NothingHarmless, DisturbingHarmless
  <2> QED
    BY <2>1, <2>2, <2>4, DecidedBills
<1> QED
  BY <1>1, <1>2, <1>3, <1>4

LEMMA CamperEditMayBill ==
  ASSUME IInv, \A x \in Req : MayBill(x), SameKind(group, group'), NEW r \in Req,
         CamperEditStep(r)
  PROVE  \A x \in Req : MayBill(x)'
<1>1. CASE BeginRemoveCamper(r) \/ BeginConvertToDayVisitor(r) \/ BeginUpdateDayPass(r)
           \/ BeginUpdateCoach(r) \/ BeginEditCamper(r) \/ BeginAddCamper(r)
           \/ BeginMakeMainContact(r) \/ BeginWaiveDeposit(r)
  <2>1. \E op : op # "coach_invoice" /\ Begin(r, op)
    BY <1>1 DEF BeginRemoveCamper, BeginConvertToDayVisitor, BeginUpdateDayPass,
       BeginUpdateCoach, BeginEditCamper, BeginAddCamper, BeginMakeMainContact,
       BeginWaiveDeposit
  <2> QED
    BY <2>1, BeginBills
<1>2. CASE DecideUpdateDayPass(r) \/ DecideMakeMainContact(r) \/ DecideWaiveDeposit(r)
  <2> DEFINE plan(c) == [NoPlan EXCEPT !.target = c]
  <2>1. PICK c : Decided(r, plan(c))
    BY <1>2 DEF DecideUpdateDayPass, DecideMakeMainContact, DecideWaiveDeposit
  <2>2. plan(c).todo = NoPlan.todo
    BY DEF NoPlan
  <2>3. reqs[r].op # "mark_paid"
    BY <1>2 DEF DecideUpdateDayPass, DecideMakeMainContact, DecideWaiveDeposit, Decides
  <2> HIDE DEF plan
  <2> QED
    BY <2>1, <2>2, <2>3, NothingHarmless, DecidedBills
<1>3. CASE DecideUpdateCoach(r)
  <2> DEFINE g       == reqs[r].snap
             row(c)  == [NewRow EXCEPT !.coach = ~campers[c].coach]
             cref    == g.coachRef
             clear   == HasUnpaidCoachInvoice(g)
             todo    == If(HasUnpaidCoachInvoice(g), "void_coach")
             plan(c) == [NoPlan EXCEPT !.target = c, !.row = row(c), !.coachRef = cref,
                                       !.clearCoach = clear, !.todo = todo]
  <2>1. PICK c : Decided(r, plan(c))
    BY <1>3 DEF DecideUpdateCoach
  <2>2. reqs[r].op = "coach"
    BY <1>3 DEF DecideUpdateCoach, Decides
  <2>3. todo \in Seq(Harmless)
    BY HarmlessCalls, IfHarmless
  <2> HIDE DEF row, cref, clear, todo
  <2>4. plan(c).todo \in Seq(Harmless)
    BY <2>3 DEF NoPlan
  <2> HIDE DEF plan
  <2> QED
    BY <2>1, <2>2, <2>4, DecidedBills
<1>4. CASE CommitRemoveCamper(r) \/ CommitConvertToDayVisitor(r) \/ CommitUpdateDayPass(r)
           \/ CommitUpdateCoach(r) \/ CommitEditCamper(r) \/ CommitAddCamper(r)
           \/ CommitMakeMainContact(r) \/ CommitWaiveDeposit(r)
  <2>1. \E g, cs : Committed(r, g, cs)
    BY <1>4 DEF CommitRemoveCamper, CommitConvertToDayVisitor, CommitUpdateDayPass,
       CommitUpdateCoach, CommitEditCamper, CommitAddCamper, CommitMakeMainContact,
       CommitWaiveDeposit, RowCommitted
  <2> QED
    BY <2>1, CommittedBills
<1> QED
  BY <1>1, <1>2, <1>3, <1>4, DecideDisturbingMayBill DEF CamperEditStep

----------------------------------------------------------------------------
(* Stripe.                                                                 *)

LEMMA CalledMayBill ==
  ASSUME IInv, \A x \in Req : MayBill(x), SameKind(group, group'), NEW r \in Req,
         NEW plan \in Plan, plan.kind = reqs[r].plan.kind,
         plan.todo = reqs[r].plan.todo, plan.todo # << >>, reqs[r].pc = "work",
         Called(r, plan)
  PROVE  \A x \in Req : MayBill(x)'
<1> DEFINE rest == Tail(plan.todo)
           p    == [plan EXCEPT !.todo = rest]
           q    == [reqs[r] EXCEPT !.plan = p]
<1>1. reqs \in [Req -> Request] /\ reqs[r] \in Request
  BY DEF IInv, FlightInv
<1>2. reqs' = [reqs EXCEPT ![r] = q]
  BY <1>1 DEF Called, Request, Plan
<1>3. plan.todo \in Seq(Harmless) => rest \in Seq(Harmless)
  OBVIOUS
<1> HIDE DEF rest
<1>4. p.kind = plan.kind /\ p.todo = rest
  BY DEF Plan
<1> HIDE DEF p
<1>5. q.plan = p /\ q.pc = reqs[r].pc /\ q.op = reqs[r].op
  BY <1>1 DEF Request
<1> HIDE DEF q
<1>6. reqs'[r] = q /\ \A x \in Req \ {r} : reqs'[x] = reqs[x]
  BY <1>1, <1>2
<1>7. MayBill(r)'
  BY <1>3, <1>4, <1>5, <1>6 DEF MayBill, SameKind, Billable
<1> QED
  BY <1>6, <1>7, OthersMayBill

(* Only a plan that may bill the group comes to create an invoice.         *)
LEMMA CreatesBillable ==
  ASSUME NEW r \in Req, MayBill(r), NextCall(r, "create")
  PROVE  Billable(reqs[r].plan.kind)
<1> DEFINE todo == reqs[r].plan.todo
<1>1. reqs[r].pc = "work" /\ todo # << >> /\ Head(todo) = "create"
  BY DEF NextCall
<1> HIDE DEF todo
<1>2. todo \notin Seq(Harmless)
  <2>1. ASSUME todo \in Seq(Harmless) PROVE Head(todo) \in Harmless
    BY <1>1, <2>1
  <2>2. "create" \notin Harmless
    BY DEF Harmless
  <2> QED
    BY <1>1, <2>1, <2>2
<1> QED
  BY <1>1, <1>2 DEF MayBill, todo

(* An invoice is what it was, whatever becomes of it.                      *)
SameUse(i) ==
    /\ stripe'[i].st = "unused" <=> stripe[i].st = "unused"
    /\ stripe'[i].kind = stripe[i].kind

(* What a step of Stripe's has to leave.                                   *)
BillsRightly ==
    /\ SponsoredNeverBilled'
    /\ \A i \in events' : stripe'[i].st # "unused"

LEMMA UseKept ==
  ASSUME IInv, SponsorInv, SameKind(group, group'), \A i \in Invoice : SameUse(i),
         events' \subseteq events \cup {i \in Invoice : stripe[i].st # "unused"}
  PROVE  BillsRightly
<1>1. events \subseteq Invoice
  BY DEF IInv, DataInv
<1> QED
  BY <1>1 DEF BillsRightly, SponsorInv, SponsoredNeverBilled, SameUse, SameKind

LEMMA UnchangedUse == ASSUME stripe' = stripe PROVE \A i \in Invoice : SameUse(i)
  BY DEF SameUse

LEMMA VoidUse ==
  ASSUME IInv, NEW j, stripe' = VoidIfOpen(stripe, j)
  PROVE  \A i \in Invoice : SameUse(i)
<1>1. stripe \in [Invoice -> StripeInvoice]
  BY DEF IInv, DataInv
<1> DEFINE new(i) == [stripe[i] EXCEPT !.st = IF @ = "open" THEN "void" ELSE @]
<1>2. ASSUME NEW i \in Invoice
      PROVE  /\ new(i).st = IF stripe[i].st = "open" THEN "void" ELSE stripe[i].st
             /\ new(i).kind = stripe[i].kind
  BY <1>1 DEF StripeInvoice
<1>3. \A i \in Invoice : stripe'[i] = stripe[i] \/ stripe'[i] = new(i)
  BY <1>1 DEF VoidIfOpen
<1> HIDE DEF new
<1> QED
  BY <1>2, <1>3 DEF SameUse

LEMMA RefundUse ==
  ASSUME IInv, NEW r \in Req, RefundInvoiceKeeping(r)
  PROVE  \A i \in Invoice : SameUse(i)
<1> DEFINE j == reqs[r].plan.ref
<1>1. stripe \in [Invoice -> StripeInvoice]
  BY DEF IInv, DataInv
<1>2. ASSUME NEW i \in Invoice, NEW how
      PROVE  LET inv == [stripe[i] EXCEPT !.refunded = how] IN
             inv.st = stripe[i].st /\ inv.kind = stripe[i].kind
  BY <1>1 DEF StripeInvoice
<1>3. \/ stripe' = stripe
      \/ \E how \in {"all", "part"} : stripe' = [stripe EXCEPT ![j].refunded = how]
  BY DEF RefundInvoiceKeeping
<1> HIDE DEF j
<1>4. CASE \E how \in {"all", "part"} : stripe' = [stripe EXCEPT ![j].refunded = how]
  <2>1. PICK how \in {"all", "part"} : stripe' = [stripe EXCEPT ![j].refunded = how]
    BY <1>4
  <2> DEFINE new(i) == [stripe[i] EXCEPT !.refunded = how]
  <2>2. ASSUME NEW i \in Invoice PROVE stripe'[i] = stripe[i] \/ stripe'[i] = new(i)
    BY <1>1, <2>1
  <2>3. ASSUME NEW i \in Invoice
        PROVE  new(i).st = stripe[i].st /\ new(i).kind = stripe[i].kind
    BY <1>2
  <2> HIDE DEF new
  <2> QED
    BY <2>2, <2>3 DEF SameUse
<1> QED
  BY <1>3, <1>4, UnchangedUse

LEMMA PaidUse ==
  ASSUME IInv, NEW i \in Invoice, PayInvoice(i) \/ FinalizeDraft(i)
  PROVE  \A j \in Invoice : SameUse(j)
<1>1. stripe \in [Invoice -> StripeInvoice]
  BY DEF IInv, DataInv
<1>2. \E st \in {"open", "paid"} : stripe' = [stripe EXCEPT ![i].st = st]
  BY DEF PayInvoice, FinalizeDraft
<1>3. PICK st \in {"open", "paid"} : stripe' = [stripe EXCEPT ![i].st = st]
  BY <1>2
<1> DEFINE inv == [stripe[i] EXCEPT !.st = st]
<1>4. inv.st = st /\ inv.kind = stripe[i].kind
  BY <1>1 DEF StripeInvoice
<1>5. stripe' = [stripe EXCEPT ![i] = inv]
  BY <1>3
<1> HIDE DEF inv
<1>6. stripe'[i] = inv /\ \A j \in Invoice \ {i} : stripe'[j] = stripe[j]
  BY <1>1, <1>5
<1>7. stripe[i].st # "unused"
  BY DEF PayInvoice, FinalizeDraft
<1> QED
  BY <1>3, <1>4, <1>6, <1>7 DEF SameUse

LEMMA InvoicedUse ==
  ASSUME IInv, SponsorInv, group' = group, events' = events, NEW j \in Invoice,
         Minted(j), NEW st, NEW plan, Invoiced(j, st, plan), Billable(plan.kind),
         st # "unused"
  PROVE  BillsRightly
<1> DEFINE inv == [NotCreated EXCEPT !.st = st, !.kind = plan.kind, !.lines = plan.lines,
                     !.deposits = plan.deposits, !.riders = plan.riders]
<1>1. stripe \in [Invoice -> StripeInvoice] /\ events \subseteq Invoice
  BY DEF IInv, DataInv
<1>2. inv.st = st /\ inv.kind = plan.kind
  BY DEF NotCreated
<1>3. stripe' = [stripe EXCEPT ![j] = inv]
  BY DEF Invoiced
<1> HIDE DEF inv
<1>4. stripe'[j] = inv /\ \A i \in Invoice \ {j} : stripe'[i] = stripe[i]
  BY <1>1, <1>3
<1> QED
  BY <1>1, <1>2, <1>4 DEF BillsRightly, SponsorInv, SponsoredNeverBilled, Billable

LEMMA StripeCallSponsor ==
  ASSUME IInv, SponsorInv, SameKind(group, group'), NEW r \in Req, StripeCall(r)
  PROVE  BillsRightly /\ \A x \in Req : MayBill(x)'
<1> DEFINE plan == reqs[r].plan
<1>0. plan \in Plan /\ \A x \in Req : MayBill(x)
  BY FlightTyped DEF SponsorInv
<1>1. CASE CreateInvoice(r)
  <2> DEFINE new(i) == [plan EXCEPT !.inv = i]
  <2>1. PICK i \in Invoice : Minted(i) /\ Invoiced(i, "open", plan) /\ Called(r, new(i))
    BY <1>1 DEF CreateInvoice
  <2>2. /\ NextCall(r, "create") /\ group' = group /\ events' = events
    BY <1>1 DEF CreateInvoice, db
  <2>3. BillsRightly
    BY <1>0, <2>1, <2>2, CreatesBillable, InvoicedUse
  <2>4. new(i) \in Plan /\ new(i).kind = plan.kind /\ new(i).todo = plan.todo
    BY <1>0 DEF Plan, InvoiceRef
  <2> HIDE DEF new
  <2> QED
    BY <1>0, <2>1, <2>2, <2>3, <2>4, CalledMayBill DEF NextCall
<1>2. CASE CreateInvoicePartly(r)
  <2> DEFINE new(L, D, R) == [plan EXCEPT !.lines = L, !.deposits = D, !.riders = R]
  <2>1. PICK i \in Invoice, L \in SUBSET plan.lines, D \in SUBSET plan.deposits,
             R \in {{}, plan.riders} :
          Minted(i) /\ Invoiced(i, "draft", new(L, D, R))
    BY <1>2 DEF CreateInvoicePartly
  <2>2. /\ NextCall(r, "create") /\ group' = group /\ events' = events
        /\ reqs' = [reqs EXCEPT ![r] = Idle]
    BY <1>2 DEF CreateInvoicePartly, db
  <2>3. new(L, D, R).kind = plan.kind
    BY <1>0 DEF Plan
  <2> HIDE DEF new
  <2>4. BillsRightly
    BY <1>0, <2>1, <2>2, <2>3, CreatesBillable, InvoicedUse
  <2>5. reqs'[r] = Idle /\ \A x \in Req \ {r} : reqs'[x] = reqs[x]
    BY <2>2 DEF IInv, FlightInv
  <2> QED
    BY <1>0, <2>4, <2>5, OthersMayBill DEF MayBill, Idle
<1>3. CASE EnsureCustomer(r)
  <2> DEFINE new == [plan EXCEPT !.cust = r]
  <2>1. Called(r, new) /\ NextCall(r, "customer") /\ UNCHANGED <<stripe, events>>
    BY <1>3 DEF EnsureCustomer, external
  <2>2. new \in Plan /\ new.kind = plan.kind /\ new.todo = plan.todo
    BY <1>0 DEF Plan
  <2> HIDE DEF new
  <2>3. BillsRightly
    BY <2>1, UnchangedUse, UseKept
  <2> QED
    BY <1>0, <2>1, <2>2, <2>3, CalledMayBill DEF NextCall
<1>4. CASE /\ Called(r, plan) /\ \E step : NextCall(r, step)
           /\ events' = events
           /\ \/ stripe' = stripe
              \/ \E i : stripe' = VoidIfOpen(stripe, i)
              \/ RefundInvoiceKeeping(r)
  <2>1. BillsRightly
    BY <1>4, UnchangedUse, VoidUse, RefundUse, UseKept
  <2> QED
    BY <1>0, <1>4, <2>1, CalledMayBill DEF NextCall
<1> QED
  BY <1>1, <1>2, <1>3, <1>4
     DEF StripeCall, CreditCustomerBalance, VoidBalanceInvoice, VoidCoachInvoice,
         TryVoidInvoice, TryVoidCoachInvoice, RefundInvoiceKeeping

----------------------------------------------------------------------------
(* A sponsored group is never settled: only a settlement by hand, the     *)
(* checkout of a family that paid in full or an event of a balance invoice *)
(* leads to "balance_paid".                                                *)

Settles == \/ \E r \in Req : CommitMarkBalancePaid(r)
           \/ \E h \in Hook : CommitBalancePaid(h)
           \/ CheckoutCompleted
SettledRightly ==
    group'.billing = "balance_paid" /\ group.billing # "balance_paid"
        => ~group.free /\ Settles

LEMMA NotToSettled ==
  ASSUME NEW op \in Stamping \ {"mark_paid"}, NEW tr \in Transition, LegalTr(op, tr),
         ChangesBilling(tr)
  PROVE  tr.to # "balance_paid"
<1>1. CASE op = "allocate" \/ op = "unallocate"
  BY <1>1 DEF LegalTr, Places, ChangesBilling
<1>2. CASE op \in {"release", "cancel", "sweep"}
  BY <1>2 DEF LegalTr
<1>3. CASE op \in {"confirm_free", "resend", "extend"}
  <2>1. \/ tr = [from |-> "allocated", to |-> "free_confirmed"]
        \/ tr = [from |-> "invoiced", to |-> "invoiced"]
    BY <1>3, Zenon DEF LegalTr
  <2> QED
    BY <2>1
<1>4. CASE op \in RosterEdit
  <2>1. ~ChangesBilling(Keep)
    BY DEF ChangesBilling, Keep
  <2>2. tr.to \in {"none", "allocated"}
    BY <1>4, <2>1 DEF LegalTr
  <2> QED
    BY <2>2
<1> QED
  BY <1>1, <1>2, <1>3, <1>4 DEF Stamping

LEMMA CommitStampUnsettled ==
  ASSUME IInv, NEW r \in Req, NEW op \in Stamping \ {"mark_paid"}, NEW S,
         MayCommit(r, op, S), NEW tr, tr = reqs[r].plan.tr, NEW s, s = Stamp(group, tr)
  PROVE  /\ tr \in Transition /\ group \in GroupRow /\ s \in GroupRow
         /\ s.billing = "balance_paid" => group.billing = "balance_paid"
         /\ StampRoster(group, tr).billing = s.billing
<1>1. /\ tr \in Transition /\ LegalTr(op, tr) /\ group \in GroupRow /\ s \in GroupRow
  BY CommitStampRest
<1>2. s.billing = IF ChangesBilling(tr) THEN tr.to ELSE group.billing
  BY <1>1, StampRest
<1>3. StampRoster(group, tr).billing = IF ChangesBilling(tr) THEN tr.to ELSE group.billing
  BY <1>1, RosterRest
<1> QED
  BY <1>1, <1>2, <1>3, NotToSettled

LEMMA AllocationUnsettled ==
  ASSUME IInv, NEW r \in Req, AllocationStep(r)
  PROVE  SettledRightly
<1>1. CASE CommitAllocate(r)
  BY <1>1, CommitStampUnsettled DEF CommitAllocate, Committed, Stamping, SettledRightly
<1>2. CASE CommitUnallocate(r)
  BY <1>2, CommitStampUnsettled DEF CommitUnallocate, Committed, Stamping, SettledRightly
<1>3. CASE CommitConfirmFree(r)
  BY <1>3, CommitStampUnsettled DEF CommitConfirmFree, Committed, Stamping, SettledRightly
<1>4. CASE CommitRelease(r)
  <2> DEFINE s == Stamp(group, reqs[r].plan.tr)
  <2>1. s \in GroupRow /\ (s.billing = "balance_paid" => group.billing = "balance_paid")
    BY <1>4, CommitStampUnsettled DEF CommitRelease, Stamping
  <2>2. group' = ClearInvoice(s)
    BY <1>4 DEF CommitRelease, Committed
  <2> HIDE DEF s
  <2> QED
    BY <2>1, <2>2, ClearRest DEF SettledRightly
<1>5. CASE group' = group
  BY <1>5 DEF SettledRightly
<1> QED
  BY <1>1, <1>2, <1>3, <1>4, <1>5
     DEF AllocationStep, BeginAllocate, DecideAllocate, BeginUnallocate, BeginConfirmFree,
         BeginRelease, SweepList, SweepRelease, Begin, BeginDecided, Decided, db

LEMMA InvoicingUnsettled ==
  ASSUME IInv, BillsCreated, NEW r \in Req, MayBill(r), InvoicingStep(r)
  PROVE  SettledRightly
<1> DEFINE k == Stamp(group, Keep)
           s == Stamp(group, reqs[r].plan.tr)
<1>0. group \in GroupRow
  BY FlightTyped
<1>1. CASE CommitSendInvoice(r)
  BY <1>1, SendInvoiceShape DEF SettledRightly
<1>2. CASE CommitSendCoachInvoice(r) \/ CommitWaiveCoachFee(r) \/ CommitUnwaiveCoachFee(r)
  <2>1. \/ group' = [k EXCEPT !.coachRef = reqs[r].plan.inv]
        \/ group' = [k EXCEPT !.waived = TRUE, !.coachRef = NoInvoice]
        \/ group' = [k EXCEPT !.waived = FALSE]
    BY <1>2 DEF CommitSendCoachInvoice, CommitWaiveCoachFee, CommitUnwaiveCoachFee, Committed
  <2>2. k \in GroupRow /\ k.billing = group.billing
    BY <1>0, KeepRest
  <2> HIDE DEF k
  <2> QED
    BY <2>1, <2>2 DEF SettledRightly, GroupRow
<1>3. CASE CommitMarkBalancePaid(r)
  <2>1. ~group.free
    BY <1>3 DEF CommitMarkBalancePaid, MayCommit, MayBill
  <2> QED
    BY <1>3, <2>1 DEF SettledRightly, Settles
<1>4. CASE CommitDelete(r)
  <2>1. group' = [group EXCEPT !.exists = FALSE]
    BY <1>4 DEF CommitDelete, Committed
  <2> QED
    BY <1>0, <2>1 DEF SettledRightly, GroupRow
<1>5. CASE CommitResendInvoice(r)
  BY <1>5, CommitStampUnsettled DEF CommitResendInvoice, Committed, Stamping, SettledRightly
<1>6. CASE CommitExtendDue(r)
  <2>1. s \in GroupRow /\ (s.billing = "balance_paid" => group.billing = "balance_paid")
    BY <1>6, CommitStampUnsettled DEF CommitExtendDue, Stamping
  <2>2. group' = [s EXCEPT !.due = reqs[r].plan.due]
    BY <1>6 DEF CommitExtendDue, Committed
  <2> HIDE DEF s
  <2> QED
    BY <2>1, <2>2 DEF SettledRightly, GroupRow
<1>7. CASE group' = group
  BY <1>7 DEF SettledRightly
<1> QED
  BY <1>1, <1>2, <1>3, <1>4, <1>5, <1>6, <1>7
     DEF InvoicingStep, BeginSendInvoice, DecideSendInvoice, BeginSendCoachInvoice,
         DecideSendCoachInvoice, BeginWaiveCoachFee, DecideWaiveCoachFee,
         BeginUnwaiveCoachFee, BeginMarkBalancePaid, BeginDelete, DecideDelete,
         BeginResendInvoice, BeginExtendDue, Begin, BeginDecided, Decided, db

LEMMA CamperEditUnsettled ==
  ASSUME IInv, NEW r \in Req, CamperEditStep(r)
  PROVE  SettledRightly
<1> DEFINE k == Stamp(group, Keep)
<1>1. CASE CommitRemoveCamper(r) \/ CommitConvertToDayVisitor(r) \/ CommitEditCamper(r)
           \/ CommitAddCamper(r)
  <2>1. /\ group' = StampRoster(group, reqs[r].plan.tr)
        /\ \E op \in RosterEdit : \E S : MayCommit(r, op, S)
    BY <1>1 DEF CommitRemoveCamper, CommitConvertToDayVisitor, CommitEditCamper,
       CommitAddCamper, RowCommitted, Committed, RosterEdit
  <2>2. PICK op \in RosterEdit : \E S : MayCommit(r, op, S)
    BY <2>1
  <2>3. op \in Stamping \ {"mark_paid"}
    BY DEF Stamping, RosterEdit
  <2> QED
    BY <2>1, <2>2, <2>3, CommitStampUnsettled DEF SettledRightly
<1>2. CASE CommitUpdateDayPass(r) \/ CommitUpdateCoach(r) \/ CommitMakeMainContact(r)
           \/ CommitWaiveDeposit(r)
  <2>1. group' = k \/ group' = [k EXCEPT !.coachRef = NoInvoice]
    BY <1>2 DEF CommitUpdateDayPass, CommitUpdateCoach, CommitMakeMainContact,
       CommitWaiveDeposit, RowCommitted, Committed
  <2>2. k \in GroupRow /\ k.billing = group.billing
    BY FlightTyped, KeepRest
  <2> HIDE DEF k
  <2> QED
    BY <2>1, <2>2 DEF SettledRightly, GroupRow
<1>3. CASE group' = group
  BY <1>3 DEF SettledRightly
<1> QED
  BY <1>1, <1>2, <1>3
     DEF CamperEditStep, BeginRemoveCamper, DecideRemoveCamper, BeginConvertToDayVisitor,
         DecideConvertToDayVisitor, BeginUpdateDayPass, DecideUpdateDayPass,
         BeginUpdateCoach, DecideUpdateCoach, BeginEditCamper, DecideEditCamper,
         BeginAddCamper, DecideAddCamper, BeginMakeMainContact, DecideMakeMainContact,
         BeginWaiveDeposit, DecideWaiveDeposit, Begin, Decided, db

LEMMA OthersUnsettled ==
  ASSUME IInv, SponsorInv,
         \/ \E r \in Req : StripeCall(r) \/ GiveUp(r)
         \/ \E r \in Req, h \in Hook : SettleByHand(r, h)
         \/ \E h \in Hook : ReconcileStep(h)
         \/ CheckoutCompleted \/ CheckoutExpired \/ OverridePaymentStatus \/ DueDatePasses
         \/ \E i \in Invoice : PayInvoice(i) \/ FinalizeDraft(i)
         \/ UNCHANGED vars
  PROVE  SettledRightly
<1>0. group \in GroupRow
  BY DEF IInv, DataInv
<1>1. CASE \E h \in Hook : CommitBalancePaid(h)
  <2>1. PICK h \in Hook : CommitBalancePaid(h)
    BY <1>1
  <2>2. group.billing = hooks[h].tr.from
    BY <2>1 DEF CommitBalancePaid
  <2>3. group.billing # "" /\ Keep.from = ""
    BY <1>0 DEF GroupRow, BillingStatus, Keep
  <2>4. ~group.free
    BY <2>2, <2>3 DEF SponsorInv, PaysFor
  <2> QED
    BY <1>1, <2>4 DEF SettledRightly, Settles
<1>2. CASE \E h \in Hook : CommitCoachFeePaid(h)
  <2> DEFINE k == Stamp(group, Keep)
  <2>1. k \in GroupRow /\ k.billing = group.billing
    BY <1>0, KeepRest
  <2>2. group' = [k EXCEPT !.coachPaid = TRUE]
    BY <1>2 DEF CommitCoachFeePaid
  <2> HIDE DEF k
  <2> QED
    BY <2>1, <2>2 DEF SettledRightly, GroupRow
<1>3. CASE CheckoutCompleted \/ CheckoutExpired \/ OverridePaymentStatus \/ DueDatePasses
  <2>1. \/ group'.billing = group.billing
        \/ CheckoutCompleted /\ group.pif
    BY <1>0, <1>3 DEF CheckoutCompleted, CheckoutExpired, OverridePaymentStatus,
       DueDatePasses, GroupRow
  <2> QED
    BY <2>1 DEF SettledRightly, Settles, SponsorInv
<1>4. CASE \E r \in Req : EnsureCustomer(r)
  BY <1>0, <1>4 DEF EnsureCustomer, SettledRightly, GroupRow
<1>5. CASE group' = group
  BY <1>5 DEF SettledRightly
<1> QED
  BY <1>1, <1>2, <1>3, <1>4, <1>5, SettleByHandAlone
     DEF StripeCall, CreditCustomerBalance, VoidBalanceInvoice, VoidCoachInvoice,
         TryVoidInvoice, TryVoidCoachInvoice, RefundInvoiceKeeping, CreateInvoice,
         CreateInvoicePartly, GiveUp, ReconcileStep, DeliverEvent, SettleOwedDeposits,
         DeliveryFails, PayInvoice, FinalizeDraft, db, vars

----------------------------------------------------------------------------
(* The deliveries, and the whole.                                          *)

(* What the services do of their own leaves Stripe and the deliveries be.  *)
LEMMA ServiceStepsQuiet ==
  ASSUME NEW r \in Req, AllocationStep(r) \/ InvoicingStep(r) \/ CamperEditStep(r)
  PROVE  UNCHANGED <<external, hooks>>
<1>1. ASSUME NEW op, Begin(r, op) PROVE UNCHANGED <<external, hooks>>
  BY <1>1 DEF Begin
<1>2. ASSUME NEW op, NEW plan, BeginDecided(r, op, plan) PROVE UNCHANGED <<external, hooks>>
  BY <1>2 DEF BeginDecided
<1>3. ASSUME NEW plan, Decided(r, plan) PROVE UNCHANGED <<external, hooks>>
  BY <1>3 DEF Decided
<1>4. ASSUME NEW g, NEW cs, Committed(r, g, cs) PROVE UNCHANGED <<external, hooks>>
  BY <1>4 DEF Committed
<1>5. CASE AllocationStep(r)
  BY <1>1, <1>2, <1>3, <1>4, <1>5, Zenon
     DEF AllocationStep, BeginAllocate, DecideAllocate, CommitAllocate, BeginUnallocate,
         CommitUnallocate, BeginConfirmFree, CommitConfirmFree, BeginRelease, SweepList,
         SweepRelease, CommitRelease
<1>6. CASE InvoicingStep(r)
  BY <1>1, <1>2, <1>3, <1>4, <1>6, Zenon
     DEF InvoicingStep, BeginSendInvoice, DecideSendInvoice, CommitSendInvoice,
         BeginSendCoachInvoice, DecideSendCoachInvoice, CommitSendCoachInvoice,
         BeginWaiveCoachFee, DecideWaiveCoachFee, CommitWaiveCoachFee,
         BeginUnwaiveCoachFee, CommitUnwaiveCoachFee, BeginMarkBalancePaid,
         CommitMarkBalancePaid, BeginDelete, DecideDelete, CommitDelete,
         BeginResendInvoice, CommitResendInvoice, BeginExtendDue, CommitExtendDue
<1>7. CASE CamperEditStep(r)
  BY <1>1, <1>3, <1>4, <1>7, Zenon
     DEF CamperEditStep, RowCommitted, BeginRemoveCamper, DecideRemoveCamper,
         CommitRemoveCamper, BeginConvertToDayVisitor, DecideConvertToDayVisitor,
         CommitConvertToDayVisitor, BeginUpdateDayPass, DecideUpdateDayPass,
         CommitUpdateDayPass, BeginUpdateCoach, DecideUpdateCoach, CommitUpdateCoach,
         BeginEditCamper, DecideEditCamper, CommitEditCamper, BeginAddCamper,
         DecideAddCamper, CommitAddCamper, BeginMakeMainContact, DecideMakeMainContact,
         CommitMakeMainContact, BeginWaiveDeposit, DecideWaiveDeposit, CommitWaiveDeposit
<1> QED
  BY <1>5, <1>6, <1>7

LEMMA DeliverySponsor ==
  ASSUME IInv, SponsorInv, SameKind(group, group'), NEW h \in Hook, ReconcileStep(h)
  PROVE  /\ BillsRightly /\ \A x \in Hook : PaysFor(x)'
         /\ reqs' = reqs
<1>0. /\ hooks \in [Hook -> Delivery] /\ hooks[h] \in Delivery /\ events \subseteq Invoice
      /\ group'.free = group.free /\ group'.pif = group.pif
  BY DEF IInv, DataInv, FlightInv, SameKind
<1>1. ASSUME NEW d, hooks' = [hooks EXCEPT ![h] = d],
             d.tr # Keep => ~group.free /\ (d.inv # NoInvoice => ~group.pif)
      PROVE  \A x \in Hook : PaysFor(x)'
  BY <1>0, <1>1 DEF SponsorInv, PaysFor
<1>2. CASE \E i \in Invoice : DeliverEvent(h, i)
  <2>1. PICK i \in Invoice : DeliverEvent(h, i)
    BY <1>2
  <2> DEFINE tr == IF stripe[i].kind = "balance" THEN SettleBalanceTr(group) ELSE Keep
             d  == [NoHook EXCEPT !.pc = "read", !.inv = i, !.tr = tr]
  <2>2. /\ i \in events /\ UNCHANGED <<db, stripe, reqs>>
        /\ events' \subseteq events
        /\ hooks' = hooks \/ hooks' = [hooks EXCEPT ![h] = d]
    BY <2>1, Zenon DEF DeliverEvent, Acknowledge
  <2>3. tr # Keep => ~group.free /\ ~group.pif
    BY <2>2 DEF SponsorInv, SponsoredNeverBilled
  <2> HIDE DEF tr
  <2>4. d.tr = tr
    BY DEF NoHook
  <2> HIDE DEF d
  <2>5. \A x \in Hook : PaysFor(x)'
    BY <1>0, <1>1, <2>2, <2>3, <2>4 DEF SponsorInv, PaysFor
  <2> QED
    BY <2>2, <2>5, UnchangedUse, UseKept
<1>3. CASE SettleOwedDeposits(h)
  <2> DEFINE rows == Owing(campers)
             d    == [hooks[h] EXCEPT !.pc = "locked", !.rows = rows]
  <2>1. hooks' = [hooks EXCEPT ![h] = d] /\ UNCHANGED <<stripe, events, reqs>>
    BY <1>0, <1>3 DEF SettleOwedDeposits, external, Delivery
  <2> HIDE DEF rows
  <2>2. d.tr = hooks[h].tr /\ d.inv = hooks[h].inv
    BY <1>0 DEF Delivery
  <2> HIDE DEF d
  <2> QED
    BY <1>1, <2>1, <2>2, UnchangedUse, UseKept DEF SponsorInv, PaysFor
<1>4. CASE CommitBalancePaid(h) \/ CommitCoachFeePaid(h) \/ DeliveryFails(h)
  <2>1. /\ hooks' = [hooks EXCEPT ![h] = NoHook] /\ UNCHANGED <<stripe, reqs>>
        /\ events' \subseteq events
    BY <1>4, Zenon DEF CommitBalancePaid, CommitCoachFeePaid, DeliveryFails, Acknowledge, external
  <2> QED
    BY <1>1, <2>1, NoHookKeeps, UnchangedUse, UseKept
<1> QED
  BY <1>2, <1>3, <1>4 DEF ReconcileStep

LEMMA StillSponsored ==
  ASSUME SponsorInv, SameKind(group, group'), SettledRightly, BillsRightly,
         \A r \in Req : MayBill(r)', \A h \in Hook : PaysFor(h)'
  PROVE  SponsorInv'
  BY DEF SponsorInv, SameKind, SettledRightly, BillsRightly

LEMMA NextSponsor ==
  ASSUME IInv, BillsCreated, SponsorInv, [Next]_vars
  PROVE  SponsorInv'
<1>0. SameKind(group, group')
  BY NextMoves DEF MovesVersion
<1>1. ASSUME hooks' = hooks PROVE \A h \in Hook : PaysFor(h)'
  BY <1>0, <1>1 DEF SponsorInv, PaysFor, SameKind
<1>2. ASSUME reqs' = reqs PROVE \A r \in Req : MayBill(r)'
  BY <1>0, <1>2 DEF SponsorInv, MayBill, SameKind, Billable
<1>3. CASE \E r \in Req : AllocationStep(r) \/ InvoicingStep(r) \/ CamperEditStep(r)
  <2>1. PICK r \in Req : AllocationStep(r) \/ InvoicingStep(r) \/ CamperEditStep(r)
    BY <1>3
  <2>2. \A x \in Req : MayBill(x)'
    BY <1>0, <2>1, AllocationMayBill, InvoicingMayBill, CamperEditMayBill DEF SponsorInv
  <2>3. SettledRightly
    BY <2>1, AllocationUnsettled, InvoicingUnsettled, CamperEditUnsettled DEF SponsorInv
  <2>4. UNCHANGED <<external, hooks>>
    BY <2>1, ServiceStepsQuiet
  <2>5. BillsRightly
    BY <1>0, <2>4, UnchangedUse, UseKept DEF external
  <2> QED
    BY <1>0, <1>1, <2>2, <2>3, <2>4, <2>5, StillSponsored
<1>4. CASE \E r \in Req : StripeCall(r)
  <2>1. PICK r \in Req : StripeCall(r)
    BY <1>4
  <2>2. hooks' = hooks
    BY <2>1, Zenon DEF StripeCall, EnsureCustomer, CreditCustomerBalance, VoidBalanceInvoice,
       VoidCoachInvoice, TryVoidInvoice, TryVoidCoachInvoice, RefundInvoiceKeeping,
       CreateInvoice, CreateInvoicePartly
  <2> QED
    BY <1>0, <1>1, <2>1, <2>2, StripeCallSponsor, OthersUnsettled, StillSponsored
<1>5. CASE \E r \in Req : GiveUp(r)
  <2>1. PICK r \in Req : GiveUp(r)
    BY <1>5
  <2>2. /\ reqs'[r] = Idle /\ \A x \in Req \ {r} : reqs'[x] = reqs[x]
        /\ UNCHANGED <<stripe, events, hooks>>
    BY <2>1 DEF GiveUp, IInv, FlightInv, external
  <2>3. \A x \in Req : MayBill(x)'
    BY <1>0, <2>2, OthersMayBill DEF SponsorInv, MayBill, Idle
  <2> QED
    BY <1>0, <1>1, <2>1, <2>2, <2>3, OthersUnsettled, UnchangedUse, UseKept, StillSponsored
<1>9. CASE \E r \in Req, h \in Hook : SettleByHand(r, h)
  <2>1. PICK r \in Req, h \in Hook : SettleByHand(r, h)
    BY <1>9
  <2>2. /\ UNCHANGED <<db, external>>
        /\ reqs[r].pc = "work" /\ reqs[r].op = "mark_paid"
        /\ reqs'[r] = Idle /\ \A x \in Req \ {r} : reqs'[x] = reqs[x]
        /\ hooks'[h].inv = NoInvoice /\ \A x \in Hook \ {h} : hooks'[x] = hooks[x]
    BY <2>1, SettleByHandAlone
  <2>3. \A x \in Req : MayBill(x)'
    BY <1>0, <2>2, OthersMayBill DEF SponsorInv, MayBill, Idle
  <2>4. ~group.free
    BY <2>2 DEF SponsorInv, MayBill
  <2>5. \A x \in Hook : PaysFor(x)'
    BY <1>0, <2>2, <2>4 DEF SponsorInv, PaysFor, SameKind
  <2>6. BillsRightly
    BY <1>0, <2>2, UnchangedUse, UseKept DEF external
  <2> QED
    BY <1>0, <1>9, <2>3, <2>5, <2>6, OthersUnsettled, StillSponsored
<1>6. CASE \E h \in Hook : ReconcileStep(h)
  BY <1>0, <1>2, <1>6, DeliverySponsor, OthersUnsettled, StillSponsored
<1>7. CASE \E i \in Invoice : PayInvoice(i) \/ FinalizeDraft(i)
  <2>1. PICK i \in Invoice : PayInvoice(i) \/ FinalizeDraft(i)
    BY <1>7
  <2>2. /\ reqs' = reqs /\ hooks' = hooks
        /\ events' \subseteq events \cup {j \in Invoice : stripe[j].st # "unused"}
    BY <2>1 DEF PayInvoice, FinalizeDraft
  <2> QED
    BY <1>0, <1>1, <1>2, <2>1, <2>2, PaidUse, UseKept, OthersUnsettled, StillSponsored
<1>8. CASE \/ CheckoutCompleted \/ CheckoutExpired \/ OverridePaymentStatus \/ DueDatePasses
           \/ UNCHANGED vars
  <2>1. UNCHANGED <<stripe, events, reqs, hooks>>
    BY <1>8 DEF CheckoutCompleted, CheckoutExpired, OverridePaymentStatus, DueDatePasses,
       external, vars
  <2> QED
    BY <1>0, <1>1, <1>2, <1>8, <2>1, UnchangedUse, UseKept, OthersUnsettled, StillSponsored
<1> QED
  BY <1>3, <1>4, <1>5, <1>6, <1>7, <1>8, <1>9 DEF Next, RequestStep

LEMMA InitSponsor == ASSUME Init PROVE SponsorInv
<1>1. \A r \in Req : reqs[r] = Idle
  BY DEF Init
<1>2. \A i \in Invoice : stripe[i].st = "unused"
  BY DEF Init, NotCreated
<1>3. \A h \in Hook : hooks[h].tr = Keep
  BY NoHookKeeps DEF Init
<1>4. /\ group.billing = "none" /\ ~(group.free /\ group.pif) /\ events = {}
  BY DEF Init, SubmittedGroup, NullGroup
<1> QED
  BY <1>1, <1>2, <1>3, <1>4 DEF SponsorInv, MayBill, Idle, SponsoredNeverBilled, PaysFor

(* However calls overlap, fail, are repeated and skip their version: no    *)
(* invoice is ever created for a sponsored group, and for one that paid in *)
(* full none but the coach's (CanInvoice and CanSendCoachInvoice, asked    *)
(* long before the invoice is created).                                    *)
THEOREM NoBillForSponsored == Spec => []SponsoredNeverBilled
<1>1. Init => BillsCreated /\ SponsorInv
  BY InitBills, InitSponsor
<1>2. IInv /\ BillsCreated /\ SponsorInv /\ [Next]_vars => BillsCreated' /\ SponsorInv'
  BY NextBills, NextSponsor
<1>3. SponsorInv => SponsoredNeverBilled
  BY DEF SponsorInv
<1> QED
  BY <1>1, <1>2, <1>3, Invariance, PTL DEF Spec

----------------------------------------------------------------------------
(* A settled bill stands.                                                  *)

Settled(g) == g.exists /\ g.billing = "balance_paid"

(* What a settled family has been charged for.                             *)
SameCharges ==
    /\ Bill(campers') = Bill(campers)
    /\ group.coachIn => CoachPassengers(campers') = CoachPassengers(campers)

FinalBill == Settled(group) /\ Settled(group') => SameCharges

LEMMA AlikeFinal ==
  ASSUME ChargedAlike(campers, campers', group.coachIn) PROVE FinalBill
  BY DEF ChargedAlike, FinalBill, SameCharges

LEMMA SameCampersFinal == ASSUME campers' = campers PROVE FinalBill
  BY DEF FinalBill, SameCharges

LEMMA AllocationFinal ==
  ASSUME IInv, VersionInv, CarriesVersion, NEW r \in Req, AllocationStep(r),
         Versioned("allocate"), Versioned("unallocate")
  PROVE  FinalBill
<1>1. CASE CommitAllocate(r)
  <2>1. \E S : MayCommit(r, "allocate", S)
    BY <1>1 DEF CommitAllocate
  <2>2. CurrentDecision(group, campers, "allocate", reqs[r].plan) /\ ~group.pif
    BY <2>1, CommitCurrent DEF VersionInv
  <2> QED
    BY <2>2 DEF CurrentDecision, CanAllocate, FinalBill, Settled
<1>2. CASE CommitUnallocate(r)
  <2>1. \E S : MayCommit(r, "unallocate", S)
    BY <1>2 DEF CommitUnallocate
  <2>2. CurrentDecision(group, campers, "unallocate", reqs[r].plan) /\ ~group.pif
    BY <2>1, CommitCurrent DEF VersionInv
  <2> QED
    BY <2>2 DEF CurrentDecision, CanUnallocate, FinalBill, Settled
<1>3. CASE CommitRelease(r)
  <2> DEFINE tr == reqs[r].plan.tr
             s  == Stamp(group, tr)
  <2>1. PICK op \in {"release", "cancel", "sweep"} : MayCommit(r, op, Here(campers))
    BY <1>3 DEF CommitRelease
  <2>2. LegalTr(op, tr) /\ tr \in Transition /\ group \in GroupRow /\ s \in GroupRow
    BY <2>1, CommitStampRest DEF Stamping
  <2>3. tr.from # "" /\ tr.to = "released"
    BY <2>2 DEF LegalTr
  <2>4. tr.from = group.billing
    BY <2>1, <2>3 DEF MayCommit
  <2>5. s.billing = "released"
    BY <2>2, <2>3, <2>4, StampTo
  <2>6. group' = ClearInvoice(s)
    BY <1>3 DEF CommitRelease, Committed
  <2> HIDE DEF s
  <2> QED
    BY <2>2, <2>5, <2>6, ClearRest DEF FinalBill, Settled
<1>4. CASE campers' = campers
  BY <1>4, SameCampersFinal
<1> QED
  BY <1>1, <1>2, <1>3, <1>4
     DEF AllocationStep, BeginAllocate, DecideAllocate, BeginUnallocate, BeginConfirmFree,
         CommitConfirmFree, BeginRelease, SweepList, SweepRelease, Begin, BeginDecided,
         Decided, Committed, db

LEMMA InvoicingFinal ==
  ASSUME IInv, NEW r \in Req, InvoicingStep(r)
  PROVE  FinalBill
<1>1. CASE CommitMarkBalancePaid(r)
  <2>1. campers' = SettleDeposits(campers, Owing(campers))
    BY <1>1 DEF CommitMarkBalancePaid, Committed
  <2> QED
    BY <2>1, SettledAlike, AlikeFinal
<1>2. CASE CommitDelete(r)
  <2>1. group' = [group EXCEPT !.exists = FALSE] /\ group \in GroupRow
    BY <1>2, FlightTyped DEF CommitDelete, Committed
  <2> QED
    BY <2>1 DEF FinalBill, Settled, GroupRow
<1>3. CASE campers' = campers
  BY <1>3, SameCampersFinal
<1> QED
  BY <1>1, <1>2, <1>3
     DEF InvoicingStep, BeginSendInvoice, DecideSendInvoice, CommitSendInvoice,
         BeginSendCoachInvoice, DecideSendCoachInvoice, CommitSendCoachInvoice,
         BeginWaiveCoachFee, DecideWaiveCoachFee, CommitWaiveCoachFee,
         BeginUnwaiveCoachFee, CommitUnwaiveCoachFee, BeginMarkBalancePaid, BeginDelete,
         DecideDelete, BeginResendInvoice, CommitResendInvoice, BeginExtendDue,
         CommitExtendDue, Begin, BeginDecided, Decided, Committed, db

(* An edit that is no repricing, of a camper who pays, leaves them at the  *)
(* same price and in the same seat.                                        *)
LEMMA NotRepricedSame ==
  ASSUME NEW g, ~g.free, NEW old \in CamperRow, NEW new \in CamperRow,
         new.att = old.att, new.coach = old.coach, ~Repriced(g, old, new)
  PROVE  Cost(new) = Cost(old) /\ (CoachEligible(new) <=> CoachEligible(old))
<1>1. CASE ~IsFullWeek(old)
  BY <1>1 DEF IsFullWeek, Cost, CoachEligible
<1>2. CASE IsFullWeek(old)
  <2> DEFINE age   == new.age
             older == [old EXCEPT !.age = age]
  <2>1. /\ older.att = old.att /\ older.coach = old.coach /\ older.age = new.age
    BY DEF CamperRow
  <2>2. /\ PriceFor(old.code, old.age, FALSE) = PriceFor(new.code, new.age, FALSE)
        /\ CoachEligible(old) <=> CoachEligible(older)
    BY <1>2, Zenon DEF Repriced, PriceFor
  <2> HIDE DEF older
  <2>3. CoachEligible(new) <=> CoachEligible(old)
    BY <2>1, <2>2 DEF CoachEligible, IsFullWeek
  <2> QED
    BY <1>2, <2>2, <2>3 DEF IsFullWeek, Cost
<1> QED
  BY <1>1, <1>2

LEMMA OneRowCharged ==
  ASSUME NEW c \in Camper, \A x \in Camper \ {c} : campers'[x] = campers[x],
         campers'[c].st = campers[c].st, Cost(campers'[c]) = Cost(campers[c]),
         CoachEligible(campers'[c]) <=> CoachEligible(campers[c])
  PROVE  FinalBill
<1>1. Here(campers') = Here(campers)
  BY DEF Here
<1>2. \A x \in Here(campers) : /\ Cost(campers'[x]) = Cost(campers[x])
                               /\ CoachEligible(campers'[x]) <=> CoachEligible(campers[x])
  BY DEF Here
<1>3. Bill(campers') = Bill(campers)
  BY <1>1, <1>2 DEF Bill
<1>4. CoachPassengers(campers') = CoachPassengers(campers)
  BY <1>1, <1>2 DEF CoachPassengers
<1> QED
  BY <1>3, <1>4 DEF FinalBill, SameCharges

LEMMA EditFinal ==
  ASSUME IInv, SponsorInv, VersionInv, CarriesVersion, NEW r \in Req, CommitEditCamper(r),
         Versioned("edit")
  PROVE  FinalBill
<1> SUFFICES ASSUME Settled(group) PROVE FinalBill
  BY DEF FinalBill
<1> DEFINE plan  == reqs[r].plan
           c     == plan.target
           old   == campers[c]
           age   == plan.row.age
           code  == IF IsFullWeek(old) THEN plan.row.code ELSE old.code
           row   == [old EXCEPT !.age = age, !.code = code]
           new   == Edited(old, plan.row)
           stale == Repriced(group, old, new)
<1>1. MayCommit(r, "edit", {c}) /\ RowCommitted(r, StampRoster(group, plan.tr), row)
  BY DEF CommitEditCamper
<1>2. CurrentDecision(group, campers, "edit", plan)
  BY <1>1, CommitCurrent
<1>3. CheckReprice(group, stale)
  BY <1>2 DEF CurrentDecision
<1>4. ~stale
  BY <1>3 DEF CheckReprice, BalanceSettled, Settled
<1>5. ~group.free
  BY DEF SponsorInv, Settled
<1>6. /\ c \in Camper /\ old \in CamperRow /\ plan.row \in CamperRow
      /\ campers'[c] = row /\ \A x \in Camper \ {c} : campers'[x] = campers[x]
  BY <1>1, RowCommittedShape, FlightTyped DEF Plan
<1>7. age \in Age /\ code \in Code \cup {NoCode}
  BY <1>6 DEF CamperRow
<1>8. IsFullWeek(old) => row = new
  BY DEF Edited
<1> HIDE DEF code
<1>9. row \in CamperRow /\ row.st = old.st /\ row.att = old.att /\ row.coach = old.coach
  BY <1>6, <1>7 DEF CamperRow
<1> HIDE DEF row, new
<1>10. ~Repriced(group, old, row)
  BY <1>4, <1>8 DEF Repriced
<1>11. Cost(row) = Cost(old) /\ (CoachEligible(row) <=> CoachEligible(old))
  BY <1>5, <1>6, <1>9, <1>10, NotRepricedSame
<1> QED
  BY <1>6, <1>9, <1>11, OneRowCharged

LEMMA CamperEditFinal ==
  ASSUME IInv, SponsorInv, VersionInv, CarriesVersion, NEW r \in Req, CamperEditStep(r),
         \A op \in {"remove", "convert", "edit", "add", "coach"} : Versioned(op)
  PROVE  FinalBill
<1> DEFINE plan == reqs[r].plan
<1>1. CASE CommitRemoveCamper(r)
  <2>1. \E S : MayCommit(r, "remove", S)
    BY <1>1 DEF CommitRemoveCamper
  <2>2. CurrentDecision(group, campers, "remove", plan)
    BY <2>1, CommitCurrent
  <2> QED
    BY <2>2 DEF CurrentDecision, CanRemoveCamper, BalanceSettled, FinalBill, Settled
<1>2. CASE CommitConvertToDayVisitor(r)
  <2>1. \E S : MayCommit(r, "convert", S)
    BY <1>2 DEF CommitConvertToDayVisitor
  <2>2. CurrentDecision(group, campers, "convert", plan)
    BY <2>1, CommitCurrent
  <2> QED
    BY <2>2 DEF CurrentDecision, CanConvertToDayVisitor, BalanceSettled, FinalBill, Settled
<1>3. CASE CommitAddCamper(r)
  <2>1. \E S : MayCommit(r, "add", S)
    BY <1>3 DEF CommitAddCamper
  <2>2. CurrentDecision(group, campers, "add", plan)
    BY <2>1, CommitCurrent
  <2> QED
    BY <2>2 DEF CurrentDecision, CanAddCamper, BalanceSettled, FinalBill, Settled
<1>4. CASE \/ CommitUpdateDayPass(r) \/ CommitUpdateCoach(r) \/ CommitMakeMainContact(r)
           \/ CommitWaiveDeposit(r)
  BY <1>4, OtherEditAlike, AlikeFinal
<1>5. CASE UNCHANGED db
  BY <1>5, SameCampersFinal DEF db
<1> QED
  BY <1>1, <1>2, <1>3, <1>4, <1>5, EditFinal
     DEF CamperEditStep, BeginRemoveCamper, DecideRemoveCamper, BeginConvertToDayVisitor,
         DecideConvertToDayVisitor, BeginUpdateDayPass, DecideUpdateDayPass,
         BeginUpdateCoach, DecideUpdateCoach, BeginEditCamper, DecideEditCamper,
         BeginAddCamper, DecideAddCamper, BeginMakeMainContact, DecideMakeMainContact,
         BeginWaiveDeposit, DecideWaiveDeposit, Begin, Decided

LEMMA OthersFinal ==
  ASSUME IInv,
         \/ \E r \in Req : StripeCall(r) \/ GiveUp(r)
         \/ \E r \in Req, h \in Hook : SettleByHand(r, h)
         \/ \E h \in Hook : ReconcileStep(h)
         \/ CheckoutCompleted \/ CheckoutExpired \/ OverridePaymentStatus \/ DueDatePasses
         \/ \E i \in Invoice : PayInvoice(i) \/ FinalizeDraft(i)
         \/ UNCHANGED vars
  PROVE  FinalBill
<1>1. CASE \E h \in Hook : CommitBalancePaid(h)
  <2>1. PICK h \in Hook : CommitBalancePaid(h)
    BY <1>1
  <2>2. campers' = SettleDeposits(campers, hooks[h].rows)
    BY <2>1 DEF CommitBalancePaid
  <2> QED
    BY <2>2, SettledAlike, AlikeFinal
<1>2. CASE campers' = campers
  BY <1>2, SameCampersFinal
<1> QED
  BY <1>1, <1>2, SettleByHandAlone
     DEF StripeCall, EnsureCustomer, CreditCustomerBalance, VoidBalanceInvoice,
         VoidCoachInvoice, TryVoidInvoice, TryVoidCoachInvoice, RefundInvoiceKeeping,
         CreateInvoice, CreateInvoicePartly, GiveUp, ReconcileStep, DeliverEvent,
         SettleOwedDeposits, CommitCoachFeePaid, DeliveryFails, CheckoutCompleted,
         CheckoutExpired, OverridePaymentStatus, DueDatePasses, PayInvoice,
         FinalizeDraft, db, vars

LEMMA NextFinal ==
  ASSUME IInv, SponsorInv, VersionInv, CarriesVersion, [Next]_vars, SkipOp \cap MoneyOp = {}
  PROVE  FinalBill
<1>1. \A op \in MoneyOp : Versioned(op)
  BY DEF MoneyOp, Versioned
<1>2. CASE \E r \in Req : AllocationStep(r)
  BY <1>1, <1>2, AllocationFinal DEF MoneyOp
<1>3. CASE \E r \in Req : InvoicingStep(r)
  BY <1>3, InvoicingFinal
<1>4. CASE \E r \in Req : CamperEditStep(r)
  BY <1>1, <1>4, CamperEditFinal DEF MoneyOp
<1> QED
  BY <1>2, <1>3, <1>4, OthersFinal DEF Next, RequestStep

(* What a settled family has paid for stands, when the calls that place,   *)
(* bill and edit campers carry a version: nobody joins, leaves, is         *)
(* repriced or, when the coach was on the balance, takes the coach or      *)
(* gives it up; an edit decided before the payment arrived finds the       *)
(* version moved (CheckReprice, CanRemoveCamper, CanChangeCoach).          *)
THEOREM PaidBillStands ==
  ASSUME "override" \notin Op, "full" \notin Kinds, SkipOp \cap MoneyOp = {}
  PROVE  Spec => SettledBillIsFinal
<1> DEFINE Inv == BillsCreated /\ SponsorInv /\ VersionInv /\ CarriesVersion
           Final == (/\ group.exists /\ group.billing = "balance_paid" /\ ~group.pif
                     /\ group'.exists /\ group'.billing = "balance_paid")
                     => /\ Bill(campers') = Bill(campers)
                        /\ group.coachIn => CoachPassengers(campers') = CoachPassengers(campers)
<1>1. Init => Inv
  BY InitBills, InitSponsor, InitCurrent, InitRoster
<1>2. IInv /\ IInv' /\ Inv /\ [Next]_vars => Inv'
  BY NextBills, NextSponsor, NextCurrent, NextCarries
<1>3. IInv /\ Inv /\ [Next]_vars => Final
  BY NextFinal DEF FinalBill, Settled, SameCharges
<1>4. Spec => [][Final]_vars
  <2> HIDE DEF Final, Inv
  <2> QED
    BY <1>1, <1>2, <1>3, Invariance, PTL DEF Spec
<1> QED
  BY <1>4 DEF SettledBillIsFinal

----------------------------------------------------------------------------
(* The coach is charged once or not at all.                                *)

(* What a call has checked before it starts.                               *)
Checked(op) ==
    /\ op = "coach_invoice" => CanSendCoachInvoice(group)
    /\ op \in {"invoice", "add"} => ~group.pif
    /\ op = "mark_paid" => group.pay = "paid" /\ group.billing \in {"allocated", "invoiced"}

(* A call starts, goes on as it is, or ends.                               *)
CallMoves(r) ==
    \/ reqs'[r] = Idle
    \/ reqs'[r].op = reqs[r].op /\ reqs'[r].exp = reqs[r].exp
    \/ UNCHANGED db /\ reqs'[r].exp <= group.version /\ Checked(reqs'[r].op)

LEMMA ServiceMoves ==
  ASSUME IInv, NEW r \in Req,
         \/ \E op : Begin(r, op) /\ Checked(op)
         \/ \E op, plan : BeginDecided(r, op, plan) /\ Checked(op)
         \/ \E plan : Decided(r, plan)
         \/ \E g, cs : Committed(r, g, cs)
  PROVE  \A x \in Req : CallMoves(x)
<1>1. ASSUME NEW x \in Req, reqs'[x] = reqs[x] PROVE CallMoves(x)
  BY <1>1 DEF CallMoves
<1>2. CASE \E op : Begin(r, op) /\ Checked(op)
  BY <1>1, <1>2, BeginShape DEF CallMoves
<1>3. CASE \E op, plan : BeginDecided(r, op, plan) /\ Checked(op)
  BY <1>1, <1>3, BeginDecidedShape DEF CallMoves
<1>4. CASE \E plan : Decided(r, plan)
  BY <1>1, <1>4, DecidedShape DEF CallMoves
<1>5. CASE \E g, cs : Committed(r, g, cs)
  BY <1>1, <1>5, CommittedShape DEF CallMoves
<1> QED
  BY <1>2, <1>3, <1>4, <1>5

LEMMA AllocationCalls ==
  ASSUME IInv, NEW r \in Req, AllocationStep(r)
  PROVE  \A x \in Req : CallMoves(x)
<1>1. CASE SweepList(r)
  <2>1. /\ reqs'[r].op = "sweep" /\ reqs'[r].exp = -1 /\ UNCHANGED db
        /\ \A x \in Req \ {r} : reqs'[x] = reqs[x]
    BY <1>1 DEF SweepList, IInv, FlightInv, Idle, Skip
  <2>2. group.version \in Nat
    BY DEF IInv, DataInv, GroupRow
  <2> QED
    BY <2>1, <2>2 DEF CallMoves, Checked
<1>2. CASE BeginAllocate(r) \/ BeginUnallocate(r) \/ BeginConfirmFree(r) \/ BeginRelease(r)
  BY <1>2, ServiceMoves
     DEF BeginAllocate, BeginUnallocate, BeginConfirmFree, BeginRelease, Checked
<1> QED
  BY <1>1, <1>2, ServiceMoves
     DEF AllocationStep, DecideAllocate, CommitAllocate, CommitUnallocate,
         CommitConfirmFree, SweepRelease, CommitRelease

LEMMA InvoicingCalls ==
  ASSUME IInv, NEW r \in Req, InvoicingStep(r)
  PROVE  \A x \in Req : CallMoves(x)
<1>1. CASE BeginSendInvoice(r) \/ BeginSendCoachInvoice(r) \/ BeginWaiveCoachFee(r)
           \/ BeginDelete(r)
  BY <1>1, ServiceMoves
     DEF BeginSendInvoice, CanInvoice, BeginSendCoachInvoice, BeginWaiveCoachFee,
         BeginDelete, Checked
<1>2. CASE BeginUnwaiveCoachFee(r) \/ BeginMarkBalancePaid(r) \/ BeginResendInvoice(r)
           \/ BeginExtendDue(r)
  BY <1>2, ServiceMoves
     DEF BeginUnwaiveCoachFee, BeginMarkBalancePaid, CanMarkBalancePaid,
         BeginResendInvoice, BeginExtendDue, Checked
<1>3. CASE DecideSendInvoice(r) \/ DecideSendCoachInvoice(r) \/ DecideWaiveCoachFee(r)
           \/ DecideDelete(r)
  <2>1. \E plan : Decided(r, plan)
    BY <1>3 DEF DecideSendInvoice, DecideSendCoachInvoice, DecideWaiveCoachFee, DecideDelete
  <2> QED
    BY <2>1, ServiceMoves
<1>4. CASE CommitSendInvoice(r) \/ CommitSendCoachInvoice(r) \/ CommitWaiveCoachFee(r)
           \/ CommitUnwaiveCoachFee(r) \/ CommitMarkBalancePaid(r) \/ CommitDelete(r)
           \/ CommitResendInvoice(r) \/ CommitExtendDue(r)
  <2>1. \E g, cs : Committed(r, g, cs)
    BY <1>4 DEF CommitSendInvoice, CommitSendCoachInvoice, CommitWaiveCoachFee,
       CommitUnwaiveCoachFee, CommitMarkBalancePaid, CommitDelete, CommitResendInvoice,
       CommitExtendDue
  <2> QED
    BY <2>1, ServiceMoves
<1> QED
  BY <1>1, <1>2, <1>3, <1>4 DEF InvoicingStep

LEMMA CamperEditCalls ==
  ASSUME IInv, NEW r \in Req, CamperEditStep(r)
  PROVE  \A x \in Req : CallMoves(x)
<1>1. CASE BeginRemoveCamper(r) \/ BeginConvertToDayVisitor(r) \/ BeginUpdateDayPass(r)
           \/ BeginUpdateCoach(r) \/ BeginEditCamper(r) \/ BeginAddCamper(r)
           \/ BeginMakeMainContact(r) \/ BeginWaiveDeposit(r)
  BY <1>1, ServiceMoves
     DEF BeginRemoveCamper, BeginConvertToDayVisitor, BeginUpdateDayPass,
         BeginUpdateCoach, BeginEditCamper, BeginAddCamper, BeginMakeMainContact,
         CanAddCamper, BeginWaiveDeposit, Checked
<1>2. CASE DecideRemoveCamper(r) \/ DecideConvertToDayVisitor(r) \/ DecideUpdateDayPass(r)
           \/ DecideUpdateCoach(r) \/ DecideEditCamper(r) \/ DecideAddCamper(r)
           \/ DecideMakeMainContact(r) \/ DecideWaiveDeposit(r)
  <2>1. \E plan : Decided(r, plan)
    BY <1>2, Zenon DEF DecideRemoveCamper, DecideConvertToDayVisitor, DecideUpdateDayPass,
       DecideUpdateCoach, DecideEditCamper, DecideAddCamper, DecideMakeMainContact,
       DecideWaiveDeposit
  <2> QED
    BY <2>1, ServiceMoves
<1>3. CASE CommitRemoveCamper(r) \/ CommitConvertToDayVisitor(r) \/ CommitUpdateDayPass(r)
           \/ CommitUpdateCoach(r) \/ CommitEditCamper(r) \/ CommitAddCamper(r)
           \/ CommitMakeMainContact(r) \/ CommitWaiveDeposit(r)
  <2>1. \E g, cs : Committed(r, g, cs)
    BY <1>3 DEF CommitRemoveCamper, CommitConvertToDayVisitor, CommitUpdateDayPass,
       CommitUpdateCoach, CommitEditCamper, CommitAddCamper, CommitMakeMainContact,
       CommitWaiveDeposit, RowCommitted
  <2> QED
    BY <2>1, ServiceMoves
<1> QED
  BY <1>1, <1>2, <1>3 DEF CamperEditStep

LEMMA NextCalls == ASSUME IInv, [Next]_vars PROVE \A x \in Req : CallMoves(x)
<1>1. CASE reqs' = reqs
  BY <1>1 DEF CallMoves
<1>2. CASE \E r \in Req : GiveUp(r)
  <2>1. PICK r \in Req : GiveUp(r)
    BY <1>2
  <2>2. reqs'[r] = Idle /\ \A x \in Req \ {r} : reqs'[x] = reqs[x]
    BY <2>1 DEF GiveUp, IInv, FlightInv
  <2> QED
    BY <2>2 DEF CallMoves
<1>6. CASE \E r \in Req, h \in Hook : SettleByHand(r, h)
  BY <1>6, SettleByHandAlone DEF CallMoves
<1>3. CASE \E r \in Req : StripeCall(r)
  BY <1>3, StripeCallShape DEF CallMoves, Alike
<1>4. CASE \E h \in Hook : ReconcileStep(h)
  <2>1. reqs' = reqs
    BY <1>4, Zenon DEF ReconcileStep, DeliverEvent, SettleOwedDeposits, CommitBalancePaid,
       CommitCoachFeePaid, DeliveryFails
  <2> QED
    BY <1>1, <2>1
<1>5. CASE \/ CheckoutCompleted \/ CheckoutExpired \/ OverridePaymentStatus \/ DueDatePasses
           \/ \E i \in Invoice : PayInvoice(i) \/ FinalizeDraft(i)
           \/ UNCHANGED vars
  BY <1>1, <1>5 DEF CheckoutCompleted, CheckoutExpired, OverridePaymentStatus,
     DueDatePasses, PayInvoice, FinalizeDraft, vars
<1> QED
  BY <1>2, <1>3, <1>4, <1>5, <1>6, AllocationCalls, InvoicingCalls, CamperEditCalls
     DEF Next, RequestStep

----------------------------------------------------------------------------
(* What a step does to the coach fee.                                      *)

SameCoach(g, h) ==
    h.coachRef = g.coachRef /\ h.coachIn = g.coachIn /\ h.waived = g.waived /\ h.pay = g.pay

(* A separate coach invoice may be forgotten, and only then is the fee     *)
(* waived.                                                                 *)
FeeKept(g, h) ==
    /\ h.coachRef \in {g.coachRef, NoInvoice}
    /\ h.coachIn = g.coachIn
    /\ h.waived => g.waived \/ h.coachRef = NoInvoice
    /\ h.pay = g.pay

LEMMA SameCoachKept == ASSUME NEW g, NEW h, SameCoach(g, h) PROVE FeeKept(g, h)
  BY DEF SameCoach, FeeKept

LEMMA StampCoach ==
  ASSUME NEW g \in GroupRow, NEW tr \in Transition, NEW s, s = Stamp(g, tr)
  PROVE  /\ s \in GroupRow /\ SameCoach(g, s)
         /\ SameCoach(g, ClearInvoice(s)) /\ SameCoach(g, StampRoster(g, tr))
<1>1. s \in GroupRow
  BY StampTyped
<1>2. SameCoach(g, s)
  BY <1>1 DEF Stamp, GroupRow, SameCoach
<1>3. SameCoach(s, ClearInvoice(s))
  BY <1>1 DEF ClearInvoice, GroupRow, SameCoach
<1>4. StampRoster(g, tr) = IF ChangesBilling(tr) THEN ClearInvoice(s) ELSE s
  BY DEF StampRoster
<1> QED
  BY <1>1, <1>2, <1>3, <1>4 DEF SameCoach

LEMMA AllocationFee ==
  ASSUME IInv, NEW r \in Req, AllocationStep(r)
  PROVE  FeeKept(group, group')
<1> DEFINE tr == reqs[r].plan.tr
           s  == Stamp(group, tr)
<1>1. \/ group' = s \/ group' = ClearInvoice(s) \/ group' = group
  BY DEF AllocationStep, BeginAllocate, DecideAllocate, CommitAllocate, BeginUnallocate,
     CommitUnallocate, BeginConfirmFree, CommitConfirmFree, BeginRelease, CommitRelease,
     SweepList, SweepRelease, Begin, BeginDecided, Decided, Committed, db
<1>2. SameCoach(group, s) /\ SameCoach(group, ClearInvoice(s))
  BY FlightTyped, StampCoach
<1> HIDE DEF s
<1> QED
  BY <1>1, <1>2, SameCoachKept DEF SameCoach

LEMMA InvoicingFee ==
  ASSUME IInv, NEW r \in Req, InvoicingStep(r)
  PROVE  FeeKept(group, group') \/ CommitSendInvoice(r) \/ CommitSendCoachInvoice(r)
<1> DEFINE tr == reqs[r].plan.tr
           k  == Stamp(group, Keep)
           s  == Stamp(group, tr)
<1>0. group \in GroupRow /\ tr \in Transition
  BY FlightTyped
<1>1. /\ k \in GroupRow /\ SameCoach(group, k)
      /\ s \in GroupRow /\ SameCoach(group, s)
  BY <1>0, KeepTyped, StampCoach
<1>2. CASE CommitWaiveCoachFee(r) \/ CommitUnwaiveCoachFee(r)
  <2>1. \/ group' = [k EXCEPT !.waived = TRUE, !.coachRef = NoInvoice]
        \/ group' = [k EXCEPT !.waived = FALSE]
    BY <1>2 DEF CommitWaiveCoachFee, CommitUnwaiveCoachFee, Committed
  <2> HIDE DEF k
  <2> QED
    BY <1>1, <2>1 DEF GroupRow, SameCoach, FeeKept
<1>3. CASE CommitMarkBalancePaid(r) \/ CommitResendInvoice(r) \/ CommitExtendDue(r)
  <2>1. group' = s \/ group' = [s EXCEPT !.due = reqs[r].plan.due]
    BY <1>3 DEF CommitMarkBalancePaid, CommitResendInvoice, CommitExtendDue, Committed
  <2> HIDE DEF s
  <2> QED
    BY <1>1, <2>1 DEF GroupRow, SameCoach, FeeKept
<1>4. CASE CommitDelete(r)
  <2>1. group' = [group EXCEPT !.exists = FALSE]
    BY <1>4 DEF CommitDelete, Committed
  <2> QED
    BY <1>0, <2>1 DEF GroupRow, FeeKept
<1>5. CASE group' = group
  BY <1>5 DEF FeeKept
<1> QED
  BY <1>2, <1>3, <1>4, <1>5
     DEF InvoicingStep, BeginSendInvoice, DecideSendInvoice, BeginSendCoachInvoice,
         DecideSendCoachInvoice, BeginWaiveCoachFee, DecideWaiveCoachFee,
         BeginUnwaiveCoachFee, BeginMarkBalancePaid, BeginDelete, DecideDelete,
         BeginResendInvoice, BeginExtendDue, Begin, BeginDecided, Decided, db

LEMMA CamperEditFee ==
  ASSUME IInv, NEW r \in Req, CamperEditStep(r)
  PROVE  FeeKept(group, group')
<1> DEFINE tr == reqs[r].plan.tr
           k  == Stamp(group, Keep)
           s  == StampRoster(group, tr)
<1>1. \/ group' = s \/ group' = k \/ group' = [k EXCEPT !.coachRef = NoInvoice]
      \/ group' = group
  BY Zenon
     DEF CamperEditStep, RowCommitted, Committed, Begin, Decided, db, BeginRemoveCamper,
         DecideRemoveCamper, CommitRemoveCamper, BeginConvertToDayVisitor,
         DecideConvertToDayVisitor, CommitConvertToDayVisitor, BeginUpdateDayPass,
         DecideUpdateDayPass, CommitUpdateDayPass, BeginUpdateCoach, DecideUpdateCoach,
         CommitUpdateCoach, BeginEditCamper, DecideEditCamper, CommitEditCamper,
         BeginAddCamper, DecideAddCamper, CommitAddCamper, BeginMakeMainContact,
         DecideMakeMainContact, CommitMakeMainContact, BeginWaiveDeposit,
         DecideWaiveDeposit, CommitWaiveDeposit
<1>2. /\ k \in GroupRow /\ SameCoach(group, k) /\ SameCoach(group, s)
  BY FlightTyped, KeepTyped, StampCoach
<1> HIDE DEF k, s
<1> QED
  BY <1>1, <1>2 DEF SameCoach, FeeKept, GroupRow

LEMMA OthersFee ==
  ASSUME IInv,
         \/ \E r \in Req : StripeCall(r) \/ GiveUp(r)
         \/ \E r \in Req, h \in Hook : SettleByHand(r, h)
         \/ \E h \in Hook : ReconcileStep(h)
         \/ DueDatePasses
         \/ \E i \in Invoice : PayInvoice(i) \/ FinalizeDraft(i)
         \/ UNCHANGED vars
  PROVE  FeeKept(group, group')
<1>0. group \in GroupRow
  BY DEF IInv, DataInv
<1>1. CASE \E h \in Hook : CommitBalancePaid(h)
  <2>1. PICK h \in Hook : CommitBalancePaid(h)
    BY <1>1
  <2>2. hooks[h].tr \in Transition
    BY DEF IInv, FlightInv, Delivery
  <2>3. SameCoach(group, Stamp(group, hooks[h].tr))
    BY <1>0, <2>2, StampCoach
  <2> QED
    BY <2>1, <2>3, SameCoachKept DEF CommitBalancePaid
<1>2. CASE \E h \in Hook : CommitCoachFeePaid(h)
  <2> DEFINE k == Stamp(group, Keep)
  <2>1. k \in GroupRow /\ SameCoach(group, k)
    BY <1>0, KeepTyped, StampCoach
  <2>2. group' = [k EXCEPT !.coachPaid = TRUE]
    BY <1>2 DEF CommitCoachFeePaid
  <2> HIDE DEF k
  <2> QED
    BY <2>1, <2>2 DEF SameCoach, FeeKept, GroupRow
<1>3. CASE DueDatePasses \/ \E r \in Req : EnsureCustomer(r)
  BY <1>0, <1>3 DEF DueDatePasses, EnsureCustomer, FeeKept, GroupRow
<1>4. CASE group' = group
  BY <1>4 DEF FeeKept
<1> QED
  BY <1>1, <1>2, <1>3, <1>4, SettleByHandAlone
     DEF StripeCall, CreditCustomerBalance, VoidBalanceInvoice, VoidCoachInvoice,
         TryVoidInvoice, TryVoidCoachInvoice, RefundInvoiceKeeping, CreateInvoice,
         CreateInvoicePartly, GiveUp, ReconcileStep, DeliverEvent, SettleOwedDeposits,
         DeliveryFails, PayInvoice, FinalizeDraft, db, vars

(* The two commits that do charge the coach.                               *)
LEMMA SendInvoiceFee ==
  ASSUME IInv, NEW r \in Req, CommitSendInvoice(r)
  PROVE  /\ reqs[r].op = "invoice" /\ group'.coachRef = group.coachRef
         /\ group'.waived = group.waived /\ group'.pay = group.pay
<1> DEFINE plan  == reqs[r].plan
           rides == (plan.riders # {})
           s     == Stamp(group, plan.tr)
<1>1. s \in GroupRow /\ SameCoach(group, s)
  BY FlightTyped, StampCoach
<1>2. group' = [s EXCEPT !.ref = plan.inv, !.due = "future", !.coachIn = rides]
  BY DEF CommitSendInvoice, Committed
<1>3. reqs[r].op = "invoice"
  BY DEF CommitSendInvoice, MayCommit
<1> HIDE DEF s, rides
<1> QED
  BY <1>1, <1>2, <1>3 DEF SameCoach, GroupRow

LEMMA SendCoachFee ==
  ASSUME IInv, NEW r \in Req, CommitSendCoachInvoice(r)
  PROVE  /\ reqs[r].op = "coach_invoice" /\ reqs[r].exp \in {Skip, group.version}
         /\ reqs[r].pc = "work" /\ group.exists
         /\ group'.waived = group.waived /\ group'.pay = group.pay
         /\ group'.coachIn = group.coachIn
<1> DEFINE k == Stamp(group, Keep)
<1>1. k \in GroupRow /\ SameCoach(group, k)
  BY FlightTyped, KeepTyped, StampCoach
<1>2. group' = [k EXCEPT !.coachRef = reqs[r].plan.inv]
  BY DEF CommitSendCoachInvoice, Committed
<1>3. /\ reqs[r].op = "coach_invoice" /\ reqs[r].exp \in {Skip, group.version}
      /\ reqs[r].pc = "work" /\ group.exists
  BY DEF CommitSendCoachInvoice, MayCommit
<1> HIDE DEF k
<1> QED
  BY <1>1, <1>2, <1>3 DEF SameCoach, GroupRow

LEMMA NextFee ==
  ASSUME IInv, [Next]_vars
  PROVE  \/ FeeKept(group, group')
         \/ \E r \in Req : CommitSendInvoice(r) \/ CommitSendCoachInvoice(r)
         \/ CheckoutCompleted \/ CheckoutExpired \/ OverridePaymentStatus
  BY AllocationFee, InvoicingFee, CamperEditFee, OthersFee DEF Next, RequestStep

----------------------------------------------------------------------------
(* A waived fee.  A coach invoice is sent under the version at which the   *)
(* fee was not waived.                                                     *)

Unwaived(r) ==
    reqs[r].op = "coach_invoice" /\ group.exists /\ reqs[r].exp = group.version
        => ~group.waived

WaiverInv ==
    /\ group.waived => group.coachRef = NoInvoice
    /\ ExpectedKnown
    /\ \A r \in Req : Unwaived(r)

LEMMA NextWaiver ==
  ASSUME IInv, IInv', WaiverInv, CarriesVersion, [Next]_vars, "coach_invoice" \notin SkipOp
  PROVE  WaiverInv'
<1>0. MovesVersion
  BY NextMoves
<1>1. /\ group.version \in Nat /\ group'.version \in Nat
      /\ \A r \in Req : reqs[r].exp \in Nat \cup {-1} /\ reqs'[r].exp \in Nat \cup {-1}
  BY DEF IInv, DataInv, FlightInv, GroupRow, Request, Skip
<1>2. ASSUME NEW r \in Req
      PROVE  Unwaived(r)' /\ (group'.exists => reqs'[r].exp <= group'.version)
  <2> SUFFICES ASSUME group'.exists
               PROVE  Unwaived(r)' /\ reqs'[r].exp <= group'.version
    BY DEF Unwaived
  <2>1. group.exists /\ (group'.version > group.version \/ Unversioned)
    BY <1>0 DEF MovesVersion
  <2>2. reqs[r].exp <= group.version /\ Unwaived(r)
    BY <2>1 DEF WaiverInv, ExpectedKnown
  <2>3. CASE reqs'[r] = Idle
    BY <1>1, <2>3 DEF Idle, Skip, Unwaived
  <2>4. CASE reqs'[r].op = reqs[r].op /\ reqs'[r].exp = reqs[r].exp
    <3>1. CASE group'.version > group.version
      BY <1>1, <2>2, <2>4, <3>1 DEF Unwaived
    <3>2. CASE Unversioned
      BY <2>1, <2>2, <2>4, <3>2 DEF Unwaived, Unversioned, SameRules
    <3> QED
      BY <2>1, <3>1, <3>2
  <2>5. CASE UNCHANGED db /\ reqs'[r].exp <= group.version /\ Checked(reqs'[r].op)
    BY <2>5 DEF db, Checked, CanSendCoachInvoice, Unwaived
  <2> QED
    BY <2>3, <2>4, <2>5, NextCalls DEF CallMoves
<1>3. group'.waived => group'.coachRef = NoInvoice
  <2>1. CASE FeeKept(group, group')
    BY <2>1 DEF FeeKept, WaiverInv
  <2>2. CASE \E r \in Req : CommitSendInvoice(r)
    BY <2>2, SendInvoiceFee DEF WaiverInv
  <2>3. CASE \E r \in Req : CommitSendCoachInvoice(r)
    <3>1. PICK r \in Req : CommitSendCoachInvoice(r)
      BY <2>3
    <3>2. /\ reqs[r].op = "coach_invoice" /\ reqs[r].exp \in {Skip, group.version}
          /\ reqs[r].pc = "work" /\ group.exists /\ group'.waived = group.waived
      BY <3>1, SendCoachFee
    <3>3. reqs[r].exp = group.version
      BY <3>2 DEF CarriesVersion, Versioned
    <3> QED
      BY <3>2, <3>3 DEF WaiverInv, Unwaived
  <2>4. CASE CheckoutCompleted \/ CheckoutExpired \/ OverridePaymentStatus
    BY <2>4, CheckoutMoves DEF Unversioned, SameRules, WaiverInv
  <2> QED
    BY <2>1, <2>2, <2>3, <2>4, NextFee
<1> QED
  BY <1>2, <1>3 DEF WaiverInv, ExpectedKnown

LEMMA InitWaiver == ASSUME Init PROVE WaiverInv
<1>1. ~group.waived /\ group.version = 0 /\ \A r \in Req : reqs[r] = Idle
  BY DEF Init, SubmittedGroup, NullGroup
<1> QED
  BY <1>1 DEF WaiverInv, ExpectedKnown, Unwaived, Idle, Skip

(* A waived coach fee has no separate invoice on file, when coach invoices *)
(* are sent with a version: of a waiver and an invoice decided at the same *)
(* time, the second to commit is refused (WaiveCoachFeeMeta and            *)
(* SetCoachInvoiceMeta change no status, so nothing but the version would  *)
(* tell them apart).                                                       *)
THEOREM WaivedFeeNotInvoiced ==
  ASSUME "coach_invoice" \notin SkipOp
  PROVE  Spec => []WaivedHasNoCoachInvoice
<1>1. Init => WaiverInv /\ CarriesVersion
  BY InitWaiver, InitRoster
<1>2. /\ IInv /\ IInv' /\ WaiverInv /\ CarriesVersion /\ [Next]_vars
         => WaiverInv' /\ CarriesVersion'
  BY NextWaiver, NextCarries
<1>3. WaiverInv => WaivedHasNoCoachInvoice
  BY DEF WaiverInv, WaivedHasNoCoachInvoice
<1> QED
  BY <1>1, <1>2, <1>3, Invariance, PTL DEF Spec

----------------------------------------------------------------------------
(* A family that paid in full.  Before its checkout nothing of its coach   *)
(* is charged; the checkout fixes whether the coach was in it.             *)

Awaiting == group.pay = "pending"

(* What a delivery settles it settled before, or is for the invoice its    *)
(* event names, or is what an administrator settles by hand.               *)
LEMMA HookMoves ==
  ASSUME IInv, [Next]_vars, NEW h \in Hook
  PROVE  \/ hooks'[h].tr \in {Keep, hooks[h].tr}
         \/ hooks'[h].inv # NoInvoice
         \/ \E r \in Req : /\ reqs[r].pc = "work" /\ reqs[r].op = "mark_paid"
                            /\ UNCHANGED db
<1>0. hooks \in [Hook -> Delivery]
  BY DEF IInv, FlightInv
<1>1. CASE hooks' = hooks
  BY <1>1
<1>2. ASSUME NEW g \in Hook, NEW i \in Invoice, DeliverEvent(g, i)
      PROVE  hooks'[h] = hooks[h] \/ hooks'[h].inv # NoInvoice
  <2> DEFINE tr == IF stripe[i].kind = "balance" THEN SettleBalanceTr(group) ELSE Keep
             d  == [NoHook EXCEPT !.pc = "read", !.inv = i, !.tr = tr]
  <2>1. hooks' = hooks \/ hooks' = [hooks EXCEPT ![g] = d]
    BY <1>2, Zenon DEF DeliverEvent
  <2> HIDE DEF tr
  <2>2. d.inv # NoInvoice
    BY StoreAssumption DEF NoHook, NoInvoice, Invoice
  <2> HIDE DEF d
  <2> QED
    BY <1>0, <2>1, <2>2
<1>3. ASSUME NEW g \in Hook, SettleOwedDeposits(g)
      PROVE  hooks'[h].tr = hooks[h].tr
  BY <1>0, <1>3 DEF SettleOwedDeposits, Delivery
<1>4. ASSUME NEW g \in Hook, CommitBalancePaid(g) \/ CommitCoachFeePaid(g) \/ DeliveryFails(g)
      PROVE  hooks'[h] = hooks[h] \/ hooks'[h].tr = Keep
  <2>1. hooks' = [hooks EXCEPT ![g] = NoHook]
    BY <1>4, Zenon DEF CommitBalancePaid, CommitCoachFeePaid, DeliveryFails
  <2> QED
    BY <1>0, <2>1, NoHookKeeps
<1>5. CASE \E g \in Hook : ReconcileStep(g)
  BY <1>2, <1>3, <1>4, <1>5 DEF ReconcileStep
<1>6. CASE \E r \in Req, g \in Hook : SettleByHand(r, g)
  BY <1>6, SettleByHandAlone
<1>7. ASSUME NEW r \in Req, RequestStep(r) PROVE hooks' = hooks
  <2>1. ASSUME StripeCall(r) PROVE hooks' = hooks
    BY <2>1, Zenon DEF StripeCall, EnsureCustomer, CreditCustomerBalance, VoidBalanceInvoice,
       VoidCoachInvoice, TryVoidInvoice, TryVoidCoachInvoice, RefundInvoiceKeeping,
       CreateInvoice, CreateInvoicePartly
  <2>2. ASSUME GiveUp(r) PROVE hooks' = hooks
    BY <2>2 DEF GiveUp
  <2> QED
    BY <1>7, <2>1, <2>2, ServiceStepsQuiet DEF RequestStep
<1> QED
  BY <1>1, <1>5, <1>6, <1>7
     DEF Next, PayInvoice, FinalizeDraft, CheckoutCompleted, CheckoutExpired,
         OverridePaymentStatus, DueDatePasses, vars

CoachCall(r) ==
    /\ reqs[r].op # "invoice"
    /\ reqs[r].op = "coach_invoice" => ~Awaiting /\ ~group.coachIn
    /\ reqs[r].op = "mark_paid" => ~Awaiting

FullInv ==
    group.pif =>
      /\ Awaiting => /\ group.billing \notin {"invoiced", "balance_paid"}
                     /\ group.coachRef = NoInvoice
      /\ group.coachIn => group.coachRef = NoInvoice
      /\ \A r \in Req : CoachCall(r)
      /\ \A h \in Hook : hooks[h].tr # Keep => ~Awaiting

LEMMA SettlesSomething ==
  ASSUME IInv, NEW h \in Hook, CommitBalancePaid(h) PROVE hooks[h].tr # Keep
<1>1. group.billing = hooks[h].tr.from
  BY DEF CommitBalancePaid
<1>2. group.billing # "" /\ Keep.from = ""
  BY DEF IInv, DataInv, GroupRow, BillingStatus, Keep
<1> QED
  BY <1>1, <1>2

LEMMA NextFull ==
  ASSUME IInv, BillsCreated, SponsorInv, FullInv, [Next]_vars, "override" \notin Op
  PROVE  FullInv'
<1> SUFFICES ASSUME group.pif PROVE FullInv'
  BY NextMoves DEF FullInv, MovesVersion, SameKind
<1>1. /\ Awaiting => /\ group.billing \notin {"invoiced", "balance_paid"}
                      /\ group.coachRef = NoInvoice
      /\ group.coachIn => group.coachRef = NoInvoice
      /\ \A r \in Req : CoachCall(r)
      /\ \A h \in Hook : hooks[h].tr # Keep => ~Awaiting
  BY DEF FullInv
<1>2. ~\E r \in Req : CommitSendInvoice(r)
  BY <1>1, SendInvoiceFee DEF CoachCall
<1>3. \/ FeeKept(group, group')
      \/ \E r \in Req : CommitSendCoachInvoice(r)
      \/ CheckoutCompleted \/ CheckoutExpired
  BY <1>2, NextFee DEF OverridePaymentStatus
<1>4. ASSUME CheckoutCompleted \/ CheckoutExpired
      PROVE  Awaiting /\ ~Awaiting' /\ group'.coachRef = group.coachRef
  BY <1>4 DEF CheckoutCompleted, CheckoutExpired, Awaiting, IInv, DataInv, GroupRow
<1>5. ASSUME NEW r \in Req, CommitSendCoachInvoice(r)
      PROVE  /\ ~Awaiting /\ ~group.coachIn
             /\ group'.pay = group.pay /\ group'.coachIn = group.coachIn
  BY <1>1, <1>5, SendCoachFee DEF CoachCall
<1>6. ~Awaiting => ~Awaiting' /\ group'.coachIn = group.coachIn
  BY <1>3, <1>4, <1>5 DEF FeeKept, Awaiting
<1>7. Awaiting' => Awaiting /\ group'.coachRef = NoInvoice
  BY <1>1, <1>3, <1>4, <1>5 DEF FeeKept, Awaiting
<1>8. Awaiting' => group'.billing \notin {"invoiced", "balance_paid"}
  <2> SUFFICES ASSUME Awaiting' PROVE group'.billing \notin {"invoiced", "balance_paid"}
    OBVIOUS
  <2>1. Awaiting /\ group.billing \notin {"invoiced", "balance_paid"}
    BY <1>1, <1>7
  <2>2. group'.billing # "invoiced"
    BY <1>2, <2>1, AllocationKeepsBill, InvoicingKeepsBill, CamperEditKeepsBill, OthersKeepBill
       DEF Next, RequestStep, KeepsBill
  <2>3. SettledRightly
    BY AllocationUnsettled, InvoicingUnsettled, CamperEditUnsettled,
       OthersUnsettled DEF Next, RequestStep, SponsorInv
  <2>4. ~Settles
    <3>1. ASSUME NEW r \in Req, CommitMarkBalancePaid(r) PROVE FALSE
      BY <1>1, <2>1, <3>1 DEF CommitMarkBalancePaid, MayCommit, CoachCall
    <3>2. ASSUME NEW h \in Hook, CommitBalancePaid(h) PROVE FALSE
      BY <1>1, <2>1, <3>2, SettlesSomething
    <3> QED
      BY <1>4, <1>7, <3>1, <3>2 DEF Settles
  <2> QED
    BY <2>1, <2>2, <2>3, <2>4 DEF SettledRightly
<1>9. group'.coachIn => group'.coachRef = NoInvoice
  BY <1>1, <1>3, <1>4, <1>5 DEF FeeKept
<1>10. ASSUME NEW r \in Req PROVE CoachCall(r)'
  <2>1. CASE reqs'[r] = Idle
    BY <2>1 DEF Idle, CoachCall
  <2>2. CASE reqs'[r].op = reqs[r].op /\ reqs'[r].exp = reqs[r].exp
    BY <1>1, <1>6, <2>2 DEF CoachCall
  <2>3. CASE UNCHANGED db /\ reqs'[r].exp <= group.version /\ Checked(reqs'[r].op)
    <3>1. group' = group
      BY <2>3 DEF db
    <3>2. reqs'[r].op = "coach_invoice" => ~Awaiting /\ ~group.coachIn
      BY <1>1, <2>3 DEF Checked, CanSendCoachInvoice, CoachAlreadyCharged
    <3>3. reqs'[r].op # "invoice" /\ (reqs'[r].op = "mark_paid" => ~Awaiting)
      BY <2>3 DEF Checked, Awaiting
    <3> QED
      BY <3>1, <3>2, <3>3 DEF CoachCall, Awaiting
  <2> QED
    BY <2>1, <2>2, <2>3, NextCalls DEF CallMoves
<1>11. ASSUME NEW h \in Hook, hooks'[h].tr # Keep PROVE ~Awaiting'
  <2>1. hooks'[h].inv = NoInvoice
    BY <1>11, NextSponsor, NextMoves DEF SponsorInv, PaysFor, MovesVersion, SameKind
  <2>2. CASE hooks'[h].tr = hooks[h].tr
    BY <1>1, <1>6, <1>11, <2>2
  <2>3. CASE \E r \in Req : reqs[r].op = "mark_paid"
    BY <1>1, <1>6, <2>3 DEF CoachCall
  <2> QED
    BY <1>11, <2>1, <2>2, <2>3, HookMoves
<1> QED
  BY <1>7, <1>8, <1>9, <1>10, <1>11 DEF FullInv

LEMMA InitFull == ASSUME Init PROVE FullInv
<1>1. /\ group.billing = "none" /\ group.coachRef = NoInvoice
      /\ \A r \in Req : reqs[r] = Idle
  BY DEF Init, SubmittedGroup, NullGroup
<1>2. \A h \in Hook : hooks[h].tr = Keep
  BY NoHookKeeps DEF Init
<1> QED
  BY <1>1, <1>2 DEF FullInv, CoachCall, Idle

(* A family that paid the coach at signup gets no separate coach invoice,  *)
(* versions or not, unless somebody overrides a payment status: a coach    *)
(* invoice waits for the settlement, and the checkout that settles has     *)
(* already said whether the coach was in it (CoachAlreadyCharged).         *)
THEOREM CoachPaidOnce ==
  ASSUME "override" \notin Op
  PROVE  Spec => []PaidInFullNotChargedCoach
<1>1. Init => BillsCreated /\ SponsorInv /\ FullInv
  BY InitBills, InitSponsor, InitFull
<1>2. IInv /\ BillsCreated /\ SponsorInv /\ FullInv /\ [Next]_vars
        => BillsCreated' /\ SponsorInv' /\ FullInv'
  BY NextBills, NextSponsor, NextFull
<1>3. FullInv => PaidInFullNotChargedCoach
  BY DEF FullInv, PaidInFullNotChargedCoach
<1> QED
  BY <1>1, <1>2, <1>3, Invariance, PTL DEF Spec

-----------------------------------------------------------------------------
(***************************************************************************)
(* The separate coach invoice.                                             *)
(*                                                                         *)
(* The separate coach invoice of a family that paid in full, for every     *)
(* roster, any number of calls and deliveries in flight and every value of *)
(* the bounds: while it can be paid it charges the passengers the group    *)
(* has now.                                                                *)
(***************************************************************************)

(* A family that paid in full is never between its allocation and its      *)
(* payment: nobody invoices it, or settles it by hand, or adds a camper.   *)
InBilling == {"allocated", "invoiced"}

PaidCall(r) ==
    /\ reqs[r].op \notin {"mark_paid", "add"}
    /\ reqs[r].pc = "work" /\ reqs[r].op = "allocate"
         => reqs[r].plan.tr.to = reqs[r].plan.tr.from

PaidInv ==
    group.pif =>
      /\ group.billing \notin InBilling
      /\ \A r \in Req : PaidCall(r)
      /\ \A h \in Hook : hooks[h].tr = Keep

----------------------------------------------------------------------------
(* What moves a group into billing: an allocation, or an invoice.          *)

KeepsOut == group'.billing \in InBilling => group.billing \in InBilling

LEMMA NotIntoBilling ==
  ASSUME NEW op \in Stamping \ {"allocate"}, NEW tr \in Transition, LegalTr(op, tr),
         ChangesBilling(tr), tr.to \in InBilling
  PROVE  tr.from \in InBilling
<1>1. CASE op = "unallocate"
  BY <1>1 DEF LegalTr, Places, ChangesBilling, InBilling
<1>2. CASE op \in {"release", "cancel", "sweep", "mark_paid"}
  BY <1>2 DEF LegalTr, SettlesTr, InBilling
<1>3. CASE op \in {"confirm_free", "resend", "extend"}
  <2>1. \/ tr = [from |-> "allocated", to |-> "free_confirmed"]
        \/ tr = [from |-> "invoiced", to |-> "invoiced"]
    BY <1>3, Zenon DEF LegalTr
  <2> QED
    BY <2>1 DEF InBilling
<1>4. CASE op \in RosterEdit
  <2>1. ~ChangesBilling(Keep)
    BY DEF ChangesBilling, Keep
  <2> QED
    BY <1>4, <2>1 DEF LegalTr, InBilling
<1> QED
  BY <1>1, <1>2, <1>3, <1>4 DEF Stamping

LEMMA CommitStampOut ==
  ASSUME IInv, NEW r \in Req, NEW op \in Stamping, NEW S, MayCommit(r, op, S),
         NEW tr, tr = reqs[r].plan.tr, NEW s, s = Stamp(group, tr),
         op = "allocate" => tr.to = tr.from
  PROVE  /\ tr \in Transition /\ group \in GroupRow /\ s \in GroupRow
         /\ s.billing \in InBilling => group.billing \in InBilling
         /\ StampRoster(group, tr).billing = s.billing
<1>1. /\ tr \in Transition /\ LegalTr(op, tr) /\ group \in GroupRow /\ s \in GroupRow
  BY CommitStampRest
<1>2. s.billing = IF ChangesBilling(tr) THEN tr.to ELSE group.billing
  BY <1>1, StampRest
<1>3. StampRoster(group, tr).billing = IF ChangesBilling(tr) THEN tr.to ELSE group.billing
  BY <1>1, RosterRest
<1>4. ChangesBilling(tr) => tr.from = group.billing /\ op # "allocate"
  BY DEF MayCommit, ChangesBilling
<1> QED
  BY <1>1, <1>2, <1>3, <1>4, NotIntoBilling

LEMMA AllocationOut ==
  ASSUME IInv, NEW r \in Req, PaidCall(r), AllocationStep(r)
  PROVE  KeepsOut
<1>1. CASE CommitAllocate(r)
  BY <1>1, CommitStampOut
     DEF CommitAllocate, MayCommit, Committed, Stamping, KeepsOut, PaidCall
<1>2. CASE CommitUnallocate(r)
  BY <1>2, CommitStampOut DEF CommitUnallocate, Committed, Stamping, KeepsOut
<1>3. CASE CommitConfirmFree(r)
  BY <1>3, CommitStampOut DEF CommitConfirmFree, Committed, Stamping, KeepsOut
<1>4. CASE CommitRelease(r)
  <2> DEFINE s == Stamp(group, reqs[r].plan.tr)
  <2>1. s \in GroupRow /\ (s.billing \in InBilling => group.billing \in InBilling)
    BY <1>4, CommitStampOut DEF CommitRelease, Stamping
  <2>2. group' = ClearInvoice(s)
    BY <1>4 DEF CommitRelease, Committed
  <2> HIDE DEF s
  <2> QED
    BY <2>1, <2>2, ClearRest DEF KeepsOut
<1>5. CASE group' = group
  BY <1>5 DEF KeepsOut
<1> QED
  BY <1>1, <1>2, <1>3, <1>4, <1>5
     DEF AllocationStep, BeginAllocate, DecideAllocate, BeginUnallocate, BeginConfirmFree,
         BeginRelease, SweepList, SweepRelease, Begin, BeginDecided, Decided, db

LEMMA InvoicingOut ==
  ASSUME IInv, NEW r \in Req, InvoicingStep(r), ~CommitSendInvoice(r)
  PROVE  KeepsOut
<1> DEFINE k == Stamp(group, Keep)
           s == Stamp(group, reqs[r].plan.tr)
<1>0. group \in GroupRow
  BY FlightTyped
<1>1. CASE CommitSendCoachInvoice(r) \/ CommitWaiveCoachFee(r) \/ CommitUnwaiveCoachFee(r)
  <2>1. \/ group' = [k EXCEPT !.coachRef = reqs[r].plan.inv]
        \/ group' = [k EXCEPT !.waived = TRUE, !.coachRef = NoInvoice]
        \/ group' = [k EXCEPT !.waived = FALSE]
    BY <1>1 DEF CommitSendCoachInvoice, CommitWaiveCoachFee, CommitUnwaiveCoachFee, Committed
  <2>2. k \in GroupRow /\ k.billing = group.billing
    BY <1>0, KeepRest
  <2> HIDE DEF k
  <2> QED
    BY <2>1, <2>2 DEF KeepsOut, GroupRow
<1>2. CASE CommitMarkBalancePaid(r)
  BY <1>2, CommitStampOut DEF CommitMarkBalancePaid, Committed, Stamping, KeepsOut
<1>3. CASE CommitDelete(r)
  <2>1. group' = [group EXCEPT !.exists = FALSE]
    BY <1>3 DEF CommitDelete, Committed
  <2> QED
    BY <1>0, <2>1 DEF KeepsOut, GroupRow
<1>4. CASE CommitResendInvoice(r)
  BY <1>4, CommitStampOut DEF CommitResendInvoice, Committed, Stamping, KeepsOut
<1>5. CASE CommitExtendDue(r)
  <2>1. s \in GroupRow /\ (s.billing \in InBilling => group.billing \in InBilling)
    BY <1>5, CommitStampOut DEF CommitExtendDue, Stamping
  <2>2. group' = [s EXCEPT !.due = reqs[r].plan.due]
    BY <1>5 DEF CommitExtendDue, Committed
  <2> HIDE DEF s
  <2> QED
    BY <2>1, <2>2 DEF KeepsOut, GroupRow
<1>6. CASE group' = group
  BY <1>6 DEF KeepsOut
<1> QED
  BY <1>1, <1>2, <1>3, <1>4, <1>5, <1>6
     DEF InvoicingStep, BeginSendInvoice, DecideSendInvoice, BeginSendCoachInvoice,
         DecideSendCoachInvoice, BeginWaiveCoachFee, DecideWaiveCoachFee,
         BeginUnwaiveCoachFee, BeginMarkBalancePaid, BeginDelete, DecideDelete,
         BeginResendInvoice, BeginExtendDue, Begin, BeginDecided, Decided, db

LEMMA CamperEditOut ==
  ASSUME IInv, NEW r \in Req, CamperEditStep(r)
  PROVE  KeepsOut
<1> DEFINE k == Stamp(group, Keep)
<1>1. CASE CommitRemoveCamper(r) \/ CommitConvertToDayVisitor(r) \/ CommitEditCamper(r)
           \/ CommitAddCamper(r)
  <2>1. /\ group' = StampRoster(group, reqs[r].plan.tr)
        /\ \E op \in RosterEdit : \E S : MayCommit(r, op, S)
    BY <1>1 DEF CommitRemoveCamper, CommitConvertToDayVisitor, CommitEditCamper,
       CommitAddCamper, RowCommitted, Committed, RosterEdit
  <2>2. PICK op \in RosterEdit : \E S : MayCommit(r, op, S)
    BY <2>1
  <2>3. op \in Stamping \ {"allocate"}
    BY DEF Stamping, RosterEdit
  <2> QED
    BY <2>1, <2>2, <2>3, CommitStampOut DEF KeepsOut
<1>2. CASE CommitUpdateDayPass(r) \/ CommitUpdateCoach(r) \/ CommitMakeMainContact(r)
           \/ CommitWaiveDeposit(r)
  <2>1. group' = k \/ group' = [k EXCEPT !.coachRef = NoInvoice]
    BY <1>2 DEF CommitUpdateDayPass, CommitUpdateCoach, CommitMakeMainContact,
       CommitWaiveDeposit, RowCommitted, Committed
  <2>2. k \in GroupRow /\ k.billing = group.billing
    BY FlightTyped, KeepRest
  <2> HIDE DEF k
  <2> QED
    BY <2>1, <2>2 DEF KeepsOut, GroupRow
<1>3. CASE group' = group
  BY <1>3 DEF KeepsOut
<1> QED
  BY <1>1, <1>2, <1>3
     DEF CamperEditStep, BeginRemoveCamper, DecideRemoveCamper, BeginConvertToDayVisitor,
         DecideConvertToDayVisitor, BeginUpdateDayPass, DecideUpdateDayPass,
         BeginUpdateCoach, DecideUpdateCoach, BeginEditCamper, DecideEditCamper,
         BeginAddCamper, DecideAddCamper, BeginMakeMainContact, DecideMakeMainContact,
         BeginWaiveDeposit, DecideWaiveDeposit, Begin, Decided, db

LEMMA OthersOut ==
  ASSUME IInv, PaidInv, group.pif,
         \/ \E r \in Req : StripeCall(r) \/ GiveUp(r)
         \/ \E r \in Req, h \in Hook : SettleByHand(r, h)
         \/ \E h \in Hook : ReconcileStep(h)
         \/ CheckoutCompleted \/ CheckoutExpired \/ OverridePaymentStatus \/ DueDatePasses
         \/ \E i \in Invoice : PayInvoice(i) \/ FinalizeDraft(i)
         \/ UNCHANGED vars
  PROVE  KeepsOut
<1>0. group \in GroupRow
  BY DEF IInv, DataInv
<1>1. ASSUME NEW h \in Hook, CommitBalancePaid(h) PROVE FALSE
  BY <1>1, SettlesSomething DEF PaidInv
<1>2. CASE \E h \in Hook : CommitCoachFeePaid(h)
  <2> DEFINE k == Stamp(group, Keep)
  <2>1. k \in GroupRow /\ k.billing = group.billing
    BY <1>0, KeepRest
  <2>2. group' = [k EXCEPT !.coachPaid = TRUE]
    BY <1>2 DEF CommitCoachFeePaid
  <2> HIDE DEF k
  <2> QED
    BY <2>1, <2>2 DEF KeepsOut, GroupRow
<1>3. CASE CheckoutCompleted \/ CheckoutExpired \/ OverridePaymentStatus \/ DueDatePasses
  BY <1>0, <1>3 DEF CheckoutCompleted, CheckoutExpired, OverridePaymentStatus,
     DueDatePasses, GroupRow, KeepsOut, InBilling
<1>4. CASE \E r \in Req : EnsureCustomer(r)
  BY <1>0, <1>4 DEF EnsureCustomer, KeepsOut, GroupRow
<1>5. CASE group' = group
  BY <1>5 DEF KeepsOut
<1> QED
  BY <1>1, <1>2, <1>3, <1>4, <1>5, SettleByHandAlone
     DEF StripeCall, CreditCustomerBalance, VoidBalanceInvoice, VoidCoachInvoice,
         TryVoidInvoice, TryVoidCoachInvoice, RefundInvoiceKeeping, CreateInvoice,
         CreateInvoicePartly, GiveUp, ReconcileStep, DeliverEvent, SettleOwedDeposits,
         DeliveryFails, PayInvoice, FinalizeDraft, db, vars

----------------------------------------------------------------------------
(* What a step does with a call: nothing that a decision depends on, the   *)
(* end of it, or a step of the service that handles it.                    *)

LEMMA HandlesOne ==
  ASSUME IInv, NEW r \in Req, Handles(r), NEW x \in Req, x # r
  PROVE  reqs'[x] = reqs[x]
BY BeginShape, BeginDecidedShape, DecidedShape, CommittedShape
   DEF Handles, DecidesOnRead, SweepList, IInv, FlightInv

LEMMA CallHandled ==
  ASSUME IInv, [Next]_vars, NEW r \in Req
  PROVE  Alike(reqs'[r], reqs[r]) \/ reqs'[r] = Idle \/ Handles(r)
<1>1. reqs'[r] = reqs[r] => Alike(reqs'[r], reqs[r])
  BY DEF Alike
<1>2. CASE \E q \in Req : AllocationStep(q) \/ InvoicingStep(q) \/ CamperEditStep(q)
  BY <1>1, <1>2, AllocationHandles, InvoicingHandles, CamperEditHandles, HandlesOne
<1>3. CASE \E q \in Req : StripeCall(q)
  BY <1>3, StripeCallShape
<1>4. CASE \E q \in Req : GiveUp(q)
  BY <1>1, <1>4 DEF GiveUp, IInv, FlightInv
<1>5. CASE reqs' = reqs
  BY <1>1, <1>5
<1>6. CASE \E h \in Hook : ReconcileStep(h)
  BY <1>5, <1>6 DEF ReconcileStep, DeliverEvent, SettleOwedDeposits, CommitBalancePaid,
     CommitCoachFeePaid, DeliveryFails
<1>7. CASE \E q \in Req, h \in Hook : SettleByHand(q, h)
  BY <1>1, <1>7, SettleByHandAlone
<1> QED
  BY <1>2, <1>3, <1>4, <1>5, <1>6, <1>7
     DEF Next, RequestStep, PayInvoice, FinalizeDraft, CheckoutCompleted, CheckoutExpired,
         OverridePaymentStatus, DueDatePasses, vars

LEMMA NextPaid ==
  ASSUME IInv, BillsCreated, SponsorInv, FullInv, PaidInv, [Next]_vars
  PROVE  PaidInv'
<1> SUFFICES ASSUME group.pif PROVE PaidInv'
  BY NextMoves DEF PaidInv, MovesVersion, SameKind
<1>1. group.billing \notin InBilling /\ \A r \in Req : PaidCall(r)
  BY DEF PaidInv
<1>2. ASSUME NEW r \in Req PROVE ~CommitSendInvoice(r)
  BY SendInvoiceFee DEF FullInv, CoachCall
<1>3. KeepsOut
  BY <1>1, <1>2, AllocationOut, InvoicingOut, CamperEditOut, OthersOut DEF Next, RequestStep
<1>4. ASSUME NEW r \in Req PROVE PaidCall(r)'
  <2>1. reqs'[r].op \notin {"mark_paid", "add"}
    <3>1. CallMoves(r) /\ reqs[r].op \notin {"mark_paid", "add"}
      BY <1>1, NextCalls DEF PaidCall
    <3> QED
      BY <1>1, <3>1 DEF CallMoves, Checked, Idle, InBilling
  <2>2. CASE Alike(reqs'[r], reqs[r])
    BY <1>1, <2>1, <2>2 DEF Alike, PaidCall
  <2>3. CASE reqs'[r] = Idle
    BY <2>1, <2>3 DEF Idle, PaidCall
  <2>4. CASE Handles(r)
    <3> SUFFICES ASSUME reqs'[r].pc = "work", reqs'[r].op = "allocate"
                 PROVE  reqs'[r].plan.tr.to = reqs'[r].plan.tr.from
      BY <2>1 DEF PaidCall
    <3>1. DecidesOnRead(r)
      <4>1. ~\E op : Begin(r, op)
        BY BeginShape
      <4>2. ~\E op \in Immediate : \E plan : BeginDecided(r, op, plan)
        BY BeginDecidedShape DEF Immediate
      <4>3. ~SweepList(r)
        BY DEF SweepList, IInv, FlightInv, Idle
      <4>4. ~(reqs[r].op = "sweep" /\ \E plan : Decided(r, plan))
        BY DecidedShape
      <4>5. ~\E g, cs : Committed(r, g, cs)
        BY CommittedShape DEF Idle
      <4> QED
        BY <2>4, <4>1, <4>2, <4>3, <4>4, <4>5 DEF Handles
    <3>2. PICK plan : /\ Decided(r, plan)
                      /\ Guarded(reqs[r].op, reqs[r].snap)
                           => CurrentDecision(reqs[r].snap, campers, reqs[r].op, plan)
      BY <3>1 DEF DecidesOnRead
    <3>3. reqs[r].pc = "read" /\ reqs[r].op = "allocate" /\ reqs'[r].plan = plan
      BY <3>1, <3>2, DecidedShape DEF DecidesOnRead
    <3>4. Guarded("allocate", reqs[r].snap)
      BY <3>3 DEF IInv, FlightInv, PlansLegal, LegalRequest, Guarded
    <3>5. plan.tr = AllocateTr(reqs[r].snap)
      BY <3>2, <3>3, <3>4 DEF CurrentDecision
    <3>6. reqs[r].snap.pif
      BY <3>3 DEF SponsorInv, MayBill, SameKind
    <3> QED
      BY <3>3, <3>5, <3>6 DEF AllocateTr, Move
  <2> QED
    BY <2>2, <2>3, <2>4, CallHandled
<1>5. ASSUME NEW h \in Hook PROVE hooks'[h].tr = Keep
  <2>1. hooks'[h].tr # Keep => hooks'[h].inv = NoInvoice
    BY NextSponsor, NextMoves DEF SponsorInv, PaysFor, MovesVersion, SameKind
  <2>2. hooks[h].tr = Keep /\ ~\E r \in Req : reqs[r].op = "mark_paid"
    BY <1>1 DEF PaidInv, PaidCall
  <2> QED
    BY <2>1, <2>2, HookMoves
<1> QED
  BY <1>1, <1>3, <1>4, <1>5 DEF PaidInv, KeepsOut

LEMMA InitPaid == ASSUME Init PROVE PaidInv
<1>1. group.billing = "none" /\ \A r \in Req : reqs[r] = Idle
  BY DEF Init, SubmittedGroup, NullGroup
<1>2. \A h \in Hook : hooks[h].tr = Keep
  BY NoHookKeeps DEF Init
<1> QED
  BY <1>1, <1>2 DEF PaidInv, PaidCall, Idle, InBilling

----------------------------------------------------------------------------
(* The separate coach invoice.  Once the balance of such a family is       *)
(* settled and the invoice on file, no call that carries the version may   *)
(* change who rides, but one that takes the invoice off the file.          *)

(* The new age, which is all an edit changes of it, leaves the seat.       *)
KeepsSeat(row, age) == CoachEligible([row EXCEPT !.age = age]) = CoachEligible(row)

CoachOnFile(g) == g.coachRef # NoInvoice /\ BalanceSettled(g)

CoachDecided(op, plan) ==
    /\ op \notin {"remove", "convert", "coach_invoice"}
    /\ op = "coach" => plan.clearCoach
    /\ op = "edit"  => KeepsSeat(campers[plan.target], plan.row.age)

Seats(r) ==
    /\ reqs[r].pc = "read" => Guarded(reqs[r].op, reqs[r].snap)
    /\ group.exists /\ reqs[r].exp = group.version =>
         /\ reqs[r].pc = "work" /\ reqs[r].op = "coach_invoice"
              => reqs[r].plan.riders = CoachPassengers(campers)
         /\ CoachOnFile(group) =>
              /\ reqs[r].pc = "read" =>
                   /\ reqs[r].op # "coach_invoice"
                   /\ reqs[r].snap.billing = "balance_paid"
                   /\ reqs[r].snap.coachRef = group.coachRef
                   /\ reqs[r].snap.coachPaid = group.coachPaid
              /\ reqs[r].pc = "work" => CoachDecided(reqs[r].op, reqs[r].plan)

CoachCurrent ==
    group.exists /\ CoachOnFile(group) =>
      /\ group.coachRef \in Invoice
      /\ stripe[group.coachRef].st \in {"open", "void", "paid"}
      /\ stripe[group.coachRef].riders = CoachPassengers(campers)

SeatsInv ==
    /\ group.pif => CoachCurrent
    /\ \A r \in Req : Seats(r)

(* While its coach invoice is on file, the family settles by no step: the  *)
(* checkout that settles it comes before any coach invoice.                *)
LEMMA SettledBefore ==
  ASSUME IInv, BillsCreated, SponsorInv, FullInv, PaidInv, [Next]_vars, group.pif,
         CoachOnFile(group')
  PROVE  BalanceSettled(group)
<1>1. SettledRightly
  BY AllocationUnsettled, InvoicingUnsettled, CamperEditUnsettled, OthersUnsettled
     DEF Next, RequestStep, SponsorInv
<1>2. ASSUME NEW r \in Req, CommitMarkBalancePaid(r) PROVE FALSE
  BY <1>2 DEF CommitMarkBalancePaid, MayCommit, PaidInv, PaidCall
<1>3. ASSUME CheckoutCompleted PROVE FALSE
  <2>1. group.coachRef = NoInvoice
    BY <1>3 DEF CheckoutCompleted, FullInv, Awaiting
  <2>2. group'.coachRef = group.coachRef
    BY <1>3 DEF CheckoutCompleted, IInv, DataInv, GroupRow
  <2> QED
    BY <2>1, <2>2 DEF CoachOnFile
<1>4. ASSUME NEW h \in Hook, CommitBalancePaid(h) PROVE FALSE
  BY <1>4, SettlesSomething DEF PaidInv
<1> QED
  BY <1>1, <1>2, <1>3, <1>4 DEF SettledRightly, Settles, CoachOnFile, BalanceSettled

(* A call that carries the version, and to which nothing happened, keeps   *)
(* what it has decided.                                                    *)
LEMMA AlikeSeats ==
  ASSUME IInv, IInv', ExpectedKnown, MovesVersion, NEW r \in Req, Seats(r),
         Alike(reqs'[r], reqs[r]),
         group.pif /\ CoachOnFile(group') => BalanceSettled(group)
  PROVE  Seats(r)'
<1>1. reqs'[r].pc = "read" => Guarded(reqs'[r].op, reqs'[r].snap)
  BY DEF Seats, Alike
<1> SUFFICES ASSUME group'.exists, reqs'[r].exp = group'.version
             PROVE  Seats(r)'
  BY <1>1 DEF Seats
<1>2. group.exists /\ reqs'[r].exp = reqs[r].exp
  BY DEF MovesVersion, Alike
<1>3. reqs[r].exp <= group.version /\ group.version \in Nat
      /\ reqs[r].exp \in Nat \cup {-1}
  BY <1>2 DEF ExpectedKnown, IInv, DataInv, FlightInv, GroupRow, Request, Skip
<1>4. Unversioned
  BY <1>2, <1>3 DEF MovesVersion
<1>5. reqs[r].exp = group.version /\ campers' = campers
      /\ group'.coachRef = group.coachRef /\ group'.coachPaid = group.coachPaid
  BY <1>2, <1>4 DEF Unversioned, SameRules
<1>6. CoachOnFile(group') => CoachOnFile(group)
  BY <1>4, <1>5 DEF CoachOnFile, BalanceSettled, Unversioned
<1>7. CoachPassengers(campers)' = CoachPassengers(campers)
  BY <1>5
<1>8. reqs'[r].pc = "work" /\ reqs'[r].op = "coach_invoice"
        => reqs'[r].plan.riders = CoachPassengers(campers')
  BY <1>2, <1>5, <1>7 DEF Seats, Alike
<1>9. CoachOnFile(group') /\ reqs'[r].pc = "read" =>
        /\ reqs'[r].op # "coach_invoice"
        /\ reqs'[r].snap.billing = "balance_paid"
        /\ reqs'[r].snap.coachRef = group'.coachRef
        /\ reqs'[r].snap.coachPaid = group'.coachPaid
  BY <1>2, <1>5, <1>6 DEF Seats, Alike
<1>10. CoachOnFile(group') /\ reqs'[r].pc = "work"
         => CoachDecided(reqs[r].op, reqs[r].plan)
  BY <1>2, <1>5, <1>6 DEF Seats, Alike
<1>11. CoachDecided(reqs[r].op, reqs[r].plan) => CoachDecided(reqs[r].op, reqs[r].plan)'
  BY <1>5 DEF CoachDecided, Alike
<1> QED
  BY <1>1, <1>8, <1>9, <1>10, <1>11 DEF Seats, Alike

LEMMA BeginSeats ==
  ASSUME IInv, NEW r \in Req, NEW op, Begin(r, op), Guarded(op, group)
  PROVE  Seats(r)'
<1>1. /\ reqs'[r].pc = "read" /\ reqs'[r].op = op /\ reqs'[r].snap = group
      /\ group' = group
  BY BeginShape DEF db
<1>2. op = "coach_invoice" => group.coachRef = NoInvoice
  BY DEF Guarded, CanSendCoachInvoice, CoachAlreadyCharged
<1> QED
  BY <1>1, <1>2 DEF Seats, CoachOnFile, BalanceSettled

LEMMA BeginDecidedSeats ==
  ASSUME IInv, NEW r \in Req, NEW op \in Immediate, NEW plan, BeginDecided(r, op, plan)
  PROVE  Seats(r)'
<1>1. reqs'[r].pc = "work" /\ reqs'[r].op = op
  BY BeginDecidedShape
<1>2. op \notin {"remove", "convert", "coach_invoice", "coach", "edit"}
  BY DEF Immediate
<1> QED
  BY <1>1, <1>2 DEF Seats, CoachDecided

(* An edit decided on a settled balance reprices nothing, and whoever gets *)
(* a seat or gives it up is repriced.                                      *)
LEMMA NotRepricedSeat ==
  ASSUME NEW g, g.billing = "balance_paid", NEW old \in CamperRow, NEW row \in CamperRow,
         CheckReprice(g, Repriced(g, old, Edited(old, row)))
  PROVE  KeepsSeat(old, row.age)
<1>1. ~Repriced(g, old, Edited(old, row))
  BY DEF CheckReprice, BalanceSettled
<1>2. Edited(old, row).age = row.age
  BY DEF Edited, CamperRow
<1>3. CASE IsFullWeek(old)
  BY <1>1, <1>2, <1>3 DEF Repriced, KeepsSeat
<1>4. CASE ~IsFullWeek(old)
  BY <1>4 DEF KeepsSeat, CoachEligible, IsFullWeek, CamperRow
<1> QED
  BY <1>3, <1>4

LEMMA ReadDecidedSeats ==
  ASSUME IInv, IInv', NEW r \in Req, Seats(r), DecidesOnRead(r)
  PROVE  Seats(r)'
<1> DEFINE g  == reqs[r].snap
           op == reqs[r].op
<1>1. PICK plan : /\ Decided(r, plan)
                  /\ Guarded(op, g) => CurrentDecision(g, campers, op, plan)
                  /\ op = "coach" => plan.clearCoach = HasUnpaidCoachInvoice(g)
  BY DEF DecidesOnRead
<1>2. /\ reqs[r].pc = "read" /\ reqs'[r].pc = "work" /\ reqs'[r].op = op
      /\ reqs'[r].plan = plan /\ reqs'[r].exp = reqs[r].exp
      /\ group' = group /\ campers' = campers
  BY <1>1, DecidedShape DEF DecidesOnRead, db
<1>3. CurrentDecision(g, campers, op, plan)
  BY <1>1, <1>2 DEF Seats
<1>4. op = "coach_invoice" => plan.riders = CoachPassengers(campers)
  BY <1>3 DEF CurrentDecision
<1>5. ASSUME group.exists, reqs[r].exp = group.version, CoachOnFile(group)
      PROVE  CoachDecided(op, plan)
  <2>1. /\ op # "coach_invoice" /\ g.billing = "balance_paid"
        /\ g.coachRef = group.coachRef /\ g.coachPaid = group.coachPaid
    BY <1>2, <1>5 DEF Seats
  <2>2. op \notin {"remove", "convert"}
    BY <1>3, <2>1 DEF CurrentDecision, CanRemoveCamper, CanConvertToDayVisitor, BalanceSettled
  <2>3. op = "coach" => plan.clearCoach
    BY <1>1, <1>3, <1>5, <2>1
       DEF CurrentDecision, CanChangeCoach, HasUnpaidCoachInvoice, CoachOnFile
  <2>4. op = "edit" => KeepsSeat(campers[plan.target], plan.row.age)
    <3>1. plan \in Plan
      BY <1>2 DEF IInv, FlightInv, Request
    <3>2. campers[plan.target] \in CamperRow /\ plan.row \in CamperRow
      BY <3>1 DEF Plan, IInv, DataInv
    <3>3. op = "edit" => CheckReprice(g, Repriced(g, campers[plan.target],
                                         Edited(campers[plan.target], plan.row)))
      BY <1>3 DEF CurrentDecision
    <3> QED
      BY <2>1, <3>2, <3>3, NotRepricedSeat
  <2> QED
    BY <2>1, <2>2, <2>3, <2>4 DEF CoachDecided
<1>6. CoachPassengers(campers)' = CoachPassengers(campers)
  BY <1>2
<1>7. CoachDecided(op, plan) => CoachDecided(op, plan)'
  BY <1>2 DEF CoachDecided
<1>8. reqs'[r].pc = "work" /\ reqs'[r].op = "coach_invoice"
        => reqs'[r].plan.riders = CoachPassengers(campers')
  BY <1>2, <1>4
<1>9. group'.exists /\ reqs'[r].exp = group'.version /\ CoachOnFile(group')
        => CoachDecided(reqs[r].op, reqs[r].plan)'
  BY <1>2, <1>5 DEF CoachDecided
<1> QED
  BY <1>2, <1>8, <1>9 DEF Seats

LEMMA HandledSeats ==
  ASSUME IInv, IInv', NEW r \in Req, Seats(r), Handles(r)
  PROVE  Seats(r)'
<1>1. CASE \E op : Begin(r, op) /\ Guarded(op, group)
  BY <1>1, BeginSeats
<1>2. CASE \E op \in Immediate : \E plan : BeginDecided(r, op, plan)
  BY <1>2, BeginDecidedSeats
<1>3. CASE DecidesOnRead(r)
  BY <1>3, ReadDecidedSeats
<1>4. CASE SweepList(r)
  <2>1. reqs'[r].pc = "listed"
    BY <1>4 DEF SweepList, IInv, FlightInv, Idle
  <2> QED
    BY <2>1 DEF Seats
<1>5. CASE reqs[r].op = "sweep" /\ \E plan : Decided(r, plan)
  <2>1. reqs'[r].pc = "work" /\ reqs'[r].op = "sweep"
    BY <1>5, DecidedShape
  <2> QED
    BY <2>1 DEF Seats, CoachDecided
<1>6. CASE \E g, cs : Committed(r, g, cs)
  <2>1. reqs'[r].pc = "idle"
    BY <1>6, CommittedShape DEF Idle
  <2> QED
    BY <2>1 DEF Seats
<1> QED
  BY <1>1, <1>2, <1>3, <1>4, <1>5, <1>6 DEF Handles

LEMMA NextSeats ==
  ASSUME IInv, IInv', BillsCreated, SponsorInv, FullInv, PaidInv, ExpectedKnown, [Next]_vars,
         NEW r \in Req, Seats(r)
  PROVE  Seats(r)'
<1>1. CASE Alike(reqs'[r], reqs[r])
  BY <1>1, NextMoves, SettledBefore, AlikeSeats
<1>2. CASE reqs'[r] = Idle
  BY <1>2 DEF Seats, Idle
<1>3. CASE Handles(r)
  BY <1>3, HandledSeats
<1> QED
  BY <1>1, <1>2, <1>3, CallHandled

----------------------------------------------------------------------------
(* The passengers of a settled family whose coach invoice is on file are   *)
(* the same after every step.                                              *)

SameSeat(row, new) ==
    /\ new.st = "here" <=> row.st = "here"
    /\ CoachEligible(new) <=> CoachEligible(row)

SameRiders == CoachPassengers(campers') = CoachPassengers(campers)

LEMMA SameSeats ==
  ASSUME \A c \in Camper : SameSeat(campers[c], campers'[c])
  PROVE  SameRiders
BY DEF SameSeat, SameRiders, CoachPassengers, Here

LEMMA OneSeat ==
  ASSUME NEW c \in Camper, \A x \in Camper \ {c} : campers'[x] = campers[x],
         SameSeat(campers[c], campers'[c])
  PROVE  SameRiders
BY SameSeats DEF SameSeat

LEMMA AllocationSeats ==
  ASSUME IInv, NEW r \in Req, AllocationStep(r)
  PROVE  SameRiders
<1>0. campers \in [Camper -> CamperRow]
  BY DEF IInv, DataInv
<1>1. CASE campers' = campers
  BY <1>1 DEF SameRiders
<1>2. CASE \E codes : campers' = [c \in Camper |-> IF codes[c] # NoCode
                                       THEN [campers[c] EXCEPT !.code = codes[c]]
                                       ELSE campers[c]]
  BY <1>0, <1>2, SameSeats DEF SameSeat, CoachEligible, IsFullWeek, CamperRow
<1>3. CASE \E S : campers' = Unplace(campers, S)
  BY <1>0, <1>3, SameSeats DEF Unplace, SameSeat, CoachEligible, IsFullWeek, CamperRow
<1>4. CASE CommitAllocate(r)
  <2> DEFINE codes  == reqs[r].plan.codes
             placed == {c \in Camper : codes[c] # NoCode}
  <2>1. campers' = [c \in Camper |-> IF c \in placed
                                     THEN [campers[c] EXCEPT !.code = codes[c]]
                                     ELSE campers[c]]
    BY <1>4 DEF CommitAllocate, Committed
  <2>2. campers' = [c \in Camper |-> IF codes[c] # NoCode
                                     THEN [campers[c] EXCEPT !.code = codes[c]]
                                     ELSE campers[c]]
    BY <2>1
  <2> QED
    BY <1>2, <2>2
<1> QED
  BY <1>1, <1>3, <1>4
     DEF AllocationStep, BeginAllocate, DecideAllocate, BeginUnallocate,
         CommitUnallocate, BeginConfirmFree, CommitConfirmFree, BeginRelease, CommitRelease,
         SweepList, SweepRelease, Begin, BeginDecided, Decided, Committed, db

LEMMA SettleSeats ==
  ASSUME IInv, NEW S, campers' = SettleDeposits(campers, S)
  PROVE  SameRiders
BY SettledAlike DEF ChargedAlike, SameRiders

LEMMA InvoicingSeats ==
  ASSUME IInv, NEW r \in Req, InvoicingStep(r), group'.exists
  PROVE  SameRiders
<1>1. CASE campers' = campers
  BY <1>1 DEF SameRiders
<1>2. CASE CommitMarkBalancePaid(r)
  BY <1>2, SettleSeats DEF CommitMarkBalancePaid, Committed
<1>3. ASSUME CommitDelete(r) PROVE FALSE
  BY <1>3 DEF CommitDelete, Committed, IInv, DataInv, GroupRow
<1> QED
  BY <1>1, <1>2, <1>3
     DEF InvoicingStep, BeginSendInvoice, DecideSendInvoice, CommitSendInvoice,
         BeginSendCoachInvoice, DecideSendCoachInvoice, CommitSendCoachInvoice,
         BeginWaiveCoachFee, DecideWaiveCoachFee, CommitWaiveCoachFee,
         BeginUnwaiveCoachFee, CommitUnwaiveCoachFee, BeginMarkBalancePaid,
         BeginDelete, DecideDelete, BeginResendInvoice, CommitResendInvoice,
         BeginExtendDue, CommitExtendDue, Begin, BeginDecided, Decided, Committed, db

(* The version a committing call carries is the group's.                   *)
LEMMA CommitSeats ==
  ASSUME IInv, CarriesVersion, NEW r \in Req, Seats(r), NEW op, NEW S, MayCommit(r, op, S),
         Versioned(op), CoachOnFile(group)
  PROVE  CoachDecided(op, reqs[r].plan)
<1>1. reqs[r].exp = group.version
  BY DEF CarriesVersion, MayCommit
<1> QED
  BY <1>1 DEF Seats, MayCommit

LEMMA CamperEditSeats ==
  ASSUME IInv, CarriesVersion, NEW r \in Req, Seats(r), PaidCall(r), CamperEditStep(r),
         CoachOnFile(group), CoachOnFile(group'),
         \A op \in {"remove", "convert", "edit", "coach"} : Versioned(op)
  PROVE  SameRiders
<1> DEFINE plan == reqs[r].plan
           c    == plan.target
<1>0. /\ c \in Camper /\ campers[c] \in CamperRow /\ plan.row \in CamperRow
      /\ campers \in [Camper -> CamperRow]
  BY FlightTyped DEF Plan
<1>1. CASE campers' = campers
  BY <1>1 DEF SameRiders
<1>2. ~CommitRemoveCamper(r) /\ ~CommitConvertToDayVisitor(r)
  BY CommitSeats DEF CommitRemoveCamper, CommitConvertToDayVisitor, CoachDecided
<1>3. ~CommitAddCamper(r)
  BY DEF CommitAddCamper, MayCommit, PaidCall
<1>4. ~CommitUpdateCoach(r)
  <2> SUFFICES ASSUME CommitUpdateCoach(r) PROVE FALSE
    OBVIOUS
  <2>1. plan.clearCoach
    BY CommitSeats DEF CommitUpdateCoach, CoachDecided
  <2>2. group' = [Stamp(group, Keep) EXCEPT !.coachRef = NoInvoice]
    BY <2>1 DEF CommitUpdateCoach, RowCommitted, Committed
  <2>3. Stamp(group, Keep) \in GroupRow
    BY FlightTyped, KeepRest
  <2> QED
    BY <2>2, <2>3 DEF CoachOnFile, GroupRow
<1>5. CASE CommitEditCamper(r)
  <2> DEFINE code == IF IsFullWeek(campers[c]) THEN plan.row.code ELSE campers[c].code
             row  == [campers[c] EXCEPT !.age = plan.row.age, !.code = code]
  <2>1. KeepsSeat(campers[c], plan.row.age)
    BY <1>5, CommitSeats DEF CommitEditCamper, CoachDecided
  <2>2. campers'[c] = row /\ \A x \in Camper \ {c} : campers'[x] = campers[x]
    BY <1>5, RowCommittedShape DEF CommitEditCamper
  <2> HIDE DEF code
  <2>3. SameSeat(campers[c], row)
    BY <1>0, <2>1 DEF KeepsSeat, SameSeat, CoachEligible, IsFullWeek, CamperRow
  <2> HIDE DEF row, c
  <2> QED
    BY <1>0, <2>2, <2>3, OneSeat
<1>6. CASE CommitMakeMainContact(r)
  <2>1. \A x \in Camper : \E main : campers'[x] \in {campers[x], [campers[x] EXCEPT !.main = main]}
    BY <1>6 DEF CommitMakeMainContact, Committed
  <2> QED
    BY <1>0, <2>1, SameSeats DEF SameSeat, CoachEligible, IsFullWeek, CamperRow
<1>7. CASE CommitWaiveDeposit(r)
  <2> DEFINE row == [campers[c] EXCEPT !.owed = 0]
  <2>1. campers'[c] = row /\ \A x \in Camper \ {c} : campers'[x] = campers[x]
    BY <1>7, RowCommittedShape DEF CommitWaiveDeposit
  <2>2. SameSeat(campers[c], row)
    BY <1>0 DEF SameSeat, CoachEligible, IsFullWeek, CamperRow
  <2> HIDE DEF row, c
  <2> QED
    BY <1>0, <2>1, <2>2, OneSeat
<1> QED
  BY <1>1, <1>2, <1>3, <1>4, <1>5, <1>6, <1>7
     DEF CamperEditStep, BeginRemoveCamper, DecideRemoveCamper, BeginConvertToDayVisitor,
         DecideConvertToDayVisitor, BeginUpdateDayPass, DecideUpdateDayPass,
         CommitUpdateDayPass, BeginUpdateCoach, DecideUpdateCoach, BeginEditCamper,
         DecideEditCamper, BeginAddCamper, DecideAddCamper, BeginMakeMainContact,
         DecideMakeMainContact, BeginWaiveDeposit, DecideWaiveDeposit, Begin, Decided,
         Committed, db

LEMMA NextRiders ==
  ASSUME IInv, CarriesVersion, PaidInv, SeatsInv, [Next]_vars, group.pif, group'.exists,
         CoachOnFile(group), CoachOnFile(group'),
         \A op \in {"remove", "convert", "edit", "coach"} : Versioned(op)
  PROVE  SameRiders
<1>1. CASE campers' = campers
  BY <1>1 DEF SameRiders
<1>2. CASE \E r \in Req : AllocationStep(r) \/ InvoicingStep(r) \/ CamperEditStep(r)
  BY <1>2, AllocationSeats, InvoicingSeats, CamperEditSeats DEF SeatsInv, PaidInv
<1>3. CASE \E h \in Hook : ReconcileStep(h)
  BY <1>1, <1>3, SettleSeats DEF ReconcileStep, DeliverEvent, SettleOwedDeposits,
     CommitBalancePaid, CommitCoachFeePaid, DeliveryFails, db
<1>4. CASE \E r \in Req : StripeCall(r)
  BY <1>1, <1>4, StripeCallMoves DEF Unversioned
<1>5. CASE \E r \in Req, h \in Hook : SettleByHand(r, h)
  BY <1>1, <1>5, SettleByHandAlone DEF db
<1> QED
  BY <1>1, <1>2, <1>3, <1>4, <1>5
     DEF Next, RequestStep, GiveUp, PayInvoice, FinalizeDraft, CheckoutCompleted,
         CheckoutExpired, OverridePaymentStatus, DueDatePasses, db, vars

LEMMA NextCoachCurrent ==
  ASSUME IInv, BillsCreated, SponsorInv, FullInv, PaidInv, CarriesVersion, SeatsInv,
         [Next]_vars, "override" \notin Op,
         \A op \in {"remove", "convert", "edit", "coach", "coach_invoice"} : Versioned(op)
  PROVE  (group.pif => CoachCurrent)'
<1> SUFFICES ASSUME group.pif, group'.exists, CoachOnFile(group')
             PROVE  /\ group'.coachRef \in Invoice
                    /\ stripe'[group'.coachRef].st \in {"open", "void", "paid"}
                    /\ stripe'[group'.coachRef].riders = CoachPassengers(campers')
  BY NextMoves DEF CoachCurrent, MovesVersion, SameKind
<1>1. \A i \in Invoice : SameBill(i)
  BY NextBills
<1>2. CASE \E r \in Req : CommitSendCoachInvoice(r)
  <2>1. PICK r \in Req : CommitSendCoachInvoice(r)
    BY <1>2
  <2> DEFINE plan == reqs[r].plan
  <2>2. MayCommit(r, "coach_invoice", {}) /\ stripe' = stripe /\ campers' = campers
        /\ group' = [Stamp(group, Keep) EXCEPT !.coachRef = plan.inv]
    BY <2>1 DEF CommitSendCoachInvoice, Committed, external
  <2>3. group'.coachRef = plan.inv
    BY <2>2, FlightTyped, KeepRest DEF GroupRow
  <2>4. plan.inv \in Invoice /\ SentAs(stripe[plan.inv], plan)
    BY <2>2, <2>3 DEF BillsCreated, BillCreated, MayCommit, CoachOnFile
  <2>5. group.exists /\ reqs[r].exp = group.version
    BY <2>2 DEF MayCommit, CarriesVersion
  <2>6. plan.riders = CoachPassengers(campers)
    BY <2>2, <2>5 DEF SeatsInv, Seats, MayCommit
  <2>7. CoachPassengers(campers') = CoachPassengers(campers)
    BY <2>2
  <2> QED
    BY <2>2, <2>3, <2>4, <2>6, <2>7 DEF SentAs
<1>3. CASE ~\E r \in Req : CommitSendCoachInvoice(r)
  <2>1. group.exists
    BY NextMoves DEF MovesVersion
  <2>2. BalanceSettled(group)
    BY SettledBefore
  <2>3. group'.coachRef = group.coachRef
    <3>1. CASE FeeKept(group, group')
      BY <3>1 DEF FeeKept, CoachOnFile
    <3>2. ASSUME NEW r \in Req, CommitSendInvoice(r) PROVE FALSE
      BY <3>2, SendInvoiceFee DEF FullInv, CoachCall
    <3>3. CASE CheckoutCompleted \/ CheckoutExpired
      BY <3>3 DEF CheckoutCompleted, CheckoutExpired, IInv, DataInv, GroupRow
    <3> QED
      BY <1>3, <3>1, <3>2, <3>3, NextFee DEF OverridePaymentStatus
  <2>4. CoachOnFile(group)
    BY <2>2, <2>3 DEF CoachOnFile
  <2>5. CoachPassengers(campers') = CoachPassengers(campers)
    BY <2>4, NextRiders DEF SameRiders
  <2>6. /\ group.coachRef \in Invoice
        /\ stripe[group.coachRef].st \in {"open", "void", "paid"}
        /\ stripe[group.coachRef].riders = CoachPassengers(campers)
    BY <2>1, <2>4 DEF SeatsInv, CoachCurrent
  <2> QED
    BY <1>1, <2>3, <2>5, <2>6 DEF SameBill
<1> QED
  BY <1>2, <1>3

LEMMA InitSeats == ASSUME Init PROVE SeatsInv
<1>1. group.coachRef = NoInvoice /\ \A r \in Req : reqs[r] = Idle
  BY DEF Init, SubmittedGroup, NullGroup
<1> QED
  BY <1>1 DEF SeatsInv, Seats, CoachCurrent, CoachOnFile, Idle

(* The separate coach invoice of a settled paid-in-full family charges the *)
(* passengers it has now, as long as it can be paid, when the calls that   *)
(* change the passengers or send the invoice carry the version and nobody  *)
(* overrides a payment status (UpdateCamperCoach voids it and takes it off *)
(* the file; the other edits are refused on a settled balance).            *)
THEOREM CoachInvoiceStaysCurrent ==
  ASSUME "override" \notin Op,
         SkipOp \cap {"remove", "convert", "edit", "coach", "coach_invoice"} = {}
  PROVE  Spec => []CoachInvoiceIsCurrent
<1> DEFINE Inv == /\ BillsCreated /\ SponsorInv /\ FullInv /\ PaidInv
                  /\ WaiverInv /\ CarriesVersion /\ SeatsInv
<1>1. Init => Inv
  BY InitBills, InitSponsor, InitFull, InitPaid, InitWaiver, InitRoster, InitSeats
<1>2. \A op \in {"remove", "convert", "edit", "coach", "coach_invoice"} : Versioned(op)
  BY DEF Versioned
<1>3. IInv /\ IInv' /\ Inv /\ [Next]_vars => Inv'
  <2> SUFFICES ASSUME IInv, IInv', Inv, [Next]_vars PROVE Inv'
    OBVIOUS
  <2>1. BillsCreated' /\ SponsorInv' /\ FullInv' /\ PaidInv'
    BY NextBills, NextSponsor, NextFull, NextPaid
  <2>2. WaiverInv' /\ CarriesVersion'
    BY NextWaiver, NextCarries
  <2>3. \A r \in Req : Seats(r)'
    BY NextSeats DEF SeatsInv, WaiverInv
  <2>4. (group.pif => CoachCurrent)'
    BY <1>2, NextCoachCurrent
  <2> QED
    BY <2>1, <2>2, <2>3, <2>4 DEF SeatsInv
<1>4. Inv => CoachInvoiceIsCurrent
  BY DEF SeatsInv, CoachCurrent, CoachOnFile, CoachInvoiceIsCurrent
<1> QED
  BY <1>1, <1>3, <1>4, Invariance, PTL DEF Spec
=============================================================================
