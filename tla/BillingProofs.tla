--------------------------- MODULE BillingProofs ---------------------------
(***************************************************************************)
(* What holds of Billing for every roster, every number of concurrent      *)
(* requests and deliveries, and every value of the bounds, proved with     *)
(* TLAPS: the inductive invariant, what follows from it alone, the         *)
(* refinement of AtomicBilling, and what the version of a group is worth.  *)
(***************************************************************************)
EXTENDS Billing, FiniteSetTheorems, TLAPS

(* The stored data is well typed, the invoice reference agrees with the    *)
(* status, and no deposit is counted twice.                                *)
DataInv ==
    /\ group \in GroupRow
    /\ campers \in [Camper -> CamperRow]
    /\ stripe \in [Invoice -> StripeInvoice]
    /\ credits \in [Camper -> Req \cup {NoCust}]
    /\ events \in SUBSET Invoice
    /\ RefMatchesStatus
    /\ DepositCountedOnce

(* What is in flight is well typed and legal.                              *)
FlightInv ==
    /\ reqs \in [Req -> Request]
    /\ hooks \in [Hook -> Delivery]
    /\ PlansLegal

(* The inductive invariant.                                                *)
IInv == DataInv /\ FlightInv

----------------------------------------------------------------------------
(* The constants used as defaults are well typed.                          *)

LEMMA DefaultCamper == (CHOOSE c \in Camper : TRUE) \in Camper
<1>1. PICK c \in Camper : TRUE
  BY StoreAssumption
<1> QED
  BY <1>1, Zenon

LEMMA DefaultAge == (CHOOSE a \in Age : TRUE) \in Age
<1>1. PICK a \in Age : TRUE
  BY StoreAssumption
<1> QED
  BY <1>1, Zenon

LEMMA NewRowTyped == NewRow \in CamperRow
  BY DefaultAge DEF NewRow, CamperRow, Attendance

LEMMA NullGroupTyped == NullGroup \in GroupRow
  BY DEF NullGroup, GroupRow, PaymentStatus, BillingStatus, InvoiceRef

LEMMA KeepTyped == Keep \in Transition
  BY DEF Keep, Transition

LEMMA NoPlanTyped == NoPlan \in Plan
<1>1. [c \in Camper |-> NoCode] \in [Camper -> Code \cup {NoCode}]
  OBVIOUS
<1>2. << >> \in Seq(Step)
  OBVIOUS
<1> QED
  BY <1>1, <1>2, DefaultCamper, NewRowTyped, KeepTyped DEF NoPlan, Plan, InvoiceRef

LEMMA IdleTyped == Idle \in Request
  BY NoPlanTyped, NullGroupTyped DEF Idle, Request, AllOp

LEMMA IdleLegal == LegalRequest(Idle)
  BY DEF LegalRequest, Idle

LEMMA NoHookTyped == NoHook \in Delivery
  BY KeepTyped DEF NoHook, Delivery, InvoiceRef

----------------------------------------------------------------------------
(* How each kind of step preserves the invariant.                          *)

LEMMA DataKept == DataInv /\ UNCHANGED <<db, external>> => DataInv'
  BY DEF DataInv, db, external, RefMatchesStatus, DepositCountedOnce

LEMMA FlightKept == FlightInv /\ UNCHANGED <<reqs, hooks>> => FlightInv'
  BY DEF FlightInv, PlansLegal

LEMMA RequestKept ==
  ASSUME FlightInv, NEW r \in Req, NEW q \in Request, LegalRequest(q),
         reqs' = [reqs EXCEPT ![r] = q], hooks' = hooks
  PROVE  FlightInv'
<1>1. reqs' \in [Req -> Request]
  BY DEF FlightInv
<1>2. \A x \in Req : LegalRequest(reqs'[x])
  BY DEF FlightInv, PlansLegal
<1> QED
  BY <1>1, <1>2 DEF FlightInv, PlansLegal

(* A call that begins records the group it read.                           *)
LEMMA BeginKept ==
  ASSUME IInv, NEW r \in Req, NEW op \in AllOp, op = "allocate" => CanAllocate(group),
         Begin(r, op)
  PROVE  IInv'
<1>1. PICK exp \in -1..MaxVersion :
        reqs' = [reqs EXCEPT ![r] = [Idle EXCEPT !.pc = "read", !.op = op,
                                                 !.exp = exp, !.snap = group]]
  BY DEF Begin
<1> DEFINE q == [Idle EXCEPT !.pc = "read", !.op = op, !.exp = exp, !.snap = group]
<1>0. exp \in Nat \cup {Skip}
  BY StoreAssumption DEF Skip
<1>2. q \in Request
  BY <1>0, IdleTyped DEF IInv, DataInv, Request
<1>3. LegalRequest(q)
  BY DEF LegalRequest, Idle
<1>4. DataInv' /\ hooks' = hooks
  BY DataKept DEF IInv, Begin
<1> QED
  BY <1>1, <1>2, <1>3, <1>4, RequestKept DEF IInv

LEMMA BeginDecidedKept ==
  ASSUME IInv, NEW r \in Req, NEW op \in AllOp, NEW plan \in Plan, LegalPlan(op, plan),
         BeginDecided(r, op, plan)
  PROVE  IInv'
<1>1. PICK exp \in -1..MaxVersion :
        reqs' = [reqs EXCEPT ![r] = [Idle EXCEPT !.pc = "work", !.op = op,
                                                 !.exp = exp, !.plan = plan]]
  BY DEF BeginDecided
<1> DEFINE q == [Idle EXCEPT !.pc = "work", !.op = op, !.exp = exp, !.plan = plan]
<1>0. exp \in Nat \cup {Skip}
  BY StoreAssumption DEF Skip
<1>2. q \in Request
  BY <1>0, IdleTyped DEF Request
<1>3. LegalRequest(q)
  BY DEF LegalRequest, Idle
<1>4. DataInv' /\ hooks' = hooks
  BY DataKept DEF IInv, BeginDecided
<1> QED
  BY <1>1, <1>2, <1>3, <1>4, RequestKept DEF IInv

LEMMA DecidedKept ==
  ASSUME IInv, NEW r \in Req, NEW plan \in Plan, LegalPlan(reqs[r].op, plan),
         Decided(r, plan)
  PROVE  IInv'
<1> DEFINE q == [reqs[r] EXCEPT !.pc = "work", !.plan = plan, !.snap = NullGroup]
<1>1. reqs' = [reqs EXCEPT ![r] = q] /\ hooks' = hooks
  BY DEF Decided, IInv, FlightInv, Request
<1>2. q \in Request
  BY NullGroupTyped DEF IInv, FlightInv, Request
<1>3. LegalRequest(q)
  BY DEF LegalRequest, IInv, FlightInv, Request
<1>4. DataInv'
  BY DataKept DEF IInv, Decided
<1> QED
  BY <1>1, <1>2, <1>3, <1>4, RequestKept DEF IInv

LEMMA GiveUpKept ==
  ASSUME IInv, NEW r \in Req, GiveUp(r)
  PROVE  IInv'
  BY DataKept, RequestKept, IdleTyped, IdleLegal DEF IInv, GiveUp

(* A commit leaves what it writes well typed.                              *)
LEMMA CommittedKept ==
  ASSUME IInv, NEW r \in Req, NEW g \in GroupRow, NEW cs \in [Camper -> CamperRow],
         RefAgrees(g), \A c \in Camper : CountedOnce(cs[c]), Committed(r, g, cs)
  PROVE  IInv'
<1>1. DataInv'
  BY DEF IInv, DataInv, Committed, external, RefMatchesStatus, RefAgrees, DepositCountedOnce
<1>2. FlightInv'
  BY RequestKept, IdleTyped, IdleLegal DEF IInv, Committed
<1> QED
  BY <1>1, <1>2 DEF IInv

----------------------------------------------------------------------------
(* What a transaction writes.                                              *)

LEMMA StampTyped ==
  ASSUME NEW g \in GroupRow, NEW tr \in Transition
  PROVE  /\ Stamp(g, tr) \in GroupRow
         /\ Stamp(g, tr).billing = IF ChangesBilling(tr) THEN tr.to ELSE g.billing
         /\ Stamp(g, tr).ref = g.ref
<1>1. ~ChangesBilling(Keep)
  BY DEF ChangesBilling, Keep
<1>2. ASSUME ChangesBilling(tr) PROVE tr.to \in BillingStatus
  <2>1. tr \in [from : BillingStatus, to : BillingStatus]
    BY <1>1, <1>2, Zenon DEF Transition
  <2> QED
    BY <2>1
<1> DEFINE status == IF ChangesBilling(tr) THEN tr.to ELSE g.billing
<1>3. status \in BillingStatus /\ g.version + 1 \in Nat
  BY <1>2 DEF GroupRow
<1>4. Stamp(g, tr) = [g EXCEPT !.version = g.version + 1, !.billing = status]
  BY DEF Stamp, GroupRow
<1> HIDE DEF status
<1>5. /\ Stamp(g, tr) \in GroupRow
      /\ Stamp(g, tr).billing = status /\ Stamp(g, tr).ref = g.ref
  BY <1>3, <1>4 DEF GroupRow
<1> QED
  BY <1>5 DEF status

(* A stamp that won its compare-and-set.                                   *)
LEMMA StampTo ==
  ASSUME NEW g \in GroupRow, NEW tr \in Transition, tr.from = g.billing
  PROVE  /\ Stamp(g, tr) \in GroupRow
         /\ Stamp(g, tr).billing = tr.to /\ Stamp(g, tr).ref = g.ref
<1>1. tr.from # ""
  BY DEF GroupRow, BillingStatus
<1>2. (IF ChangesBilling(tr) THEN tr.to ELSE g.billing) = tr.to
  BY <1>1 DEF ChangesBilling
<1> QED
  BY <1>2, StampTyped

LEMMA ClearInvoiceTyped ==
  ASSUME NEW g \in GroupRow
  PROVE  /\ ClearInvoice(g) \in GroupRow
         /\ ClearInvoice(g).billing = g.billing
         /\ ClearInvoice(g).ref = NoInvoice
  BY DEF ClearInvoice, GroupRow, InvoiceRef

LEMMA UnplaceTyped ==
  ASSUME NEW cs \in [Camper -> CamperRow], NEW S, \A c \in Camper : CountedOnce(cs[c])
  PROVE  /\ Unplace(cs, S) \in [Camper -> CamperRow]
         /\ \A c \in Camper : CountedOnce(Unplace(cs, S)[c])
<1>1. ASSUME NEW c \in Camper
      PROVE  [cs[c] EXCEPT !.code = NoCode] \in CamperRow
             /\ CountedOnce([cs[c] EXCEPT !.code = NoCode])
  BY DEF CamperRow, CountedOnce
<1> QED
  BY <1>1 DEF Unplace

(* Settling moves a deposit; it makes none.                                *)
LEMMA SettleDepositsTyped ==
  ASSUME NEW cs \in [Camper -> CamperRow], NEW S, \A c \in Camper : CountedOnce(cs[c])
  PROVE  /\ SettleDeposits(cs, S) \in [Camper -> CamperRow]
         /\ \A c \in Camper : CountedOnce(SettleDeposits(cs, S)[c])
<1>1. ASSUME NEW c \in Camper
      PROVE  /\ [cs[c] EXCEPT !.paid = @ + cs[c].owed, !.owed = 0] \in CamperRow
             /\ CountedOnce([cs[c] EXCEPT !.paid = @ + cs[c].owed, !.owed = 0])
  <2> DEFINE row == cs[c]
             sum == row.paid + row.owed
  <2>1. row \in CamperRow /\ sum \in Nat /\ sum <= Deposit
    BY DEF CamperRow, CountedOnce, Deposit
  <2>2. [row EXCEPT !.paid = sum, !.owed = 0] \in CamperRow
    BY <2>1 DEF CamperRow
  <2>3. CountedOnce([row EXCEPT !.paid = sum, !.owed = 0])
    BY <2>1 DEF CamperRow, CountedOnce, Deposit
  <2> QED
    BY <2>1, <2>2, <2>3 DEF CamperRow
<1> QED
  BY <1>1 DEF SettleDeposits

(* What a request in flight holds.                                         *)
LEMMA FlightTyped ==
  ASSUME IInv, NEW r \in Req
  PROVE  /\ reqs[r] \in Request /\ reqs[r].plan \in Plan /\ reqs[r].snap \in GroupRow
         /\ reqs[r].plan.tr \in Transition /\ LegalRequest(reqs[r])
         /\ group \in GroupRow /\ campers \in [Camper -> CamperRow]
         /\ RefAgrees(group) /\ \A c \in Camper : CountedOnce(campers[c])
  BY DEF IInv, DataInv, FlightInv, PlansLegal, Request, Plan, RefMatchesStatus,
         DepositCountedOnce

(* An empty plan asks for nothing.                                         *)
LEMMA NoPlanCounted == OwedOnly(NoPlan.row) /\ NoPlan.row = NewRow
  BY DEF NoPlan, NewRow, CountedOnce, OwedOnly, Deposit

LEMMA MoveTyped ==
  ASSUME NEW g \in GroupRow, NEW to \in BillingStatus
  PROVE  /\ Move(g, to) \in Transition
         /\ Move(g, to).from = g.billing /\ Move(g, to).to = to /\ g.billing # ""
<1>1. g.billing \in BillingStatus /\ g.billing # ""
  BY DEF GroupRow, BillingStatus
<1> QED
  BY <1>1 DEF Move, Transition

----------------------------------------------------------------------------
(* Allocation and the sweep.                                               *)

LEMMA DecideAllocateKept ==
  ASSUME IInv, NEW r \in Req, DecideAllocate(r)
  PROVE  IInv'
<1> DEFINE g == reqs[r].snap
           tr == AllocateTr(g)
<1>1. PICK codes \in [FullWeek(campers) -> Code] :
        Decided(r, [NoPlan EXCEPT !.tr = tr,
                      !.codes = [c \in Camper |-> IF c \in FullWeek(campers)
                                                  THEN codes[c] ELSE NoCode]])
  BY DEF DecideAllocate
<1> DEFINE placed == [c \in Camper |-> IF c \in FullWeek(campers) THEN codes[c] ELSE NoCode]
           plan   == [NoPlan EXCEPT !.tr = tr, !.codes = placed]
<1>2. g \in GroupRow /\ CanAllocate(g) /\ reqs[r].op = "allocate"
  BY FlightTyped DEF DecideAllocate, Decides, LegalRequest
<1>3. tr \in Transition /\ LegalTr("allocate", tr)
  <2> DEFINE to == IF g.pif THEN g.billing ELSE "allocated"
  <2>1. to \in BillingStatus /\ g.billing \in BillingStatus
    BY <1>2 DEF GroupRow, BillingStatus
  <2>2. tr = Move(g, to)
    BY DEF AllocateTr
  <2>3. g.billing # "invoiced" /\ (g.billing = "balance_paid" => to = g.billing)
    BY <1>2 DEF CanAllocate
  <2> HIDE DEF tr
  <2>4. Places(tr, "allocated")
    BY <1>2, <2>1, <2>2, <2>3, MoveTyped DEF Places, Unbilled, BillingStatus
  <2> QED
    BY <1>2, <2>1, <2>2, <2>4, MoveTyped DEF LegalTr, RosterEdit
<1> HIDE DEF tr
<1>4. plan \in Plan /\ LegalPlan("allocate", plan)
  BY <1>3, NoPlanTyped, NoPlanCounted DEF Plan, LegalPlan
<1> QED
  BY <1>1, <1>2, <1>4, DecidedKept

(* A placement keeps the status or sets an unbilled group's status, so the  *)
(* reference stays absent.                                                 *)
LEMMA PlacedAgrees ==
  ASSUME NEW g \in GroupRow, NEW tr \in Transition, NEW status \in {"allocated", "none"},
         RefAgrees(g), Places(tr, status), tr.from \in {"", g.billing}
  PROVE  Stamp(g, tr) \in GroupRow /\ RefAgrees(Stamp(g, tr))
<1>1. tr.from = g.billing
  BY DEF Places, Unbilled
<1>2. g.billing \in Unbilled \cup {"balance_paid"} /\ (tr.to = g.billing \/ tr.to = status)
  BY <1>1 DEF Places
<1>3. ChangesBilling(tr) => g.billing \in Unbilled /\ tr.to = status
  BY <1>1 DEF Places, ChangesBilling
<1> QED
  BY <1>2, <1>3, StampTyped DEF RefAgrees, Unbilled

LEMMA CommitAllocateKept ==
  ASSUME IInv, NEW r \in Req, CommitAllocate(r)
  PROVE  IInv'
<1> DEFINE plan == reqs[r].plan
           placed == {c \in Camper : plan.codes[c] # NoCode}
           cs == [c \in Camper |-> IF c \in placed
                                   THEN [campers[c] EXCEPT !.code = plan.codes[c]]
                                   ELSE campers[c]]
<1>1. MayCommit(r, "allocate", placed) /\ Committed(r, Stamp(group, plan.tr), cs)
  BY DEF CommitAllocate
<1>2. Places(plan.tr, "allocated")
  BY <1>1, FlightTyped DEF MayCommit, LegalRequest, LegalPlan, LegalTr
<1>3. Stamp(group, plan.tr) \in GroupRow /\ RefAgrees(Stamp(group, plan.tr))
  BY <1>1, <1>2, FlightTyped, PlacedAgrees DEF MayCommit
<1>4. ASSUME NEW c \in Camper
      PROVE  cs[c] \in CamperRow /\ CountedOnce(cs[c])
  <2>1. plan.codes[c] \in Code \cup {NoCode} /\ campers[c] \in CamperRow
    BY FlightTyped DEF Plan
  <2>2. [campers[c] EXCEPT !.code = plan.codes[c]] \in CamperRow
        /\ CountedOnce([campers[c] EXCEPT !.code = plan.codes[c]])
    BY <2>1, FlightTyped DEF CamperRow, CountedOnce
  <2> QED
    BY <2>1, <2>2, FlightTyped
<1>5. cs \in [Camper -> CamperRow] /\ \A c \in Camper : CountedOnce(cs[c])
  BY <1>4
<1> QED
  BY <1>1, <1>3, <1>5, CommittedKept

LEMMA BeginUnallocateKept ==
  ASSUME IInv, NEW r \in Req, BeginUnallocate(r)
  PROVE  IInv'
<1> DEFINE tr   == UnallocateTr(group)
           plan == [NoPlan EXCEPT !.tr = tr]
           to   == IF group.pif THEN group.billing ELSE "none"
<1>1. BeginDecided(r, "unallocate", plan) /\ CanUnallocate(group)
  BY DEF BeginUnallocate
<1>2. group \in GroupRow /\ to \in BillingStatus /\ group.billing \in BillingStatus
  BY FlightTyped DEF GroupRow, BillingStatus
<1>3. tr = Move(group, to)
  BY DEF UnallocateTr
<1>4. group.billing # "invoiced" /\ (group.billing = "balance_paid" => to = group.billing)
  BY <1>1 DEF CanUnallocate
<1> HIDE DEF tr
<1>5. Places(tr, "none")
  BY <1>2, <1>3, <1>4, MoveTyped DEF Places, Unbilled, BillingStatus
<1>6. tr \in Transition /\ LegalTr("unallocate", tr)
  BY <1>2, <1>3, <1>5, MoveTyped DEF LegalTr, RosterEdit
<1>7. plan \in Plan /\ LegalPlan("unallocate", plan)
  BY <1>6, NoPlanTyped, NoPlanCounted DEF Plan, LegalPlan
<1> QED
  BY <1>1, <1>7, BeginDecidedKept DEF AllOp

LEMMA CommitUnallocateKept ==
  ASSUME IInv, NEW r \in Req, CommitUnallocate(r)
  PROVE  IInv'
<1> DEFINE tr == reqs[r].plan.tr
           cs == Unplace(campers, Here(campers))
<1>1. MayCommit(r, "unallocate", Here(campers)) /\ Committed(r, Stamp(group, tr), cs)
  BY DEF CommitUnallocate
<1>2. Places(tr, "none")
  BY <1>1, FlightTyped DEF MayCommit, LegalRequest, LegalPlan, LegalTr
<1>3. Stamp(group, tr) \in GroupRow /\ RefAgrees(Stamp(group, tr))
  BY <1>1, <1>2, FlightTyped, PlacedAgrees DEF MayCommit
<1> QED
  BY <1>1, <1>3, FlightTyped, UnplaceTyped, CommittedKept

LEMMA BeginConfirmFreeKept ==
  ASSUME IInv, NEW r \in Req, BeginConfirmFree(r)
  PROVE  IInv'
<1> DEFINE tr   == ConfirmSponsorshipTr(group)
           plan == [NoPlan EXCEPT !.tr = tr]
<1>1. BeginDecided(r, "confirm_free", plan) /\ group.billing = "allocated"
  BY DEF BeginConfirmFree, CanConfirmSponsorship
<1>2. tr = [from |-> "allocated", to |-> "free_confirmed"]
  BY <1>1 DEF ConfirmSponsorshipTr, Move
<1> HIDE DEF tr
<1>3. tr \in Transition /\ LegalTr("confirm_free", tr)
  BY <1>2 DEF Transition, BillingStatus, LegalTr, RosterEdit
<1>4. plan \in Plan /\ LegalPlan("confirm_free", plan)
  BY <1>3, NoPlanTyped, NoPlanCounted DEF Plan, LegalPlan
<1> QED
  BY <1>1, <1>4, BeginDecidedKept DEF AllOp

LEMMA CommitConfirmFreeKept ==
  ASSUME IInv, NEW r \in Req, CommitConfirmFree(r)
  PROVE  IInv'
<1> DEFINE tr == reqs[r].plan.tr
<1>1. MayCommit(r, "confirm_free", {}) /\ Committed(r, Stamp(group, tr), campers)
  BY DEF CommitConfirmFree
<1>2. tr = [from |-> "allocated", to |-> "free_confirmed"]
  BY <1>1, FlightTyped DEF MayCommit, LegalRequest, LegalPlan, LegalTr
<1>3. group.billing = "allocated"
  BY <1>1, <1>2 DEF MayCommit
<1>4. ChangesBilling(tr) /\ tr.to = "free_confirmed" /\ group.ref = NoInvoice
  BY <1>2, <1>3, FlightTyped DEF ChangesBilling, RefAgrees
<1> HIDE DEF tr
<1>5. tr \in Transition
  BY FlightTyped DEF tr
<1>6. Stamp(group, tr) \in GroupRow /\ RefAgrees(Stamp(group, tr))
  BY <1>4, <1>5, FlightTyped, StampTyped DEF RefAgrees
<1> QED
  BY <1>1, <1>6, FlightTyped, CommittedKept DEF tr

(* Lists of Stripe calls.                                                  *)
LEMMA IfTyped ==
  ASSUME NEW cond, NEW step \in Step
  PROVE  If(cond, step) \in Seq(Step)
<1>1. <<step>> \in Seq(Step) /\ << >> \in Seq(Step)
  OBVIOUS
<1> QED
  BY <1>1 DEF If

LEMMA ReleasePlanLegal ==
  ASSUME NEW g \in GroupRow, NEW op \in {"release", "cancel", "sweep"}
  PROVE  ReleasePlan(g) \in Plan /\ LegalPlan(op, ReleasePlan(g))
<1> DEFINE todo == If(HasOpenInvoice(g), "try_void")
<1>1. todo \in Seq(Step) /\ g.ref \in InvoiceRef
  BY IfTyped DEF Step, GroupRow
<1>2. /\ ReleaseTr(g) \in Transition
      /\ ReleaseTr(g).from # "" /\ ReleaseTr(g).to = "released"
  BY MoveTyped DEF ReleaseTr, BillingStatus
<1>3. LegalTr(op, ReleaseTr(g))
  BY <1>2 DEF LegalTr, RosterEdit
<1> HIDE DEF todo
<1>4. ReleasePlan(g) = [NoPlan EXCEPT !.tr = ReleaseTr(g), !.ref = g.ref, !.todo = todo]
  BY DEF ReleasePlan, todo
<1> QED
  BY <1>1, <1>2, <1>3, <1>4, NoPlanTyped, NoPlanCounted DEF Plan, LegalPlan

LEMMA CommitReleaseKept ==
  ASSUME IInv, NEW r \in Req, CommitRelease(r)
  PROVE  IInv'
<1> DEFINE tr == reqs[r].plan.tr
           g  == ClearInvoice(Stamp(group, tr))
           cs == Unplace(campers, Here(campers))
<1>1. PICK op \in {"release", "cancel", "sweep"} :
        MayCommit(r, op, Here(campers)) /\ Committed(r, g, cs)
  BY DEF CommitRelease
<1>2. tr.from = group.billing /\ tr.to = "released"
  BY <1>1, FlightTyped DEF MayCommit, LegalRequest, LegalPlan, LegalTr
<1>3. Stamp(group, tr) \in GroupRow /\ Stamp(group, tr).billing = "released"
  <2>1. tr \in Transition /\ group \in GroupRow
    BY FlightTyped
  <2> HIDE DEF tr
  <2> QED
    BY <1>2, <2>1, StampTo
<1>4. g \in GroupRow /\ RefAgrees(g)
  BY <1>3, ClearInvoiceTyped DEF RefAgrees
<1> QED
  BY <1>1, <1>4, FlightTyped, UnplaceTyped, CommittedKept

LEMMA SweepListKept ==
  ASSUME IInv, NEW r \in Req, SweepList(r)
  PROVE  IInv'
<1> DEFINE q == [Idle EXCEPT !.pc = "listed", !.op = "sweep"]
<1>1. q \in Request /\ LegalRequest(q)
  BY IdleTyped DEF Request, LegalRequest, AllOp
<1> QED
  BY <1>1, RequestKept, DataKept DEF IInv, SweepList

LEMMA SweepReleaseKept ==
  ASSUME IInv, NEW r \in Req, SweepRelease(r)
  PROVE  IInv'
<1>1. reqs[r].op = "sweep"
  BY FlightTyped DEF SweepRelease, LegalRequest
<1> QED
  BY <1>1, FlightTyped, ReleasePlanLegal, DecidedKept DEF SweepRelease

LEMMA AllocationStepKept ==
  ASSUME IInv, NEW r \in Req, AllocationStep(r)
  PROVE  IInv'
<1>1. CASE BeginAllocate(r)
  BY <1>1, BeginKept DEF BeginAllocate, AllOp
<1>2. CASE BeginRelease(r)
  BY <1>2, FlightTyped, ReleasePlanLegal, BeginDecidedKept DEF BeginRelease, AllOp
<1> QED
  BY <1>1, <1>2, DecideAllocateKept, CommitAllocateKept, BeginUnallocateKept,
     CommitUnallocateKept, BeginConfirmFreeKept, CommitConfirmFreeKept,
     CommitReleaseKept, SweepListKept, SweepReleaseKept DEF AllocationStep

----------------------------------------------------------------------------
(* Invoicing.                                                              *)

(* The price of every placed camper, and of a day visitor, is a Stripe     *)
(* Price the code knows.                                                   *)
LEMMA ChargesTyped ==
  ASSUME NEW cs \in [Camper -> CamperRow], \A c \in FullWeek(cs) : ~IsUnplaced(cs[c])
  PROVE  Charges(cs) \in SUBSET (Camper \X Price)
<1>1. ASSUME NEW c \in Here(cs) PROVE ChargeOf(cs[c]) \in Price
  <2>1. cs[c] \in CamperRow /\ cs[c].code \in Code \cup {NoCode}
    BY DEF Here, CamperRow
  <2>2. CASE IsFullWeek(cs[c])
    <3>1. cs[c].code \in Code
      BY <2>1, <2>2 DEF FullWeek, IsUnplaced
    <3>2. AccommodationPriceID(cs[c].code, cs[c].age) \in Price
      BY <3>1 DEF AccommodationPriceID, Price
    <3> QED
      BY <2>2, <3>2 DEF ChargeOf
  <2>3. CASE ~IsFullWeek(cs[c])
    BY <2>3 DEF ChargeOf, Price
  <2> QED
    BY <2>2, <2>3
<1>2. Here(cs) \subseteq Camper
  BY DEF Here
<1> QED
  BY <1>1, <1>2 DEF Charges

LEMMA CampersOfGroup ==
  ASSUME NEW cs
  PROVE  /\ Here(cs) \subseteq Camper /\ Owing(cs) \subseteq Camper
         /\ FullWeek(cs) \subseteq Camper /\ CoachPassengers(cs) \subseteq Camper
  BY DEF Here, Owing, FullWeek, CoachPassengers

(* Asking for a customer first changes nothing else of a plan.             *)
LEMMA BilledTyped ==
  ASSUME NEW g \in GroupRow, NEW plan \in Plan
  PROVE  /\ Billed(g, plan) \in Plan
         /\ Billed(g, plan).tr = plan.tr /\ Billed(g, plan).row = plan.row
         /\ Billed(g, plan).todo = If(g.cust = NoCust, "customer") \o plan.todo
<1> DEFINE todo == If(g.cust = NoCust, "customer") \o plan.todo
<1>1. todo \in Seq(Step) /\ g.cust \in Req \cup {NoCust}
  BY IfTyped DEF Step, GroupRow, Plan
<1> HIDE DEF todo
<1>2. Billed(g, plan) = [plan EXCEPT !.cust = g.cust, !.todo = todo]
  BY DEF Billed, todo
<1>3. /\ Billed(g, plan) \in Plan
      /\ Billed(g, plan).tr = plan.tr /\ Billed(g, plan).row = plan.row
      /\ Billed(g, plan).todo = todo
  BY <1>1, <1>2 DEF Plan
<1> QED
  BY <1>3 DEF todo

LEMMA DecideSendInvoiceKept ==
  ASSUME IInv, NEW r \in Req, DecideSendInvoice(r)
  PROVE  IInv'
<1> DEFINE g      == reqs[r].snap
           riders == IF g.waived THEN {} ELSE CoachPassengers(campers)
           inner  == [NoPlan EXCEPT !.tr = InvoiceTr(g), !.todo = <<"create">>,
                                    !.kind = "balance", !.lines = Charges(campers),
                                    !.deposits = Owing(campers), !.riders = riders]
           plan   == Billed(g, inner)
<1>1. /\ reqs[r].op = "invoice" /\ Decided(r, plan)
      /\ CanInvoice(g, FullWeek(campers) # {})
      /\ \A c \in FullWeek(campers) : ~IsUnplaced(campers[c])
  BY DEF DecideSendInvoice, Decides
<1>2. g \in GroupRow /\ campers \in [Camper -> CamperRow]
  BY FlightTyped
<1>3. InvoiceTr(g) \in Transition /\ LegalTr("invoice", InvoiceTr(g))
  <2>1. g.billing \in Unbilled
    BY <1>1, <1>2 DEF CanInvoice, GroupRow, BillingStatus, Unbilled
  <2> QED
    BY <1>2, <2>1, MoveTyped DEF InvoiceTr, BillingStatus, LegalTr, RosterEdit
<1>4. /\ Charges(campers) \in SUBSET (Camper \X Price)
      /\ Owing(campers) \in SUBSET Camper /\ riders \in SUBSET Camper
  BY <1>1, <1>2, ChargesTyped, CampersOfGroup
<1>5. <<"create">> \in Seq(Step)
  BY DEF Step
<1> HIDE DEF riders
<1>6. /\ inner \in Plan /\ inner.tr = InvoiceTr(g) /\ inner.row = NewRow
      /\ inner.todo = <<"create">>
  BY <1>3, <1>4, <1>5, NoPlanTyped, NoPlanCounted DEF Plan
<1> HIDE DEF inner
<1>7. plan \in Plan /\ plan.tr = InvoiceTr(g) /\ plan.row = NewRow
  BY <1>2, <1>6, BilledTyped
<1>8. CreatedOrWillBe(plan)
  <2>1. plan.todo = If(g.cust = NoCust, "customer") \o <<"create">>
    BY <1>2, <1>6, BilledTyped
  <2> DEFINE s == If(g.cust = NoCust, "customer")
             t == s \o <<"create">>
  <2>2. s \in Seq(Step) /\ <<"create">> \in Seq(Step)
    BY IfTyped DEF Step
  <2> HIDE DEF s
  <2>3. Len(t) = Len(s) + 1 /\ Len(s) \in Nat /\ t[Len(s) + 1] = "create"
    BY <2>2
  <2> QED
    BY <2>1, <2>2, <2>3 DEF s, CreatedOrWillBe
<1>9. LegalPlan("invoice", plan)
  BY <1>3, <1>7, <1>8, NoPlanCounted DEF LegalPlan
<1> QED
  BY <1>1, <1>7, <1>9, DecidedKept

LEMMA CommitSendInvoiceKept ==
  ASSUME IInv, NEW r \in Req, CommitSendInvoice(r)
  PROVE  IInv'
<1> DEFINE plan == reqs[r].plan
           tr   == plan.tr
           g    == [Stamp(group, tr) EXCEPT !.ref = plan.inv, !.due = "future",
                                            !.coachIn = (plan.riders # {})]
<1>1. MayCommit(r, "invoice", {}) /\ Committed(r, g, campers)
  BY DEF CommitSendInvoice
<1>2. /\ reqs[r].pc = "work" /\ reqs[r].op = "invoice" /\ plan.todo = << >>
      /\ tr.from \in {"", group.billing}
  BY <1>1 DEF MayCommit
<1>3. tr.from \in Unbilled /\ tr.to = "invoiced" /\ CreatedOrWillBe(plan)
  BY <1>2, FlightTyped DEF LegalRequest, LegalPlan, LegalTr
<1>4. ChangesBilling(tr)
  BY <1>3 DEF Unbilled, ChangesBilling
<1>5. plan.inv # NoInvoice /\ plan.inv \in InvoiceRef
  <2>2. plan.inv \in InvoiceRef
    BY FlightTyped DEF Plan
  <2> QED
    BY <1>2, <1>3, <2>2 DEF CreatedOrWillBe
<1> HIDE DEF tr
<1>6. Stamp(group, tr) \in GroupRow /\ Stamp(group, tr).billing = "invoiced"
  BY <1>3, <1>4, FlightTyped, StampTyped DEF tr
<1>7. g \in GroupRow /\ g.billing = "invoiced" /\ g.ref = plan.inv
  BY <1>5, <1>6 DEF GroupRow
<1> HIDE DEF g
<1>8. RefAgrees(g)
  BY <1>5, <1>7 DEF RefAgrees
<1> QED
  BY <1>1, <1>7, <1>8, FlightTyped, CommittedKept

(* The operations that never move the billing status may plan anything.    *)
LEMMA OtherLegal ==
  ASSUME NEW plan, OwedOnly(plan.row),
         NEW op \in {"coach_invoice", "waive_coach", "unwaive_coach", "delete",
                     "edit_day_pass", "coach", "main_contact", "waive_deposit"}
  PROVE  LegalPlan(op, plan)
  BY DEF LegalPlan, LegalTr, RosterEdit

(* Their stamp moves the version only.                                     *)
LEMMA KeepStamp ==
  ASSUME NEW g \in GroupRow, RefAgrees(g)
  PROVE  /\ Stamp(g, Keep) \in GroupRow /\ RefAgrees(Stamp(g, Keep))
         /\ Stamp(g, Keep).billing = g.billing /\ Stamp(g, Keep).ref = g.ref
<1>1. ~ChangesBilling(Keep)
  BY DEF ChangesBilling, Keep
<1> QED
  BY <1>1, KeepTyped, StampTyped DEF RefAgrees

LEMMA DecideSendCoachInvoiceKept ==
  ASSUME IInv, NEW r \in Req, DecideSendCoachInvoice(r)
  PROVE  IInv'
<1> DEFINE g     == reqs[r].snap
           inner == [NoPlan EXCEPT !.todo = <<"create">>, !.kind = "coach",
                                   !.riders = CoachPassengers(campers)]
           plan  == Billed(g, inner)
<1>1. reqs[r].op = "coach_invoice" /\ Decided(r, plan)
  BY DEF DecideSendCoachInvoice, Decides
<1>2. <<"create">> \in Seq(Step)
  BY DEF Step
<1>3. inner \in Plan /\ inner.row = NewRow
  BY <1>2, CampersOfGroup, NoPlanTyped, NoPlanCounted DEF Plan
<1> HIDE DEF inner
<1>4. plan \in Plan /\ OwedOnly(plan.row)
  BY <1>3, FlightTyped, BilledTyped, NoPlanCounted
<1> QED
  BY <1>1, <1>4, OtherLegal, DecidedKept

LEMMA CommitSendCoachInvoiceKept ==
  ASSUME IInv, NEW r \in Req, CommitSendCoachInvoice(r)
  PROVE  IInv'
<1> DEFINE k == Stamp(group, Keep)
           g == [k EXCEPT !.coachRef = reqs[r].plan.inv]
<1>1. reqs[r].plan.inv \in InvoiceRef
  BY FlightTyped DEF Plan
<1>2. k \in GroupRow /\ RefAgrees(k)
  BY FlightTyped, KeepStamp
<1>3. g \in GroupRow /\ RefAgrees(g)
  <2> HIDE DEF k
  <2> QED
    BY <1>1, <1>2 DEF GroupRow, RefAgrees
<1> QED
  BY <1>3, FlightTyped, CommittedKept DEF CommitSendCoachInvoice

LEMMA DecideWaiveCoachFeeKept ==
  ASSUME IInv, NEW r \in Req, DecideWaiveCoachFee(r)
  PROVE  IInv'
<1> DEFINE g    == reqs[r].snap
           todo == If(g.coachRef # NoInvoice, "void_coach")
           plan == [NoPlan EXCEPT !.coachRef = g.coachRef, !.todo = todo]
<1>1. reqs[r].op = "waive_coach" /\ Decided(r, plan)
  BY DEF DecideWaiveCoachFee, Decides
<1>2. todo \in Seq(Step) /\ g.coachRef \in InvoiceRef
  BY IfTyped, FlightTyped DEF Step, GroupRow
<1> HIDE DEF todo
<1>3. plan \in Plan /\ OwedOnly(plan.row)
  BY <1>2, NoPlanTyped, NoPlanCounted DEF Plan
<1> QED
  BY <1>1, <1>3, OtherLegal, DecidedKept

LEMMA CommitWaiveCoachFeeKept ==
  ASSUME IInv, NEW r \in Req, CommitWaiveCoachFee(r)
  PROVE  IInv'
<1> DEFINE k == Stamp(group, Keep)
           g == [k EXCEPT !.waived = TRUE, !.coachRef = NoInvoice]
<1>1. k \in GroupRow /\ RefAgrees(k)
  BY FlightTyped, KeepStamp
<1>2. g \in GroupRow /\ RefAgrees(g)
  <2> HIDE DEF k
  <2> QED
    BY <1>1 DEF GroupRow, RefAgrees, InvoiceRef
<1> QED
  BY <1>2, FlightTyped, CommittedKept DEF CommitWaiveCoachFee

LEMMA CommitUnwaiveCoachFeeKept ==
  ASSUME IInv, NEW r \in Req, CommitUnwaiveCoachFee(r)
  PROVE  IInv'
<1> DEFINE k == Stamp(group, Keep)
           g == [k EXCEPT !.waived = FALSE]
<1>1. k \in GroupRow /\ RefAgrees(k)
  BY FlightTyped, KeepStamp
<1>2. g \in GroupRow /\ RefAgrees(g)
  <2> HIDE DEF k
  <2> QED
    BY <1>1 DEF GroupRow, RefAgrees
<1> QED
  BY <1>2, FlightTyped, CommittedKept DEF CommitUnwaiveCoachFee

LEMMA BeginMarkBalancePaidKept ==
  ASSUME IInv, NEW r \in Req, BeginMarkBalancePaid(r)
  PROVE  IInv'
<1> DEFINE tr   == SettleBalanceTr(group)
           todo == If(HasOpenInvoice(group), "void")
           plan == [NoPlan EXCEPT !.tr = tr, !.ref = group.ref, !.todo = todo]
<1>1. BeginDecided(r, "mark_paid", plan)
  BY DEF BeginMarkBalancePaid
<1>2. tr \in Transition /\ LegalTr("mark_paid", tr)
  <2>1. group \in GroupRow /\ "balance_paid" \in BillingStatus
    BY FlightTyped DEF BillingStatus
  <2>2. tr = Move(group, "balance_paid")
    BY DEF SettleBalanceTr
  <2>3. group.billing \in {"allocated", "invoiced"}
    BY DEF BeginMarkBalancePaid, CanMarkBalancePaid
  <2> HIDE DEF tr
  <2>4. tr \in Transition /\ SettlesTr(tr)
    BY <2>1, <2>2, <2>3, MoveTyped DEF SettlesTr
  <2> QED
    BY <2>4 DEF LegalTr, RosterEdit
<1>3. todo \in Seq(Step) /\ group.ref \in InvoiceRef
  BY IfTyped, FlightTyped DEF Step, GroupRow
<1> HIDE DEF tr, todo
<1>4. plan \in Plan /\ LegalPlan("mark_paid", plan)
  BY <1>2, <1>3, NoPlanTyped, NoPlanCounted DEF Plan, LegalPlan
<1> QED
  BY <1>1, <1>4, BeginDecidedKept DEF AllOp

LEMMA CommitMarkBalancePaidKept ==
  ASSUME IInv, NEW r \in Req, CommitMarkBalancePaid(r)
  PROVE  IInv'
<1> DEFINE tr == reqs[r].plan.tr
           cs == SettleDeposits(campers, Owing(campers))
<1>1. MayCommit(r, "mark_paid", Owing(campers)) /\ Committed(r, Stamp(group, tr), cs)
  BY DEF CommitMarkBalancePaid
<1>2. tr.from = group.billing /\ tr.to = "balance_paid"
  BY <1>1, FlightTyped DEF MayCommit, LegalRequest, LegalPlan, LegalTr, SettlesTr
<1>3. Stamp(group, tr) \in GroupRow /\ Stamp(group, tr).billing = "balance_paid"
  <2>1. tr \in Transition /\ group \in GroupRow
    BY FlightTyped
  <2> HIDE DEF tr
  <2> QED
    BY <1>2, <2>1, StampTo
<1>4. RefAgrees(Stamp(group, tr))
  BY <1>3 DEF RefAgrees
<1> QED
  BY <1>1, <1>3, <1>4, FlightTyped, SettleDepositsTyped, CommittedKept

LEMMA DecideDeleteKept ==
  ASSUME IInv, NEW r \in Req, DecideDelete(r)
  PROVE  IInv'
<1> DEFINE g    == reqs[r].snap
           keep == \E c \in Here(campers) : campers[c].paid > 0
           s1   == If(HasSettledBalanceInvoice(g), "refund")
           s2   == If(HasOpenInvoice(g), "void")
           s3   == If(HasUnpaidCoachInvoice(g), "void_coach")
           todo == s1 \o s2 \o s3
           plan == [NoPlan EXCEPT !.ref = g.ref, !.coachRef = g.coachRef,
                                  !.keep = keep, !.todo = todo]
<1>1. reqs[r].op = "delete" /\ Decided(r, plan)
  BY DEF DecideDelete, Decides
<1>2. s1 \in Seq(Step) /\ s2 \in Seq(Step) /\ s3 \in Seq(Step)
  BY IfTyped DEF Step
<1>3. g.ref \in InvoiceRef /\ g.coachRef \in InvoiceRef /\ keep \in BOOLEAN
  BY FlightTyped DEF GroupRow
<1> HIDE DEF keep, s1, s2, s3
<1>4. todo \in Seq(Step)
  BY <1>2
<1> HIDE DEF todo
<1>5. plan \in Plan /\ OwedOnly(plan.row)
  BY <1>3, <1>4, NoPlanTyped, NoPlanCounted DEF Plan
<1> QED
  BY <1>1, <1>5, OtherLegal, DecidedKept

LEMMA CommitDeleteKept ==
  ASSUME IInv, NEW r \in Req, CommitDelete(r)
  PROVE  IInv'
<1> DEFINE g  == [group EXCEPT !.exists = FALSE]
           cs == [c \in Camper |-> IF c \in Here(campers)
                                   THEN [campers[c] EXCEPT !.st = "gone"] ELSE campers[c]]
<1>1. Committed(r, g, cs)
  BY DEF CommitDelete
<1>2. g \in GroupRow /\ RefAgrees(g)
  BY FlightTyped DEF GroupRow, RefAgrees
<1>3. ASSUME NEW c \in Camper
      PROVE  /\ [campers[c] EXCEPT !.st = "gone"] \in CamperRow
             /\ CountedOnce([campers[c] EXCEPT !.st = "gone"])
  BY FlightTyped DEF CamperRow, CountedOnce
<1>4. cs \in [Camper -> CamperRow] /\ \A c \in Camper : CountedOnce(cs[c])
  BY <1>3, FlightTyped
<1> QED
  BY <1>1, <1>2, <1>4, CommittedKept

(* Resending the link and moving the due date keep an invoiced group       *)
(* invoiced.                                                               *)
LEMMA OpenInvoiceLegal ==
  ASSUME NEW g \in GroupRow, g.billing = "invoiced", NEW op \in {"resend", "extend"}
  PROVE  OpenInvoiceTr(g) \in Transition /\ LegalTr(op, OpenInvoiceTr(g))
  BY DEF OpenInvoiceTr, Move, Transition, BillingStatus, LegalTr, RosterEdit

LEMMA BeginOpenInvoiceKept ==
  ASSUME IInv, NEW r \in Req, BeginResendInvoice(r) \/ BeginExtendDue(r)
  PROVE  IInv'
<1> DEFINE tr == OpenInvoiceTr(group)
<1>1. group.billing = "invoiced"
  BY DEF BeginResendInvoice, BeginExtendDue, CanResendInvoice
<1>2. tr \in Transition /\ \A op \in {"resend", "extend"} : LegalTr(op, tr)
  BY <1>1, FlightTyped, OpenInvoiceLegal
<1>3. CASE BeginResendInvoice(r)
  <2> DEFINE plan == [NoPlan EXCEPT !.tr = tr]
  <2>1. BeginDecided(r, "resend", plan)
    BY <1>3 DEF BeginResendInvoice
  <2> HIDE DEF tr
  <2>2. plan \in Plan /\ LegalPlan("resend", plan)
    BY <1>2, NoPlanTyped, NoPlanCounted DEF Plan, LegalPlan
  <2> QED
    BY <2>1, <2>2, BeginDecidedKept DEF AllOp
<1>4. CASE BeginExtendDue(r)
  <2>1. PICK due \in {"future", "past"} :
          BeginDecided(r, "extend", [NoPlan EXCEPT !.tr = tr, !.due = due])
    BY <1>4 DEF BeginExtendDue
  <2> DEFINE plan == [NoPlan EXCEPT !.tr = tr, !.due = due]
  <2> HIDE DEF tr
  <2>2. plan \in Plan /\ LegalPlan("extend", plan)
    BY <1>2, NoPlanTyped, NoPlanCounted DEF Plan, LegalPlan
  <2> QED
    BY <2>1, <2>2, BeginDecidedKept DEF AllOp
<1> QED
  BY <1>3, <1>4

LEMMA OpenInvoiceStamp ==
  ASSUME IInv, NEW r \in Req, NEW op \in {"resend", "extend"}, MayCommit(r, op, {})
  PROVE  LET g == Stamp(group, reqs[r].plan.tr) IN
         g \in GroupRow /\ RefAgrees(g)
<1> DEFINE tr == reqs[r].plan.tr
<1>1. tr = [from |-> "invoiced", to |-> "invoiced"]
  BY FlightTyped DEF MayCommit, LegalRequest, LegalPlan, LegalTr
<1>2. ~ChangesBilling(tr)
  BY <1>1 DEF ChangesBilling
<1> QED
  BY <1>2, FlightTyped, StampTyped DEF RefAgrees

LEMMA CommitOpenInvoiceKept ==
  ASSUME IInv, NEW r \in Req, CommitResendInvoice(r) \/ CommitExtendDue(r)
  PROVE  IInv'
<1> DEFINE s == Stamp(group, reqs[r].plan.tr)
           g == [s EXCEPT !.due = reqs[r].plan.due]
<1>1. CASE CommitResendInvoice(r)
  BY <1>1, OpenInvoiceStamp, FlightTyped, CommittedKept DEF CommitResendInvoice
<1>2. CASE CommitExtendDue(r)
  <2>1. s \in GroupRow /\ RefAgrees(s)
    BY <1>2, OpenInvoiceStamp DEF CommitExtendDue
  <2>2. Committed(r, g, campers) /\ reqs[r].plan.due \in {"future", "past"}
    BY <1>2, FlightTyped DEF CommitExtendDue, Plan
  <2> HIDE DEF s
  <2>3. g \in GroupRow /\ RefAgrees(g)
    BY <2>1, <2>2 DEF GroupRow, RefAgrees
  <2> QED
    BY <2>2, <2>3, FlightTyped, CommittedKept
<1> QED
  BY <1>1, <1>2

LEMMA InvoicingStepKept ==
  ASSUME IInv, NEW r \in Req, InvoicingStep(r)
  PROVE  IInv'
<1>1. CASE BeginSendInvoice(r)
  BY <1>1, BeginKept DEF BeginSendInvoice, AllOp
<1>2. CASE BeginSendCoachInvoice(r)
  BY <1>2, BeginKept DEF BeginSendCoachInvoice, AllOp
<1>3. CASE BeginWaiveCoachFee(r)
  BY <1>3, BeginKept DEF BeginWaiveCoachFee, AllOp
<1>4. CASE BeginUnwaiveCoachFee(r)
  BY <1>4, NoPlanTyped, NoPlanCounted, OtherLegal, BeginDecidedKept
     DEF BeginUnwaiveCoachFee, AllOp
<1>5. CASE BeginDelete(r)
  BY <1>5, BeginKept DEF BeginDelete, AllOp
<1> QED
  BY <1>1, <1>2, <1>3, <1>4, <1>5, DecideSendInvoiceKept, CommitSendInvoiceKept,
     DecideSendCoachInvoiceKept, CommitSendCoachInvoiceKept, DecideWaiveCoachFeeKept,
     CommitWaiveCoachFeeKept, CommitUnwaiveCoachFeeKept, BeginMarkBalancePaidKept,
     CommitMarkBalancePaidKept, DecideDeleteKept, CommitDeleteKept,
     BeginOpenInvoiceKept, CommitOpenInvoiceKept DEF InvoicingStep

----------------------------------------------------------------------------
(* Roster edits.                                                           *)

LEMMA RosterChangedLegal ==
  ASSUME NEW g \in GroupRow, NEW rows, NEW stale, NEW op \in RosterEdit
  PROVE  /\ RosterChangedTr(g, rows, stale) \in Transition
         /\ LegalTr(op, RosterChangedTr(g, rows, stale))
<1> DEFINE tr == RosterChangedTr(g, rows, stale)
<1>1. CASE HasOpenInvoice(g) /\ stale
  <2>1. AllocatedOrNone(rows) \in {"allocated", "none"}
    BY DEF AllocatedOrNone
  <2>2. tr = Move(g, AllocatedOrNone(rows)) /\ g.billing = "invoiced"
    BY <1>1 DEF RosterChangedTr, HasOpenInvoice
  <2> HIDE DEF tr
  <2>3. tr \in Transition /\ tr.from = "invoiced" /\ tr.to \in {"allocated", "none"}
    BY <2>1, <2>2, MoveTyped DEF BillingStatus
  <2>4. LegalTr(op, tr)
    BY <2>3 DEF LegalTr, RosterEdit
  <2> QED
    BY <2>3, <2>4 DEF tr
<1>2. CASE ~(HasOpenInvoice(g) /\ stale) /\ tr # Keep
  <2>1. tr = Move(g, "none") /\ g.billing = "allocated"
    BY <1>2 DEF RosterChangedTr
  <2> HIDE DEF tr
  <2>2. tr \in Transition /\ tr.from = "allocated" /\ tr.to = "none"
    BY <2>1, MoveTyped DEF BillingStatus
  <2>3. LegalTr(op, tr)
    BY <2>2 DEF LegalTr, RosterEdit
  <2> QED
    BY <2>2, <2>3 DEF tr
<1>3. CASE tr = Keep
  <2> HIDE DEF tr
  <2>1. LegalTr(op, tr)
    BY <1>3 DEF LegalTr, RosterEdit
  <2> QED
    BY <1>3, <2>1, KeepTyped DEF tr
<1> QED
  BY <1>1, <1>2, <1>3

LEMMA DisturbingTyped ==
  ASSUME NEW g \in GroupRow, NEW rows, NEW stale, NEW plan \in Plan, NEW op \in RosterEdit,
         OwedOnly(plan.row)
  PROVE  /\ Disturbing(g, rows, stale, plan) \in Plan
         /\ LegalPlan(op, Disturbing(g, rows, stale, plan))
<1> DEFINE tr   == RosterChangedTr(g, rows, stale)
           void == If(HasOpenInvoice(g) /\ stale, "void")
           todo == plan.todo \o void
           new  == Disturbing(g, rows, stale, plan)
<1>1. tr \in Transition /\ LegalTr(op, tr) /\ g.ref \in InvoiceRef
  BY RosterChangedLegal DEF GroupRow
<1>2. void \in Seq(Step) /\ plan.todo \in Seq(Step)
  BY IfTyped DEF Step, Plan
<1> HIDE DEF void
<1>3. todo \in Seq(Step)
  BY <1>2
<1>4. new = [plan EXCEPT !.tr = tr, !.ref = g.ref, !.todo = todo]
  BY DEF Disturbing, void, Plan
<1> HIDE DEF tr, todo, new
<1>5. new \in Plan /\ new.tr = tr /\ new.row = plan.row
  BY <1>1, <1>3, <1>4 DEF Plan
<1>6. LegalPlan(op, new)
  BY <1>1, <1>5 DEF LegalPlan, RosterEdit
<1> QED
  BY <1>5, <1>6 DEF new

(* Leaving "invoiced" forgets the invoice in the same write.               *)
LEMMA RosterAgrees ==
  ASSUME NEW g \in GroupRow, NEW tr \in Transition, NEW op \in RosterEdit,
         RefAgrees(g), LegalTr(op, tr)
  PROVE  StampRoster(g, tr) \in GroupRow /\ RefAgrees(StampRoster(g, tr))
<1>1. CASE ChangesBilling(tr)
  <2>1. ~ChangesBilling(Keep)
    BY DEF ChangesBilling, Keep
  <2>2. tr.to \in {"none", "allocated"}
    BY <1>1, <2>1 DEF LegalTr
  <2>3. Stamp(g, tr) \in GroupRow /\ Stamp(g, tr).billing = tr.to
    BY <1>1, StampTyped
  <2> QED
    BY <1>1, <2>2, <2>3, ClearInvoiceTyped DEF StampRoster, RefAgrees
<1>2. CASE ~ChangesBilling(tr)
  BY <1>2, StampTyped DEF StampRoster, RefAgrees
<1> QED
  BY <1>1, <1>2

LEMMA RowCommittedKept ==
  ASSUME IInv, NEW r \in Req, NEW g \in GroupRow, NEW row \in CamperRow,
         RefAgrees(g), CountedOnce(row), RowCommitted(r, g, row)
  PROVE  IInv'
<1> DEFINE c  == reqs[r].plan.target
           cs == [campers EXCEPT ![c] = row]
<1>1. c \in Camper
  BY FlightTyped DEF Plan
<1>2. cs \in [Camper -> CamperRow] /\ \A x \in Camper : CountedOnce(cs[x])
  BY <1>1, FlightTyped
<1> QED
  BY <1>2, CommittedKept DEF RowCommitted

(* The transaction of a roster edit finds its plan legal.                  *)
LEMMA RosterCommit ==
  ASSUME IInv, NEW r \in Req, NEW op \in RosterEdit, NEW S, MayCommit(r, op, S)
  PROVE  LET g == StampRoster(group, reqs[r].plan.tr) IN
         g \in GroupRow /\ RefAgrees(g)
<1>1. LegalTr(op, reqs[r].plan.tr)
  BY FlightTyped DEF MayCommit, LegalRequest, LegalPlan
<1> QED
  BY <1>1, FlightTyped, RosterAgrees

(* The row a request names, and the row it will write.                     *)
LEMMA TargetTyped ==
  ASSUME IInv, NEW r \in Req
  PROVE  /\ reqs[r].plan.target \in Camper
         /\ campers[reqs[r].plan.target] \in CamperRow
         /\ CountedOnce(campers[reqs[r].plan.target])
         /\ reqs[r].plan.row \in CamperRow
  BY FlightTyped DEF Plan

LEMMA DecideRemoveCamperKept ==
  ASSUME IInv, NEW r \in Req, DecideRemoveCamper(r)
  PROVE  IInv'
<1> DEFINE g == reqs[r].snap
           coachless(c) == HasUnpaidCoachInvoice(g) /\ CoachPassengers(campers) \ {c} = {}
           inner(c) == [NoPlan EXCEPT !.target = c, !.coachRef = g.coachRef]
           plan(c)  == Disturbing(g, Others(c), TRUE, inner(c))
           full(c)  == [plan(c) EXCEPT !.todo = @ \o If(coachless(c), "try_void_coach")]
<1>1. PICK c \in Here(campers) : Decided(r, full(c))
  BY DEF DecideRemoveCamper
<1>2. reqs[r].op = "remove" /\ g \in GroupRow /\ g.coachRef \in InvoiceRef /\ c \in Camper
  BY FlightTyped, CampersOfGroup DEF DecideRemoveCamper, Decides, GroupRow
<1>3. inner(c) \in Plan /\ OwedOnly(inner(c).row)
  BY <1>2, NoPlanTyped, NoPlanCounted DEF Plan
<1>4. plan(c) \in Plan /\ LegalPlan("remove", plan(c))
  BY <1>2, <1>3, DisturbingTyped DEF RosterEdit
<1> DEFINE p == plan(c)
           s == If(coachless(c), "try_void_coach")
           todo == p.todo \o s
<1>5. s \in Seq(Step)
  BY IfTyped DEF Step
<1>6. p \in Plan /\ LegalPlan("remove", p) /\ p.todo \in Seq(Step)
  BY <1>4 DEF Plan
<1>7. full(c) = [p EXCEPT !.todo = todo]
  BY <1>6 DEF Plan
<1> HIDE DEF p, s
<1>8. todo \in Seq(Step)
  BY <1>5, <1>6
<1> HIDE DEF todo
<1>9. [p EXCEPT !.todo = todo] \in Plan /\ LegalPlan("remove", [p EXCEPT !.todo = todo])
  BY <1>6, <1>8 DEF Plan, LegalPlan
<1> QED
  BY <1>1, <1>2, <1>7, <1>9, DecidedKept

LEMMA CommitRemoveCamperKept ==
  ASSUME IInv, NEW r \in Req, CommitRemoveCamper(r)
  PROVE  IInv'
<1> DEFINE row == [campers[reqs[r].plan.target] EXCEPT !.st = "gone"]
<1>1. row \in CamperRow /\ CountedOnce(row)
  BY TargetTyped DEF CamperRow, CountedOnce
<1> QED
  BY <1>1, RosterCommit, RowCommittedKept DEF CommitRemoveCamper, RosterEdit

LEMMA DecideConvertKept ==
  ASSUME IInv, NEW r \in Req, DecideConvertToDayVisitor(r)
  PROVE  IInv'
<1> DEFINE g == reqs[r].snap
           credited(c) == g.pay = "paid" /\ campers[c].age >= MinDepositAge
                            /\ campers[c].owed = 0
           row(c)   == [NewRow EXCEPT !.credit = IF credited(c) THEN Deposit ELSE 0]
           todo(c)  == If(credited(c) /\ g.cust = NoCust, "customer")
                         \o If(credited(c), "credit")
           inner(c) == [NoPlan EXCEPT !.target = c, !.cust = g.cust, !.row = row(c),
                                      !.todo = todo(c)]
<1>1. PICK c \in Here(campers) : Decided(r, Disturbing(g, Others(c), TRUE, inner(c)))
  BY DEF DecideConvertToDayVisitor
<1>2. reqs[r].op = "convert" /\ g \in GroupRow /\ g.cust \in Req \cup {NoCust} /\ c \in Camper
  BY FlightTyped, CampersOfGroup DEF DecideConvertToDayVisitor, Decides, GroupRow
<1>3. row(c) \in CamperRow /\ OwedOnly(row(c))
  BY NewRowTyped, NoPlanCounted DEF CamperRow, CountedOnce, OwedOnly, Deposit
<1>4. todo(c) \in Seq(Step)
  <2> DEFINE s1 == If(credited(c) /\ g.cust = NoCust, "customer")
             s2 == If(credited(c), "credit")
  <2>1. s1 \in Seq(Step) /\ s2 \in Seq(Step)
    BY IfTyped DEF Step
  <2> HIDE DEF s1, s2
  <2>2. s1 \o s2 \in Seq(Step)
    BY <2>1
  <2> QED
    BY <2>2 DEF s1, s2
<1> HIDE DEF row, todo
<1>5. inner(c) \in Plan /\ OwedOnly(inner(c).row)
  BY <1>2, <1>3, <1>4, NoPlanTyped DEF Plan
<1> HIDE DEF inner
<1> QED
  BY <1>1, <1>2, <1>5, DisturbingTyped, DecidedKept DEF RosterEdit

LEMMA CommitConvertKept ==
  ASSUME IInv, NEW r \in Req, CommitConvertToDayVisitor(r)
  PROVE  IInv'
<1> DEFINE old == campers[reqs[r].plan.target]
           credit == reqs[r].plan.row.credit
           row == [old EXCEPT !.att = "day_pass", !.coach = FALSE, !.code = NoCode,
                              !.credit = credit, !.owed = 0]
<1>1. old \in CamperRow /\ CountedOnce(old) /\ credit \in Nat
  BY TargetTyped DEF CamperRow
<1> HIDE DEF old, credit
<1>2. row \in CamperRow /\ row.owed = 0 /\ row.paid = old.paid
  BY <1>1 DEF CamperRow, Attendance
<1>3. CountedOnce(row)
  BY <1>1, <1>2 DEF CountedOnce, CamperRow, Deposit
<1> QED
  BY <1>2, <1>3, RosterCommit, RowCommittedKept
     DEF CommitConvertToDayVisitor, RosterEdit, old, credit

LEMMA DecideUpdateCoachKept ==
  ASSUME IInv, NEW r \in Req, DecideUpdateCoach(r)
  PROVE  IInv'
<1> DEFINE g      == reqs[r].snap
           row(c) == [NewRow EXCEPT !.coach = ~campers[c].coach]
           todo   == If(HasUnpaidCoachInvoice(g), "void_coach")
           clear  == HasUnpaidCoachInvoice(g)
           plan(c) == [NoPlan EXCEPT !.target = c, !.row = row(c), !.coachRef = g.coachRef,
                                     !.clearCoach = clear, !.todo = todo]
<1>1. PICK c \in Here(campers) : Decided(r, plan(c))
  BY DEF DecideUpdateCoach
<1>2. reqs[r].op = "coach" /\ g.coachRef \in InvoiceRef /\ c \in Camper
  BY FlightTyped, CampersOfGroup DEF DecideUpdateCoach, Decides, GroupRow
<1>3. row(c) \in CamperRow /\ OwedOnly(row(c))
  BY NewRowTyped, NoPlanCounted DEF CamperRow, CountedOnce, OwedOnly
<1>4. todo \in Seq(Step) /\ clear \in BOOLEAN
  BY IfTyped, FlightTyped DEF Step, HasUnpaidCoachInvoice, GroupRow
<1> HIDE DEF row, todo, clear
<1>5. plan(c) \in Plan /\ OwedOnly(plan(c).row)
  BY <1>2, <1>3, <1>4, NoPlanTyped DEF Plan
<1> QED
  BY <1>1, <1>2, <1>5, OtherLegal, DecidedKept

LEMMA CommitUpdateCoachKept ==
  ASSUME IInv, NEW r \in Req, CommitUpdateCoach(r)
  PROVE  IInv'
<1> DEFINE plan == reqs[r].plan
           s    == Stamp(group, Keep)
           g    == IF plan.clearCoach THEN [s EXCEPT !.coachRef = NoInvoice] ELSE s
           row  == [campers[plan.target] EXCEPT !.coach = plan.row.coach]
<1>1. RowCommitted(r, g, row)
  BY DEF CommitUpdateCoach
<1>2. s \in GroupRow /\ RefAgrees(s)
  BY FlightTyped, KeepStamp
<1> HIDE DEF s
<1>3. g \in GroupRow /\ RefAgrees(g)
  BY <1>2 DEF GroupRow, RefAgrees, InvoiceRef
<1>4. row \in CamperRow /\ CountedOnce(row)
  BY TargetTyped DEF CamperRow, CountedOnce
<1> HIDE DEF g, row
<1> QED
  BY <1>1, <1>3, <1>4, RowCommittedKept

LEMMA DecideEditCamperKept ==
  ASSUME IInv, NEW r \in Req, DecideEditCamper(r)
  PROVE  IInv'
<1> DEFINE g == reqs[r].snap
           new(c, age, code) == [campers[c] EXCEPT !.age = age, !.code = code]
           rows(c, age, code) == Others(c) \cup {new(c, age, code)}
           stale(c, age, code) == Repriced(g, campers[c], new(c, age, code))
           row(age, code) == [NewRow EXCEPT !.age = age, !.code = code]
           inner(c, age, code) == [NoPlan EXCEPT !.target = c, !.row = row(age, code)]
<1>1. PICK c \in Here(campers), age \in Age, code \in Code \cup {NoCode} :
        Decided(r, Disturbing(g, rows(c, age, code), stale(c, age, code),
                              inner(c, age, code)))
  BY DEF DecideEditCamper
<1>2. reqs[r].op = "edit" /\ g \in GroupRow /\ c \in Camper
  BY FlightTyped, CampersOfGroup DEF DecideEditCamper, Decides
<1>3. row(age, code) \in CamperRow /\ OwedOnly(row(age, code))
  BY NewRowTyped, NoPlanCounted DEF CamperRow, CountedOnce, OwedOnly
<1> HIDE DEF row, rows, stale
<1>4. inner(c, age, code) \in Plan /\ OwedOnly(inner(c, age, code).row)
  BY <1>2, <1>3, NoPlanTyped DEF Plan
<1> HIDE DEF inner
<1> QED
  BY <1>1, <1>2, <1>4, DisturbingTyped, DecidedKept DEF RosterEdit

LEMMA CommitEditCamperKept ==
  ASSUME IInv, NEW r \in Req, CommitEditCamper(r)
  PROVE  IInv'
<1> DEFINE plan == reqs[r].plan
           old  == campers[plan.target]
           code == IF IsFullWeek(old) THEN plan.row.code ELSE old.code
           row  == [old EXCEPT !.age = plan.row.age, !.code = code]
<1>1. code \in Code \cup {NoCode} /\ plan.row.age \in Age
  BY TargetTyped DEF CamperRow
<1> HIDE DEF code
<1>2. row \in CamperRow /\ CountedOnce(row)
  BY <1>1, TargetTyped DEF CamperRow, CountedOnce
<1> QED
  BY <1>2, RosterCommit, RowCommittedKept DEF CommitEditCamper, RosterEdit, code

LEMMA DecideAddCamperKept ==
  ASSUME IInv, NEW r \in Req, DecideAddCamper(r)
  PROVE  IInv'
<1> DEFINE g == reqs[r].snap
           owes(p) == p.att = "full_week" /\ p.age >= MinDepositAge
           row(p)  == [NewRow EXCEPT !.st = "here", !.att = p.att, !.age = p.age,
                         !.coach = p.coach, !.owed = IF owes(p) THEN Deposit ELSE 0]
           rows(p) == Rows(campers, Here(campers)) \cup {row(p)}
           inner(p) == [NoPlan EXCEPT !.row = row(p)]
<1>1. PICK p \in Profile : Decided(r, Disturbing(g, rows(p), TRUE, inner(p)))
  BY DEF DecideAddCamper
<1>2. reqs[r].op = "add" /\ g \in GroupRow
  BY FlightTyped DEF DecideAddCamper, Decides
<1>3. p.att \in Attendance /\ p.age \in Age /\ p.coach \in BOOLEAN
  BY StoreAssumption
<1>4. row(p) \in CamperRow /\ row(p).owed \in {0, Deposit} /\ row(p).paid = NewRow.paid
  BY <1>3, NewRowTyped DEF CamperRow, Deposit
<1>5. OwedOnly(row(p))
  BY <1>4 DEF CountedOnce, OwedOnly, Deposit, NewRow
<1> HIDE DEF row, rows
<1>6. inner(p) \in Plan /\ OwedOnly(inner(p).row)
  BY <1>4, <1>5, NoPlanTyped DEF Plan
<1> HIDE DEF inner
<1> QED
  BY <1>1, <1>2, <1>6, DisturbingTyped, DecidedKept DEF RosterEdit

LEMMA CommitAddCamperKept ==
  ASSUME IInv, NEW r \in Req, CommitAddCamper(r)
  PROVE  IInv'
<1> DEFINE plan  == reqs[r].plan
           cs(c) == [campers EXCEPT ![c] = plan.row]
           g     == StampRoster(group, plan.tr)
<1>1. PICK c \in Camper : Committed(r, g, cs(c))
  BY DEF CommitAddCamper
<1>2. plan.row \in CamperRow /\ OwedOnly(plan.row)
  BY FlightTyped, TargetTyped
     DEF CommitAddCamper, MayCommit, LegalRequest, LegalPlan, OwedOnly
<1>3. cs(c) \in [Camper -> CamperRow] /\ \A x \in Camper : CountedOnce(cs(c)[x])
  BY <1>2, FlightTyped DEF OwedOnly
<1>4. g \in GroupRow /\ RefAgrees(g)
  BY RosterCommit DEF CommitAddCamper, RosterEdit
<1> QED
  BY <1>1, <1>3, <1>4, CommittedKept

(* A decision that only names a camper.                                    *)
LEMMA TargetPlan ==
  ASSUME NEW c \in Camper
  PROVE  /\ [NoPlan EXCEPT !.target = c] \in Plan
         /\ OwedOnly([NoPlan EXCEPT !.target = c].row)
  BY NoPlanTyped, NoPlanCounted DEF Plan

LEMMA CommitMakeMainContactKept ==
  ASSUME IInv, NEW r \in Req, CommitMakeMainContact(r)
  PROVE  IInv'
<1> DEFINE main(c) == [campers[c] EXCEPT !.main = (c = reqs[r].plan.target)]
           cs == [c \in Camper |-> IF c \in Here(campers) THEN main(c) ELSE campers[c]]
<1>1. Committed(r, Stamp(group, Keep), cs)
  BY DEF CommitMakeMainContact
<1>2. ASSUME NEW c \in Camper PROVE main(c) \in CamperRow /\ CountedOnce(main(c))
  BY FlightTyped DEF CamperRow, CountedOnce
<1> HIDE DEF main
<1>3. cs \in [Camper -> CamperRow] /\ \A c \in Camper : CountedOnce(cs[c])
  BY <1>2, FlightTyped
<1> QED
  BY <1>1, <1>3, FlightTyped, KeepStamp, CommittedKept

LEMMA CommitWaiveDepositKept ==
  ASSUME IInv, NEW r \in Req, CommitWaiveDeposit(r)
  PROVE  IInv'
<1> DEFINE row == [campers[reqs[r].plan.target] EXCEPT !.owed = 0]
<1>1. row \in CamperRow /\ CountedOnce(row)
  BY TargetTyped DEF CamperRow, CountedOnce, Deposit
<1> QED
  BY <1>1, FlightTyped, KeepStamp, RowCommittedKept DEF CommitWaiveDeposit

LEMMA CamperEditStepKept ==
  ASSUME IInv, NEW r \in Req, CamperEditStep(r)
  PROVE  IInv'
<1>1. CASE \/ BeginRemoveCamper(r) \/ BeginConvertToDayVisitor(r) \/ BeginUpdateDayPass(r)
           \/ BeginUpdateCoach(r) \/ BeginEditCamper(r) \/ BeginAddCamper(r)
           \/ BeginMakeMainContact(r) \/ BeginWaiveDeposit(r)
  BY <1>1, BeginKept DEF BeginRemoveCamper, BeginConvertToDayVisitor, BeginUpdateDayPass,
     BeginUpdateCoach, BeginEditCamper, BeginAddCamper, BeginMakeMainContact,
     BeginWaiveDeposit, AllOp
<1>2. CASE DecideUpdateDayPass(r)
  BY <1>2, CampersOfGroup, TargetPlan, OtherLegal, DecidedKept
     DEF DecideUpdateDayPass, Decides
<1>3. CASE DecideMakeMainContact(r)
  BY <1>3, CampersOfGroup, TargetPlan, OtherLegal, DecidedKept
     DEF DecideMakeMainContact, Decides
<1>4. CASE DecideWaiveDeposit(r)
  BY <1>4, CampersOfGroup, TargetPlan, OtherLegal, DecidedKept
     DEF DecideWaiveDeposit, Decides
<1>5. CASE CommitUpdateDayPass(r)
  BY <1>5, FlightTyped, KeepStamp, CommittedKept DEF CommitUpdateDayPass
<1> QED
  BY <1>1, <1>2, <1>3, <1>4, <1>5, DecideRemoveCamperKept, CommitRemoveCamperKept,
     DecideConvertKept, CommitConvertKept, DecideUpdateCoachKept, CommitUpdateCoachKept,
     DecideEditCamperKept, CommitEditCamperKept, DecideAddCamperKept, CommitAddCamperKept,
     CommitMakeMainContactKept, CommitWaiveDepositKept DEF CamperEditStep

----------------------------------------------------------------------------
(* Stripe calls.                                                           *)

(* A call leaves a legal plan legal, provided an invoice that was to be    *)
(* created still is, or has been.                                          *)
LEMMA CalledKept ==
  ASSUME IInv, NEW r \in Req, NEW plan \in Plan, reqs[r].pc = "work",
         plan.todo # << >>, LegalPlan(reqs[r].op, plan),
         Head(plan.todo) = "create" => plan.inv # NoInvoice,
         Called(r, plan), hooks' = hooks
  PROVE  FlightInv'
<1> DEFINE rest == Tail(plan.todo)
           p    == [plan EXCEPT !.todo = rest]
           q    == [reqs[r] EXCEPT !.plan = p]
<1>1. plan.todo \in Seq(Step) /\ rest \in Seq(Step)
  BY DEF Plan
<1>2. CreatedOrWillBe(plan) => CreatedOrWillBe(p)
  <2>1. ASSUME plan.inv = NoInvoice, CreatedOrWillBe(plan)
        PROVE  rest # << >> /\ rest[Len(rest)] = "create"
    <3> DEFINE todo == plan.todo
    <3>1. todo \in Seq(Step) /\ todo # << >> /\ todo[Len(todo)] = "create"
          /\ Head(todo) # "create"
      BY <1>1, <2>1 DEF CreatedOrWillBe
    <3> HIDE DEF todo
    <3>2. Len(todo) # 1 /\ Len(todo) \in Nat /\ Len(todo) # 0
      BY <3>1
    <3>3. Len(Tail(todo)) = Len(todo) - 1
          /\ Tail(todo)[Len(todo) - 1] = todo[Len(todo)]
      BY <3>1, <3>2
    <3>4. Len(Tail(todo)) # 0
      BY <3>2, <3>3
    <3>5. Tail(todo) # << >>
      <4>1. Len(<< >>) = 0
        OBVIOUS
      <4> QED
        BY <3>4, <4>1, Zenon
    <3> QED
      BY <3>1, <3>3, <3>5 DEF todo
  <2>2. p.inv = plan.inv /\ p.todo = rest
    BY DEF Plan
  <2> HIDE DEF rest, p
  <2> QED
    BY <2>1, <2>2 DEF CreatedOrWillBe
<1> HIDE DEF rest
<1>3. p \in Plan /\ p.tr = plan.tr /\ p.row = plan.row
  BY <1>1 DEF Plan
<1> HIDE DEF p
<1>4. LegalPlan(reqs[r].op, p)
  BY <1>2, <1>3 DEF LegalPlan
<1>5. q \in Request /\ LegalRequest(q)
  BY <1>3, <1>4, FlightTyped DEF Request, LegalRequest
<1>6. reqs' = [reqs EXCEPT ![r] = q]
  BY DEF Called, IInv, FlightInv, Request, p, rest
<1> HIDE DEF q
<1> QED
  BY <1>5, <1>6, RequestKept DEF IInv

(* The plan of a request about to make a call.                             *)
LEMMA CallerTyped ==
  ASSUME IInv, NEW r \in Req, NEW step, NextCall(r, step)
  PROVE  /\ reqs[r].pc = "work" /\ reqs[r].plan \in Plan
         /\ reqs[r].plan.todo # << >> /\ Head(reqs[r].plan.todo) = step
         /\ LegalPlan(reqs[r].op, reqs[r].plan)
  BY FlightTyped DEF NextCall, LegalRequest

LEMMA VoidTyped ==
  ASSUME NEW s \in [Invoice -> StripeInvoice], NEW i
  PROVE  VoidIfOpen(s, i) \in [Invoice -> StripeInvoice]
<1>1. ASSUME NEW j \in Invoice
      PROVE  [s[j] EXCEPT !.st = IF @ = "open" THEN "void" ELSE @] \in StripeInvoice
  BY DEF StripeInvoice
<1> QED
  BY <1>1 DEF VoidIfOpen

(* A call that changes no row changes Stripe only.                         *)
LEMMA StripeOnlyKept ==
  ASSUME IInv, stripe' \in [Invoice -> StripeInvoice], events' \in SUBSET Invoice,
         UNCHANGED <<db, credits>>
  PROVE  DataInv'
  BY DEF IInv, DataInv, db, RefMatchesStatus, DepositCountedOnce

LEMMA EnsureCustomerKept ==
  ASSUME IInv, NEW r \in Req, EnsureCustomer(r)
  PROVE  IInv'
<1> DEFINE plan == [reqs[r].plan EXCEPT !.cust = r]
           g    == IF group.exists THEN [group EXCEPT !.cust = r] ELSE group
<1>1. NextCall(r, "customer") /\ Called(r, plan) /\ hooks' = hooks
      /\ group' = g /\ UNCHANGED <<campers, external>>
  BY DEF EnsureCustomer
<1>2. /\ plan \in Plan /\ plan.todo = reqs[r].plan.todo /\ plan.tr = reqs[r].plan.tr
      /\ plan.row = reqs[r].plan.row /\ plan.inv = reqs[r].plan.inv
  BY <1>1, CallerTyped DEF Plan
<1> HIDE DEF plan
<1>3. LegalPlan(reqs[r].op, plan)
  BY <1>1, <1>2, CallerTyped DEF LegalPlan, CreatedOrWillBe
<1>4. FlightInv'
  BY <1>1, <1>2, <1>3, CallerTyped, CalledKept
<1>5. g \in GroupRow /\ RefAgrees(g)
  BY FlightTyped DEF GroupRow, RefAgrees
<1> HIDE DEF g
<1>6. DataInv'
  BY <1>1, <1>5 DEF IInv, DataInv, external, RefMatchesStatus, DepositCountedOnce
<1> QED
  BY <1>4, <1>6 DEF IInv

LEMMA CreditKept ==
  ASSUME IInv, NEW r \in Req, CreditCustomerBalance(r)
  PROVE  IInv'
<1>1. /\ NextCall(r, "credit") /\ Called(r, reqs[r].plan) /\ hooks' = hooks
      /\ UNCHANGED <<db, stripe, events>>
      /\ credits' = [credits EXCEPT ![reqs[r].plan.target] = reqs[r].plan.cust]
  BY DEF CreditCustomerBalance
<1>2. FlightInv'
  BY <1>1, CallerTyped, CalledKept
<1>3. reqs[r].plan.cust \in Req \cup {NoCust}
  BY FlightTyped DEF Plan
<1>4. DataInv'
  BY <1>1, <1>3 DEF IInv, DataInv, db, RefMatchesStatus, DepositCountedOnce
<1> QED
  BY <1>2, <1>4 DEF IInv

(* Voiding and refunding.                                                  *)
LEMMA VoidOrRefundKept ==
  ASSUME IInv, NEW r \in Req,
         NEW step \in {"void", "void_coach", "try_void", "try_void_coach", "refund"},
         NextCall(r, step), Called(r, reqs[r].plan),
         stripe' \in [Invoice -> StripeInvoice], UNCHANGED <<db, credits, events, hooks>>
  PROVE  IInv'
<1>1. FlightInv'
  BY CallerTyped, CalledKept
<1>2. DataInv'
  BY StripeOnlyKept DEF IInv, DataInv
<1> QED
  BY <1>1, <1>2 DEF IInv

LEMMA RefundKept ==
  ASSUME IInv, NEW r \in Req, RefundInvoiceKeeping(r)
  PROVE  IInv'
<1> DEFINE i == reqs[r].plan.ref
<1>1. stripe \in [Invoice -> StripeInvoice]
  BY DEF IInv, DataInv
<1>2. ASSUME NEW how \in {"all", "part"}
      PROVE  [stripe EXCEPT ![i].refunded = how] \in [Invoice -> StripeInvoice]
  <2>1. ASSUME NEW j \in Invoice
        PROVE  [stripe[j] EXCEPT !.refunded = how] \in StripeInvoice
    BY <1>1 DEF StripeInvoice
  <2> QED
    BY <1>1, <2>1
<1>3. /\ NextCall(r, "refund") /\ Called(r, reqs[r].plan)
      /\ UNCHANGED <<db, credits, events, hooks>>
      /\ \/ stripe' = stripe
         \/ \E how \in {"all", "part"} : stripe' = [stripe EXCEPT ![i].refunded = how]
  BY DEF RefundInvoiceKeeping
<1>4. stripe' \in [Invoice -> StripeInvoice]
  BY <1>1, <1>2, <1>3
<1> QED
  BY <1>3, <1>4, VoidOrRefundKept

LEMMA InvoicedTyped ==
  ASSUME IInv, NEW i \in Invoice, NEW st \in {"draft", "open"}, NEW plan \in Plan,
         Invoiced(i, st, plan)
  PROVE  stripe' \in [Invoice -> StripeInvoice]
<1> DEFINE inv == [NotCreated EXCEPT !.st = st, !.kind = plan.kind, !.lines = plan.lines,
                     !.deposits = plan.deposits, !.riders = plan.riders]
<1>1. inv \in StripeInvoice
  BY DEF Plan, NotCreated, StripeInvoice
<1> QED
  BY <1>1 DEF Invoiced, IInv, DataInv

LEMMA CreateInvoiceKept ==
  ASSUME IInv, NEW r \in Req, CreateInvoice(r)
  PROVE  IInv'
<1>1. PICK i \in Invoice : /\ Invoiced(i, "open", reqs[r].plan)
                          /\ Called(r, [reqs[r].plan EXCEPT !.inv = i])
  BY DEF CreateInvoice
<1> DEFINE plan == [reqs[r].plan EXCEPT !.inv = i]
<1>2. NextCall(r, "create") /\ UNCHANGED <<db, credits, events, hooks>>
  BY DEF CreateInvoice
<1>3. i \in InvoiceRef /\ i # NoInvoice
  BY StoreAssumption DEF InvoiceRef, Invoice, NoInvoice
<1>4. /\ plan \in Plan /\ plan.todo = reqs[r].plan.todo /\ plan.tr = reqs[r].plan.tr
      /\ plan.row = reqs[r].plan.row /\ plan.inv = i
  BY <1>2, <1>3, CallerTyped DEF Plan
<1> HIDE DEF plan
<1>5. LegalPlan(reqs[r].op, plan)
  BY <1>2, <1>3, <1>4, CallerTyped DEF LegalPlan, CreatedOrWillBe
<1>6. FlightInv'
  BY <1>1, <1>2, <1>3, <1>4, <1>5, CallerTyped, CalledKept DEF plan
<1>7. stripe' \in [Invoice -> StripeInvoice]
  BY <1>1, <1>2, CallerTyped, InvoicedTyped
<1>8. DataInv'
  BY <1>2, <1>7, StripeOnlyKept DEF IInv, DataInv
<1> QED
  BY <1>6, <1>8 DEF IInv

LEMMA CreateInvoicePartlyKept ==
  ASSUME IInv, NEW r \in Req, CreateInvoicePartly(r)
  PROVE  IInv'
<1> DEFINE plan == reqs[r].plan
<1>1. PICK i \in Invoice, L \in SUBSET plan.lines, D \in SUBSET plan.deposits,
           R \in {{}, plan.riders} :
        Invoiced(i, "draft", [plan EXCEPT !.lines = L, !.deposits = D, !.riders = R])
  BY DEF CreateInvoicePartly
<1> DEFINE part == [plan EXCEPT !.lines = L, !.deposits = D, !.riders = R]
<1>2. plan \in Plan
  BY FlightTyped
<1>3. part \in Plan
  BY <1>2 DEF Plan
<1>4. stripe' \in [Invoice -> StripeInvoice]
  BY <1>1, <1>3, InvoicedTyped
<1>5. DataInv'
  BY <1>4, StripeOnlyKept DEF CreateInvoicePartly, IInv, DataInv
<1>6. FlightInv'
  BY RequestKept, IdleTyped, IdleLegal DEF CreateInvoicePartly, IInv
<1> QED
  BY <1>5, <1>6 DEF IInv

LEMMA StripeCallKept ==
  ASSUME IInv, NEW r \in Req, StripeCall(r)
  PROVE  IInv'
<1>1. stripe \in [Invoice -> StripeInvoice]
  BY DEF IInv, DataInv
<1>2. CASE VoidBalanceInvoice(r)
  BY <1>1, <1>2, VoidTyped, VoidOrRefundKept DEF VoidBalanceInvoice
<1>3. CASE VoidCoachInvoice(r)
  BY <1>1, <1>3, VoidTyped, VoidOrRefundKept DEF VoidCoachInvoice
<1>4. CASE TryVoidInvoice(r)
  BY <1>1, <1>4, VoidTyped, VoidOrRefundKept DEF TryVoidInvoice
<1>5. CASE TryVoidCoachInvoice(r)
  BY <1>1, <1>5, VoidTyped, VoidOrRefundKept DEF TryVoidCoachInvoice
<1> QED
  BY <1>2, <1>3, <1>4, <1>5, EnsureCustomerKept, CreditKept, RefundKept,
     CreateInvoiceKept, CreateInvoicePartlyKept DEF StripeCall

----------------------------------------------------------------------------
(* Deliveries.                                                             *)

(* A delivery in flight changes to another well-typed one that settles, or *)
(* transitions nothing.                                                    *)
LEMMA DeliveryKept ==
  ASSUME FlightInv, NEW h \in Hook, NEW d \in Delivery,
         d.tr = Keep \/ SettlesTr(d.tr),
         hooks' = [hooks EXCEPT ![h] = d], reqs' = reqs
  PROVE  FlightInv'
<1>1. hooks' \in [Hook -> Delivery]
  BY DEF FlightInv
<1>2. \A x \in Hook : hooks'[x].tr = Keep \/ SettlesTr(hooks'[x].tr)
  BY DEF FlightInv, PlansLegal
<1> QED
  BY <1>1, <1>2 DEF FlightInv, PlansLegal

LEMMA NoHookKeeps == NoHook.tr = Keep
  BY DEF NoHook

LEMMA DeliverEventKept ==
  ASSUME IInv, NEW h \in Hook, NEW i \in Invoice, DeliverEvent(h, i)
  PROVE  IInv'
<1> DEFINE tr == IF stripe[i].kind = "balance" THEN SettleBalanceTr(group) ELSE Keep
           d  == [NoHook EXCEPT !.pc = "read", !.inv = i, !.tr = tr]
<1>1. /\ UNCHANGED <<db, stripe, credits, reqs>>
      /\ events' \in {events, events \ {i}}
      /\ \/ hooks' = hooks
         \/ hooks' = [hooks EXCEPT ![h] = d] /\ ~AlreadySettled(i)
  BY DEF DeliverEvent, Acknowledge
<1>2. DataInv'
  BY <1>1, StripeOnlyKept DEF IInv, DataInv
<1>3. tr \in Transition /\ (AlreadySettled(i) \/ tr = Keep \/ SettlesTr(tr))
  <2>1. CASE stripe[i].kind = "balance"
    <3>1. group \in GroupRow /\ "balance_paid" \in BillingStatus
      BY DEF IInv, DataInv, BillingStatus
    <3>2. tr = Move(group, "balance_paid")
      BY <2>1 DEF SettleBalanceTr
    <3> HIDE DEF tr
    <3>3. /\ tr \in Transition /\ tr.from = group.billing /\ tr.to = "balance_paid"
          /\ tr.from # ""
      BY <3>1, <3>2, MoveTyped
    <3> QED
      BY <2>1, <3>3 DEF SettlesTr, AlreadySettled, BalanceSettled
  <2>2. CASE stripe[i].kind # "balance"
    BY <2>2, KeepTyped
  <2> QED
    BY <2>1, <2>2
<1> HIDE DEF tr
<1>4. d \in Delivery /\ d.tr = tr
  BY <1>3, NoHookTyped DEF Delivery, InvoiceRef
<1> HIDE DEF d
<1>5. FlightInv'
  <2>1. CASE hooks' = hooks
    BY <1>1, <2>1, FlightKept DEF IInv
  <2>2. CASE hooks' = [hooks EXCEPT ![h] = d] /\ ~AlreadySettled(i)
    BY <1>1, <1>3, <1>4, <2>2, DeliveryKept DEF IInv
  <2> QED
    BY <1>1, <2>1, <2>2
<1> QED
  BY <1>2, <1>5 DEF IInv

LEMMA SettleOwedKept ==
  ASSUME IInv, NEW h \in Hook, SettleOwedDeposits(h)
  PROVE  IInv'
<1> DEFINE d == [hooks[h] EXCEPT !.pc = "locked", !.rows = Owing(campers)]
<1>1. hooks[h] \in Delivery /\ (hooks[h].tr = Keep \/ SettlesTr(hooks[h].tr))
  BY DEF IInv, FlightInv, PlansLegal
<1>2. d \in Delivery /\ d.tr = hooks[h].tr
  BY <1>1, CampersOfGroup DEF Delivery
<1>3. hooks' = [hooks EXCEPT ![h] = d] /\ UNCHANGED <<db, external, reqs>>
  BY <1>1 DEF SettleOwedDeposits, IInv, FlightInv, Delivery
<1> HIDE DEF d
<1> QED
  BY <1>1, <1>2, <1>3, DeliveryKept, DataKept DEF IInv

(* What a delivery writes.                                                 *)
LEMMA DeliveredKept ==
  ASSUME IInv, NEW h \in Hook, NEW i, Acknowledge(i),
         group' \in GroupRow, RefAgrees(group'),
         campers' \in [Camper -> CamperRow], \A c \in Camper : CountedOnce(campers'[c]),
         hooks' = [hooks EXCEPT ![h] = NoHook], UNCHANGED <<stripe, credits, reqs>>
  PROVE  IInv'
<1>1. FlightInv'
  BY DeliveryKept, NoHookTyped, NoHookKeeps DEF IInv
<1>2. events' \in SUBSET Invoice
  BY DEF Acknowledge, IInv, DataInv
<1>3. RefMatchesStatus' /\ DepositCountedOnce'
  BY DEF RefMatchesStatus, RefAgrees, DepositCountedOnce
<1>4. DataInv'
  BY <1>2, <1>3 DEF IInv, DataInv
<1> QED
  BY <1>1, <1>4 DEF IInv

(* A settling delivery takes the group from the status it read.            *)
LEMMA SettlingStamp ==
  ASSUME IInv, NEW h \in Hook, group.billing = hooks[h].tr.from
  PROVE  LET g == Stamp(group, hooks[h].tr) IN
         g \in GroupRow /\ RefAgrees(g) /\ g.billing = "balance_paid"
<1> DEFINE tr == hooks[h].tr
<1>1. tr \in Transition /\ (tr = Keep \/ SettlesTr(tr)) /\ group \in GroupRow
  BY DEF IInv, DataInv, FlightInv, PlansLegal, Delivery
<1>2. group.billing # "" /\ Keep.from = ""
  BY <1>1 DEF GroupRow, BillingStatus, Keep
<1>3. tr.to = "balance_paid" /\ tr.from = group.billing /\ tr.from # ""
  BY <1>1, <1>2 DEF SettlesTr
<1> HIDE DEF tr
<1>4. Stamp(group, tr) \in GroupRow /\ Stamp(group, tr).billing = "balance_paid"
  BY <1>1, <1>3, StampTyped DEF ChangesBilling
<1> QED
  BY <1>4 DEF RefAgrees, tr

LEMMA CommitBalancePaidKept ==
  ASSUME IInv, NEW h \in Hook, CommitBalancePaid(h)
  PROVE  IInv'
<1>1. group' \in GroupRow /\ RefAgrees(group')
  BY SettlingStamp DEF CommitBalancePaid
<1>2. campers' \in [Camper -> CamperRow] /\ \A c \in Camper : CountedOnce(campers'[c])
  BY SettleDepositsTyped DEF CommitBalancePaid, IInv, DataInv, DepositCountedOnce
<1> QED
  BY <1>1, <1>2, DeliveredKept DEF CommitBalancePaid

LEMMA CommitCoachFeePaidKept ==
  ASSUME IInv, NEW h \in Hook, CommitCoachFeePaid(h)
  PROVE  IInv'
<1> DEFINE s == Stamp(group, Keep)
           g == [s EXCEPT !.coachPaid = TRUE]
<1>1. s \in GroupRow /\ RefAgrees(s)
  BY KeepStamp DEF IInv, DataInv, RefMatchesStatus
<1> HIDE DEF s
<1>2. g \in GroupRow /\ RefAgrees(g)
  BY <1>1 DEF GroupRow, RefAgrees
<1>3. group' = g
  BY DEF CommitCoachFeePaid, s
<1> HIDE DEF g
<1> QED
  BY <1>2, <1>3, DeliveredKept
     DEF CommitCoachFeePaid, IInv, DataInv, DepositCountedOnce

LEMMA ReconcileStepKept ==
  ASSUME IInv, NEW h \in Hook, ReconcileStep(h)
  PROVE  IInv'
<1>1. CASE DeliveryFails(h)
  BY <1>1, DataKept, DeliveryKept, NoHookTyped, NoHookKeeps DEF DeliveryFails, IInv
<1> QED
  BY <1>1, DeliverEventKept, SettleOwedKept, CommitBalancePaidKept,
     CommitCoachFeePaidKept DEF ReconcileStep

(* A settlement by hand without a version goes on as a delivery would.     *)
LEMMA SettleByHandAlone ==
  ASSUME IInv, NEW r \in Req, NEW h \in Hook, SettleByHand(r, h)
  PROVE  /\ UNCHANGED <<db, external>>
         /\ reqs[r].pc = "work" /\ reqs[r].op = "mark_paid"
         /\ reqs'[r] = Idle /\ \A x \in Req \ {r} : reqs'[x] = reqs[x]
         /\ hooks'[h].inv = NoInvoice /\ hooks'[h].tr = reqs[r].plan.tr
         /\ \A x \in Hook \ {h} : hooks'[x] = hooks[x]
  BY NoHookTyped DEF SettleByHand, IInv, FlightInv, Delivery, NoHook

LEMMA SettleByHandKept ==
  ASSUME IInv, NEW r \in Req, NEW h \in Hook, SettleByHand(r, h)
  PROVE  IInv'
<1> DEFINE tr == reqs[r].plan.tr
           d  == [NoHook EXCEPT !.pc = "locked", !.tr = tr, !.rows = Owing(campers)]
<1>1. reqs' = [reqs EXCEPT ![r] = Idle] /\ hooks' = [hooks EXCEPT ![h] = d]
  BY DEF SettleByHand
<1>2. tr \in Transition /\ SettlesTr(tr)
  BY FlightTyped DEF SettleByHand, LegalRequest, LegalPlan, LegalTr
<1> HIDE DEF tr
<1>3. d \in Delivery /\ d.tr = tr
  BY <1>2, NoHookTyped, CampersOfGroup DEF Delivery
<1> HIDE DEF d
<1>4. reqs' \in [Req -> Request] /\ \A x \in Req : LegalRequest(reqs'[x])
  BY <1>1, IdleTyped, IdleLegal DEF IInv, FlightInv, PlansLegal
<1>5. /\ hooks' \in [Hook -> Delivery]
      /\ \A x \in Hook : hooks'[x].tr = Keep \/ SettlesTr(hooks'[x].tr)
  BY <1>1, <1>2, <1>3 DEF IInv, FlightInv, PlansLegal
<1>6. FlightInv'
  BY <1>4, <1>5 DEF FlightInv, PlansLegal
<1> QED
  BY <1>6, SettleByHandAlone, DataKept DEF IInv

----------------------------------------------------------------------------
(* The checkout, the override, Stripe's own steps and the calendar.        *)

(* A step that rewrites the group row and touches nothing in flight.       *)
LEMMA GroupKept ==
  ASSUME IInv, group' \in GroupRow, RefAgrees(group'),
         UNCHANGED <<campers, external, reqs, hooks>>
  PROVE  IInv'
<1>1. DataInv'
  BY DEF IInv, DataInv, external, RefMatchesStatus, RefAgrees, DepositCountedOnce
<1> QED
  BY <1>1, FlightKept DEF IInv

LEMMA CheckoutKept ==
  ASSUME IInv, CheckoutCompleted \/ CheckoutExpired \/ OverridePaymentStatus \/ DueDatePasses
  PROVE  IInv'
<1>1. group \in GroupRow /\ RefAgrees(group)
  BY DEF IInv, DataInv, RefMatchesStatus
<1>2. CASE CheckoutCompleted
  <2> DEFINE coachIn == group.coachIn \/ /\ ~BalanceSettled(group)
                                         /\ CoachPassengers(campers) # {}
             settled == [group EXCEPT !.pay = "paid", !.billing = "balance_paid",
                                      !.coachIn = coachIn]
             paid    == [group EXCEPT !.pay = "paid"]
  <2>1. coachIn \in BOOLEAN
    BY <1>1 DEF GroupRow
  <2>2. group' = IF group.pif THEN settled ELSE paid
    BY <1>2, <1>1 DEF CheckoutCompleted, GroupRow
  <2> HIDE DEF coachIn
  <2>3. settled \in GroupRow /\ RefAgrees(settled)
    BY <1>1, <2>1 DEF GroupRow, BillingStatus, PaymentStatus, RefAgrees
  <2>4. paid \in GroupRow /\ RefAgrees(paid)
    BY <1>1 DEF GroupRow, PaymentStatus, RefAgrees
  <2>5. group' \in GroupRow /\ RefAgrees(group')
    BY <2>2, <2>3, <2>4
  <2> QED
    BY <1>2, <2>5, GroupKept DEF CheckoutCompleted
<1>3. CASE CheckoutExpired
  <2>1. group' \in GroupRow /\ RefAgrees(group')
    BY <1>1, <1>3 DEF CheckoutExpired, GroupRow, PaymentStatus, RefAgrees
  <2> QED
    BY <1>3, <2>1, GroupKept DEF CheckoutExpired
<1>4. CASE OverridePaymentStatus
  <2>1. PICK pay \in PaymentStatus : group' = [group EXCEPT !.pay = pay]
    BY <1>4 DEF OverridePaymentStatus
  <2>2. group' \in GroupRow /\ RefAgrees(group')
    BY <1>1, <2>1 DEF GroupRow, RefAgrees
  <2> QED
    BY <1>4, <2>2, GroupKept DEF OverridePaymentStatus
<1>5. CASE DueDatePasses
  <2>1. group' \in GroupRow /\ RefAgrees(group')
    BY <1>1, <1>5 DEF DueDatePasses, GroupRow, RefAgrees
  <2> QED
    BY <1>5, <2>1, GroupKept DEF DueDatePasses
<1> QED
  BY <1>2, <1>3, <1>4, <1>5

LEMMA StripeAloneKept ==
  ASSUME IInv, NEW i \in Invoice, PayInvoice(i) \/ FinalizeDraft(i)
  PROVE  IInv'
<1> DEFINE st == IF NothingToPay(i) THEN "paid" ELSE "open"
<1>1. stripe \in [Invoice -> StripeInvoice] /\ events \in SUBSET Invoice
  BY DEF IInv, DataInv
<1>2. \E s \in {"paid", "open"} : stripe' = [stripe EXCEPT ![i].st = s]
  BY DEF PayInvoice, FinalizeDraft
<1>3. PICK s \in {"paid", "open"} : stripe' = [stripe EXCEPT ![i].st = s]
  BY <1>2
<1>4. [stripe[i] EXCEPT !.st = s] \in StripeInvoice
  BY <1>1 DEF StripeInvoice
<1>5. stripe' \in [Invoice -> StripeInvoice]
  BY <1>1, <1>3, <1>4
<1>6. events' \in SUBSET Invoice /\ UNCHANGED <<db, credits, reqs, hooks>>
  BY <1>1 DEF PayInvoice, FinalizeDraft
<1> QED
  BY <1>5, <1>6, StripeOnlyKept, FlightKept DEF IInv

----------------------------------------------------------------------------
(* The invariant is inductive.                                             *)

LEMMA InitIInv == ASSUME Init PROVE IInv
<1>1. PICK kind \in Kinds : group = SubmittedGroup(kind, ChargeDue(kind, Rows(campers, Registered)))
  BY DEF Init
<1>2. group \in GroupRow /\ group.billing = "none" /\ group.ref = NoInvoice
  BY <1>1, NullGroupTyped DEF SubmittedGroup, GroupRow, PaymentStatus, NullGroup
<1>3. PICK main \in Registered, who \in [Registered -> Profile] :
        campers = [c \in Camper |->
          IF c \in Registered
          THEN [NewRow EXCEPT !.st = "here", !.main = (c = main), !.att = who[c].att,
                              !.age = who[c].age, !.coach = who[c].coach]
          ELSE NewRow]
  BY DEF Init
<1> DEFINE row(c) == [NewRow EXCEPT !.st = "here", !.main = (c = main), !.att = who[c].att,
                                    !.age = who[c].age, !.coach = who[c].coach]
<1>4. ASSUME NEW c \in Registered PROVE row(c) \in CamperRow /\ CountedOnce(row(c))
  <2>1. who[c].att \in Attendance /\ who[c].age \in Age /\ who[c].coach \in BOOLEAN
    BY StoreAssumption
  <2>2. row(c) \in CamperRow /\ row(c).owed = NewRow.owed /\ row(c).paid = NewRow.paid
    BY <2>1, NewRowTyped DEF CamperRow
  <2> QED
    BY <2>2 DEF CountedOnce, NewRow, Deposit
<1> HIDE DEF row
<1>5. campers = [c \in Camper |-> IF c \in Registered THEN row(c) ELSE NewRow]
  BY <1>3 DEF row
<1>6. campers \in [Camper -> CamperRow] /\ \A c \in Camper : CountedOnce(campers[c])
  BY <1>4, <1>5, NewRowTyped, NoPlanCounted DEF OwedOnly
<1>7. NotCreated \in StripeInvoice
  BY DEF NotCreated, StripeInvoice
<1>8. DataInv
  BY <1>2, <1>6, <1>7 DEF Init, DataInv, RefMatchesStatus, RefAgrees, DepositCountedOnce
<1>9. FlightInv
  BY IdleTyped, IdleLegal, NoHookTyped, NoHookKeeps DEF Init, FlightInv, PlansLegal
<1> QED
  BY <1>8, <1>9 DEF IInv

LEMMA NextIInv == ASSUME IInv, [Next]_vars PROVE IInv'
<1>1. CASE \E r \in Req : RequestStep(r)
  <2>1. PICK r \in Req : RequestStep(r)
    BY <1>1
  <2> QED
    BY <2>1, AllocationStepKept, InvoicingStepKept, CamperEditStepKept, StripeCallKept,
       GiveUpKept DEF RequestStep
<1>2. CASE \E h \in Hook : ReconcileStep(h)
  BY <1>2, ReconcileStepKept
<1>3. CASE \E i \in Invoice : PayInvoice(i) \/ FinalizeDraft(i)
  BY <1>3, StripeAloneKept
<1>4. CASE UNCHANGED vars
  BY <1>4, DataKept, FlightKept DEF vars, IInv, db, external
<1>5. CASE \E r \in Req, h \in Hook : SettleByHand(r, h)
  BY <1>5, SettleByHandKept
<1> QED
  BY <1>1, <1>2, <1>3, <1>4, <1>5, CheckoutKept DEF Next

(* Every reachable state satisfies the inductive invariant.                *)
THEOREM Invariance == Spec => []IInv
<1>1. Init => IInv
  BY InitIInv
<1>2. IInv /\ [Next]_vars => IInv'
  BY NextIInv
<1> QED
  BY <1>1, <1>2, PTL DEF Spec

(* The rows, the invoices and the requests in flight are always of the     *)
(* shapes declared in BillingStore.                                        *)
THEOREM TypeCorrect == Spec => []TypeOK
<1>1. IInv => TypeOK
  BY DEF IInv, DataInv, FlightInv, TypeOK
<1> QED
  BY <1>1, Invariance, PTL

(* For any number of dashboards and deliveries, versioned or not: a group  *)
(* is invoiced only with an invoice on file, and keeps one only while it   *)
(* is invoiced or settled.                                                 *)
THEOREM ReferenceAgrees == Spec => []RefMatchesStatus
<1>1. IInv => RefMatchesStatus
  BY DEF IInv, DataInv
<1> QED
  BY <1>1, Invariance, PTL

(* However often a payment is reported, and whatever is edited, released   *)
(* and settled again in between, a deposit is owed or paid once at most.   *)
THEOREM DepositsCountedOnce == Spec => []DepositCountedOnce
<1>1. IInv => DepositCountedOnce
  BY DEF IInv, DataInv
<1> QED
  BY <1>1, Invariance, PTL

(* No request in flight ever carries a transition its operation may not    *)
(* make, nor an invoice to record that is neither created nor about to be. *)
THEOREM RequestsLegal == Spec => []PlansLegal
<1>1. IInv => PlansLegal
  BY DEF IInv, FlightInv
<1> QED
  BY <1>1, Invariance, PTL

----------------------------------------------------------------------------
(* What may undo a settled balance.                                        *)

(* The operations whose transaction stamps the transition they planned.    *)
Stamping == {"allocate", "unallocate", "confirm_free", "release", "cancel", "sweep",
             "mark_paid", "resend", "extend"} \cup RosterEdit

(* A request that commits against a settled group leaves it settled, or    *)
(* releases it: no other plan may start from balance_paid.                 *)
LEMMA CommitSettled ==
  ASSUME IInv, NEW r \in Req, NEW op \in Stamping, NEW S, MayCommit(r, op, S),
         group.billing = "balance_paid"
  PROVE  Stamp(group, reqs[r].plan.tr).billing \in {"balance_paid", "released"}
<1> DEFINE tr == reqs[r].plan.tr
<1>1. /\ tr \in Transition /\ group \in GroupRow
      /\ LegalTr(op, tr) /\ tr.from \in {"", "balance_paid"}
  BY FlightTyped DEF MayCommit, LegalRequest, LegalPlan
<1> HIDE DEF tr
<1>2. ChangesBilling(tr) => tr.to \in {"balance_paid", "released"}
  <2>1. CASE op = "allocate" \/ op = "unallocate"
    BY <1>1, <2>1 DEF LegalTr, Places, ChangesBilling
  <2>2. CASE op \in {"release", "cancel", "sweep", "mark_paid"}
    BY <1>1, <2>2 DEF LegalTr, SettlesTr
  <2>3. CASE op \in {"confirm_free", "resend", "extend"}
    <3>1. \/ tr = [from |-> "allocated", to |-> "free_confirmed"]
          \/ tr = [from |-> "invoiced", to |-> "invoiced"]
      BY <1>1, <2>3, Zenon DEF LegalTr
    <3>2. tr.from = "allocated" \/ tr.from = "invoiced"
      BY <3>1
    <3> QED
      BY <1>1, <3>2
  <2>4. CASE op \in RosterEdit
    <3>1. tr = Keep \/ tr.from \in {"allocated", "invoiced"}
      BY <1>1, <2>4 DEF LegalTr
    <3>2. ~ChangesBilling(Keep)
      BY DEF ChangesBilling, Keep
    <3> QED
      BY <1>1, <3>1, <3>2
  <2> QED
    BY <2>1, <2>2, <2>3, <2>4 DEF Stamping
<1> QED
  BY <1>1, <1>2, StampTyped DEF tr

(* Recording an invoice needs an unbilled group.                           *)
LEMMA InvoiceUnbilled ==
  ASSUME IInv, NEW r \in Req, NEW S, MayCommit(r, "invoice", S)
  PROVE  group.billing # "balance_paid"
<1>1. /\ reqs[r].plan.tr.from \in Unbilled
      /\ reqs[r].plan.tr.from \in {"", group.billing}
  BY FlightTyped DEF MayCommit, LegalRequest, LegalPlan, LegalTr
<1> QED
  BY <1>1 DEF Unbilled

StaysSettled == group'.billing \in {"balance_paid", "released"}

(* A roster edit stamps, and may forget the invoice.                       *)
LEMMA RosterSettled ==
  ASSUME IInv, NEW r \in Req, NEW op \in RosterEdit, NEW S, MayCommit(r, op, S),
         group.billing = "balance_paid"
  PROVE  StampRoster(group, reqs[r].plan.tr).billing \in {"balance_paid", "released"}
<1> DEFINE s == Stamp(group, reqs[r].plan.tr)
<1>1. s \in GroupRow /\ s.billing \in {"balance_paid", "released"}
  BY FlightTyped, StampTyped, CommitSettled DEF Stamping
<1> HIDE DEF s
<1>2. ClearInvoice(s).billing = s.billing
  BY <1>1, ClearInvoiceTyped
<1> QED
  BY <1>1, <1>2 DEF StampRoster, s

LEMMA AllocationSettled ==
  ASSUME IInv, NEW r \in Req, AllocationStep(r), group.billing = "balance_paid"
  PROVE  StaysSettled
<1>1. CASE CommitAllocate(r)
  BY <1>1, CommitSettled DEF CommitAllocate, Committed, Stamping, StaysSettled
<1>2. CASE CommitUnallocate(r)
  BY <1>2, CommitSettled DEF CommitUnallocate, Committed, Stamping, StaysSettled
<1>3. CASE CommitConfirmFree(r)
  BY <1>3, CommitSettled DEF CommitConfirmFree, Committed, Stamping, StaysSettled
<1>4. CASE CommitRelease(r)
  <2> DEFINE s == Stamp(group, reqs[r].plan.tr)
  <2>1. s \in GroupRow /\ s.billing \in {"balance_paid", "released"}
    BY <1>4, FlightTyped, StampTyped, CommitSettled DEF CommitRelease, Stamping
  <2>2. group' = ClearInvoice(s)
    BY <1>4 DEF CommitRelease, Committed
  <2> HIDE DEF s
  <2> QED
    BY <2>1, <2>2, ClearInvoiceTyped DEF StaysSettled
<1>5. CASE group' = group
  BY <1>5 DEF StaysSettled
<1> QED
  BY <1>1, <1>2, <1>3, <1>4, <1>5
     DEF AllocationStep, BeginAllocate, DecideAllocate, BeginUnallocate, BeginConfirmFree,
         BeginRelease, SweepList, SweepRelease, Begin, BeginDecided, Decided, db

LEMMA InvoicingSettled ==
  ASSUME IInv, NEW r \in Req, InvoicingStep(r), group.billing = "balance_paid"
  PROVE  StaysSettled
<1> DEFINE k == Stamp(group, Keep)
<1>0. k \in GroupRow /\ k.billing = "balance_paid"
  BY FlightTyped, KeepStamp
<1>1. ~CommitSendInvoice(r)
  BY InvoiceUnbilled DEF CommitSendInvoice
<1>2. CASE CommitSendCoachInvoice(r) \/ CommitWaiveCoachFee(r) \/ CommitUnwaiveCoachFee(r)
  <2>1. \/ group' = [k EXCEPT !.coachRef = reqs[r].plan.inv]
        \/ group' = [k EXCEPT !.waived = TRUE, !.coachRef = NoInvoice]
        \/ group' = [k EXCEPT !.waived = FALSE]
    BY <1>2 DEF CommitSendCoachInvoice, CommitWaiveCoachFee, CommitUnwaiveCoachFee, Committed
  <2> HIDE DEF k
  <2> QED
    BY <1>0, <2>1 DEF StaysSettled, GroupRow
<1>3. CASE CommitMarkBalancePaid(r)
  BY <1>3, CommitSettled DEF CommitMarkBalancePaid, Committed, Stamping, StaysSettled
<1>4. CASE CommitDelete(r)
  <2>1. group' = [group EXCEPT !.exists = FALSE] /\ group \in GroupRow
    BY <1>4, FlightTyped DEF CommitDelete, Committed
  <2> QED
    BY <2>1 DEF StaysSettled, GroupRow
<1>5. CASE CommitResendInvoice(r)
  BY <1>5, CommitSettled DEF CommitResendInvoice, Committed, Stamping, StaysSettled
<1>6. CASE CommitExtendDue(r)
  <2> DEFINE s == Stamp(group, reqs[r].plan.tr)
  <2>1. s \in GroupRow /\ s.billing \in {"balance_paid", "released"}
    BY <1>6, FlightTyped, StampTyped, CommitSettled DEF CommitExtendDue, Stamping
  <2>2. group' = [s EXCEPT !.due = reqs[r].plan.due]
    BY <1>6 DEF CommitExtendDue, Committed
  <2> HIDE DEF s
  <2> QED
    BY <2>1, <2>2 DEF StaysSettled, GroupRow
<1>7. CASE group' = group
  BY <1>7 DEF StaysSettled
<1> QED
  BY <1>1, <1>2, <1>3, <1>4, <1>5, <1>6, <1>7
     DEF InvoicingStep, BeginSendInvoice, DecideSendInvoice, BeginSendCoachInvoice,
         DecideSendCoachInvoice, BeginWaiveCoachFee, DecideWaiveCoachFee,
         BeginUnwaiveCoachFee, BeginMarkBalancePaid, BeginDelete, DecideDelete,
         BeginResendInvoice, BeginExtendDue, Begin, BeginDecided, Decided, db

LEMMA CamperEditSettled ==
  ASSUME IInv, NEW r \in Req, CamperEditStep(r), group.billing = "balance_paid"
  PROVE  StaysSettled
<1> DEFINE k == Stamp(group, Keep)
<1>0. k \in GroupRow /\ k.billing = "balance_paid"
  BY FlightTyped, KeepStamp
<1>1. CASE CommitRemoveCamper(r) \/ CommitConvertToDayVisitor(r) \/ CommitEditCamper(r)
           \/ CommitAddCamper(r)
  <2>1. /\ group' = StampRoster(group, reqs[r].plan.tr)
        /\ \E op \in RosterEdit : \E S : MayCommit(r, op, S)
    BY <1>1 DEF CommitRemoveCamper, CommitConvertToDayVisitor, CommitEditCamper,
       CommitAddCamper, RowCommitted, Committed, RosterEdit
  <2> QED
    BY <2>1, RosterSettled DEF StaysSettled
<1>2. CASE CommitUpdateDayPass(r) \/ CommitUpdateCoach(r) \/ CommitMakeMainContact(r)
           \/ CommitWaiveDeposit(r)
  <2>1. group' = k \/ group' = [k EXCEPT !.coachRef = NoInvoice]
    BY <1>2 DEF CommitUpdateDayPass, CommitUpdateCoach, CommitMakeMainContact,
       CommitWaiveDeposit, RowCommitted, Committed
  <2> HIDE DEF k
  <2> QED
    BY <1>0, <2>1 DEF StaysSettled, GroupRow
<1>3. CASE group' = group
  BY <1>3 DEF StaysSettled
<1> QED
  BY <1>1, <1>2, <1>3
     DEF CamperEditStep, BeginRemoveCamper, DecideRemoveCamper, BeginConvertToDayVisitor,
         DecideConvertToDayVisitor, BeginUpdateDayPass, DecideUpdateDayPass,
         BeginUpdateCoach, DecideUpdateCoach, BeginEditCamper, DecideEditCamper,
         BeginAddCamper, DecideAddCamper, BeginMakeMainContact, DecideMakeMainContact,
         BeginWaiveDeposit, DecideWaiveDeposit, Begin, Decided, db

LEMMA StripeCallSettled ==
  ASSUME IInv, NEW r \in Req, StripeCall(r), group.billing = "balance_paid"
  PROVE  StaysSettled
<1>1. \/ group' = group
      \/ group' = [group EXCEPT !.cust = r]
  BY DEF StripeCall, EnsureCustomer, CreditCustomerBalance, VoidBalanceInvoice,
     VoidCoachInvoice, TryVoidInvoice, TryVoidCoachInvoice, RefundInvoiceKeeping,
     CreateInvoice, CreateInvoicePartly, db
<1> QED
  BY <1>1, FlightTyped DEF StaysSettled, GroupRow

LEMMA ReconcileSettled ==
  ASSUME IInv, NEW h \in Hook, ReconcileStep(h), group.billing = "balance_paid"
  PROVE  StaysSettled
<1>1. CASE CommitBalancePaid(h)
  BY <1>1, SettlingStamp DEF CommitBalancePaid, StaysSettled
<1>2. CASE CommitCoachFeePaid(h)
  <2> DEFINE k == Stamp(group, Keep)
  <2>1. k \in GroupRow /\ k.billing = "balance_paid"
    BY KeepStamp DEF IInv, DataInv, RefMatchesStatus
  <2>2. group' = [k EXCEPT !.coachPaid = TRUE]
    BY <1>2 DEF CommitCoachFeePaid
  <2> HIDE DEF k
  <2> QED
    BY <2>1, <2>2 DEF StaysSettled, GroupRow
<1>3. CASE group' = group
  BY <1>3 DEF StaysSettled
<1> QED
  BY <1>1, <1>2, <1>3 DEF ReconcileStep, DeliverEvent, SettleOwedDeposits, DeliveryFails, db

LEMMA OthersSettled ==
  ASSUME IInv, group.billing = "balance_paid",
         \/ CheckoutCompleted \/ CheckoutExpired \/ OverridePaymentStatus \/ DueDatePasses
         \/ \E i \in Invoice : PayInvoice(i) \/ FinalizeDraft(i)
         \/ UNCHANGED vars
  PROVE  StaysSettled
<1>1. group \in GroupRow
  BY DEF IInv, DataInv
<1>2. CASE CheckoutCompleted \/ CheckoutExpired \/ OverridePaymentStatus \/ DueDatePasses
  BY <1>1, <1>2 DEF CheckoutCompleted, CheckoutExpired, OverridePaymentStatus,
     DueDatePasses, StaysSettled, GroupRow
<1>3. CASE group' = group
  BY <1>3 DEF StaysSettled
<1> QED
  BY <1>2, <1>3 DEF PayInvoice, FinalizeDraft, db, vars

(* Only a release, or the deletion of the group, undoes a settled balance: *)
(* not an allocation, an edit or an invoice decided before the payment     *)
(* arrived, with or without a version.                                     *)
THEOREM SettledStaysSettled == Spec => SettledUndoneOnlyByRelease
<1> DEFINE A == group.exists /\ group'.exists /\ group.billing = "balance_paid"
                  => group'.billing \in {"balance_paid", "released"}
<1>1. ASSUME IInv, [Next]_vars PROVE A
  <2>1. SUFFICES ASSUME group.billing = "balance_paid" PROVE StaysSettled
    BY DEF StaysSettled
  <2>2. CASE \E r \in Req : RequestStep(r)
    <3>1. PICK r \in Req : RequestStep(r)
      BY <2>2
    <3>2. CASE GiveUp(r)
      BY <2>1, <3>2 DEF GiveUp, db, StaysSettled
    <3> QED
      BY <1>1, <2>1, <3>1, <3>2, AllocationSettled, InvoicingSettled, CamperEditSettled,
         StripeCallSettled DEF RequestStep
  <2>3. CASE \E h \in Hook : ReconcileStep(h)
    BY <1>1, <2>1, <2>3, ReconcileSettled
  <2>4. CASE \E r \in Req, h \in Hook : SettleByHand(r, h)
    BY <1>1, <2>1, <2>4, SettleByHandAlone DEF db, StaysSettled
  <2> QED
    BY <1>1, <2>1, <2>2, <2>3, <2>4, OthersSettled DEF Next
<1>2. IInv /\ [Next]_vars => [A]_vars
  BY <1>1
<1> QED
  BY <1>2, Invariance, PTL DEF Spec, SettledUndoneOnlyByRelease

-----------------------------------------------------------------------------
(***************************************************************************)
(* The refinement of AtomicBilling.                                        *)
(*                                                                         *)
(* Billing implements AtomicBilling for every roster, any number of calls  *)
(* and deliveries in flight, versioned or not, and every value of the      *)
(* bounds.  Only a commit moves the abstract state, and IInv says what a   *)
(* commit may carry, however long ago it was decided; reads, Stripe calls  *)
(* and failures stutter.                                                   *)
(***************************************************************************)

Status   == IF group.exists THEN group.billing ELSE "deleted"
Deposits == [c \in Camper |-> DepositOf(campers[c])]

AtomicStep == Atomic!Next \/ UNCHANGED <<Status, group.ref, Deposits>>

----------------------------------------------------------------------------
(* Shapes of a step.                                                       *)

(* Whatever leaves status, reference and rows alone.                       *)
LEMMA Stutters ==
  ASSUME group'.exists = group.exists, group'.billing = group.billing,
         group'.ref = group.ref, Deposits' = Deposits
  PROVE  AtomicStep
  BY DEF AtomicStep, Status

LEMMA RowsKept == ASSUME campers' = campers PROVE Deposits' = Deposits
  BY DEF Deposits

(* Rows that change nothing but who is there and where.                    *)
LEMMA DepositsKept ==
  ASSUME \A c \in Camper : /\ campers'[c].owed = campers[c].owed
                           /\ campers'[c].paid = campers[c].paid
                           /\ campers'[c].st = "new" <=> campers[c].st = "new"
  PROVE  Deposits' = Deposits
  BY DEF Deposits, DepositOf

LEMMA StampExists ==
  ASSUME NEW g \in GroupRow, NEW tr \in Transition
  PROVE  /\ Stamp(g, tr).exists = g.exists
         /\ ClearInvoice(Stamp(g, tr)).exists = g.exists
<1>1. Stamp(g, tr) \in GroupRow
  BY StampTyped
<1> QED
  BY <1>1 DEF Stamp, ClearInvoice, GroupRow

(* What a commit's stamp makes of the group: the status it had, or the one *)
(* the plan leads to from there.                                           *)
LEMMA CommitStamps ==
  ASSUME IInv, NEW r \in Req, NEW op, NEW S, MayCommit(r, op, S),
         NEW tr, tr = reqs[r].plan.tr, NEW s, s = Stamp(group, tr)
  PROVE  /\ group \in GroupRow /\ group.exists
         /\ s \in GroupRow /\ s.exists = group.exists /\ s.ref = group.ref
         /\ LegalPlan(op, reqs[r].plan) /\ LegalTr(op, tr) /\ tr \in Transition
         /\ \/ ~ChangesBilling(tr) /\ s.billing = group.billing
            \/ ChangesBilling(tr) /\ tr.from = group.billing /\ s.billing = tr.to
<1>1. /\ group \in GroupRow /\ tr \in Transition /\ group.exists
      /\ LegalPlan(op, reqs[r].plan) /\ tr.from \in {"", group.billing}
  BY FlightTyped DEF MayCommit, LegalRequest
<1>2. s \in GroupRow /\ s.exists = group.exists /\ s.ref = group.ref
      /\ s.billing = IF ChangesBilling(tr) THEN tr.to ELSE group.billing
  BY <1>1, StampTyped, StampExists
<1> QED
  BY <1>1, <1>2 DEF LegalPlan, ChangesBilling

LEMMA IsPlace ==
  ASSUME group.exists, group'.exists, group'.ref = group.ref, Deposits' = Deposits,
         \/ group'.billing = group.billing
         \/ group.billing \in Unbilled /\ group'.billing \in {"none", "allocated"}
  PROVE  AtomicStep
<1>1. CASE group'.billing = group.billing
  BY <1>1, Stutters
<1>2. CASE group.billing \in Unbilled /\ group'.billing \in {"none", "allocated"}
  BY <1>2 DEF AtomicStep, Deposits, Unbilled, Atomic!Next, Atomic!Place, Atomic!Unbilled
<1> QED
  BY <1>1, <1>2

LEMMA IsRelease ==
  ASSUME group.exists, group'.exists, group.billing \in BillingStatus,
         group'.billing = "released", group'.ref = NoInvoice, Deposits' = Deposits
  PROVE  AtomicStep
  BY DEF AtomicStep, Deposits, BillingStatus, Atomic!Next, Atomic!Release, Atomic!Exists

(* Deposits that were owed are paid, and no others.                        *)
LEMMA SettlesDeposits ==
  ASSUME IInv, NEW S, campers' = SettleDeposits(campers, S)
  PROVE  \E T \in SUBSET Camper :
            Deposits' = [c \in Camper |-> IF c \in T /\ Deposits[c] = "owed" THEN "paid"
                                          ELSE Deposits[c]]
<1>1. ASSUME NEW c \in Camper
      PROVE  Deposits'[c] = IF c \in S /\ Deposits[c] = "owed" THEN "paid" ELSE Deposits[c]
  <2> DEFINE row == campers[c]
             sum == row.paid + row.owed
             new == [row EXCEPT !.paid = sum, !.owed = 0]
  <2>1. row \in CamperRow /\ row.owed \in Nat /\ row.paid \in Nat /\ CountedOnce(row)
    BY DEF IInv, DataInv, DepositCountedOnce, CamperRow
  <2>2. new.st = row.st /\ new.owed = 0 /\ new.paid = sum
    BY <2>1 DEF CamperRow
  <2>3. campers'[c] = IF c \in S THEN new ELSE row
    BY <2>1 DEF SettleDeposits, CamperRow
  <2> HIDE DEF new, row
  <2>4. DepositOf(new) = IF DepositOf(row) = "owed" THEN "paid" ELSE DepositOf(row)
    BY <2>1, <2>2 DEF DepositOf, CountedOnce, Deposit
  <2> QED
    BY <2>3, <2>4 DEF Deposits, row
<1> DEFINE T == S \cap Camper
<1>2. Deposits' = [c \in Camper |-> IF c \in T /\ Deposits[c] = "owed" THEN "paid"
                                    ELSE Deposits[c]]
  BY <1>1 DEF Deposits
<1> QED
  BY <1>2

LEMMA IsSettle ==
  ASSUME IInv, group.exists, group'.exists, group.billing # "balance_paid",
         group'.billing = "balance_paid", group'.ref = group.ref,
         campers' = campers \/ \E S : campers' = SettleDeposits(campers, S)
  PROVE  AtomicStep
<1> DEFINE paid(T) == [c \in Camper |-> IF c \in T /\ Deposits[c] = "owed" THEN "paid"
                                         ELSE Deposits[c]]
<1>1. \E T \in SUBSET Camper : Deposits' = paid(T)
  <2>1. CASE campers' = campers
    <3>1. paid({}) = Deposits
      BY DEF Deposits
    <3>2. Deposits' = Deposits
      BY <2>1, RowsKept
    <3> HIDE DEF paid
    <3> QED
      BY <3>1, <3>2
  <2> QED
    BY <2>1, SettlesDeposits
<1>2. group.billing # "deleted"
  BY DEF IInv, DataInv, GroupRow, BillingStatus
<1> QED
  BY <1>1, <1>2 DEF AtomicStep, Deposits, Atomic!Next, Atomic!Settle, Atomic!Exists

(* A roster edit: the status as RosterChanged says, and at most one        *)
(* deposit owed anew or no longer.                                         *)
LEMMA IsEditRoster ==
  ASSUME group.exists, group'.exists, group.billing \in BillingStatus,
         \/ group'.billing = group.billing /\ group'.ref = group.ref
         \/ /\ group.billing \in {"allocated", "invoiced"}
            /\ group'.billing \in {"none", "allocated"} \ {group.billing}
            /\ group'.ref = NoInvoice,
         Deposits' = Deposits \/ \E c \in Camper : Atomic!OweOrWaive(c)
  PROVE  AtomicStep
<1>1. group.billing # "deleted"
  BY DEF BillingStatus
<1> QED
  BY <1>1 DEF AtomicStep, Deposits, Atomic!Next, Atomic!EditRoster, Atomic!Exists

(* One row of the group is written anew.                                   *)
LEMMA OneDeposit ==
  ASSUME IInv, NEW c \in Camper, NEW row, campers' = [campers EXCEPT ![c] = row],
         \/ DepositOf(row) = DepositOf(campers[c])
         \/ DepositOf(campers[c]) = "none" /\ DepositOf(row) = "owed"
         \/ DepositOf(campers[c]) = "owed" /\ DepositOf(row) = "none"
  PROVE  Deposits' = Deposits \/ Atomic!OweOrWaive(c)
<1>1. Deposits' = [Deposits EXCEPT ![c] = DepositOf(row)]
  BY DEF Deposits, IInv, DataInv
<1>2. Deposits[c] = DepositOf(campers[c])
  BY DEF Deposits
<1> QED
  BY <1>1, <1>2 DEF Deposits, Atomic!OweOrWaive

----------------------------------------------------------------------------
(* The services.                                                           *)

(* A step of a call that is no commit writes no row.                       *)
LEMMA RowsAlone == ASSUME UNCHANGED db PROVE AtomicStep
  BY Stutters, RowsKept DEF db

LEMMA UnplaceKept ==
  ASSUME IInv, NEW S, campers' = Unplace(campers, S)
  PROVE  Deposits' = Deposits
  BY DepositsKept DEF IInv, DataInv, Unplace, CamperRow

LEMMA CommitAllocateAtomic ==
  ASSUME IInv, NEW r \in Req, CommitAllocate(r)
  PROVE  AtomicStep
<1> DEFINE tr == reqs[r].plan.tr
           s  == Stamp(group, tr)
<1>1. PICK S : MayCommit(r, "allocate", S)
  BY DEF CommitAllocate
<1>2. group' = s
  BY DEF CommitAllocate, Committed
<1>3. Deposits' = Deposits
  BY DepositsKept DEF CommitAllocate, Committed, IInv, DataInv, CamperRow
<1>4. /\ group.exists /\ s.exists = group.exists /\ s.ref = group.ref
      /\ LegalTr("allocate", tr)
      /\ \/ s.billing = group.billing
         \/ ChangesBilling(tr) /\ tr.from = group.billing /\ s.billing = tr.to
  BY <1>1, CommitStamps
<1> HIDE DEF s, tr
<1>5. Places(tr, "allocated")
  BY <1>4 DEF LegalTr
<1>6. \/ s.billing = group.billing
      \/ group.billing \in Unbilled /\ s.billing = "allocated"
  BY <1>4, <1>5 DEF Places, ChangesBilling, Unbilled
<1> QED
  BY <1>2, <1>3, <1>4, <1>6, IsPlace

LEMMA CommitUnallocateAtomic ==
  ASSUME IInv, NEW r \in Req, CommitUnallocate(r)
  PROVE  AtomicStep
<1> DEFINE tr == reqs[r].plan.tr
           s  == Stamp(group, tr)
<1>1. PICK S : MayCommit(r, "unallocate", S)
  BY DEF CommitUnallocate
<1>2. group' = s /\ Deposits' = Deposits
  BY UnplaceKept DEF CommitUnallocate, Committed
<1>4. /\ group.exists /\ s.exists = group.exists /\ s.ref = group.ref
      /\ LegalTr("unallocate", tr)
      /\ \/ s.billing = group.billing
         \/ ChangesBilling(tr) /\ tr.from = group.billing /\ s.billing = tr.to
  BY <1>1, CommitStamps
<1> HIDE DEF s, tr
<1>5. Places(tr, "none")
  BY <1>4 DEF LegalTr
<1>6. \/ s.billing = group.billing
      \/ group.billing \in Unbilled /\ s.billing = "none"
  BY <1>4, <1>5 DEF Places, ChangesBilling, Unbilled
<1> QED
  BY <1>2, <1>4, <1>6, IsPlace

LEMMA CommitConfirmFreeAtomic ==
  ASSUME IInv, NEW r \in Req, CommitConfirmFree(r)
  PROVE  AtomicStep
<1> DEFINE tr == reqs[r].plan.tr
           s  == Stamp(group, tr)
<1>1. MayCommit(r, "confirm_free", {}) /\ group' = s /\ campers' = campers
  BY DEF CommitConfirmFree, Committed
<1>2. /\ group.exists /\ s.exists = group.exists /\ s.ref = group.ref
      /\ LegalTr("confirm_free", tr) /\ tr.from \in {"", group.billing}
      /\ ~ChangesBilling(tr) => s.billing = group.billing
      /\ ChangesBilling(tr) => s.billing = tr.to
  BY <1>1, CommitStamps DEF MayCommit
<1> HIDE DEF s, tr
<1>3. tr = [from |-> "allocated", to |-> "free_confirmed"]
  BY <1>2, Zenon DEF LegalTr
<1>4. tr.from = "allocated" /\ tr.to = "free_confirmed"
  BY <1>3
<1>5. group.billing = "allocated" /\ group'.billing = "free_confirmed"
  BY <1>1, <1>2, <1>4 DEF ChangesBilling
<1> QED
  BY <1>1, <1>2, <1>5, RowsKept
     DEF AtomicStep, Deposits, Atomic!Next, Atomic!ConfirmFree

LEMMA CommitReleaseAtomic ==
  ASSUME IInv, NEW r \in Req, CommitRelease(r)
  PROVE  AtomicStep
<1> DEFINE tr == reqs[r].plan.tr
           s  == Stamp(group, tr)
<1>1. PICK op \in {"release", "cancel", "sweep"} : MayCommit(r, op, Here(campers))
  BY DEF CommitRelease
<1>2. group' = ClearInvoice(s) /\ Deposits' = Deposits
  BY UnplaceKept DEF CommitRelease, Committed
<1>3. group'.exists = group.exists
  BY <1>2, StampExists, FlightTyped
<1> HIDE DEF s, tr
<1>4. /\ group \in GroupRow /\ group.exists /\ s \in GroupRow /\ LegalTr(op, tr)
      /\ \/ s.billing = group.billing /\ ~ChangesBilling(tr)
         \/ s.billing = tr.to
      /\ tr.from \in {"", group.billing}
  BY <1>1, CommitStamps DEF s, tr, MayCommit
<1>5. s.billing = "released"
  BY <1>4 DEF LegalTr, ChangesBilling
<1> QED
  BY <1>2, <1>3, <1>4, <1>5, ClearInvoiceTyped, IsRelease DEF GroupRow

LEMMA AllocationAtomic ==
  ASSUME IInv, NEW r \in Req, AllocationStep(r)
  PROVE  AtomicStep
  BY CommitAllocateAtomic, CommitUnallocateAtomic, CommitConfirmFreeAtomic,
     CommitReleaseAtomic, RowsAlone
     DEF AllocationStep, BeginAllocate, DecideAllocate, BeginUnallocate, BeginConfirmFree,
         BeginRelease, SweepList, SweepRelease, Begin, BeginDecided, Decided

LEMMA CommitSendInvoiceAtomic ==
  ASSUME IInv, NEW r \in Req, CommitSendInvoice(r)
  PROVE  AtomicStep
<1> DEFINE plan == reqs[r].plan
           tr   == plan.tr
           s    == Stamp(group, tr)
           in   == plan.riders # {}
           g    == [s EXCEPT !.ref = plan.inv, !.due = "future", !.coachIn = in]
<1>1. MayCommit(r, "invoice", {}) /\ group' = g /\ campers' = campers
  BY DEF CommitSendInvoice, Committed
<1>2. /\ group \in GroupRow /\ group.exists /\ s \in GroupRow /\ s.exists = group.exists
      /\ LegalPlan("invoice", plan) /\ LegalTr("invoice", tr)
      /\ \/ ~ChangesBilling(tr) /\ s.billing = group.billing
         \/ ChangesBilling(tr) /\ tr.from = group.billing /\ s.billing = tr.to
  BY <1>1, CommitStamps
<1>3. plan.todo = << >> /\ plan.inv \in InvoiceRef
  BY <1>1, FlightTyped DEF MayCommit, Plan
<1>4. plan.inv \in Invoice
  BY <1>2, <1>3 DEF LegalPlan, CreatedOrWillBe, InvoiceRef
<1> HIDE DEF plan, s, in
<1>5. group'.exists = s.exists /\ group'.billing = s.billing /\ group'.ref = plan.inv
  BY <1>1, <1>2 DEF GroupRow
<1> HIDE DEF tr, g
<1>6. group.billing \in Unbilled /\ s.billing = "invoiced"
  BY <1>2 DEF LegalTr, ChangesBilling, Unbilled
<1>7. Deposits' = Deposits
  BY <1>1, RowsKept
<1> QED
  BY <1>2, <1>4, <1>5, <1>6, <1>7
     DEF AtomicStep, Deposits, Unbilled, Atomic!Next, Atomic!SendInvoice, Atomic!Unbilled

(* A commit that only moves the version, and columns the promise does not  *)
(* speak of.                                                               *)
LEMMA KeepAtomic ==
  ASSUME IInv, NEW g, g = Stamp(group, Keep), campers' = campers,
         \/ group' = g
         \/ \E i : group' = [g EXCEPT !.coachRef = i]
         \/ group' = [g EXCEPT !.waived = TRUE, !.coachRef = NoInvoice]
         \/ group' = [g EXCEPT !.waived = FALSE]
         \/ group' = [g EXCEPT !.coachPaid = TRUE]
  PROVE  AtomicStep
<1>1. /\ g \in GroupRow /\ g.exists = group.exists /\ g.billing = group.billing
      /\ g.ref = group.ref
  BY KeepStamp, KeepTyped, StampExists DEF IInv, DataInv, RefMatchesStatus
<1>2. /\ group'.exists = group.exists /\ group'.billing = group.billing
      /\ group'.ref = group.ref
  BY <1>1 DEF GroupRow
<1> QED
  BY <1>2, RowsKept, Stutters

LEMMA CommitMarkBalancePaidAtomic ==
  ASSUME IInv, NEW r \in Req, CommitMarkBalancePaid(r)
  PROVE  AtomicStep
<1> DEFINE tr == reqs[r].plan.tr
           s  == Stamp(group, tr)
<1>1. /\ MayCommit(r, "mark_paid", Owing(campers)) /\ group' = s
      /\ campers' = SettleDeposits(campers, Owing(campers))
  BY DEF CommitMarkBalancePaid, Committed
<1>2. /\ group.exists /\ s.exists = group.exists /\ s.ref = group.ref
      /\ LegalTr("mark_paid", tr) /\ tr.from \in {"", group.billing}
      /\ \/ ~ChangesBilling(tr) /\ s.billing = group.billing
         \/ ChangesBilling(tr) /\ tr.from = group.billing /\ s.billing = tr.to
  BY <1>1, CommitStamps DEF MayCommit
<1> HIDE DEF s, tr
<1>3. group.billing # "balance_paid" /\ s.billing = "balance_paid"
  BY <1>2 DEF LegalTr, SettlesTr, ChangesBilling
<1> QED
  BY <1>1, <1>2, <1>3, IsSettle

LEMMA CommitDeleteAtomic ==
  ASSUME IInv, NEW r \in Req, CommitDelete(r)
  PROVE  AtomicStep
<1>1. /\ group.exists /\ group \in GroupRow
      /\ group' = [group EXCEPT !.exists = FALSE]
  BY FlightTyped DEF CommitDelete, MayCommit, Committed
<1>2. ~group'.exists /\ group'.ref = group.ref
  BY <1>1 DEF GroupRow
<1>3. Deposits' = Deposits
  BY DepositsKept DEF CommitDelete, Committed, Here, IInv, DataInv, CamperRow
<1>4. group.billing # "deleted"
  BY <1>1 DEF GroupRow, BillingStatus
<1> QED
  BY <1>1, <1>2, <1>3, <1>4
     DEF AtomicStep, Deposits, Atomic!Next, Atomic!Delete, Atomic!Exists

LEMMA CommitOpenInvoiceAtomic ==
  ASSUME IInv, NEW r \in Req, CommitResendInvoice(r) \/ CommitExtendDue(r)
  PROVE  AtomicStep
<1> DEFINE tr == reqs[r].plan.tr
           s  == Stamp(group, tr)
           due == reqs[r].plan.due
<1>1. PICK op \in {"resend", "extend"} : MayCommit(r, op, {})
  BY DEF CommitResendInvoice, CommitExtendDue
<1>2. (group' = s \/ group' = [s EXCEPT !.due = due]) /\ campers' = campers
  BY DEF CommitResendInvoice, CommitExtendDue, Committed
<1>3. /\ s \in GroupRow /\ s.exists = group.exists /\ s.ref = group.ref
      /\ LegalTr(op, tr)
      /\ ~ChangesBilling(tr) => s.billing = group.billing
  BY <1>1, CommitStamps
<1> HIDE DEF s, tr, due
<1>4. tr = [from |-> "invoiced", to |-> "invoiced"]
  BY <1>3, Zenon DEF LegalTr
<1>5. s.billing = group.billing
  BY <1>3, <1>4 DEF ChangesBilling
<1>6. /\ group'.exists = group.exists /\ group'.billing = group.billing
      /\ group'.ref = group.ref
  BY <1>2, <1>3, <1>5 DEF GroupRow
<1> QED
  BY <1>2, <1>6, RowsKept, Stutters

LEMMA InvoicingAtomic ==
  ASSUME IInv, NEW r \in Req, InvoicingStep(r)
  PROVE  AtomicStep
<1>1. CASE CommitSendCoachInvoice(r)
  BY <1>1, KeepAtomic DEF CommitSendCoachInvoice, Committed
<1>2. CASE CommitWaiveCoachFee(r)
  BY <1>2, KeepAtomic DEF CommitWaiveCoachFee, Committed
<1>3. CASE CommitUnwaiveCoachFee(r)
  BY <1>3, KeepAtomic DEF CommitUnwaiveCoachFee, Committed
<1>4. CASE UNCHANGED db
  BY <1>4, RowsAlone
<1> QED
  BY <1>1, <1>2, <1>3, <1>4, CommitSendInvoiceAtomic, CommitMarkBalancePaidAtomic,
     CommitDeleteAtomic, CommitOpenInvoiceAtomic
     DEF InvoicingStep, BeginSendInvoice, DecideSendInvoice, BeginSendCoachInvoice,
         DecideSendCoachInvoice, BeginWaiveCoachFee, DecideWaiveCoachFee,
         BeginUnwaiveCoachFee, BeginMarkBalancePaid, BeginDelete, DecideDelete,
         BeginResendInvoice, BeginExtendDue, Begin, BeginDecided, Decided

(* The transaction of a roster edit moves the status as IsEditRoster asks. *)
LEMMA RosterMoves ==
  ASSUME IInv, NEW r \in Req, NEW op \in RosterEdit, NEW S, MayCommit(r, op, S),
         group' = StampRoster(group, reqs[r].plan.tr),
         Deposits' = Deposits \/ \E c \in Camper : Atomic!OweOrWaive(c)
  PROVE  AtomicStep
<1> DEFINE tr == reqs[r].plan.tr
           s  == Stamp(group, tr)
<1>1. /\ group \in GroupRow /\ group.exists /\ s \in GroupRow /\ tr \in Transition
      /\ s.exists = group.exists /\ s.ref = group.ref /\ LegalTr(op, tr)
      /\ \/ ~ChangesBilling(tr) /\ s.billing = group.billing
         \/ ChangesBilling(tr) /\ tr.from = group.billing /\ s.billing = tr.to
  BY CommitStamps
<1>2. group' = IF ChangesBilling(tr) THEN ClearInvoice(s) ELSE s
  BY DEF StampRoster
<1>3. ClearInvoice(s).exists = group.exists
  BY <1>1, StampExists
<1> HIDE DEF s, tr
<1>4. CASE ~ChangesBilling(tr)
  <2>1. group'.exists /\ group'.billing = group.billing /\ group'.ref = group.ref
    BY <1>1, <1>2, <1>4
  <2> QED
    BY <1>1, <2>1, IsEditRoster DEF GroupRow
<1>5. CASE ChangesBilling(tr)
  <2>1. ~ChangesBilling(Keep)
    BY DEF ChangesBilling, Keep
  <2>2. tr.from \in {"allocated", "invoiced"} /\ tr.to \in {"none", "allocated"}
    BY <1>1, <1>5, <2>1 DEF LegalTr
  <2>3. /\ group'.exists /\ group'.ref = NoInvoice
        /\ group.billing \in {"allocated", "invoiced"}
        /\ group'.billing \in {"none", "allocated"} \ {group.billing}
    BY <1>1, <1>2, <1>3, <1>5, <2>2, ClearInvoiceTyped DEF ChangesBilling
  <2> QED
    BY <1>1, <2>3, IsEditRoster DEF GroupRow
<1> QED
  BY <1>4, <1>5

LEMMA CommitRemoveAtomic ==
  ASSUME IInv, NEW r \in Req, CommitRemoveCamper(r)
  PROVE  AtomicStep
<1>1. Deposits' = Deposits
  BY TargetTyped, DepositsKept
     DEF CommitRemoveCamper, RowCommitted, Committed, IInv, DataInv, CamperRow
<1> QED
  BY <1>1, RosterMoves DEF CommitRemoveCamper, RowCommitted, Committed, RosterEdit

LEMMA CommitEditAtomic ==
  ASSUME IInv, NEW r \in Req, CommitEditCamper(r)
  PROVE  AtomicStep
<1>1. Deposits' = Deposits
  BY TargetTyped, DepositsKept
     DEF CommitEditCamper, RowCommitted, Committed, IInv, DataInv, CamperRow
<1> QED
  BY <1>1, RosterMoves DEF CommitEditCamper, RowCommitted, Committed, RosterEdit

(* A camper who owes no longer.                                            *)
LEMMA NoLongerOwes ==
  ASSUME NEW old \in CamperRow, NEW row, old.st # "new", CountedOnce(old),
         row.st = old.st, row.paid = old.paid, row.owed = 0
  PROVE  \/ DepositOf(row) = DepositOf(old)
         \/ DepositOf(old) = "owed" /\ DepositOf(row) = "none"
  BY DEF DepositOf, CountedOnce, Deposit, CamperRow

LEMMA CommitConvertAtomic ==
  ASSUME IInv, NEW r \in Req, CommitConvertToDayVisitor(r)
  PROVE  AtomicStep
<1> DEFINE c   == reqs[r].plan.target
           credit == reqs[r].plan.row.credit
           old == campers[c]
           row == [old EXCEPT !.att = "day_pass", !.coach = FALSE, !.code = NoCode,
                              !.credit = credit, !.owed = 0]
<1>1. /\ campers' = [campers EXCEPT ![c] = row] /\ old.st = "here"
      /\ group' = StampRoster(group, reqs[r].plan.tr) /\ MayCommit(r, "convert", {c})
  BY DEF CommitConvertToDayVisitor, RowCommitted, Committed
<1>2. c \in Camper /\ old \in CamperRow /\ CountedOnce(old)
  BY TargetTyped
<1> HIDE DEF credit
<1>3. row.st = old.st /\ row.paid = old.paid /\ row.owed = 0
  BY <1>2 DEF CamperRow
<1> HIDE DEF row
<1>4. \/ DepositOf(row) = DepositOf(old)
      \/ DepositOf(old) = "owed" /\ DepositOf(row) = "none"
  BY <1>1, <1>2, <1>3, NoLongerOwes
<1>5. Deposits' = Deposits \/ Atomic!OweOrWaive(c)
  BY <1>1, <1>2, <1>4, OneDeposit
<1> QED
  BY <1>1, <1>2, <1>5, RosterMoves DEF RosterEdit

LEMMA CommitAddAtomic ==
  ASSUME IInv, NEW r \in Req, CommitAddCamper(r)
  PROVE  AtomicStep
<1> DEFINE row == reqs[r].plan.row
<1>1. PICK c \in Camper : campers[c].st = "new" /\ campers' = [campers EXCEPT ![c] = row]
  BY DEF CommitAddCamper, Committed
<1>2. /\ group' = StampRoster(group, reqs[r].plan.tr)
      /\ MayCommit(r, "add", {})
  BY DEF CommitAddCamper, Committed
<1>3. row \in CamperRow /\ OwedOnly(row)
  BY <1>2, TargetTyped, FlightTyped DEF MayCommit, LegalRequest, LegalPlan
<1> HIDE DEF row
<1>4. DepositOf(campers[c]) = "none" /\ DepositOf(row) \in {"none", "owed"}
  BY <1>1, <1>3 DEF DepositOf, OwedOnly, CamperRow
<1>5. Deposits' = Deposits \/ Atomic!OweOrWaive(c)
  BY <1>1, <1>4, OneDeposit
<1> QED
  BY <1>2, <1>5, RosterMoves DEF RosterEdit

LEMMA CommitWaiveDepositAtomic ==
  ASSUME IInv, NEW r \in Req, CommitWaiveDeposit(r)
  PROVE  AtomicStep
<1> DEFINE c   == reqs[r].plan.target
           old == campers[c]
           row == [old EXCEPT !.owed = 0]
           k   == Stamp(group, Keep)
<1>1. /\ campers' = [campers EXCEPT ![c] = row] /\ old.st = "here"
      /\ group' = k /\ group.exists
  BY DEF CommitWaiveDeposit, RowCommitted, Committed, MayCommit
<1>2. c \in Camper /\ old \in CamperRow /\ CountedOnce(old)
  BY TargetTyped
<1>3. row.st = old.st /\ row.paid = old.paid /\ row.owed = 0
  BY <1>2 DEF CamperRow
<1>4. k.exists = group.exists /\ k.billing = group.billing /\ k.ref = group.ref
  BY KeepStamp, KeepTyped, StampExists DEF IInv, DataInv, RefMatchesStatus
<1> HIDE DEF row, k
<1>5. \/ DepositOf(row) = DepositOf(old)
      \/ DepositOf(old) = "owed" /\ DepositOf(row) = "none"
  BY <1>1, <1>2, <1>3, NoLongerOwes
<1>6. Deposits' = Deposits \/ Atomic!OweOrWaive(c)
  BY <1>1, <1>2, <1>5, OneDeposit
<1> QED
  BY <1>1, <1>2, <1>4, <1>6, IsEditRoster DEF IInv, DataInv, GroupRow

LEMMA CommitUpdateCoachAtomic ==
  ASSUME IInv, NEW r \in Req, CommitUpdateCoach(r)
  PROVE  AtomicStep
<1> DEFINE k == Stamp(group, Keep)
<1>1. group' = k \/ group' = [k EXCEPT !.coachRef = NoInvoice]
  BY DEF CommitUpdateCoach, RowCommitted, Committed
<1>2. Deposits' = Deposits
  BY TargetTyped, DepositsKept
     DEF CommitUpdateCoach, RowCommitted, Committed, IInv, DataInv, CamperRow
<1>3. /\ k \in GroupRow /\ k.exists = group.exists /\ k.billing = group.billing
      /\ k.ref = group.ref
  BY KeepStamp, KeepTyped, StampExists DEF IInv, DataInv, RefMatchesStatus
<1> HIDE DEF k
<1>4. /\ group'.exists = group.exists /\ group'.billing = group.billing
      /\ group'.ref = group.ref
  BY <1>1, <1>3 DEF GroupRow
<1> QED
  BY <1>2, <1>4, Stutters

LEMMA CommitMakeMainContactAtomic ==
  ASSUME IInv, NEW r \in Req, CommitMakeMainContact(r)
  PROVE  AtomicStep
<1> DEFINE k == Stamp(group, Keep)
<1>1. group' = k
  BY DEF CommitMakeMainContact, Committed
<1>2. Deposits' = Deposits
  BY DepositsKept DEF CommitMakeMainContact, Committed, IInv, DataInv, CamperRow
<1>3. k.exists = group.exists /\ k.billing = group.billing /\ k.ref = group.ref
  BY KeepStamp, KeepTyped, StampExists DEF IInv, DataInv, RefMatchesStatus
<1> QED
  BY <1>1, <1>2, <1>3, Stutters

LEMMA CamperEditAtomic ==
  ASSUME IInv, NEW r \in Req, CamperEditStep(r)
  PROVE  AtomicStep
<1>1. CASE CommitUpdateDayPass(r)
  BY <1>1, KeepAtomic DEF CommitUpdateDayPass, Committed
<1>2. CASE UNCHANGED db
  BY <1>2, RowsAlone
<1> QED
  BY <1>1, <1>2, CommitRemoveAtomic, CommitEditAtomic, CommitConvertAtomic,
     CommitAddAtomic, CommitWaiveDepositAtomic, CommitUpdateCoachAtomic,
     CommitMakeMainContactAtomic
     DEF CamperEditStep, BeginRemoveCamper, DecideRemoveCamper, BeginConvertToDayVisitor,
         DecideConvertToDayVisitor, BeginUpdateDayPass, DecideUpdateDayPass,
         BeginUpdateCoach, DecideUpdateCoach, BeginEditCamper, DecideEditCamper,
         BeginAddCamper, DecideAddCamper, BeginMakeMainContact, DecideMakeMainContact,
         BeginWaiveDeposit, DecideWaiveDeposit, Begin, Decided

LEMMA StripeCallAtomic ==
  ASSUME IInv, NEW r \in Req, StripeCall(r)
  PROVE  AtomicStep
<1>1. CASE EnsureCustomer(r)
  <2>1. /\ group'.exists = group.exists /\ group'.billing = group.billing
        /\ group'.ref = group.ref /\ campers' = campers
    BY <1>1, FlightTyped DEF EnsureCustomer, GroupRow
  <2> QED
    BY <2>1, RowsKept, Stutters
<1>2. CASE UNCHANGED db
  BY <1>2, RowsAlone
<1> QED
  BY <1>1, <1>2 DEF StripeCall, CreditCustomerBalance, VoidBalanceInvoice,
     VoidCoachInvoice, TryVoidInvoice, TryVoidCoachInvoice, RefundInvoiceKeeping,
     CreateInvoice, CreateInvoicePartly

LEMMA ReconcileAtomic ==
  ASSUME IInv, NEW h \in Hook, ReconcileStep(h)
  PROVE  AtomicStep
<1>1. CASE CommitBalancePaid(h)
  <2> DEFINE tr == hooks[h].tr
             s  == Stamp(group, tr)
  <2>1. /\ group.exists /\ group.billing = tr.from /\ group' = s
        /\ campers' = SettleDeposits(campers, hooks[h].rows)
    BY <1>1 DEF CommitBalancePaid
  <2>2. tr \in Transition /\ (tr = Keep \/ SettlesTr(tr)) /\ group \in GroupRow
    BY DEF IInv, DataInv, FlightInv, PlansLegal, Delivery
  <2>3. s.exists = group.exists /\ s.ref = group.ref /\ s.billing = tr.to
    BY <2>1, <2>2, StampTo, StampExists
  <2> HIDE DEF s, tr
  <2>4. SettlesTr(tr)
    <3>1. group.billing # "" /\ Keep.from = ""
      BY <2>2 DEF Keep, GroupRow, BillingStatus
    <3> QED
      BY <2>1, <2>2, <3>1
  <2> QED
    BY <2>1, <2>3, <2>4, IsSettle DEF SettlesTr
<1>2. CASE CommitCoachFeePaid(h)
  BY <1>2, KeepAtomic DEF CommitCoachFeePaid
<1>3. CASE UNCHANGED db
  BY <1>3, RowsAlone
<1> QED
  BY <1>1, <1>2, <1>3 DEF ReconcileStep, DeliverEvent, SettleOwedDeposits, DeliveryFails

(* A family that paid in full is settled by its checkout.                  *)
LEMMA CheckoutAtomic ==
  ASSUME IInv, CheckoutCompleted \/ CheckoutExpired \/ OverridePaymentStatus \/ DueDatePasses
  PROVE  AtomicStep
<1>1. /\ group \in GroupRow /\ campers' = campers
      /\ group'.exists = group.exists /\ group'.ref = group.ref
      /\ \/ group'.billing = group.billing
         \/ group.exists /\ group'.billing = "balance_paid"
  BY DEF IInv, DataInv, GroupRow, CheckoutCompleted, CheckoutExpired,
     OverridePaymentStatus, DueDatePasses
<1>2. CASE group'.billing = group.billing
  BY <1>1, <1>2, RowsKept, Stutters
<1> QED
  BY <1>1, <1>2, IsSettle

LEMMA NextAtomic == ASSUME IInv, [Next]_vars PROVE AtomicStep
<1>1. CASE \E r \in Req : RequestStep(r)
  <2>1. PICK r \in Req : RequestStep(r)
    BY <1>1
  <2>2. CASE GiveUp(r)
    BY <2>2, RowsAlone DEF GiveUp
  <2> QED
    BY <2>1, <2>2, AllocationAtomic, InvoicingAtomic, CamperEditAtomic, StripeCallAtomic
       DEF RequestStep
<1>2. CASE \E h \in Hook : ReconcileStep(h)
  BY <1>2, ReconcileAtomic
<1>3. CASE \E i \in Invoice : PayInvoice(i) \/ FinalizeDraft(i)
  BY <1>3, RowsAlone DEF PayInvoice, FinalizeDraft
<1>4. CASE UNCHANGED vars
  BY <1>4, RowsAlone DEF vars, db
<1>5. CASE \E r \in Req, h \in Hook : SettleByHand(r, h)
  BY <1>5, SettleByHandAlone, RowsAlone
<1> QED
  BY <1>1, <1>2, <1>3, <1>4, <1>5, CheckoutAtomic DEF Next

LEMMA InitAtomic == ASSUME Init PROVE Atomic!Init
<1>1. group.exists /\ group.billing = "none" /\ group.ref = NoInvoice
  BY DEF Init, SubmittedGroup, NullGroup
<1>2. PICK main \in Registered, who \in [Registered -> Profile] :
        campers = [c \in Camper |->
          IF c \in Registered
          THEN [NewRow EXCEPT !.st = "here", !.main = (c = main), !.att = who[c].att,
                              !.age = who[c].age, !.coach = who[c].coach]
          ELSE NewRow]
  BY DEF Init
<1>3. ASSUME NEW c \in Camper PROVE campers[c].owed = 0 /\ campers[c].paid = 0
  <2>1. \/ campers[c] = NewRow
        \/ campers[c] = [NewRow EXCEPT !.st = "here", !.main = (c = main),
                           !.att = who[c].att, !.age = who[c].age, !.coach = who[c].coach]
    BY <1>2
  <2>2. NewRow.owed = 0 /\ NewRow.paid = 0
    BY DEF NewRow
  <2> QED
    BY <2>1, <2>2, NewRowTyped DEF CamperRow
<1>4. Deposits = [c \in Camper |-> "none"]
  BY <1>3 DEF Deposits, DepositOf
<1> QED
  BY <1>1, <1>4 DEF Deposits, Atomic!Init

(* However calls and deliveries overlap, fail and are repeated, with or    *)
(* without versions: seen from the balance, the invoice on file and the    *)
(* deposits, billing takes the steps of AtomicBilling.                     *)
THEOREM AtomicBillingImplemented == Spec => BilledAtomically
<1>1. Init => Atomic!Init
  BY InitAtomic
<1>2. IInv /\ [Next]_vars => [Atomic!Next]_Atomic!vars
  BY NextAtomic DEF AtomicStep, Status, Deposits, Atomic!vars
<1> QED
  BY <1>1, <1>2, Invariance, PTL DEF Spec, BilledAtomically, Atomic!Spec

-----------------------------------------------------------------------------
(***************************************************************************)
(* The version.                                                            *)
(*                                                                         *)
(* What the version of a group is worth, for every roster, any number of   *)
(* calls and deliveries in flight and every value of the bounds.  A call   *)
(* decides on what it read without a lock; whatever it decided on cannot   *)
(* change unless the version moves, so a call that finds its version again *)
(* at its commit finds its decision current.                               *)
(***************************************************************************)

(* What a step may do without moving the version: fill in the customer,    *)
(* let the due date pass, and what the checkout and the override do to the *)
(* payment status, and to the balance of a group that paid in full.        *)
SameRules ==
    /\ group'.ref = group.ref /\ group'.coachRef = group.coachRef
    /\ group'.coachPaid = group.coachPaid /\ group'.waived = group.waived
    /\ group'.free = group.free /\ group'.pif = group.pif

Unversioned ==
    /\ campers' = campers
    /\ group'.version = group.version
    /\ group'.exists = group.exists
    /\ SameRules
    /\ \/ group'.billing = group.billing /\ group'.coachIn = group.coachIn
       \/ group.pif
    /\ group.pay = "paid" => group'.pay = "paid" \/ "override" \in Op

(* What the family signed up for is settled.                               *)
SameKind(g, h) == h.pif = g.pif /\ h.free = g.free
Later(g, h)    == h.version > g.version /\ h.exists = g.exists /\ SameKind(g, h)

MovesVersion ==
    /\ group'.exists => group.exists
    /\ SameKind(group, group')
    /\ ~group'.exists \/ group'.version > group.version \/ Unversioned

(* Two requests that have decided the same.                                *)
Alike(p, q) ==
    /\ p.pc = q.pc /\ p.op = q.op /\ p.exp = q.exp /\ p.snap = q.snap
    /\ p.plan.tr = q.plan.tr /\ p.plan.target = q.plan.target /\ p.plan.row = q.plan.row
    /\ p.plan.codes = q.plan.codes /\ p.plan.lines = q.plan.lines
    /\ p.plan.deposits = q.plan.deposits /\ p.plan.riders = q.plan.riders
    /\ p.plan.clearCoach = q.plan.clearCoach

----------------------------------------------------------------------------
(* Every step moves the version, or is harmless.                           *)

LEMMA RowsStay == ASSUME IInv, UNCHANGED db PROVE MovesVersion
  BY DEF MovesVersion, Unversioned, SameRules, SameKind, db, IInv, DataInv, GroupRow

LEMMA StampMoves ==
  ASSUME NEW g \in GroupRow, NEW tr \in Transition
  PROVE  /\ Later(g, Stamp(g, tr)) /\ Later(g, ClearInvoice(Stamp(g, tr)))
         /\ Later(g, StampRoster(g, tr))
<1> DEFINE s == Stamp(g, tr)
<1>1. s \in GroupRow
  BY StampTyped
<1>2. /\ s.version = g.version + 1 /\ s.exists = g.exists /\ g.version \in Nat
      /\ SameKind(g, s)
  BY DEF Stamp, GroupRow, SameKind
<1> HIDE DEF s
<1>3. /\ ClearInvoice(s).version = s.version /\ ClearInvoice(s).exists = s.exists
      /\ SameKind(s, ClearInvoice(s))
  BY <1>1 DEF ClearInvoice, GroupRow, SameKind
<1>4. Later(g, s) /\ Later(g, ClearInvoice(s))
  BY <1>2, <1>3 DEF Later, SameKind
<1> QED
  BY <1>4 DEF StampRoster, s

(* Whatever else a transaction writes to the group, it moves the version.  *)
LEMMA CommitMoves ==
  ASSUME IInv, group.exists, Later(group, group')
  PROVE  MovesVersion
  BY DEF MovesVersion, Later

LEMMA AllocationMoves ==
  ASSUME IInv, NEW r \in Req, AllocationStep(r)
  PROVE  MovesVersion
<1>1. CASE UNCHANGED db
  BY <1>1, RowsStay
<1>2. CASE \E op, S : MayCommit(r, op, S) /\ Later(group, group')
  BY <1>2, CommitMoves DEF MayCommit
<1>3. Later(group, Stamp(group, reqs[r].plan.tr))
  BY StampMoves, FlightTyped
<1>4. Later(group, ClearInvoice(Stamp(group, reqs[r].plan.tr)))
  BY StampMoves, FlightTyped
<1> QED
  BY <1>1, <1>2, <1>3, <1>4
     DEF AllocationStep, BeginAllocate, DecideAllocate, CommitAllocate, BeginUnallocate,
         CommitUnallocate, BeginConfirmFree, CommitConfirmFree, BeginRelease, CommitRelease,
         SweepList, SweepRelease, Begin, BeginDecided, Decided, Committed

LEMMA InvoicingMoves ==
  ASSUME IInv, NEW r \in Req, InvoicingStep(r)
  PROVE  MovesVersion
<1> DEFINE s == Stamp(group, reqs[r].plan.tr)
           k == Stamp(group, Keep)
<1>1. CASE UNCHANGED db
  BY <1>1, RowsStay
<1>2. CASE \E op, S : MayCommit(r, op, S) /\ Later(group, group')
  BY <1>2, CommitMoves DEF MayCommit
<1>3. Later(group, s) /\ s \in GroupRow /\ Later(group, k) /\ k \in GroupRow
  BY StampMoves, StampTyped, FlightTyped, KeepTyped
<1>4. CASE CommitDelete(r)
  <2>1. group' = [group EXCEPT !.exists = FALSE] /\ group.exists /\ group \in GroupRow
    BY <1>4, FlightTyped DEF CommitDelete, Committed, MayCommit
  <2>2. ~group'.exists /\ SameKind(group, group')
    BY <2>1 DEF GroupRow, SameKind
  <2> QED
    BY <2>1, <2>2 DEF MovesVersion
<1> HIDE DEF s, k
<1>5. CASE CommitSendInvoice(r)
  <2> DEFINE inv == reqs[r].plan.inv
             in  == reqs[r].plan.riders # {}
  <2>1. MayCommit(r, "invoice", {})
        /\ group' = [s EXCEPT !.ref = inv, !.due = "future", !.coachIn = in]
    BY <1>5 DEF CommitSendInvoice, Committed, s
  <2> HIDE DEF inv, in
  <2>2. Later(group, group')
    BY <1>3, <2>1 DEF GroupRow, Later, SameKind
  <2> QED
    BY <1>2, <1>3, <2>1, <2>2
<1>6. CASE CommitSendCoachInvoice(r)
  <2>1. Later(group, group')
    BY <1>3, <1>6 DEF CommitSendCoachInvoice, Committed, k, GroupRow, Later, SameKind
  <2> QED
    BY <1>2, <1>3, <1>6, <2>1 DEF CommitSendCoachInvoice
<1>7. CASE CommitWaiveCoachFee(r)
  <2>1. Later(group, group')
    BY <1>3, <1>7 DEF CommitWaiveCoachFee, Committed, k, GroupRow, Later, SameKind
  <2> QED
    BY <1>2, <1>3, <1>7, <2>1 DEF CommitWaiveCoachFee
<1>8. CASE CommitUnwaiveCoachFee(r)
  <2>1. Later(group, group')
    BY <1>3, <1>8 DEF CommitUnwaiveCoachFee, Committed, k, GroupRow, Later, SameKind
  <2> QED
    BY <1>2, <1>3, <1>8, <2>1 DEF CommitUnwaiveCoachFee
<1>9. CASE CommitExtendDue(r)
  <2> DEFINE due == reqs[r].plan.due
  <2>1. group' = [s EXCEPT !.due = due] /\ MayCommit(r, "extend", {})
    BY <1>9 DEF CommitExtendDue, Committed, s
  <2> HIDE DEF due
  <2>2. Later(group, group')
    BY <1>3, <2>1 DEF GroupRow, Later, SameKind
  <2> QED
    BY <1>2, <1>3, <2>1, <2>2
<1>10. CASE CommitMarkBalancePaid(r) \/ CommitResendInvoice(r)
  BY <1>2, <1>3, <1>10 DEF CommitMarkBalancePaid, CommitResendInvoice, Committed, s
<1> QED
  BY <1>1, <1>4, <1>5, <1>6, <1>7, <1>8, <1>9, <1>10
     DEF InvoicingStep, BeginSendInvoice, DecideSendInvoice, BeginSendCoachInvoice,
         DecideSendCoachInvoice, BeginWaiveCoachFee, DecideWaiveCoachFee,
         BeginUnwaiveCoachFee, BeginMarkBalancePaid, BeginDelete, DecideDelete,
         BeginResendInvoice, BeginExtendDue, Begin, BeginDecided, Decided

LEMMA CamperEditMoves ==
  ASSUME IInv, NEW r \in Req, CamperEditStep(r)
  PROVE  MovesVersion
<1> DEFINE s == StampRoster(group, reqs[r].plan.tr)
           k == Stamp(group, Keep)
<1>1. CASE UNCHANGED db
  BY <1>1, RowsStay
<1>2. CASE \E op, S : MayCommit(r, op, S) /\ Later(group, group')
  BY <1>2, CommitMoves DEF MayCommit
<1>3. Later(group, s) /\ Later(group, k) /\ k \in GroupRow
  BY StampMoves, StampTyped, FlightTyped, KeepTyped
<1> HIDE DEF s, k
<1>4. CASE CommitUpdateCoach(r)
  <2>1. group' = k \/ group' = [k EXCEPT !.coachRef = NoInvoice]
    BY <1>4 DEF CommitUpdateCoach, RowCommitted, Committed, k
  <2>2. Later(group, group')
    BY <1>3, <2>1 DEF GroupRow, Later, SameKind
  <2> QED
    BY <1>2, <1>3, <1>4, <2>2 DEF CommitUpdateCoach
<1>5. CASE CommitRemoveCamper(r) \/ CommitConvertToDayVisitor(r) \/ CommitEditCamper(r)
           \/ CommitAddCamper(r)
  BY <1>2, <1>3, <1>5
     DEF CommitRemoveCamper, CommitConvertToDayVisitor, CommitEditCamper, CommitAddCamper,
         RowCommitted, Committed, s
<1>6. CASE CommitUpdateDayPass(r) \/ CommitMakeMainContact(r) \/ CommitWaiveDeposit(r)
  BY <1>2, <1>3, <1>6
     DEF CommitUpdateDayPass, CommitMakeMainContact, CommitWaiveDeposit, RowCommitted,
         Committed, k
<1> QED
  BY <1>1, <1>4, <1>5, <1>6
     DEF CamperEditStep, BeginRemoveCamper, DecideRemoveCamper, BeginConvertToDayVisitor,
         DecideConvertToDayVisitor, BeginUpdateDayPass, DecideUpdateDayPass,
         BeginUpdateCoach, DecideUpdateCoach, BeginEditCamper, DecideEditCamper,
         BeginAddCamper, DecideAddCamper, BeginMakeMainContact, DecideMakeMainContact,
         BeginWaiveDeposit, DecideWaiveDeposit, Begin, Decided

LEMMA StripeCallMoves ==
  ASSUME IInv, NEW r \in Req, StripeCall(r)
  PROVE  Unversioned
<1>1. CASE EnsureCustomer(r)
  BY <1>1, FlightTyped DEF EnsureCustomer, Unversioned, SameRules, GroupRow
<1>2. CASE UNCHANGED db
  BY <1>2 DEF Unversioned, SameRules, db
<1> QED
  BY <1>1, <1>2 DEF StripeCall, CreditCustomerBalance, VoidBalanceInvoice,
     VoidCoachInvoice, TryVoidInvoice, TryVoidCoachInvoice, RefundInvoiceKeeping,
     CreateInvoice, CreateInvoicePartly

LEMMA ReconcileMoves ==
  ASSUME IInv, NEW h \in Hook, ReconcileStep(h)
  PROVE  MovesVersion
<1>1. CASE UNCHANGED db
  BY <1>1, RowsStay
<1>2. CASE CommitBalancePaid(h)
  <2>1. hooks[h].tr \in Transition /\ group \in GroupRow
    BY DEF IInv, DataInv, FlightInv, Delivery
  <2> QED
    BY <1>2, <2>1, StampMoves, CommitMoves DEF CommitBalancePaid
<1>3. CASE CommitCoachFeePaid(h)
  <2> DEFINE k == Stamp(group, Keep)
  <2>1. k \in GroupRow /\ Later(group, k)
    BY StampMoves, StampTyped, KeepTyped DEF IInv, DataInv
  <2>2. group' = [k EXCEPT !.coachPaid = TRUE] /\ group.exists
    BY <1>3 DEF CommitCoachFeePaid
  <2> HIDE DEF k
  <2>3. Later(group, group')
    BY <2>1, <2>2 DEF GroupRow, Later, SameKind
  <2> QED
    BY <2>1, <2>2, <2>3, CommitMoves
<1> QED
  BY <1>1, <1>2, <1>3 DEF ReconcileStep, DeliverEvent, SettleOwedDeposits, DeliveryFails

LEMMA CheckoutMoves ==
  ASSUME IInv, CheckoutCompleted \/ CheckoutExpired \/ OverridePaymentStatus \/ DueDatePasses
  PROVE  Unversioned
  BY DEF IInv, DataInv, GroupRow, Unversioned, SameRules, CheckoutCompleted,
     CheckoutExpired, OverridePaymentStatus, DueDatePasses

LEMMA NextMoves == ASSUME IInv, [Next]_vars PROVE MovesVersion
<1>1. CASE Unversioned
  BY <1>1 DEF MovesVersion, Unversioned, SameRules, SameKind, IInv, DataInv, GroupRow
<1>2. CASE UNCHANGED db
  BY <1>2, RowsStay
<1>3. CASE \E r \in Req : RequestStep(r)
  BY <1>1, <1>2, <1>3, AllocationMoves, InvoicingMoves, CamperEditMoves, StripeCallMoves
     DEF RequestStep, GiveUp
<1>4. CASE \E h \in Hook : ReconcileStep(h)
  BY <1>4, ReconcileMoves
<1>5. CASE \E r \in Req, h \in Hook : SettleByHand(r, h)
  BY <1>2, <1>5, SettleByHandAlone
<1> QED
  BY <1>1, <1>2, <1>3, <1>4, <1>5, CheckoutMoves DEF Next, PayInvoice, FinalizeDraft, vars, db

----------------------------------------------------------------------------
(* What a step does to the requests.                                       *)

LEMMA ExpectedSmall ==
  ASSUME IInv, NEW op, NEW exp, exp \in -1..MaxVersion, MayExpect(op, exp)
  PROVE  exp <= group.version /\ (op \notin SkipOp => exp # Skip)
<1>1. group.version \in Nat /\ exp \in Int
  BY StoreAssumption DEF IInv, DataInv, GroupRow
<1> QED
  BY <1>1 DEF MayExpect, Skip

LEMMA BeginShape ==
  ASSUME IInv, NEW r \in Req, NEW op, Begin(r, op)
  PROVE  /\ reqs'[r].pc = "read" /\ reqs'[r].op = op /\ reqs'[r].snap = group
         /\ reqs'[r].exp <= group.version
         /\ op \notin SkipOp => reqs'[r].exp # Skip
         /\ \A x \in Req \ {r} : reqs'[x] = reqs[x]
         /\ UNCHANGED <<db, external>>
<1>1. PICK exp \in -1..MaxVersion :
        /\ MayExpect(op, exp)
        /\ reqs' = [reqs EXCEPT ![r] = [Idle EXCEPT !.pc = "read", !.op = op,
                                                    !.exp = exp, !.snap = group]]
  BY DEF Begin
<1>2. exp <= group.version /\ (op \notin SkipOp => exp # Skip)
  BY <1>1, ExpectedSmall
<1>3. reqs \in [Req -> Request]
  BY DEF IInv, FlightInv
<1> QED
  BY <1>1, <1>2, <1>3 DEF Begin, Idle

LEMMA BeginDecidedShape ==
  ASSUME IInv, NEW r \in Req, NEW op, NEW plan, BeginDecided(r, op, plan)
  PROVE  /\ reqs'[r].pc = "work" /\ reqs'[r].op = op /\ reqs'[r].plan = plan
         /\ reqs'[r].exp <= group.version
         /\ op \notin SkipOp => reqs'[r].exp # Skip
         /\ \A x \in Req \ {r} : reqs'[x] = reqs[x]
         /\ UNCHANGED <<db, external>>
<1>1. PICK exp \in -1..MaxVersion :
        /\ MayExpect(op, exp)
        /\ reqs' = [reqs EXCEPT ![r] = [Idle EXCEPT !.pc = "work", !.op = op,
                                                    !.exp = exp, !.plan = plan]]
  BY DEF BeginDecided
<1>2. exp <= group.version /\ (op \notin SkipOp => exp # Skip)
  BY <1>1, ExpectedSmall
<1>3. reqs \in [Req -> Request]
  BY DEF IInv, FlightInv
<1> QED
  BY <1>1, <1>2, <1>3 DEF BeginDecided, Idle

LEMMA DecidedShape ==
  ASSUME IInv, NEW r \in Req, NEW plan, Decided(r, plan)
  PROVE  /\ reqs'[r].pc = "work" /\ reqs'[r].op = reqs[r].op /\ reqs'[r].plan = plan
         /\ reqs'[r].exp = reqs[r].exp
         /\ \A x \in Req \ {r} : reqs'[x] = reqs[x]
         /\ UNCHANGED <<db, external>>
<1>1. reqs \in [Req -> Request] /\ reqs[r] \in Request
  BY DEF IInv, FlightInv
<1> QED
  BY <1>1 DEF Decided, Request

LEMMA CommittedShape ==
  ASSUME IInv, NEW r \in Req, NEW g, NEW cs, Committed(r, g, cs)
  PROVE  /\ group' = g /\ campers' = cs /\ stripe' = stripe
         /\ reqs'[r] = Idle
         /\ \A x \in Req \ {r} : reqs'[x] = reqs[x]
<1>1. reqs \in [Req -> Request]
  BY DEF IInv, FlightInv
<1> QED
  BY <1>1 DEF Committed, external

LEMMA CalledShape ==
  ASSUME IInv, NEW r \in Req, NEW plan \in Plan, Called(r, plan),
         plan.tr = reqs[r].plan.tr, plan.target = reqs[r].plan.target,
         plan.row = reqs[r].plan.row, plan.codes = reqs[r].plan.codes,
         plan.lines = reqs[r].plan.lines, plan.deposits = reqs[r].plan.deposits,
         plan.riders = reqs[r].plan.riders, plan.clearCoach = reqs[r].plan.clearCoach
  PROVE  /\ \A x \in Req : Alike(reqs'[x], reqs[x])
         /\ reqs'[r].plan.inv = plan.inv
         /\ \A x \in Req \ {r} : reqs'[x] = reqs[x]
<1> DEFINE rest == Tail(plan.todo)
           p    == [plan EXCEPT !.todo = rest]
           q    == [reqs[r] EXCEPT !.plan = p]
<1>1. reqs \in [Req -> Request] /\ reqs[r] \in Request
  BY DEF IInv, FlightInv
<1>2. reqs' = [reqs EXCEPT ![r] = q]
  BY <1>1 DEF Called, Request, Plan
<1> HIDE DEF rest
<1>3. /\ p.tr = plan.tr /\ p.target = plan.target /\ p.row = plan.row
      /\ p.codes = plan.codes /\ p.lines = plan.lines /\ p.deposits = plan.deposits
      /\ p.riders = plan.riders /\ p.inv = plan.inv /\ p.clearCoach = plan.clearCoach
  BY DEF Plan
<1> HIDE DEF p
<1>4. /\ q.plan = p /\ q.pc = reqs[r].pc /\ q.op = reqs[r].op /\ q.exp = reqs[r].exp
      /\ q.snap = reqs[r].snap
  BY <1>1 DEF Request
<1> HIDE DEF q
<1>5. reqs'[r] = q /\ \A x \in Req \ {r} : reqs'[x] = reqs[x]
  BY <1>1, <1>2
<1>6. Alike(reqs'[r], reqs[r])
  BY <1>3, <1>4, <1>5 DEF Alike
<1>7. \A x \in Req \ {r} : Alike(reqs'[x], reqs[x])
  BY <1>5 DEF Alike
<1> QED
  BY <1>3, <1>4, <1>5, <1>6, <1>7

(* A Stripe call leaves every decision as it is; what it may add is the    *)
(* customer and the invoice created.                                       *)
LEMMA StripeCallShape ==
  ASSUME IInv, NEW r \in Req, StripeCall(r)
  PROVE  \A x \in Req : Alike(reqs'[x], reqs[x]) \/ reqs'[x] = Idle
<1> DEFINE plan == reqs[r].plan
<1>1. plan \in Plan /\ reqs \in [Req -> Request]
  BY FlightTyped DEF IInv, FlightInv
<1>2. CASE EnsureCustomer(r)
  <2>1. [plan EXCEPT !.cust = r] \in Plan
    BY <1>1 DEF Plan
  <2> QED
    BY <1>1, <1>2, <2>1, CalledShape DEF EnsureCustomer, Plan
<1>3. CASE CreateInvoice(r)
  <2>1. PICK i \in Invoice : Called(r, [plan EXCEPT !.inv = i])
    BY <1>3 DEF CreateInvoice
  <2>2. [plan EXCEPT !.inv = i] \in Plan
    BY <1>1 DEF Plan, InvoiceRef
  <2> QED
    BY <1>1, <2>1, <2>2, CalledShape DEF Plan
<1>4. CASE CreateInvoicePartly(r)
  BY <1>1, <1>4 DEF CreateInvoicePartly, Alike
<1>5. CASE Called(r, plan)
  BY <1>1, <1>5, CalledShape
<1> QED
  BY <1>2, <1>3, <1>4, <1>5
     DEF StripeCall, CreditCustomerBalance, VoidBalanceInvoice, VoidCoachInvoice,
         TryVoidInvoice, TryVoidCoachInvoice, RefundInvoiceKeeping

(* A plan that disturbs an invoice.                                        *)
LEMMA DisturbingShape ==
  ASSUME NEW g \in GroupRow, NEW rows, NEW stale, NEW plan \in Plan, NEW op \in RosterEdit,
         OwedOnly(plan.row)
  PROVE  LET new == Disturbing(g, rows, stale, plan) IN
         /\ new \in Plan /\ new.tr = RosterChangedTr(g, rows, stale)
         /\ new.target = plan.target /\ new.row = plan.row
<1> DEFINE tr   == RosterChangedTr(g, rows, stale)
           todo == plan.todo \o If(HasOpenInvoice(g) /\ stale, "void")
           new  == Disturbing(g, rows, stale, plan)
<1>1. new \in Plan
  BY DisturbingTyped
<1>2. new = [plan EXCEPT !.tr = tr, !.ref = g.ref, !.todo = todo]
  BY DEF Disturbing, Plan
<1> HIDE DEF todo, tr
<1>3. new.tr = tr /\ new.target = plan.target /\ new.row = plan.row
  BY <1>2 DEF Plan
<1> QED
  BY <1>1, <1>3 DEF tr

(* An edit of which every open invoice is stale.                           *)
LEMMA StaleShape ==
  ASSUME NEW g \in GroupRow, NEW rows, NEW plan \in Plan, NEW op \in RosterEdit,
         OwedOnly(plan.row)
  PROVE  LET new == Disturbing(g, rows, TRUE, plan) IN
         /\ new \in Plan /\ new.tr = RosterChangedTr(g, rows, TRUE)
         /\ new.target = plan.target /\ new.row = plan.row
<1> DEFINE tr   == RosterChangedTr(g, rows, TRUE)
           todo == plan.todo \o If(HasOpenInvoice(g) /\ TRUE, "void")
           new  == Disturbing(g, rows, TRUE, plan)
           ref  == g.ref
<1>1. new \in Plan
  BY DisturbingTyped
<1>2. new = [plan EXCEPT !.tr = tr, !.ref = ref, !.todo = todo]
  BY DEF Disturbing
<1> HIDE DEF todo, tr, ref
<1>3. new.tr = tr /\ new.target = plan.target /\ new.row = plan.row
  BY <1>2 DEF Plan
<1> HIDE DEF new
<1> QED
  BY <1>1, <1>3 DEF tr, new

----------------------------------------------------------------------------
(* One main contact.  What has to be in flight for it: a call that removes *)
(* somebody, or names a contact, and still expects the current version,    *)
(* has a target who is there and, if they are to go, is not the contact.   *)

OneMain(cs) ==
    \E m \in Camper : /\ cs[m].st = "here"
                      /\ \A c \in Camper : cs[c].st = "here" => cs[c].main = (c = m)

MainLegal(r) ==
    /\ reqs[r].op \in {"remove", "main_contact"} \ SkipOp => reqs[r].exp # Skip
    /\ reqs[r].pc = "work" =>
      /\ reqs[r].op = "add" => ~reqs[r].plan.row.main
      /\ group.exists /\ reqs[r].exp = group.version =>
           LET row == campers[reqs[r].plan.target] IN
           /\ reqs[r].op = "remove" => row.st = "here" /\ ~row.main
           /\ reqs[r].op = "main_contact" => row.st = "here"

ExpectedKnown == group.exists => \A r \in Req : reqs[r].exp <= group.version

MainInv ==
    /\ group.exists => OneMain(campers)
    /\ ExpectedKnown
    /\ \A r \in Req : MainLegal(r)

(* A request that has decided nothing new keeps what it had, because what  *)
(* it decided on has not changed or its version is superseded.             *)
LEMMA MainStep ==
  ASSUME IInv, IInv', MainInv, MovesVersion, group'.exists => OneMain(campers'),
         \A r \in Req : \/ Alike(reqs'[r], reqs[r])
                        \/ MainLegal(r)' /\ (group'.exists => reqs'[r].exp <= group'.version)
  PROVE  MainInv'
<1>1. /\ group.version \in Nat /\ group'.version \in Nat
      /\ \A r \in Req : reqs[r].exp \in Nat \cup {-1}
  BY DEF IInv, DataInv, FlightInv, GroupRow, Request, Skip
<1>2. group'.exists => /\ group.exists
                       /\ group'.version > group.version \/ Unversioned
  BY DEF MovesVersion
<1>3. ASSUME NEW r \in Req, Alike(reqs'[r], reqs[r])
      PROVE  MainLegal(r)' /\ (group'.exists => reqs'[r].exp <= group'.version)
  <2>1. group'.exists => reqs[r].exp <= group.version
    BY <1>2 DEF MainInv, ExpectedKnown
  <2>2. group'.exists /\ reqs[r].exp = group'.version => Unversioned
    BY <1>1, <1>2, <2>1
  <2>3. MainLegal(r)
    BY DEF MainInv
  <2>4. group'.exists => reqs'[r].exp <= group'.version
    <3>1. reqs'[r].exp = reqs[r].exp
      BY <1>3 DEF Alike
    <3>2. group'.exists => group'.version > group.version \/ group'.version = group.version
      BY <1>2 DEF Unversioned
    <3> QED
      BY <1>1, <2>1, <3>1, <3>2
  <2>5. MainLegal(r)'
    BY <1>2, <1>3, <2>2, <2>3 DEF MainLegal, Alike, Unversioned
  <2> QED
    BY <2>4, <2>5
<1> QED
  BY <1>3 DEF MainInv, ExpectedKnown

(* A step that moves no main contact and nobody in or out.                 *)
SamePeople(cs) ==
    \A c \in Camper : /\ cs[c].main = campers[c].main
                      /\ cs[c].st = "here" <=> campers[c].st = "here"

LEMMA SamePeopleOneMain ==
  ASSUME MainInv, MovesVersion, SamePeople(campers')
  PROVE  group'.exists => OneMain(campers')
  BY DEF MainInv, MovesVersion, SamePeople, OneMain

LEMMA OthersAlike ==
  ASSUME NEW r \in Req, \A x \in Req \ {r} : reqs'[x] = reqs[x],
         NEW x \in Req, x # r
  PROVE  Alike(reqs'[x], reqs[x])
  BY DEF Alike

(* A call that ends leaves nothing in flight.                              *)
LEMMA IdleMain ==
  ASSUME IInv', NEW r \in Req, reqs'[r] = Idle
  PROVE  MainLegal(r)' /\ reqs'[r].exp <= group'.version
<1>1. group'.version \in Nat /\ Idle.exp = -1
  BY DEF IInv, DataInv, GroupRow, Idle, Skip
<1> QED
  BY <1>1 DEF MainLegal, Idle

LEMMA BeginMain ==
  ASSUME IInv, IInv', MainInv, MovesVersion, NEW r \in Req, NEW op, Begin(r, op)
  PROVE  MainInv'
<1>1. /\ reqs'[r].pc = "read" /\ reqs'[r].op = op /\ reqs'[r].exp <= group.version
      /\ op \notin SkipOp => reqs'[r].exp # Skip
      /\ \A x \in Req \ {r} : reqs'[x] = reqs[x]
      /\ UNCHANGED db
  BY BeginShape
<1>2. SamePeople(campers') /\ MainLegal(r)' /\ reqs'[r].exp <= group'.version
  BY <1>1 DEF SamePeople, MainLegal, db
<1> QED
  BY <1>1, <1>2, OthersAlike, SamePeopleOneMain, MainStep

LEMMA BeginDecidedMain ==
  ASSUME IInv, IInv', MainInv, MovesVersion, NEW r \in Req, NEW op, NEW plan,
         BeginDecided(r, op, plan), op \notin {"add", "remove", "main_contact"}
  PROVE  MainInv'
<1>1. /\ reqs'[r].op = op /\ reqs'[r].exp <= group.version
      /\ \A x \in Req \ {r} : reqs'[x] = reqs[x]
      /\ UNCHANGED db
  BY BeginDecidedShape
<1>2. SamePeople(campers') /\ MainLegal(r)' /\ reqs'[r].exp <= group'.version
  BY <1>1 DEF SamePeople, MainLegal, db
<1> QED
  BY <1>1, <1>2, OthersAlike, SamePeopleOneMain, MainStep

LEMMA DecidedMain ==
  ASSUME IInv, IInv', MainInv, MovesVersion, NEW r \in Req, NEW plan, Decided(r, plan),
         reqs[r].op = "add" => ~plan.row.main,
         reqs[r].op = "remove" => /\ campers[plan.target].st = "here"
                                  /\ ~campers[plan.target].main,
         reqs[r].op = "main_contact" => campers[plan.target].st = "here"
  PROVE  MainInv'
<1>1. /\ reqs'[r].op = reqs[r].op /\ reqs'[r].exp = reqs[r].exp /\ reqs'[r].plan = plan
      /\ \A x \in Req \ {r} : reqs'[x] = reqs[x]
      /\ UNCHANGED db
  BY DecidedShape
<1>2. SamePeople(campers') /\ MainLegal(r)'
      /\ (group'.exists => reqs'[r].exp <= group'.version)
  BY <1>1 DEF SamePeople, MainLegal, MainInv, ExpectedKnown, db
<1> QED
  BY <1>1, <1>2, OthersAlike, SamePeopleOneMain, MainStep

LEMMA CommittedMain ==
  ASSUME IInv, IInv', MainInv, MovesVersion, NEW r \in Req, NEW g, NEW cs,
         Committed(r, g, cs), g.exists => OneMain(cs)
  PROVE  MainInv'
<1>1. /\ group' = g /\ campers' = cs /\ reqs'[r] = Idle
      /\ \A x \in Req \ {r} : reqs'[x] = reqs[x]
  BY CommittedShape
<1>2. group'.exists => OneMain(campers')
  BY <1>1
<1>3. MainLegal(r)' /\ reqs'[r].exp <= group'.version
  BY <1>1, IdleMain
<1> QED
  BY <1>1, <1>2, <1>3, OthersAlike, MainStep

(* A transaction that changes neither the people nor the contact.          *)
LEMMA CommittedSamePeople ==
  ASSUME IInv, IInv', MainInv, MovesVersion, NEW r \in Req, NEW g, NEW cs,
         Committed(r, g, cs), SamePeople(cs)
  PROVE  MainInv'
<1>1. group' = g /\ campers' = cs
  BY CommittedShape
<1>2. g.exists => OneMain(cs)
  BY <1>1, SamePeopleOneMain
<1> QED
  BY <1>2, CommittedMain

LEMMA UnplaceSamePeople == ASSUME IInv, NEW S PROVE SamePeople(Unplace(campers, S))
  BY DEF SamePeople, Unplace, IInv, DataInv, CamperRow

LEMMA SettleSamePeople == ASSUME IInv, NEW S PROVE SamePeople(SettleDeposits(campers, S))
<1>1. \A c \in Camper : campers[c] \in CamperRow
  BY DEF IInv, DataInv
<1>2. ASSUME NEW c \in Camper, NEW a, NEW b
      PROVE  LET row == [campers[c] EXCEPT !.paid = a, !.owed = b] IN
             row.main = campers[c].main /\ row.st = campers[c].st
  BY <1>1 DEF CamperRow
<1> QED
  BY <1>1, <1>2 DEF SamePeople, SettleDeposits

LEMMA AllocationMain ==
  ASSUME IInv, IInv', MainInv, NEW r \in Req, AllocationStep(r)
  PROVE  MainInv'
<1>0. MovesVersion
  BY AllocationMoves
<1>1. CASE CommitAllocate(r)
  <2> DEFINE codes == reqs[r].plan.codes
             cs == [c \in Camper |-> IF c \in {x \in Camper : codes[x] # NoCode}
                                     THEN [campers[c] EXCEPT !.code = codes[c]]
                                     ELSE campers[c]]
  <2>1. SamePeople(cs)
    BY DEF SamePeople, IInv, DataInv, CamperRow
  <2>2. \E g : Committed(r, g, cs)
    BY <1>1 DEF CommitAllocate
  <2> QED
    BY <1>0, <2>1, <2>2, CommittedSamePeople
<1>2. CASE CommitUnallocate(r) \/ CommitRelease(r)
  BY <1>0, <1>2, UnplaceSamePeople, CommittedSamePeople DEF CommitUnallocate, CommitRelease
<1>3. CASE CommitConfirmFree(r)
  BY <1>0, <1>3, CommittedSamePeople DEF CommitConfirmFree, SamePeople
<1>4. CASE BeginAllocate(r)
  BY <1>0, <1>4, BeginMain DEF BeginAllocate
<1>5. CASE BeginUnallocate(r) \/ BeginConfirmFree(r) \/ BeginRelease(r)
  <2>1. \E op \in {"unallocate", "confirm_free", "release", "cancel"} : \E plan :
          BeginDecided(r, op, plan)
    BY <1>5 DEF BeginUnallocate, BeginConfirmFree, BeginRelease
  <2> QED
    BY <1>0, <2>1, BeginDecidedMain
<1>6. CASE DecideAllocate(r) \/ SweepRelease(r)
  <2>1. /\ reqs[r].op \in {"allocate", "sweep"}
        /\ \E plan : Decided(r, plan)
    BY <1>6, FlightTyped DEF DecideAllocate, SweepRelease, Decides, LegalRequest
  <2> QED
    BY <1>0, <2>1, DecidedMain
<1>7. CASE SweepList(r)
  <2>1. /\ reqs'[r].pc = "listed" /\ reqs'[r].op = "sweep" /\ reqs'[r].exp = -1
        /\ \A x \in Req \ {r} : reqs'[x] = reqs[x]
        /\ UNCHANGED db
    BY <1>7 DEF SweepList, IInv, FlightInv, Idle, Skip
  <2>2. SamePeople(campers') /\ MainLegal(r)' /\ reqs'[r].exp <= group'.version
    BY <2>1 DEF SamePeople, MainLegal, db, IInv, DataInv, GroupRow
  <2> QED
    BY <1>0, <2>1, <2>2, OthersAlike, SamePeopleOneMain, MainStep
<1> QED
  BY <1>1, <1>2, <1>3, <1>4, <1>5, <1>6, <1>7 DEF AllocationStep

LEMMA InvoicingMain ==
  ASSUME IInv, IInv', MainInv, NEW r \in Req, InvoicingStep(r)
  PROVE  MainInv'
<1>0. MovesVersion
  BY InvoicingMoves
<1>1. CASE \E g : Committed(r, g, campers)
  BY <1>0, <1>1, CommittedSamePeople DEF SamePeople
<1>2. CASE CommitMarkBalancePaid(r)
  BY <1>0, <1>2, SettleSamePeople, CommittedSamePeople DEF CommitMarkBalancePaid
<1>3. CASE CommitDelete(r)
  <2>1. PICK g, cs : Committed(r, g, cs) /\ g = [group EXCEPT !.exists = FALSE]
    BY <1>3 DEF CommitDelete
  <2>2. ~g.exists
    BY <2>1 DEF IInv, DataInv, GroupRow
  <2> QED
    BY <1>0, <2>1, <2>2, CommittedMain
<1>4. CASE \E op : Begin(r, op)
  BY <1>0, <1>4, BeginMain
<1>5. CASE \E op \in {"unwaive_coach", "mark_paid", "resend", "extend"} : \E plan :
             BeginDecided(r, op, plan)
  BY <1>0, <1>5, BeginDecidedMain
<1>6. CASE \E plan : /\ Decided(r, plan)
                     /\ reqs[r].op \in {"invoice", "coach_invoice", "waive_coach", "delete"}
  BY <1>0, <1>6, DecidedMain
<1>7. CASE DecideSendInvoice(r)
  BY <1>6, <1>7 DEF DecideSendInvoice, Decides
<1>8. CASE BeginUnwaiveCoachFee(r) \/ BeginMarkBalancePaid(r) \/ BeginResendInvoice(r)
           \/ BeginExtendDue(r)
  BY <1>5, <1>8 DEF BeginUnwaiveCoachFee, BeginMarkBalancePaid, BeginResendInvoice,
     BeginExtendDue
<1>9. CASE DecideSendCoachInvoice(r) \/ DecideWaiveCoachFee(r) \/ DecideDelete(r)
  BY <1>6, <1>9 DEF DecideSendCoachInvoice, DecideWaiveCoachFee, DecideDelete, Decides
<1>10. CASE CommitSendInvoice(r) \/ CommitSendCoachInvoice(r) \/ CommitWaiveCoachFee(r)
            \/ CommitUnwaiveCoachFee(r) \/ CommitResendInvoice(r) \/ CommitExtendDue(r)
  BY <1>1, <1>10 DEF CommitSendInvoice, CommitSendCoachInvoice, CommitWaiveCoachFee,
     CommitUnwaiveCoachFee, CommitResendInvoice, CommitExtendDue
<1>11. CASE BeginSendInvoice(r) \/ BeginSendCoachInvoice(r) \/ BeginWaiveCoachFee(r)
            \/ BeginDelete(r)
  BY <1>4, <1>11 DEF BeginSendInvoice, BeginSendCoachInvoice, BeginWaiveCoachFee, BeginDelete
<1> QED
  BY <1>2, <1>3, <1>7, <1>8, <1>9, <1>10, <1>11 DEF InvoicingStep

(* One row is written anew, and its owner stays who and where they are.    *)
LEMMA RowSamePeople ==
  ASSUME IInv, NEW c \in Camper, NEW row, row.main = campers[c].main,
         row.st = "here" <=> campers[c].st = "here"
  PROVE  SamePeople([campers EXCEPT ![c] = row])
  BY DEF SamePeople, IInv, DataInv

LEMMA DecideRemoveCamperMain ==
  ASSUME IInv, IInv', MainInv, NEW r \in Req, DecideRemoveCamper(r)
  PROVE  MainInv'
<1> DEFINE g == reqs[r].snap
           coachless(c) == HasUnpaidCoachInvoice(g) /\ CoachPassengers(campers) \ {c} = {}
           inner(c) == [NoPlan EXCEPT !.target = c, !.coachRef = g.coachRef]
           plan(c)  == Disturbing(g, Others(c), TRUE, inner(c))
           full(c)  == [plan(c) EXCEPT !.todo = @ \o If(coachless(c), "try_void_coach")]
<1>1. PICK c \in Here(campers) :
        /\ CanRemoveCamper(g, campers[c], Cardinality(Here(campers)))
        /\ Decided(r, full(c))
  BY DEF DecideRemoveCamper
<1>2. reqs[r].op = "remove" /\ g \in GroupRow /\ g.coachRef \in InvoiceRef /\ c \in Camper
  BY FlightTyped, CampersOfGroup DEF DecideRemoveCamper, Decides, GroupRow
<1>3. inner(c) \in Plan /\ OwedOnly(inner(c).row) /\ inner(c).target = c
  BY <1>2, NoPlanTyped, NoPlanCounted DEF Plan
<1> DEFINE extra == If(coachless(c), "try_void_coach")
<1> HIDE DEF inner, coachless
<1>4. plan(c) \in Plan /\ plan(c).target = c
  BY <1>2, <1>3, DisturbingShape DEF RosterEdit
<1> HIDE DEF plan, extra
<1>5. full(c).target = c
  BY <1>4 DEF Plan, extra
<1>6. MovesVersion
  BY CamperEditMoves DEF CamperEditStep
<1>7. campers[c].st = "here" /\ ~campers[c].main
  BY <1>1 DEF Here, CanRemoveCamper
<1> HIDE DEF full
<1> QED
  BY <1>1, <1>2, <1>5, <1>6, <1>7, DecidedMain

LEMMA CommitRemoveCamperMain ==
  ASSUME IInv, IInv', MainInv, NEW r \in Req, CommitRemoveCamper(r), "remove" \notin SkipOp
  PROVE  MainInv'
<1> DEFINE c   == reqs[r].plan.target
           row == [campers[c] EXCEPT !.st = "gone"]
           cs  == [campers EXCEPT ![c] = row]
<1>1. MayCommit(r, "remove", {c}) /\ \E g : Committed(r, g, cs)
  BY DEF CommitRemoveCamper, RowCommitted
<1>2. MovesVersion
  BY CamperEditMoves DEF CamperEditStep
<1>3. c \in Camper /\ campers[c] \in CamperRow /\ campers \in [Camper -> CamperRow]
  BY TargetTyped, FlightTyped
<1>4. reqs[r].exp = group.version
  BY <1>1 DEF MainInv, MainLegal, MayCommit
<1>5. ~campers[c].main
  BY <1>1, <1>4 DEF MainInv, MainLegal, MayCommit
<1>6. OneMain(campers)
  BY <1>1 DEF MainInv, MayCommit
<1>7. row.st = "gone"
  BY <1>3 DEF CamperRow
<1> HIDE DEF row, c
<1>8. OneMain(cs)
  BY <1>3, <1>5, <1>6, <1>7 DEF OneMain
<1> QED
  BY <1>1, <1>2, <1>8, CommittedMain

LEMMA DecideAddCamperMain ==
  ASSUME IInv, IInv', MainInv, NEW r \in Req, DecideAddCamper(r)
  PROVE  MainInv'
<1> DEFINE g == reqs[r].snap
           owes(p) == p.att = "full_week" /\ p.age >= MinDepositAge
           row(p)  == [NewRow EXCEPT !.st = "here", !.att = p.att, !.age = p.age,
                         !.coach = p.coach, !.owed = IF owes(p) THEN Deposit ELSE 0]
           rows(p) == Rows(campers, Here(campers)) \cup {row(p)}
           inner(p) == [NoPlan EXCEPT !.row = row(p)]
           plan(p)  == Disturbing(g, rows(p), TRUE, inner(p))
<1>1. PICK p \in Profile : Decided(r, plan(p))
  BY DEF DecideAddCamper
<1>2. reqs[r].op = "add" /\ g \in GroupRow
  BY FlightTyped DEF DecideAddCamper, Decides
<1>3. p.att \in Attendance /\ p.age \in Age /\ p.coach \in BOOLEAN
  BY StoreAssumption
<1>4. /\ row(p) \in CamperRow /\ row(p).owed \in {0, Deposit} /\ row(p).paid = NewRow.paid
      /\ row(p).main = NewRow.main
  BY <1>3, NewRowTyped DEF CamperRow, Deposit
<1>5. OwedOnly(row(p)) /\ ~row(p).main
  BY <1>4 DEF CountedOnce, OwedOnly, Deposit, NewRow
<1> HIDE DEF row, rows
<1>6. inner(p) \in Plan /\ inner(p).row = row(p)
  BY <1>4, NoPlanTyped DEF Plan
<1> HIDE DEF inner
<1>7. plan(p).row = row(p)
  BY <1>2, <1>5, <1>6, DisturbingShape DEF RosterEdit
<1> HIDE DEF plan
<1>8. MovesVersion
  BY CamperEditMoves DEF CamperEditStep
<1> QED
  BY <1>1, <1>2, <1>5, <1>7, <1>8, DecidedMain

LEMMA CommitAddCamperMain ==
  ASSUME IInv, IInv', MainInv, NEW r \in Req, CommitAddCamper(r)
  PROVE  MainInv'
<1> DEFINE row   == reqs[r].plan.row
           cs(c) == [campers EXCEPT ![c] = row]
<1>1. MayCommit(r, "add", {})
  BY DEF CommitAddCamper
<1>2. PICK c \in Camper : campers[c].st = "new" /\ \E g : Committed(r, g, cs(c))
  BY DEF CommitAddCamper
<1>3. MovesVersion
  BY CamperEditMoves DEF CamperEditStep
<1>4. /\ row.main = FALSE /\ OneMain(campers) /\ campers \in [Camper -> CamperRow]
  <2>1. row \in CamperRow
    BY TargetTyped, FlightTyped
  <2> QED
    BY <1>1, <2>1 DEF MainInv, MainLegal, MayCommit, IInv, DataInv, CamperRow
<1> HIDE DEF row
<1>5. PICK m \in Camper : /\ campers[m].st = "here"
                         /\ \A x \in Camper : campers[x].st = "here" =>
                                               campers[x].main = (x = m)
  BY <1>4 DEF OneMain
<1>6. m # c /\ cs(c)[c] = row /\ \A x \in Camper : x # c => cs(c)[x] = campers[x]
  BY <1>2, <1>4, <1>5
<1>7. cs(c)[m].st = "here"
  BY <1>5, <1>6
<1>8. ASSUME NEW x \in Camper, cs(c)[x].st = "here"
      PROVE  cs(c)[x].main = (x = m)
  <2>1. CASE x = c
    BY <1>4, <1>6, <2>1
  <2>2. CASE x # c
    BY <1>5, <1>6, <1>8, <2>2
  <2> QED
    BY <2>1, <2>2
<1>9. OneMain(cs(c))
  BY <1>7, <1>8 DEF OneMain
<1> QED
  BY <1>2, <1>3, <1>9, CommittedMain

LEMMA DecideMakeMainContactMain ==
  ASSUME IInv, IInv', MainInv, NEW r \in Req, DecideMakeMainContact(r)
  PROVE  MainInv'
<1> DEFINE plan(c) == [NoPlan EXCEPT !.target = c]
<1>1. PICK c \in Here(campers) : Decided(r, plan(c))
  BY DEF DecideMakeMainContact
<1>2. plan(c).target = c /\ campers[c].st = "here" /\ reqs[r].op = "main_contact"
  BY NoPlanTyped DEF Plan, Here, DecideMakeMainContact, Decides
<1> HIDE DEF plan
<1>3. MovesVersion
  BY CamperEditMoves DEF CamperEditStep
<1> QED
  BY <1>1, <1>2, <1>3, DecidedMain

LEMMA CommitMakeMainContactMain ==
  ASSUME IInv, IInv', MainInv, NEW r \in Req, CommitMakeMainContact(r),
         "main_contact" \notin SkipOp
  PROVE  MainInv'
<1> DEFINE t  == reqs[r].plan.target
           cs == [c \in Camper |-> IF c \in Here(campers)
                                   THEN [campers[c] EXCEPT !.main = (c = t)]
                                   ELSE campers[c]]
<1>1. MayCommit(r, "main_contact", Here(campers)) /\ \E g : Committed(r, g, cs)
  BY DEF CommitMakeMainContact
<1>2. MovesVersion
  BY CamperEditMoves DEF CamperEditStep
<1>3. t \in Camper /\ campers \in [Camper -> CamperRow]
  BY FlightTyped, TargetTyped DEF IInv, DataInv
<1>4. reqs[r].exp = group.version
  BY <1>1 DEF MainInv, MainLegal, MayCommit
<1>5. campers[t].st = "here"
  BY <1>1, <1>4 DEF MainInv, MainLegal, MayCommit
<1> HIDE DEF t
<1>6. \A c \in Camper : /\ cs[c].st = campers[c].st
                        /\ campers[c].st = "here" => cs[c].main = (c = t)
  BY <1>3 DEF CamperRow, Here
<1> HIDE DEF cs
<1>7. OneMain(cs)
  BY <1>3, <1>5, <1>6 DEF OneMain
<1> QED
  BY <1>1, <1>2, <1>7, CommittedMain

(* The edits of a row that leave its owner in the group.                   *)
LEMMA RowEditMain ==
  ASSUME IInv, IInv', MainInv, NEW r \in Req,
         \/ CommitConvertToDayVisitor(r) \/ CommitUpdateDayPass(r) \/ CommitUpdateCoach(r)
         \/ CommitEditCamper(r) \/ CommitWaiveDeposit(r)
  PROVE  MainInv'
<1> DEFINE c == reqs[r].plan.target
<1>1. c \in Camper /\ campers[c] \in CamperRow
  BY TargetTyped, FlightTyped
<1>2. MovesVersion
  BY CamperEditMoves DEF CamperEditStep
<1>3. ASSUME NEW w, w.main = campers[c].main, w.st = campers[c].st,
             \E g : Committed(r, g, [campers EXCEPT ![c] = w])
      PROVE  MainInv'
  BY <1>1, <1>2, <1>3, RowSamePeople, CommittedSamePeople
<1>4. CASE CommitConvertToDayVisitor(r)
  <2> DEFINE credit == reqs[r].plan.row.credit
             row == [campers[c] EXCEPT !.att = "day_pass", !.coach = FALSE, !.code = NoCode,
                                       !.credit = credit, !.owed = 0]
  <2>1. \E g : Committed(r, g, [campers EXCEPT ![c] = row])
    BY <1>4 DEF CommitConvertToDayVisitor, RowCommitted
  <2> HIDE DEF credit
  <2>2. row.main = campers[c].main /\ row.st = campers[c].st
    BY <1>1 DEF CamperRow
  <2> QED
    BY <1>3, <2>1, <2>2
<1>5. CASE CommitUpdateDayPass(r)
  BY <1>2, <1>5, CommittedSamePeople DEF CommitUpdateDayPass, SamePeople
<1>6. CASE CommitUpdateCoach(r)
  <2> DEFINE coach == reqs[r].plan.row.coach
             row == [campers[c] EXCEPT !.coach = coach]
  <2>1. \E g : Committed(r, g, [campers EXCEPT ![c] = row])
    BY <1>6 DEF CommitUpdateCoach, RowCommitted
  <2> HIDE DEF coach
  <2>2. row.main = campers[c].main /\ row.st = campers[c].st
    BY <1>1 DEF CamperRow
  <2> QED
    BY <1>3, <2>1, <2>2
<1>7. CASE CommitEditCamper(r)
  <2> DEFINE age  == reqs[r].plan.row.age
             code == IF IsFullWeek(campers[c]) THEN reqs[r].plan.row.code ELSE campers[c].code
             row  == [campers[c] EXCEPT !.age = age, !.code = code]
  <2>1. \E g : Committed(r, g, [campers EXCEPT ![c] = row])
    BY <1>7 DEF CommitEditCamper, RowCommitted
  <2> HIDE DEF age, code
  <2>2. row.main = campers[c].main /\ row.st = campers[c].st
    BY <1>1 DEF CamperRow
  <2> QED
    BY <1>3, <2>1, <2>2
<1>8. CASE CommitWaiveDeposit(r)
  <2> DEFINE row == [campers[c] EXCEPT !.owed = 0]
  <2>1. \E g : Committed(r, g, [campers EXCEPT ![c] = row])
    BY <1>8 DEF CommitWaiveDeposit, RowCommitted

  <2>2. row.main = campers[c].main /\ row.st = campers[c].st
    BY <1>1 DEF CamperRow
  <2> QED
    BY <1>3, <2>1, <2>2
<1> QED
  BY <1>4, <1>5, <1>6, <1>7, <1>8

LEMMA CamperEditMain ==
  ASSUME IInv, IInv', MainInv, NEW r \in Req, CamperEditStep(r),
         SkipOp \cap {"remove", "main_contact"} = {}
  PROVE  MainInv'
<1>1. MovesVersion
  BY CamperEditMoves
<1>2. CASE \E op : Begin(r, op)
  BY <1>1, <1>2, BeginMain
<1>3. CASE /\ \E plan : Decided(r, plan)
           /\ reqs[r].op \in {"convert", "edit_day_pass", "coach", "edit", "waive_deposit"}
  BY <1>1, <1>3, DecidedMain
<1>4. CASE DecideConvertToDayVisitor(r) \/ DecideUpdateDayPass(r) \/ DecideUpdateCoach(r)
           \/ DecideWaiveDeposit(r)
  BY <1>3, <1>4 DEF DecideConvertToDayVisitor, DecideUpdateDayPass, DecideUpdateCoach,
     DecideWaiveDeposit, Decides
<1>5. CASE DecideEditCamper(r)
  BY <1>3, <1>5 DEF DecideEditCamper, Decides
<1>6. CASE BeginRemoveCamper(r) \/ BeginConvertToDayVisitor(r) \/ BeginUpdateDayPass(r)
           \/ BeginUpdateCoach(r) \/ BeginEditCamper(r) \/ BeginAddCamper(r)
           \/ BeginMakeMainContact(r) \/ BeginWaiveDeposit(r)
  BY <1>2, <1>6 DEF BeginRemoveCamper, BeginConvertToDayVisitor, BeginUpdateDayPass,
     BeginUpdateCoach, BeginEditCamper, BeginAddCamper, BeginMakeMainContact,
     BeginWaiveDeposit
<1> QED
  BY <1>4, <1>5, <1>6, RowEditMain, DecideRemoveCamperMain, CommitRemoveCamperMain,
     DecideAddCamperMain, CommitAddCamperMain, DecideMakeMainContactMain,
     CommitMakeMainContactMain
     DEF CamperEditStep

(* The steps of Stripe, of the deliveries and of the checkout.             *)
LEMMA QuietMain ==
  ASSUME IInv, IInv', MainInv, MovesVersion, SamePeople(campers'),
         \A r \in Req : Alike(reqs'[r], reqs[r]) \/ reqs'[r] = Idle
  PROVE  MainInv'
  BY IdleMain, SamePeopleOneMain, MainStep

LEMMA NextMain ==
  ASSUME IInv, IInv', MainInv, [Next]_vars, SkipOp \cap {"remove", "main_contact"} = {}
  PROVE  MainInv'
<1>1. MovesVersion
  BY NextMoves
<1>2. campers' = campers => SamePeople(campers')
  BY DEF SamePeople
<1>3. reqs' = reqs => \A r \in Req : Alike(reqs'[r], reqs[r])
  BY DEF Alike
<1>4. CASE \E r \in Req : AllocationStep(r) \/ InvoicingStep(r) \/ CamperEditStep(r)
  BY <1>4, AllocationMain, InvoicingMain, CamperEditMain
<1>5. CASE \E r \in Req : StripeCall(r)
  BY <1>1, <1>2, <1>5, StripeCallShape, StripeCallMoves, QuietMain DEF Unversioned
<1>6. CASE \E r \in Req : GiveUp(r)
  <2>1. \A x \in Req : Alike(reqs'[x], reqs[x]) \/ reqs'[x] = Idle
    BY <1>6 DEF GiveUp, Alike, IInv, FlightInv
  <2> QED
    BY <1>1, <1>2, <1>6, <2>1, QuietMain DEF GiveUp, db
<1>7. CASE \E h \in Hook : ReconcileStep(h)
  <2>1. reqs' = reqs /\ SamePeople(campers')
    BY <1>2, <1>7, SettleSamePeople
       DEF ReconcileStep, DeliverEvent, SettleOwedDeposits, CommitBalancePaid,
           CommitCoachFeePaid, DeliveryFails, db
  <2> QED
    BY <1>1, <1>3, <2>1, QuietMain
<1>8. CASE campers' = campers /\ reqs' = reqs
  BY <1>1, <1>2, <1>3, <1>8, QuietMain
<1>9. CASE \E r \in Req, h \in Hook : SettleByHand(r, h)
  <2>1. campers' = campers /\ \A x \in Req : Alike(reqs'[x], reqs[x]) \/ reqs'[x] = Idle
    BY <1>9, SettleByHandAlone DEF Alike, db
  <2> QED
    BY <1>1, <1>2, <2>1, QuietMain
<1> QED
  BY <1>4, <1>5, <1>6, <1>7, <1>8, <1>9
     DEF Next, RequestStep, PayInvoice, FinalizeDraft, CheckoutCompleted, CheckoutExpired,
         OverridePaymentStatus, DueDatePasses, vars, db

LEMMA InitMain == ASSUME Init PROVE MainInv
<1> DEFINE rows(main, who) ==
             [c \in Camper |->
               IF c \in Registered
               THEN [NewRow EXCEPT !.st = "here", !.main = (c = main), !.att = who[c].att,
                                   !.age = who[c].age, !.coach = who[c].coach]
               ELSE NewRow]
<1>1. PICK main \in Registered, who \in [Registered -> Profile] : campers = rows(main, who)
  BY DEF Init
<1>2. main \in Camper /\ NewRow.st = "new" /\ NewRow \in CamperRow
  BY BillingAssumption, NewRowTyped DEF NewRow
<1>3. \A c \in Camper :
        /\ c \in Registered => campers[c].st = "here" /\ campers[c].main = (c = main)
        /\ c \notin Registered => campers[c].st = "new"
  BY <1>1, <1>2 DEF CamperRow
<1>4. OneMain(campers)
  BY <1>2, <1>3 DEF OneMain
<1>5. \A r \in Req : reqs[r] = Idle
  BY DEF Init
<1>6. \A r \in Req : reqs[r].exp = -1 /\ MainLegal(r)
  BY <1>5 DEF Idle, MainLegal, Skip
<1>7. group.version \in Nat
  BY InitIInv DEF IInv, DataInv, GroupRow
<1> QED
  BY <1>4, <1>6, <1>7 DEF MainInv, ExpectedKnown

(* A group that exists has exactly one main contact, however removals and  *)
(* changes of the contact overlap, when both carry the version they were   *)
(* decided on (RemoveCamper, MakeMainContact).                             *)
THEOREM OneContact ==
  ASSUME SkipOp \cap {"remove", "main_contact"} = {}
  PROVE  Spec => []OneMainContact
<1>1. Init => MainInv
  BY InitMain
<1>2. IInv /\ IInv' /\ MainInv /\ [Next]_vars => MainInv'
  BY NextMain
<1>3. MainInv => OneMainContact
  <2> SUFFICES ASSUME MainInv, group.exists
               PROVE  Cardinality({c \in Here(campers) : campers[c].main}) = 1
    BY DEF OneMainContact
  <2>1. PICK m \in Camper : /\ campers[m].st = "here"
                           /\ \A c \in Camper : campers[c].st = "here" =>
                                                 campers[c].main = (c = m)
    BY DEF MainInv, OneMain
  <2>2. {c \in Here(campers) : campers[c].main} = {m}
    BY <2>1 DEF Here
  <2> QED
    BY <2>2, FS_Singleton
<1> QED
  BY <1>1, <1>2, <1>3, Invariance, PTL DEF Spec

----------------------------------------------------------------------------
(* The decision is current.  A call that read the group holds what the     *)
(* rules look at, and one that has decided holds the decision it would     *)
(* take again, as long as the version it expects is the group's.           *)

(* The rules of the lifecycle cannot tell h from g, which may since have   *)
(* been paid for.                                                          *)
SameGroup(g, h) ==
    /\ h.ref = g.ref /\ h.coachRef = g.coachRef /\ h.coachPaid = g.coachPaid
    /\ h.waived = g.waived /\ h.free = g.free /\ h.pif = g.pif
    /\ h.billing = g.billing /\ h.coachIn = g.coachIn
    /\ g.pay = "paid" => h.pay = "paid"

SamePlan(p, q) ==
    /\ p.tr = q.tr /\ p.target = q.target /\ p.row = q.row /\ p.codes = q.codes
    /\ p.lines = q.lines /\ p.deposits = q.deposits /\ p.riders = q.riders

(* What a call has checked before it reads the campers.                    *)
Guarded(op, g) ==
    /\ op = "allocate"      => CanAllocate(g)
    /\ op = "coach_invoice" => CanSendCoachInvoice(g)
    /\ op = "waive_coach"   => CanWaiveCoachFee(g)
    /\ op = "add"           => CanAddCamper(g)

Current(r) ==
    /\ reqs[r].pc = "read" => Guarded(reqs[r].op, reqs[r].snap)
    /\ group.exists /\ reqs[r].exp = group.version =>
         /\ reqs[r].pc = "read" => SameGroup(reqs[r].snap, group)
         /\ reqs[r].pc = "work" => CurrentDecision(group, campers, reqs[r].op, reqs[r].plan)

VersionInv ==
    /\ ~group.pif
    /\ ExpectedKnown
    /\ \A r \in Req : Current(r)

LEMMA SameGroupRules ==
  ASSUME NEW g \in GroupRow, NEW h \in GroupRow, SameGroup(g, h)
  PROVE  /\ CanAllocate(g) => CanAllocate(h)
         /\ AllocateTr(g) = AllocateTr(h)
         /\ CanUnallocate(g) => CanUnallocate(h)
         /\ UnallocateTr(g) = UnallocateTr(h)
         /\ CanConfirmSponsorship(g) => CanConfirmSponsorship(h)
         /\ \A full : CanInvoice(g, full) => CanInvoice(h, full)
         /\ InvoiceTr(g) = InvoiceTr(h)
         /\ CanSendCoachInvoice(g) => CanSendCoachInvoice(h)
         /\ CanWaiveCoachFee(g) => CanWaiveCoachFee(h)
         /\ CanMarkBalancePaid(g) => CanMarkBalancePaid(h)
         /\ SettleBalanceTr(g) = SettleBalanceTr(h)
         /\ CanAddCamper(g) => CanAddCamper(h)
         /\ \A c, n : CanRemoveCamper(g, c, n) => CanRemoveCamper(h, c, n)
         /\ \A c : CanConvertToDayVisitor(g, c) => CanConvertToDayVisitor(h, c)
         /\ \A c : CanChangeCoach(g, c) => CanChangeCoach(h, c)
         /\ \A rows, stale : RosterChangedTr(g, rows, stale) = RosterChangedTr(h, rows, stale)
         /\ \A old, new : Repriced(g, old, new) = Repriced(h, old, new)
         /\ \A stale : CheckReprice(g, stale) => CheckReprice(h, stale)
<1> USE DEF SameGroup
<1>1. CanAllocate(g) => CanAllocate(h)
  BY DEF CanAllocate
<1>2. AllocateTr(g) = AllocateTr(h) /\ UnallocateTr(g) = UnallocateTr(h)
      /\ InvoiceTr(g) = InvoiceTr(h) /\ SettleBalanceTr(g) = SettleBalanceTr(h)
  BY DEF AllocateTr, UnallocateTr, InvoiceTr, SettleBalanceTr, Move
<1>3. /\ CanUnallocate(g) => CanUnallocate(h)
      /\ CanConfirmSponsorship(g) => CanConfirmSponsorship(h)
      /\ \A full : CanInvoice(g, full) => CanInvoice(h, full)
      /\ CanMarkBalancePaid(g) => CanMarkBalancePaid(h)
      /\ CanAddCamper(g) => CanAddCamper(h)
  BY DEF CanUnallocate, CanConfirmSponsorship, CanInvoice, CanMarkBalancePaid, CanAddCamper,
     BalanceSettled
<1>4. /\ CanSendCoachInvoice(g) => CanSendCoachInvoice(h)
      /\ CanWaiveCoachFee(g) => CanWaiveCoachFee(h)
      /\ \A c : CanChangeCoach(g, c) => CanChangeCoach(h, c)
  BY DEF CanSendCoachInvoice, CoachAlreadyCharged, CanWaiveCoachFee, CanChangeCoach
<1>5. /\ \A c, n : CanRemoveCamper(g, c, n) => CanRemoveCamper(h, c, n)
      /\ \A c : CanConvertToDayVisitor(g, c) => CanConvertToDayVisitor(h, c)
  BY DEF CanRemoveCamper, CanConvertToDayVisitor, BalanceSettled
<1>6. \A rows, stale : RosterChangedTr(g, rows, stale) = RosterChangedTr(h, rows, stale)
  BY DEF RosterChangedTr, HasOpenInvoice, Move
<1>7. \A old, new : Repriced(g, old, new) = Repriced(h, old, new)
  BY DEF Repriced, PriceFor
<1>8. \A stale : CheckReprice(g, stale) => CheckReprice(h, stale)
  BY DEF CheckReprice, BalanceSettled
<1> QED
  BY <1>1, <1>2, <1>3, <1>4, <1>5, <1>6, <1>7, <1>8

(* A decision stays current while nobody touches the campers, and the      *)
(* rules cannot tell the group from what it was.                           *)
LEMMA DecisionStays ==
  ASSUME NEW g \in GroupRow, NEW h \in GroupRow, SameGroup(g, h), NEW cs, NEW op,
         NEW p, NEW q, SamePlan(p, q), CurrentDecision(g, cs, op, p)
  PROVE  CurrentDecision(h, cs, op, q)
<1>1. \A rows : RosterChangedTr(g, rows, TRUE) = RosterChangedTr(h, rows, TRUE)
  BY DEF SameGroup, RosterChangedTr, HasOpenInvoice, Move
<1> USE SameGroupRules DEF SamePlan, CurrentDecision
<1>2. CASE op \in {"coach_invoice", "waive_coach", "unwaive_coach", "mark_paid"}
  BY <1>2 DEF SameGroup
<1>3. CASE op \in {"main_contact", "waive_deposit"}
  BY <1>3
<1>4. CASE op = "allocate"
  BY <1>4
<1>5. CASE op = "unallocate"
  BY <1>5
<1>6. CASE op = "confirm_free"
  BY <1>6
<1>7. CASE op = "invoice"
  BY <1>7 DEF SameGroup, CanInvoice, InvoiceTr, Move
<1>8. CASE op = "remove"
  BY <1>1, <1>8
<1>9. CASE op = "convert"
  BY <1>1, <1>9
<1>10. CASE op = "coach"
  BY <1>10
<1>11. CASE op = "edit"
  BY <1>11
<1>12. CASE op = "add"
  BY <1>1, <1>12
<1>13. CASE op \notin {"coach_invoice", "waive_coach", "unwaive_coach", "mark_paid",
                     "main_contact", "waive_deposit", "allocate", "unallocate",
                     "confirm_free", "invoice", "remove", "convert", "coach", "edit",
                     "add"}
  BY <1>13
<1> QED
  BY <1>2, <1>3, <1>4, <1>5, <1>6, <1>7, <1>8, <1>9, <1>10, <1>11, <1>12, <1>13

LEMMA HarmlessSame ==
  ASSUME IInv, VersionInv, Unversioned, "override" \notin Op
  PROVE  SameGroup(group, group') /\ campers' = campers
  BY DEF VersionInv, Unversioned, SameRules, SameGroup

LEMMA SameGroupTwice ==
  ASSUME NEW f, NEW g, NEW h, SameGroup(f, g), SameGroup(g, h)
  PROVE  SameGroup(f, h)
  BY DEF SameGroup

LEMMA IdleCurrent ==
  ASSUME IInv', NEW r \in Req, reqs'[r] = Idle
  PROVE  Current(r)' /\ reqs'[r].exp <= group'.version
<1>1. group'.version \in Nat /\ Idle.exp = -1
  BY DEF IInv, DataInv, GroupRow, Idle, Skip
<1> QED
  BY <1>1 DEF Current, Idle

(* A request that has decided nothing new is as current as it was.         *)
LEMMA AlikeCurrent ==
  ASSUME IInv, IInv', VersionInv, MovesVersion, "override" \notin Op,
         NEW r \in Req, Alike(reqs'[r], reqs[r])
  PROVE  Current(r)' /\ (group'.exists => reqs'[r].exp <= group'.version)
<1>1. /\ group.version \in Nat /\ group'.version \in Nat
      /\ reqs[r].exp \in Nat \cup {-1} /\ reqs[r].snap \in GroupRow
      /\ group \in GroupRow /\ group' \in GroupRow
  BY DEF IInv, DataInv, FlightInv, GroupRow, Request, Skip
<1>2. /\ reqs'[r].pc = reqs[r].pc /\ reqs'[r].op = reqs[r].op /\ reqs'[r].exp = reqs[r].exp
      /\ reqs'[r].snap = reqs[r].snap /\ SamePlan(reqs[r].plan, reqs'[r].plan)
  BY DEF Alike, SamePlan
<1>3. group'.exists => /\ group.exists /\ reqs[r].exp <= group.version
                       /\ group'.version > group.version \/ Unversioned
  BY DEF MovesVersion, VersionInv, ExpectedKnown
<1>4. group'.exists => group'.version > group.version \/ group'.version = group.version
  BY <1>3 DEF Unversioned
<1>5. group'.exists => reqs'[r].exp <= group'.version
  BY <1>1, <1>2, <1>3, <1>4
<1>6. Current(r)
  BY DEF VersionInv
<1>7. reqs'[r].pc = "read" => Guarded(reqs'[r].op, reqs'[r].snap)
  BY <1>2, <1>6 DEF Current
<1>8. ASSUME group'.exists, reqs'[r].exp = group'.version
      PROVE  /\ reqs'[r].pc = "read" => SameGroup(reqs'[r].snap, group')
             /\ reqs'[r].pc = "work" =>
                  CurrentDecision(group', campers', reqs'[r].op, reqs'[r].plan)
  <2>1. Unversioned
    BY <1>1, <1>2, <1>3, <1>8
  <2>2. SameGroup(group, group') /\ campers' = campers
    BY <2>1, HarmlessSame
  <2>3. group.exists /\ reqs[r].exp = group.version
    BY <1>2, <1>3, <1>8, <2>1 DEF Unversioned
  <2>4. CASE reqs'[r].pc = "read"
    <3>1. SameGroup(reqs[r].snap, group)
      BY <1>2, <1>6, <2>3, <2>4 DEF Current
    <3> QED
      BY <1>2, <2>2, <2>4, <3>1, SameGroupTwice
  <2>5. CASE reqs'[r].pc = "work"
    <3>1. CurrentDecision(group, campers, reqs[r].op, reqs[r].plan)
      BY <1>2, <1>6, <2>3, <2>5 DEF Current
    <3> QED
      BY <1>1, <1>2, <2>2, <2>5, <3>1, DecisionStays
  <2> QED
    BY <2>4, <2>5
<1> QED
  BY <1>5, <1>7, <1>8 DEF Current

LEMMA VersionStep ==
  ASSUME IInv, IInv', VersionInv, MovesVersion, "override" \notin Op,
         \A r \in Req : \/ Alike(reqs'[r], reqs[r])
                        \/ Current(r)' /\ (group'.exists => reqs'[r].exp <= group'.version)
  PROVE  VersionInv'
<1>1. \A r \in Req : Current(r)' /\ (group'.exists => reqs'[r].exp <= group'.version)
  BY AlikeCurrent
<1>2. ~group'.pif
  BY DEF MovesVersion, SameKind, VersionInv
<1> QED
  BY <1>1, <1>2 DEF VersionInv, ExpectedKnown

LEMMA BeginCurrent ==
  ASSUME IInv, IInv', VersionInv, MovesVersion, "override" \notin Op,
         NEW r \in Req, NEW op, Begin(r, op), Guarded(op, group)
  PROVE  VersionInv'
<1>1. /\ reqs'[r].pc = "read" /\ reqs'[r].op = op /\ reqs'[r].snap = group
      /\ reqs'[r].exp <= group.version
      /\ \A x \in Req \ {r} : reqs'[x] = reqs[x]
      /\ group' = group
  BY BeginShape DEF db
<1>2. SameGroup(group, group)
  BY DEF SameGroup
<1>3. Current(r)' /\ reqs'[r].exp <= group'.version
  BY <1>1, <1>2 DEF Current
<1> QED
  BY <1>1, <1>3, OthersAlike, VersionStep

LEMMA BeginDecidedCurrent ==
  ASSUME IInv, IInv', VersionInv, MovesVersion, "override" \notin Op,
         NEW r \in Req, NEW op, NEW plan, BeginDecided(r, op, plan),
         CurrentDecision(group, campers, op, plan)
  PROVE  VersionInv'
<1>1. /\ reqs'[r].pc = "work" /\ reqs'[r].op = op /\ reqs'[r].plan = plan
      /\ reqs'[r].exp <= group.version
      /\ \A x \in Req \ {r} : reqs'[x] = reqs[x]
      /\ group' = group /\ campers' = campers
  BY BeginDecidedShape DEF db
<1>2. Current(r)' /\ reqs'[r].exp <= group'.version
  BY <1>1 DEF Current
<1> QED
  BY <1>1, <1>2, OthersAlike, VersionStep

LEMMA DecidedCurrent ==
  ASSUME IInv, IInv', VersionInv, MovesVersion, "override" \notin Op,
         NEW r \in Req, NEW plan, Decided(r, plan),
         (group.exists /\ reqs[r].exp = group.version) =>
            CurrentDecision(group, campers, reqs[r].op, plan)
  PROVE  VersionInv'
<1>1. /\ reqs'[r].pc = "work" /\ reqs'[r].op = reqs[r].op /\ reqs'[r].plan = plan
      /\ reqs'[r].exp = reqs[r].exp
      /\ \A x \in Req \ {r} : reqs'[x] = reqs[x]
      /\ group' = group /\ campers' = campers
  BY DecidedShape DEF db
<1>2. Current(r)' /\ (group'.exists => reqs'[r].exp <= group'.version)
  BY <1>1 DEF Current, VersionInv, ExpectedKnown
<1> QED
  BY <1>1, <1>2, OthersAlike, VersionStep

(* What is decided from the group as it was read is what the group as it   *)
(* is would decide.                                                        *)
LEMMA ReadDecidedCurrent ==
  ASSUME IInv, IInv', VersionInv, MovesVersion, "override" \notin Op,
         NEW r \in Req, reqs[r].pc = "read", NEW plan, Decided(r, plan),
         Guarded(reqs[r].op, reqs[r].snap) =>
            CurrentDecision(reqs[r].snap, campers, reqs[r].op, plan)
  PROVE  VersionInv'
<1>1. Current(r) /\ reqs[r].snap \in GroupRow /\ group \in GroupRow
  BY FlightTyped DEF VersionInv
<1>2. CurrentDecision(reqs[r].snap, campers, reqs[r].op, plan)
  BY <1>1 DEF Current
<1>3. SamePlan(plan, plan)
  BY DEF SamePlan
<1>4. group.exists /\ reqs[r].exp = group.version =>
        CurrentDecision(group, campers, reqs[r].op, plan)
  BY <1>1, <1>2, <1>3, DecisionStays DEF Current
<1> QED
  BY <1>4, DecidedCurrent

LEMMA CommittedCurrent ==
  ASSUME IInv, IInv', VersionInv, MovesVersion, "override" \notin Op,
         NEW r \in Req, NEW g, NEW cs, Committed(r, g, cs)
  PROVE  VersionInv'
<1>1. reqs'[r] = Idle /\ \A x \in Req \ {r} : reqs'[x] = reqs[x]
  BY CommittedShape
<1> QED
  BY <1>1, IdleCurrent, OthersAlike, VersionStep

(* The operations whose decision nobody relies on.                         *)
LEMMA NothingDecided ==
  ASSUME NEW g, NEW cs, NEW plan,
         NEW op \in {"release", "cancel", "sweep", "delete", "resend", "extend",
                     "edit_day_pass"}
  PROVE  CurrentDecision(g, cs, op, plan)
  BY DEF CurrentDecision

(* Calls that never read the campers.                                      *)
Immediate == {"unallocate", "confirm_free", "release", "cancel", "unwaive_coach",
              "mark_paid", "resend", "extend"}

(* The call decides, on what it has read.                                  *)
DecidesOnRead(r) ==
    LET g == reqs[r].snap IN
    /\ reqs[r].pc = "read"
    /\ \E plan :
         /\ Decided(r, plan)
         /\ Guarded(reqs[r].op, g) => CurrentDecision(g, campers, reqs[r].op, plan)
         /\ reqs[r].op = "coach" => plan.clearCoach = HasUnpaidCoachInvoice(g)

(* What a step of a service does with the call it serves.                  *)
Handles(r) ==
    \/ \E op : Begin(r, op) /\ Guarded(op, group)
    \/ \E op \in Immediate : \E plan :
          BeginDecided(r, op, plan) /\ CurrentDecision(group, campers, op, plan)
    \/ DecidesOnRead(r)
    \/ SweepList(r)
    \/ reqs[r].op = "sweep" /\ Decided(r, ReleasePlan(group))
    \/ \E g, cs : Committed(r, g, cs)

LEMMA HandledCurrent ==
  ASSUME IInv, IInv', VersionInv, MovesVersion, "override" \notin Op,
         NEW r \in Req, Handles(r)
  PROVE  VersionInv'
<1>1. CASE \E op : Begin(r, op) /\ Guarded(op, group)
  BY <1>1, BeginCurrent
<1>2. CASE \E op \in Immediate : \E plan :
             BeginDecided(r, op, plan) /\ CurrentDecision(group, campers, op, plan)
  BY <1>2, BeginDecidedCurrent
<1>3. CASE DecidesOnRead(r)
  BY <1>3, ReadDecidedCurrent DEF DecidesOnRead
<1>4. CASE SweepList(r)
  <2>1. /\ reqs'[r].pc = "listed" /\ reqs'[r].exp = -1
        /\ \A x \in Req \ {r} : reqs'[x] = reqs[x]
        /\ group' = group
    BY <1>4 DEF SweepList, IInv, FlightInv, Idle, Skip, db
  <2>2. Current(r)' /\ reqs'[r].exp <= group'.version
    BY <2>1 DEF Current, IInv, DataInv, GroupRow
  <2> QED
    BY <2>1, <2>2, OthersAlike, VersionStep
<1>5. CASE reqs[r].op = "sweep" /\ Decided(r, ReleasePlan(group))
  <2>1. CurrentDecision(group, campers, "sweep", ReleasePlan(group))
    BY NothingDecided
  <2> QED
    BY <1>5, <2>1, DecidedCurrent
<1>6. CASE \E g, cs : Committed(r, g, cs)
  BY <1>6, CommittedCurrent
<1> QED
  BY <1>1, <1>2, <1>3, <1>4, <1>5, <1>6 DEF Handles

LEMMA AllocationHandles ==
  ASSUME IInv, NEW r \in Req, AllocationStep(r)
  PROVE  Handles(r)
<1>1. CASE BeginAllocate(r)
  BY <1>1 DEF BeginAllocate, Guarded, Handles
<1>2. CASE DecideAllocate(r)
  <2> DEFINE tr == AllocateTr(reqs[r].snap)
             all(codes) == [c \in Camper |-> IF c \in FullWeek(campers) THEN codes[c]
                                                                        ELSE NoCode]
             plan(codes) == [NoPlan EXCEPT !.tr = tr, !.codes = all(codes)]
  <2>1. PICK codes \in [FullWeek(campers) -> Code] : Decided(r, plan(codes))
    BY <1>2 DEF DecideAllocate
  <2>2. reqs[r].pc = "read" /\ reqs[r].op = "allocate"
    BY <1>2 DEF DecideAllocate, Decides
  <2>3. FullWeek(campers) = {x \in Camper : all(codes)[x] # NoCode}
    BY CodesArePriced DEF FullWeek, Here
  <2> HIDE DEF tr, all
  <2>4. plan(codes).tr = tr /\ plan(codes).codes = all(codes)
    BY NoPlanTyped DEF Plan
  <2> HIDE DEF plan
  <2>5. Guarded("allocate", reqs[r].snap) =>
          CurrentDecision(reqs[r].snap, campers, "allocate", plan(codes))
    BY <2>3, <2>4 DEF CurrentDecision, Guarded, tr
  <2> QED
    BY <2>1, <2>2, <2>5 DEF DecidesOnRead, Handles
<1>3. CASE BeginUnallocate(r)
  <2> DEFINE tr == UnallocateTr(group)
             plan == [NoPlan EXCEPT !.tr = tr]
  <2>1. CanUnallocate(group) /\ BeginDecided(r, "unallocate", plan)
    BY <1>3 DEF BeginUnallocate
  <2> HIDE DEF tr
  <2>2. plan.tr = tr
    BY NoPlanTyped DEF Plan
  <2> HIDE DEF plan
  <2>3. CurrentDecision(group, campers, "unallocate", plan)
    BY <2>1, <2>2 DEF CurrentDecision, tr
  <2> QED
    BY <2>1, <2>3 DEF Immediate, Handles
<1>4. CASE BeginConfirmFree(r)
  <2> DEFINE plan == [NoPlan EXCEPT !.tr = ConfirmSponsorshipTr(group)]
  <2>1. CanConfirmSponsorship(group) /\ BeginDecided(r, "confirm_free", plan)
    BY <1>4 DEF BeginConfirmFree
  <2> HIDE DEF plan
  <2>2. CurrentDecision(group, campers, "confirm_free", plan)
    BY <2>1 DEF CurrentDecision
  <2> QED
    BY <2>1, <2>2 DEF Immediate, Handles
<1>5. CASE BeginRelease(r)
  BY <1>5, NothingDecided DEF BeginRelease, Immediate, Handles
<1>6. CASE SweepRelease(r)
  BY <1>6, FlightTyped DEF SweepRelease, LegalRequest, Handles
<1>7. CASE SweepList(r)
  BY <1>7 DEF Handles
<1>8. CASE CommitAllocate(r) \/ CommitUnallocate(r) \/ CommitConfirmFree(r)
           \/ CommitRelease(r)
  <2>1. \E g, cs : Committed(r, g, cs)
    BY <1>8 DEF CommitAllocate, CommitUnallocate, CommitConfirmFree, CommitRelease
  <2> QED
    BY <2>1 DEF Handles
<1> QED
  BY <1>1, <1>2, <1>3, <1>4, <1>5, <1>6, <1>7, <1>8 DEF AllocationStep

LEMMA BilledShape ==
  ASSUME NEW g \in GroupRow, NEW plan \in Plan
  PROVE  /\ SamePlan(plan, Billed(g, plan)) /\ Billed(g, plan).inv = plan.inv
<1> DEFINE todo == If(g.cust = NoCust, "customer") \o plan.todo
           cust == g.cust
<1>1. Billed(g, plan) = [plan EXCEPT !.cust = cust, !.todo = todo]
  BY DEF Billed
<1> HIDE DEF todo, cust
<1> QED
  BY <1>1 DEF Plan, SamePlan

(* With a bed for everybody, the lines are what the roster costs.          *)
LEMMA ChargesAreBill ==
  ASSUME NEW cs, \A c \in FullWeek(cs) : ~IsUnplaced(cs[c])
  PROVE  Charges(cs) = Bill(cs)
<1>1. ASSUME NEW c \in Here(cs) PROVE ChargeOf(cs[c]) = Cost(cs[c])
  BY DEF ChargeOf, Cost, PriceFor, FullWeek, IsUnplaced
<1> QED
  BY <1>1 DEF Charges, Bill

LEMMA SendInvoiceDecides ==
  ASSUME IInv, NEW r \in Req, DecideSendInvoice(r)
  PROVE  DecidesOnRead(r)
<1> DEFINE g      == reqs[r].snap
           tr     == InvoiceTr(g)
           riders == IF g.waived THEN {} ELSE CoachPassengers(campers)
           lines  == Charges(campers)
           owing  == Owing(campers)
           inner  == [NoPlan EXCEPT !.tr = tr, !.todo = <<"create">>,
                                    !.kind = "balance", !.lines = lines,
                                    !.deposits = owing, !.riders = riders]
           plan   == Billed(g, inner)
<1>1. /\ reqs[r].pc = "read" /\ reqs[r].op = "invoice" /\ Decided(r, plan)
      /\ CanInvoice(g, FullWeek(campers) # {})
  BY DEF DecideSendInvoice, Decides
<1>2. g \in GroupRow /\ campers \in [Camper -> CamperRow]
  BY FlightTyped
<1>3. tr \in Transition
  BY <1>2, MoveTyped DEF InvoiceTr, BillingStatus
<1>4. /\ lines \in SUBSET (Camper \X Price)
      /\ owing \in SUBSET Camper /\ riders \in SUBSET Camper
  BY <1>2, ChargesTyped, CampersOfGroup DEF DecideSendInvoice
<1>5. <<"create">> \in Seq(Step)
  BY DEF Step
<1> HIDE DEF riders, lines, owing, tr
<1>6. /\ inner \in Plan /\ inner.tr = tr /\ inner.lines = lines
      /\ inner.deposits = owing /\ inner.riders = riders
  BY <1>3, <1>4, <1>5, NoPlanTyped DEF Plan
<1> HIDE DEF inner
<1>7. plan.tr = tr /\ plan.lines = lines /\ plan.deposits = owing /\ plan.riders = riders
  BY <1>2, <1>6, BilledShape DEF SamePlan
<1> HIDE DEF plan, g
<1>8. lines = Bill(campers)
  BY ChargesAreBill DEF DecideSendInvoice, lines
<1>9. CurrentDecision(g, campers, "invoice", plan)
  BY <1>1, <1>7, <1>8 DEF CurrentDecision, tr, owing, riders
<1> QED
  BY <1>1, <1>9 DEF DecidesOnRead, g

LEMMA SendCoachInvoiceDecides ==
  ASSUME IInv, NEW r \in Req, DecideSendCoachInvoice(r)
  PROVE  DecidesOnRead(r)
<1> DEFINE g      == reqs[r].snap
           riders == CoachPassengers(campers)
           inner  == [NoPlan EXCEPT !.todo = <<"create">>, !.kind = "coach",
                                    !.riders = riders]
           plan   == Billed(g, inner)
<1>1. reqs[r].pc = "read" /\ reqs[r].op = "coach_invoice" /\ Decided(r, plan)
  BY DEF DecideSendCoachInvoice, Decides
<1>2. <<"create">> \in Seq(Step) /\ riders \in SUBSET Camper /\ g \in GroupRow
  BY CampersOfGroup, FlightTyped DEF Step
<1> HIDE DEF riders
<1>3. inner \in Plan /\ inner.riders = riders
  BY <1>2, NoPlanTyped DEF Plan
<1> HIDE DEF inner
<1>4. plan.riders = riders
  BY <1>2, <1>3, BilledShape DEF SamePlan
<1> HIDE DEF plan, g
<1>5. Guarded("coach_invoice", g) => CurrentDecision(g, campers, "coach_invoice", plan)
  BY <1>4 DEF CurrentDecision, Guarded, riders
<1> QED
  BY <1>1, <1>5 DEF DecidesOnRead, g

LEMMA InvoicingHandles ==
  ASSUME IInv, NEW r \in Req, InvoicingStep(r)
  PROVE  Handles(r)
<1>1. CASE BeginSendInvoice(r) \/ BeginSendCoachInvoice(r) \/ BeginWaiveCoachFee(r)
           \/ BeginDelete(r)
  BY <1>1 DEF BeginSendInvoice, BeginSendCoachInvoice, BeginWaiveCoachFee, BeginDelete,
     Guarded, Handles
<1>2. CASE DecideWaiveCoachFee(r)
  <2>1. PICK plan : Decided(r, plan)
    BY <1>2 DEF DecideWaiveCoachFee
  <2>2. /\ reqs[r].pc = "read" /\ reqs[r].op = "waive_coach"
        /\ CoachPassengers(campers) # {}
    BY <1>2 DEF DecideWaiveCoachFee, Decides
  <2>3. Guarded("waive_coach", reqs[r].snap) =>
          CurrentDecision(reqs[r].snap, campers, "waive_coach", plan)
    BY <2>2 DEF CurrentDecision, Guarded
  <2> QED
    BY <2>1, <2>2, <2>3 DEF DecidesOnRead, Handles
<1>3. CASE BeginUnwaiveCoachFee(r)
  <2>1. group.waived /\ BeginDecided(r, "unwaive_coach", NoPlan)
    BY <1>3 DEF BeginUnwaiveCoachFee
  <2>2. CurrentDecision(group, campers, "unwaive_coach", NoPlan)
    BY <2>1 DEF CurrentDecision
  <2> QED
    BY <2>1, <2>2 DEF Immediate, Handles
<1>4. CASE BeginMarkBalancePaid(r)
  <2> DEFINE tr   == SettleBalanceTr(group)
             ref  == group.ref
             todo == If(HasOpenInvoice(group), "void")
             plan == [NoPlan EXCEPT !.tr = tr, !.ref = ref, !.todo = todo]
  <2>1. CanMarkBalancePaid(group) /\ BeginDecided(r, "mark_paid", plan)
    BY <1>4 DEF BeginMarkBalancePaid
  <2> HIDE DEF tr, ref, todo
  <2>2. plan.tr = tr
    BY NoPlanTyped DEF Plan
  <2> HIDE DEF plan
  <2>3. CurrentDecision(group, campers, "mark_paid", plan)
    BY <2>1, <2>2 DEF CurrentDecision, tr
  <2> QED
    BY <2>1, <2>3 DEF Immediate, Handles
<1>5. CASE DecideDelete(r)
  <2>1. PICK plan : Decided(r, plan)
    BY <1>5 DEF DecideDelete
  <2>2. reqs[r].pc = "read" /\ reqs[r].op = "delete"
    BY <1>5 DEF DecideDelete, Decides
  <2>3. CurrentDecision(reqs[r].snap, campers, "delete", plan)
    BY NothingDecided
  <2> QED
    BY <2>1, <2>2, <2>3 DEF DecidesOnRead, Handles
<1>6. CASE BeginResendInvoice(r) \/ BeginExtendDue(r)
  <2>1. PICK op \in {"resend", "extend"} : \E plan : BeginDecided(r, op, plan)
    BY <1>6 DEF BeginResendInvoice, BeginExtendDue
  <2>2. PICK plan : BeginDecided(r, op, plan)
    BY <2>1
  <2>3. CurrentDecision(group, campers, op, plan)
    BY NothingDecided
  <2> QED
    BY <2>2, <2>3 DEF Immediate, Handles
<1>7. CASE CommitSendInvoice(r) \/ CommitSendCoachInvoice(r) \/ CommitWaiveCoachFee(r)
           \/ CommitUnwaiveCoachFee(r) \/ CommitMarkBalancePaid(r) \/ CommitDelete(r)
           \/ CommitResendInvoice(r) \/ CommitExtendDue(r)
  <2>1. \E g, cs : Committed(r, g, cs)
    BY <1>7 DEF CommitSendInvoice, CommitSendCoachInvoice, CommitWaiveCoachFee,
       CommitUnwaiveCoachFee, CommitMarkBalancePaid, CommitDelete, CommitResendInvoice,
       CommitExtendDue
  <2> QED
    BY <2>1 DEF Handles
<1> QED
  BY <1>1, <1>2, <1>3, <1>4, <1>5, <1>6, <1>7, SendInvoiceDecides, SendCoachInvoiceDecides
     DEF InvoicingStep, Handles

LEMMA RemoveCamperDecides ==
  ASSUME IInv, NEW r \in Req, DecideRemoveCamper(r)
  PROVE  DecidesOnRead(r)
<1> DEFINE g == reqs[r].snap
           coachless(c) == HasUnpaidCoachInvoice(g) /\ CoachPassengers(campers) \ {c} = {}
           inner(c) == [NoPlan EXCEPT !.target = c, !.coachRef = g.coachRef]
           plan(c)  == Disturbing(g, Others(c), TRUE, inner(c))
           full(c)  == [plan(c) EXCEPT !.todo = @ \o If(coachless(c), "try_void_coach")]
<1>1. PICK c \in Here(campers) :
        /\ CanRemoveCamper(g, campers[c], Cardinality(Here(campers)))
        /\ Decided(r, full(c))
  BY DEF DecideRemoveCamper
<1>2. /\ reqs[r].pc = "read" /\ reqs[r].op = "remove" /\ g \in GroupRow
      /\ g.coachRef \in InvoiceRef /\ c \in Camper
  BY FlightTyped, CampersOfGroup DEF DecideRemoveCamper, Decides, GroupRow
<1>3. inner(c) \in Plan /\ OwedOnly(inner(c).row) /\ inner(c).target = c
  BY <1>2, NoPlanTyped, NoPlanCounted DEF Plan
<1> DEFINE extra == If(coachless(c), "try_void_coach")
<1> HIDE DEF inner, coachless
<1>4. plan(c) \in Plan /\ plan(c).target = c /\ plan(c).tr = RosterChangedTr(g, Others(c), TRUE)
  BY <1>2, <1>3, StaleShape DEF RosterEdit
<1> HIDE DEF plan, extra
<1>5. full(c).target = c /\ full(c).tr = RosterChangedTr(g, Others(c), TRUE)
  BY <1>4 DEF Plan, extra
<1> HIDE DEF full, g
<1>7. CurrentDecision(g, campers, "remove", full(c))
  BY <1>1, <1>5 DEF CurrentDecision, Others
<1> QED
  BY <1>1, <1>2, <1>7 DEF DecidesOnRead, g

LEMMA ConvertDecides ==
  ASSUME IInv, NEW r \in Req, DecideConvertToDayVisitor(r)
  PROVE  DecidesOnRead(r)
<1> DEFINE g == reqs[r].snap
           credited(c) == g.pay = "paid" /\ campers[c].age >= MinDepositAge
                            /\ campers[c].owed = 0
           row(c)   == [NewRow EXCEPT !.credit = IF credited(c) THEN Deposit ELSE 0]
           todo(c)  == If(credited(c) /\ g.cust = NoCust, "customer")
                         \o If(credited(c), "credit")
           inner(c) == [NoPlan EXCEPT !.target = c, !.cust = g.cust, !.row = row(c),
                                      !.todo = todo(c)]
           plan(c)  == Disturbing(g, Others(c), TRUE, inner(c))
<1>1. PICK c \in Here(campers) : CanConvertToDayVisitor(g, campers[c]) /\ Decided(r, plan(c))
  BY DEF DecideConvertToDayVisitor
<1>2. /\ reqs[r].pc = "read" /\ reqs[r].op = "convert" /\ g \in GroupRow
      /\ g.cust \in Req \cup {NoCust} /\ c \in Camper
  BY FlightTyped, CampersOfGroup DEF DecideConvertToDayVisitor, Decides, GroupRow
<1>3. row(c) \in CamperRow /\ OwedOnly(row(c))
  BY NewRowTyped, NoPlanCounted DEF CamperRow, CountedOnce, OwedOnly, Deposit
<1>4. todo(c) \in Seq(Step)
  <2> DEFINE s1 == If(credited(c) /\ g.cust = NoCust, "customer")
             s2 == If(credited(c), "credit")
  <2>1. s1 \in Seq(Step) /\ s2 \in Seq(Step)
    BY IfTyped DEF Step
  <2> HIDE DEF s1, s2
  <2>2. s1 \o s2 \in Seq(Step)
    BY <2>1
  <2> QED
    BY <2>2 DEF s1, s2
<1> HIDE DEF row, todo
<1>5. inner(c) \in Plan /\ OwedOnly(inner(c).row) /\ inner(c).target = c
  BY <1>2, <1>3, <1>4, NoPlanTyped DEF Plan
<1> HIDE DEF inner
<1>6. plan(c).target = c /\ plan(c).tr = RosterChangedTr(g, Others(c), TRUE)
  BY <1>2, <1>5, StaleShape DEF RosterEdit
<1> HIDE DEF plan, g
<1>8. CurrentDecision(g, campers, "convert", plan(c))
  BY <1>1, <1>6 DEF CurrentDecision, Others
<1> QED
  BY <1>1, <1>2, <1>8 DEF DecidesOnRead, g

LEMMA UpdateCoachDecides ==
  ASSUME IInv, NEW r \in Req, DecideUpdateCoach(r)
  PROVE  DecidesOnRead(r)
<1> DEFINE g      == reqs[r].snap
           rides(c) == ~campers[c].coach
           row(c) == [NewRow EXCEPT !.coach = rides(c)]
           ref    == g.coachRef
           todo   == If(HasUnpaidCoachInvoice(g), "void_coach")
           clear  == HasUnpaidCoachInvoice(g)
           plan(c) == [NoPlan EXCEPT !.target = c, !.row = row(c), !.coachRef = ref,
                                     !.clearCoach = clear, !.todo = todo]
<1>1. PICK c \in Here(campers) : CanChangeCoach(g, campers[c]) /\ Decided(r, plan(c))
  BY DEF DecideUpdateCoach
<1>2. reqs[r].pc = "read" /\ reqs[r].op = "coach"
  BY DEF DecideUpdateCoach, Decides
<1> HIDE DEF rides
<1>3. row(c).coach = rides(c)
  BY NewRowTyped DEF CamperRow
<1> HIDE DEF row, todo, clear, ref
<1>4. plan(c).target = c /\ plan(c).row = row(c) /\ plan(c).clearCoach = clear
  BY NoPlanTyped DEF Plan
<1> HIDE DEF plan, g
<1>6. CurrentDecision(g, campers, "coach", plan(c))
  BY <1>1, <1>3, <1>4 DEF CurrentDecision, rides
<1> QED
  BY <1>1, <1>2, <1>4, <1>6 DEF DecidesOnRead, g, clear

LEMMA EditCamperDecides ==
  ASSUME IInv, NEW r \in Req, DecideEditCamper(r)
  PROVE  DecidesOnRead(r)
<1> DEFINE g == reqs[r].snap
           new(c, age, code) == [campers[c] EXCEPT !.age = age, !.code = code]
           rows(c, age, code) == Others(c) \cup {new(c, age, code)}
           stale(c, age, code) == Repriced(g, campers[c], new(c, age, code))
           row(age, code) == [NewRow EXCEPT !.age = age, !.code = code]
           inner(c, age, code) == [NoPlan EXCEPT !.target = c, !.row = row(age, code)]
           plan(c, age, code) == Disturbing(g, rows(c, age, code), stale(c, age, code),
                                            inner(c, age, code))
<1>1. PICK c \in Here(campers), age \in Age, code \in Code \cup {NoCode} :
        CheckReprice(g, stale(c, age, code)) /\ Decided(r, plan(c, age, code))
  BY DEF DecideEditCamper
<1>2. reqs[r].pc = "read" /\ reqs[r].op = "edit" /\ g \in GroupRow /\ c \in Camper
  BY FlightTyped, CampersOfGroup DEF DecideEditCamper, Decides
<1>3. /\ row(age, code) \in CamperRow /\ OwedOnly(row(age, code))
      /\ row(age, code).age = age /\ row(age, code).code = code
  BY NewRowTyped, NoPlanCounted DEF CamperRow, CountedOnce, OwedOnly
<1>4. new(c, age, code) = Edited(campers[c], row(age, code))
  BY <1>3 DEF Edited
<1> HIDE DEF row, new
<1>5. /\ inner(c, age, code) \in Plan /\ inner(c, age, code).row = row(age, code)
      /\ inner(c, age, code).target = c
  BY <1>2, <1>3, NoPlanTyped DEF Plan
<1> HIDE DEF inner, rows, stale
<1>6. /\ plan(c, age, code).target = c /\ plan(c, age, code).row = row(age, code)
      /\ plan(c, age, code).tr = RosterChangedTr(g, rows(c, age, code), stale(c, age, code))
  BY <1>2, <1>3, <1>5, DisturbingShape DEF RosterEdit
<1> HIDE DEF plan, g
<1>8. CurrentDecision(g, campers, "edit", plan(c, age, code))
  BY <1>1, <1>4, <1>6 DEF CurrentDecision, Others, rows, stale
<1> QED
  BY <1>1, <1>2, <1>8 DEF DecidesOnRead, g

LEMMA AddCamperDecides ==
  ASSUME IInv, NEW r \in Req, DecideAddCamper(r)
  PROVE  DecidesOnRead(r)
<1> DEFINE g == reqs[r].snap
           owes(p) == p.att = "full_week" /\ p.age >= MinDepositAge
           row(p)  == [NewRow EXCEPT !.st = "here", !.att = p.att, !.age = p.age,
                         !.coach = p.coach, !.owed = IF owes(p) THEN Deposit ELSE 0]
           rows(p) == Rows(campers, Here(campers)) \cup {row(p)}
           inner(p) == [NoPlan EXCEPT !.row = row(p)]
           plan(p)  == Disturbing(g, rows(p), TRUE, inner(p))
<1>1. PICK p \in Profile : Decided(r, plan(p))
  BY DEF DecideAddCamper
<1>2. reqs[r].pc = "read" /\ reqs[r].op = "add" /\ g \in GroupRow
  BY FlightTyped DEF DecideAddCamper, Decides
<1>3. p.att \in Attendance /\ p.age \in Age /\ p.coach \in BOOLEAN
  BY StoreAssumption
<1>4. row(p) \in CamperRow /\ row(p).owed \in {0, Deposit} /\ row(p).paid = NewRow.paid
  BY <1>3, NewRowTyped DEF CamperRow, Deposit
<1>5. OwedOnly(row(p))
  BY <1>4 DEF CountedOnce, OwedOnly, Deposit, NewRow
<1> HIDE DEF row, rows
<1>6. inner(p) \in Plan /\ inner(p).row = row(p)
  BY <1>4, NoPlanTyped DEF Plan
<1> HIDE DEF inner
<1>7. plan(p).row = row(p) /\ plan(p).tr = RosterChangedTr(g, rows(p), TRUE)
  BY <1>2, <1>5, <1>6, StaleShape DEF RosterEdit
<1> HIDE DEF plan, g
<1>9. Guarded("add", g) => CurrentDecision(g, campers, "add", plan(p))
  BY <1>7 DEF CurrentDecision, Guarded, rows
<1> QED
  BY <1>1, <1>2, <1>9 DEF DecidesOnRead, g

(* The calls that decide on nobody but their target.                       *)
LEMMA TargetDecides ==
  ASSUME IInv, NEW r \in Req,
         DecideUpdateDayPass(r) \/ DecideMakeMainContact(r) \/ DecideWaiveDeposit(r)
  PROVE  DecidesOnRead(r)
<1> DEFINE plan(c) == [NoPlan EXCEPT !.target = c]
           op == reqs[r].op
<1>1. PICK c \in Here(campers) :
        /\ Decided(r, plan(c)) /\ reqs[r].pc = "read"
        /\ op \in {"edit_day_pass", "main_contact", "waive_deposit"}
        /\ op = "waive_deposit" => c \in Owing(campers)
  <2>1. CASE DecideUpdateDayPass(r)
    BY <2>1 DEF DecideUpdateDayPass, Decides
  <2>2. CASE DecideMakeMainContact(r)
    BY <2>2 DEF DecideMakeMainContact, Decides
  <2>3. CASE DecideWaiveDeposit(r)
    BY <2>3 DEF DecideWaiveDeposit, Decides, Owing
  <2> QED
    BY <2>1, <2>2, <2>3
<1>2. plan(c).target = c
  BY NoPlanTyped DEF Plan
<1> HIDE DEF plan
<1>3. CurrentDecision(reqs[r].snap, campers, op, plan(c))
  BY <1>1, <1>2 DEF CurrentDecision
<1> QED
  BY <1>1, <1>3 DEF DecidesOnRead

LEMMA CamperEditHandles ==
  ASSUME IInv, NEW r \in Req, CamperEditStep(r)
  PROVE  Handles(r)
<1>1. CASE BeginRemoveCamper(r) \/ BeginConvertToDayVisitor(r) \/ BeginUpdateDayPass(r)
           \/ BeginUpdateCoach(r) \/ BeginEditCamper(r) \/ BeginAddCamper(r)
           \/ BeginMakeMainContact(r) \/ BeginWaiveDeposit(r)
  BY <1>1 DEF BeginRemoveCamper, BeginConvertToDayVisitor, BeginUpdateDayPass,
     BeginUpdateCoach, BeginEditCamper, BeginAddCamper, BeginMakeMainContact,
     BeginWaiveDeposit, Guarded, Handles
<1>2. CASE CommitRemoveCamper(r) \/ CommitConvertToDayVisitor(r) \/ CommitUpdateDayPass(r)
           \/ CommitUpdateCoach(r) \/ CommitEditCamper(r) \/ CommitAddCamper(r)
           \/ CommitMakeMainContact(r) \/ CommitWaiveDeposit(r)
  BY <1>2 DEF CommitRemoveCamper, CommitConvertToDayVisitor, CommitUpdateDayPass,
     CommitUpdateCoach, CommitEditCamper, CommitAddCamper, CommitMakeMainContact,
     CommitWaiveDeposit, RowCommitted, Handles
<1> QED
  BY <1>1, <1>2, RemoveCamperDecides, ConvertDecides, UpdateCoachDecides,
     EditCamperDecides, AddCamperDecides, TargetDecides
     DEF CamperEditStep, Handles

LEMMA NextCurrent ==
  ASSUME IInv, IInv', VersionInv, [Next]_vars, "override" \notin Op
  PROVE  VersionInv'
<1>1. MovesVersion
  BY NextMoves
<1>2. ASSUME \A r \in Req : Alike(reqs'[r], reqs[r]) \/ reqs'[r] = Idle
      PROVE  VersionInv'
  BY <1>1, <1>2, IdleCurrent, VersionStep
<1>3. reqs' = reqs => \A r \in Req : Alike(reqs'[r], reqs[r])
  BY DEF Alike
<1>4. CASE \E r \in Req : AllocationStep(r) \/ InvoicingStep(r) \/ CamperEditStep(r)
  BY <1>1, <1>4, AllocationHandles, InvoicingHandles, CamperEditHandles, HandledCurrent
<1>5. CASE \E r \in Req : StripeCall(r)
  BY <1>2, <1>5, StripeCallShape
<1>6. CASE \E r \in Req : GiveUp(r)
  <2>1. \A x \in Req : Alike(reqs'[x], reqs[x]) \/ reqs'[x] = Idle
    BY <1>6 DEF GiveUp, Alike, IInv, FlightInv
  <2> QED
    BY <1>2, <2>1
<1>7. CASE reqs' = reqs
  BY <1>2, <1>3, <1>7
<1>8. CASE \E h \in Hook : ReconcileStep(h)
  BY <1>7, <1>8 DEF ReconcileStep, DeliverEvent, SettleOwedDeposits, CommitBalancePaid,
     CommitCoachFeePaid, DeliveryFails
<1>9. CASE \E r \in Req, h \in Hook : SettleByHand(r, h)
  <2>1. \A x \in Req : Alike(reqs'[x], reqs[x]) \/ reqs'[x] = Idle
    BY <1>9, SettleByHandAlone DEF Alike
  <2> QED
    BY <1>2, <2>1
<1> QED
  BY <1>4, <1>5, <1>6, <1>7, <1>8, <1>9
     DEF Next, RequestStep, PayInvoice, FinalizeDraft, CheckoutCompleted, CheckoutExpired,
         OverridePaymentStatus, DueDatePasses, vars

----------------------------------------------------------------------------
(* The invoice a call has created is the one it decided on.                *)

(* An invoice that was sent, for what the plan says.                       *)
SentAs(inv, plan) ==
    /\ inv.st \in {"open", "void", "paid"}
    /\ inv.kind = plan.kind /\ inv.lines = plan.lines
    /\ inv.deposits = plan.deposits /\ inv.riders = plan.riders

BillCreated(r) ==
    reqs[r].pc = "work" /\ reqs[r].op \in {"invoice", "coach_invoice"} =>
      LET plan == reqs[r].plan IN
      /\ reqs[r].op = "invoice" => plan.kind = "balance"
      /\ plan.inv # NoInvoice => plan.inv \in Invoice /\ SentAs(stripe[plan.inv], plan)

BillsCreated == \A r \in Req : BillCreated(r)

(* Once sent, an invoice changes in nothing but its status.                *)
SameBill(i) ==
    stripe[i].st \in {"open", "void", "paid"} =>
      /\ stripe'[i].st \in {"open", "void", "paid"}
      /\ stripe'[i].kind = stripe[i].kind /\ stripe'[i].lines = stripe[i].lines
      /\ stripe'[i].deposits = stripe[i].deposits /\ stripe'[i].riders = stripe[i].riders

SamePlanned(p, q) ==
    /\ p.pc = q.pc /\ p.op = q.op /\ p.plan.kind = q.plan.kind /\ p.plan.inv = q.plan.inv
    /\ p.plan.lines = q.plan.lines /\ p.plan.deposits = q.plan.deposits
    /\ p.plan.riders = q.plan.riders

LEMMA BillStays ==
  ASSUME IInv, NEW r \in Req, BillCreated(r), SamePlanned(reqs'[r], reqs[r]),
         \A i \in Invoice : SameBill(i)
  PROVE  BillCreated(r)'
  BY DEF BillCreated, SamePlanned, SameBill, SentAs

LEMMA OthersPlanned ==
  ASSUME NEW r \in Req, \A x \in Req \ {r} : reqs'[x] = reqs[x]
  PROVE  \A x \in Req \ {r} : SamePlanned(reqs'[x], reqs[x])
  BY DEF SamePlanned

LEMMA UnchangedBills == ASSUME stripe' = stripe PROVE \A i \in Invoice : SameBill(i)
  BY DEF SameBill

LEMMA CalledPlanned ==
  ASSUME IInv, NEW r \in Req, NEW plan \in Plan, Called(r, plan)
  PROVE  /\ reqs'[r].pc = reqs[r].pc /\ reqs'[r].op = reqs[r].op
         /\ reqs'[r].plan.kind = plan.kind /\ reqs'[r].plan.inv = plan.inv
         /\ reqs'[r].plan.lines = plan.lines /\ reqs'[r].plan.deposits = plan.deposits
         /\ reqs'[r].plan.riders = plan.riders
         /\ \A x \in Req \ {r} : SamePlanned(reqs'[x], reqs[x])
<1> DEFINE rest == Tail(plan.todo)
           p    == [plan EXCEPT !.todo = rest]
           q    == [reqs[r] EXCEPT !.plan = p]
<1>1. reqs \in [Req -> Request] /\ reqs[r] \in Request
  BY DEF IInv, FlightInv
<1>2. reqs' = [reqs EXCEPT ![r] = q]
  BY <1>1 DEF Called, Request, Plan
<1> HIDE DEF rest
<1>3. /\ p.kind = plan.kind /\ p.inv = plan.inv /\ p.lines = plan.lines
      /\ p.deposits = plan.deposits /\ p.riders = plan.riders
  BY DEF Plan
<1> HIDE DEF p
<1>4. q.plan = p /\ q.pc = reqs[r].pc /\ q.op = reqs[r].op
  BY <1>1 DEF Request
<1> HIDE DEF q
<1>5. reqs'[r] = q /\ \A x \in Req \ {r} : reqs'[x] = reqs[x]
  BY <1>1, <1>2
<1> QED
  BY <1>3, <1>4, <1>5, OthersPlanned

LEMMA VoidBills ==
  ASSUME IInv, NEW j, stripe' = VoidIfOpen(stripe, j)
  PROVE  \A i \in Invoice : SameBill(i)
<1>1. stripe \in [Invoice -> StripeInvoice]
  BY DEF IInv, DataInv
<1>2. ASSUME NEW i \in Invoice
      PROVE  LET inv == [stripe[i] EXCEPT !.st = IF @ = "open" THEN "void" ELSE @] IN
             /\ inv.st = IF stripe[i].st = "open" THEN "void" ELSE stripe[i].st
             /\ inv.kind = stripe[i].kind /\ inv.lines = stripe[i].lines
             /\ inv.deposits = stripe[i].deposits /\ inv.riders = stripe[i].riders
  BY <1>1 DEF StripeInvoice
<1>3. \A i \in Invoice :
        \/ stripe'[i] = stripe[i]
        \/ stripe'[i] = [stripe[i] EXCEPT !.st = IF @ = "open" THEN "void" ELSE @]
  BY <1>1 DEF VoidIfOpen
<1> QED
  BY <1>2, <1>3 DEF SameBill

LEMMA RefundBills ==
  ASSUME IInv, NEW r \in Req, RefundInvoiceKeeping(r)
  PROVE  \A i \in Invoice : SameBill(i)
<1>1. stripe \in [Invoice -> StripeInvoice]
  BY DEF IInv, DataInv
<1>2. ASSUME NEW i \in Invoice, NEW how
      PROVE  LET inv == [stripe[i] EXCEPT !.refunded = how] IN
             /\ inv.st = stripe[i].st
             /\ inv.kind = stripe[i].kind /\ inv.lines = stripe[i].lines
             /\ inv.deposits = stripe[i].deposits /\ inv.riders = stripe[i].riders
  BY <1>1 DEF StripeInvoice
<1> DEFINE j == reqs[r].plan.ref
<1>3. \/ stripe' = stripe
      \/ \E how \in {"all", "part"} : stripe' = [stripe EXCEPT ![j].refunded = how]
  BY DEF RefundInvoiceKeeping
<1> HIDE DEF j
<1>4. ASSUME NEW how \in {"all", "part"}, stripe' = [stripe EXCEPT ![j].refunded = how],
             NEW i \in Invoice
      PROVE  stripe'[i] = stripe[i] \/ stripe'[i] = [stripe[i] EXCEPT !.refunded = how]
  BY <1>1, <1>4
<1>5. ASSUME NEW i \in Invoice PROVE SameBill(i)
  <2>1. CASE stripe' = stripe
    BY <2>1 DEF SameBill
  <2>2. ASSUME NEW how \in {"all", "part"}, stripe' = [stripe EXCEPT ![j].refunded = how]
        PROVE  SameBill(i)
    <3>1. stripe'[i] = stripe[i] \/ stripe'[i] = [stripe[i] EXCEPT !.refunded = how]
      BY <1>4, <2>2
    <3> DEFINE inv == [stripe[i] EXCEPT !.refunded = how]
    <3>2. /\ inv.st = stripe[i].st
          /\ inv.kind = stripe[i].kind /\ inv.lines = stripe[i].lines
          /\ inv.deposits = stripe[i].deposits /\ inv.riders = stripe[i].riders
      BY <1>2
    <3>3. stripe'[i] = stripe[i] \/ stripe'[i] = inv
      BY <3>1
    <3> HIDE DEF inv
    <3> QED
      BY <3>2, <3>3 DEF SameBill
  <2> QED
    BY <1>3, <2>1, <2>2
<1> QED
  BY <1>5

LEMMA InvoicedBills ==
  ASSUME IInv, NEW j \in Invoice, Minted(j), NEW st, NEW plan \in Plan, Invoiced(j, st, plan)
  PROVE  /\ \A i \in Invoice : SameBill(i)
         /\ st \in {"open", "void", "paid"} => SentAs(stripe'[j], plan)
<1> DEFINE inv == [NotCreated EXCEPT !.st = st, !.kind = plan.kind, !.lines = plan.lines,
                     !.deposits = plan.deposits, !.riders = plan.riders]
<1>1. stripe \in [Invoice -> StripeInvoice]
  BY DEF IInv, DataInv
<1>2. /\ inv.st = st /\ inv.kind = plan.kind /\ inv.lines = plan.lines
      /\ inv.deposits = plan.deposits /\ inv.riders = plan.riders
  BY DEF NotCreated
<1>3. stripe' = [stripe EXCEPT ![j] = inv] /\ stripe[j].st = "unused"
  BY DEF Invoiced, Minted
<1> HIDE DEF inv
<1>4. stripe'[j] = inv /\ \A i \in Invoice \ {j} : stripe'[i] = stripe[i]
  BY <1>1, <1>3
<1> QED
  BY <1>2, <1>3, <1>4 DEF SameBill, SentAs

LEMMA PaidBills ==
  ASSUME IInv, NEW i \in Invoice, PayInvoice(i) \/ FinalizeDraft(i)
  PROVE  \A j \in Invoice : SameBill(j)
<1>1. stripe \in [Invoice -> StripeInvoice]
  BY DEF IInv, DataInv
<1>2. ASSUME NEW st
      PROVE  LET inv == [stripe[i] EXCEPT !.st = st] IN
             /\ inv.st = st
             /\ inv.kind = stripe[i].kind /\ inv.lines = stripe[i].lines
             /\ inv.deposits = stripe[i].deposits /\ inv.riders = stripe[i].riders
  BY <1>1 DEF StripeInvoice
<1>3. \E st \in {"open", "paid"} : stripe' = [stripe EXCEPT ![i].st = st]
  BY DEF PayInvoice, FinalizeDraft
<1>4. PICK st \in {"open", "paid"} : stripe' = [stripe EXCEPT ![i].st = st]
  BY <1>3
<1> DEFINE inv == [stripe[i] EXCEPT !.st = st]
<1>5. /\ inv.st = st
      /\ inv.kind = stripe[i].kind /\ inv.lines = stripe[i].lines
      /\ inv.deposits = stripe[i].deposits /\ inv.riders = stripe[i].riders
  BY <1>2
<1>6. stripe' = [stripe EXCEPT ![i] = inv]
  BY <1>4
<1> HIDE DEF inv
<1>7. stripe'[i] = inv /\ \A j \in Invoice \ {i} : stripe'[j] = stripe[j]
  BY <1>1, <1>6
<1> QED
  BY <1>4, <1>5, <1>7 DEF SameBill

LEMMA StripeCallBills ==
  ASSUME IInv, BillsCreated, NEW r \in Req, StripeCall(r)
  PROVE  BillsCreated' /\ \A i \in Invoice : SameBill(i)
<1> DEFINE plan == reqs[r].plan
<1>1. plan \in Plan /\ reqs \in [Req -> Request]
  BY FlightTyped DEF IInv, FlightInv
<1>2. CASE CreateInvoice(r)
  <2> DEFINE new(i) == [plan EXCEPT !.inv = i]
  <2>1. PICK i \in Invoice : /\ Minted(i) /\ Invoiced(i, "open", plan)
                            /\ Called(r, new(i))
    BY <1>2 DEF CreateInvoice
  <2>2. /\ new(i) \in Plan /\ new(i).inv = i /\ new(i).kind = plan.kind
        /\ new(i).lines = plan.lines /\ new(i).deposits = plan.deposits
        /\ new(i).riders = plan.riders
    BY <1>1 DEF Plan, InvoiceRef
  <2>3. (\A j \in Invoice : SameBill(j)) /\ SentAs(stripe'[i], plan)
    BY <1>1, <2>1, InvoicedBills
  <2> HIDE DEF new
  <2>4. BillCreated(r)'
    BY <2>1, <2>2, <2>3, CalledPlanned DEF BillsCreated, BillCreated, SentAs
  <2>5. \A x \in Req \ {r} : BillCreated(x)'
    BY <2>1, <2>2, <2>3, CalledPlanned, BillStays DEF BillsCreated
  <2> QED
    BY <2>3, <2>4, <2>5 DEF BillsCreated
<1>3. CASE CreateInvoicePartly(r)
  <2>1. PICK i \in Invoice, L \in SUBSET plan.lines, D \in SUBSET plan.deposits,
             R \in {{}, plan.riders} :
          Minted(i) /\ Invoiced(i, "draft", [plan EXCEPT !.lines = L, !.deposits = D,
                                                          !.riders = R])
    BY <1>3 DEF CreateInvoicePartly
  <2>2. [plan EXCEPT !.lines = L, !.deposits = D, !.riders = R] \in Plan
    <3>1. /\ L \in SUBSET (Camper \X Price) /\ D \in SUBSET Camper /\ R \in SUBSET Camper
      BY <1>1, <2>1 DEF Plan
    <3> QED
      BY <1>1, <3>1 DEF Plan
  <2>3. \A j \in Invoice : SameBill(j)
    BY <2>1, <2>2, InvoicedBills
  <2>4. /\ reqs'[r] = Idle /\ \A x \in Req \ {r} : reqs'[x] = reqs[x]
    BY <1>1, <1>3 DEF CreateInvoicePartly
  <2>5. BillCreated(r)'
    BY <2>4 DEF BillCreated, Idle
  <2>6. \A x \in Req \ {r} : BillCreated(x)'
    BY <2>3, <2>4, OthersPlanned, BillStays DEF BillsCreated
  <2> QED
    BY <2>3, <2>5, <2>6 DEF BillsCreated
<1>4. ASSUME NEW p \in Plan, Called(r, p), p.kind = plan.kind, p.inv = plan.inv,
             p.lines = plan.lines, p.deposits = plan.deposits, p.riders = plan.riders,
             \A i \in Invoice : SameBill(i)
      PROVE  BillsCreated' /\ \A i \in Invoice : SameBill(i)
  <2>1. \A x \in Req : SamePlanned(reqs'[x], reqs[x])
    BY <1>4, CalledPlanned DEF SamePlanned
  <2> QED
    BY <1>4, <2>1, BillStays DEF BillsCreated
<1>5. CASE EnsureCustomer(r)
  <2> DEFINE p == [plan EXCEPT !.cust = r]
  <2>1. Called(r, p) /\ stripe' = stripe
    BY <1>5 DEF EnsureCustomer, external
  <2>2. /\ p \in Plan /\ p.kind = plan.kind /\ p.inv = plan.inv
        /\ p.lines = plan.lines /\ p.deposits = plan.deposits /\ p.riders = plan.riders
    BY <1>1 DEF Plan
  <2> HIDE DEF p
  <2> QED
    BY <1>4, <2>1, <2>2, UnchangedBills
<1>6. CASE /\ Called(r, plan)
           /\ \/ stripe' = stripe
              \/ \E i : stripe' = VoidIfOpen(stripe, i)
              \/ RefundInvoiceKeeping(r)
  BY <1>1, <1>4, <1>6, UnchangedBills, VoidBills, RefundBills
<1> QED
  BY <1>2, <1>3, <1>5, <1>6
     DEF StripeCall, CreditCustomerBalance, VoidBalanceInvoice, VoidCoachInvoice,
         TryVoidInvoice, TryVoidCoachInvoice, RefundInvoiceKeeping

(* Only DecideSendInvoice and DecideSendCoachInvoice plan an invoice, and  *)
(* they have created none.                                                 *)
LEMMA RequestBills ==
  ASSUME IInv, BillsCreated, NEW r \in Req, stripe' = stripe,
         \A x \in Req \ {r} : reqs'[x] = reqs[x],
         reqs'[r].pc = "work" /\ reqs'[r].op \in {"invoice", "coach_invoice"} =>
            /\ reqs'[r].op = "invoice" => reqs'[r].plan.kind = "balance"
            /\ reqs'[r].plan.inv = NoInvoice
  PROVE  BillsCreated' /\ \A i \in Invoice : SameBill(i)
<1>1. \A i \in Invoice : SameBill(i)
  BY UnchangedBills
<1>2. \A x \in Req \ {r} : BillCreated(x)'
  BY <1>1, OthersPlanned, BillStays DEF BillsCreated
<1>3. BillCreated(r)'
  BY DEF BillCreated
<1> QED
  BY <1>1, <1>2, <1>3 DEF BillsCreated

LEMMA OtherRequestBills ==
  ASSUME IInv, BillsCreated, NEW r \in Req,
         \/ \E op : Begin(r, op)
         \/ \E op, plan : op \notin {"invoice", "coach_invoice"} /\ BeginDecided(r, op, plan)
         \/ \E plan : reqs[r].op \notin {"invoice", "coach_invoice"} /\ Decided(r, plan)
         \/ \E g, cs : Committed(r, g, cs)
  PROVE  BillsCreated' /\ \A i \in Invoice : SameBill(i)
<1>1. CASE \E op : Begin(r, op)
  BY <1>1, BeginShape, RequestBills DEF external
<1>2. CASE \E op, plan : op \notin {"invoice", "coach_invoice"} /\ BeginDecided(r, op, plan)
  BY <1>2, BeginDecidedShape, RequestBills DEF external
<1>3. CASE \E plan : reqs[r].op \notin {"invoice", "coach_invoice"} /\ Decided(r, plan)
  BY <1>3, DecidedShape, RequestBills DEF external
<1>4. CASE \E g, cs : Committed(r, g, cs)
  <2>1. stripe' = stripe /\ reqs'[r] = Idle /\ \A x \in Req \ {r} : reqs'[x] = reqs[x]
    BY <1>4, CommittedShape
  <2> QED
    BY <2>1, RequestBills DEF Idle
<1> QED
  BY <1>1, <1>2, <1>3, <1>4

LEMMA DecideSendInvoiceBills ==
  ASSUME IInv, BillsCreated, NEW r \in Req, DecideSendInvoice(r)
  PROVE  BillsCreated' /\ \A i \in Invoice : SameBill(i)
<1> DEFINE g      == reqs[r].snap
           tr     == InvoiceTr(g)
           riders == IF g.waived THEN {} ELSE CoachPassengers(campers)
           lines  == Charges(campers)
           owing  == Owing(campers)
           inner  == [NoPlan EXCEPT !.tr = tr, !.todo = <<"create">>,
                                    !.kind = "balance", !.lines = lines,
                                    !.deposits = owing, !.riders = riders]
           plan   == Billed(g, inner)
           todo   == If(g.cust = NoCust, "customer") \o inner.todo
           cust   == g.cust
<1>1. Decided(r, plan)
  BY DEF DecideSendInvoice
<1> HIDE DEF riders, lines, owing, tr
<1>2. inner.kind = "balance" /\ inner.inv = NoInvoice
  BY NoPlanTyped DEF NoPlan
<1>3. DOMAIN inner = DOMAIN NoPlan /\ plan = [inner EXCEPT !.cust = cust, !.todo = todo]
  BY DEF Billed
<1> HIDE DEF inner, cust, todo
<1>4. plan.kind = "balance" /\ plan.inv = NoInvoice
  BY <1>2, <1>3
<1> HIDE DEF plan
<1> QED
  BY <1>1, <1>4, DecidedShape, RequestBills DEF external

LEMMA DecideSendCoachInvoiceBills ==
  ASSUME IInv, BillsCreated, NEW r \in Req, DecideSendCoachInvoice(r)
  PROVE  BillsCreated' /\ \A i \in Invoice : SameBill(i)
<1> DEFINE g      == reqs[r].snap
           riders == CoachPassengers(campers)
           inner  == [NoPlan EXCEPT !.todo = <<"create">>, !.kind = "coach",
                                    !.riders = riders]
           plan   == Billed(g, inner)
           todo   == If(g.cust = NoCust, "customer") \o inner.todo
           cust   == g.cust
<1>1. Decided(r, plan) /\ reqs[r].op = "coach_invoice"
  BY DEF DecideSendCoachInvoice, Decides
<1> HIDE DEF riders
<1>2. inner.inv = NoInvoice
  BY NoPlanTyped DEF NoPlan
<1>3. DOMAIN inner = DOMAIN NoPlan /\ plan = [inner EXCEPT !.cust = cust, !.todo = todo]
  BY DEF Billed
<1> HIDE DEF inner, cust, todo
<1>4. plan.inv = NoInvoice
  BY <1>2, <1>3
<1> HIDE DEF plan
<1> QED
  BY <1>1, <1>4, DecidedShape, RequestBills DEF external

LEMMA AllocationBills ==
  ASSUME IInv, BillsCreated, NEW r \in Req, AllocationStep(r)
  PROVE  BillsCreated' /\ \A i \in Invoice : SameBill(i)
<1>1. CASE BeginAllocate(r)
  BY <1>1, OtherRequestBills DEF BeginAllocate
<1>2. CASE DecideAllocate(r)
  BY <1>2, OtherRequestBills DEF DecideAllocate, Decides
<1>3. CASE BeginUnallocate(r)
  BY <1>3, OtherRequestBills DEF BeginUnallocate
<1>4. CASE BeginConfirmFree(r)
  BY <1>4, OtherRequestBills DEF BeginConfirmFree
<1>5. CASE BeginRelease(r)
  BY <1>5, OtherRequestBills DEF BeginRelease
<1>6. CASE SweepList(r)
  <2>1. /\ reqs'[r].pc = "listed" /\ \A x \in Req \ {r} : reqs'[x] = reqs[x]
        /\ stripe' = stripe
    BY <1>6 DEF SweepList, IInv, FlightInv, Idle, external
  <2> QED
    BY <2>1, RequestBills
<1>7. CASE SweepRelease(r)
  BY <1>7, FlightTyped, OtherRequestBills DEF SweepRelease, LegalRequest
<1>8. CASE CommitAllocate(r) \/ CommitUnallocate(r) \/ CommitConfirmFree(r)
           \/ CommitRelease(r)
  BY <1>8, OtherRequestBills
     DEF CommitAllocate, CommitUnallocate, CommitConfirmFree, CommitRelease
<1> QED
  BY <1>1, <1>2, <1>3, <1>4, <1>5, <1>6, <1>7, <1>8 DEF AllocationStep

LEMMA InvoicingBills ==
  ASSUME IInv, BillsCreated, NEW r \in Req, InvoicingStep(r)
  PROVE  BillsCreated' /\ \A i \in Invoice : SameBill(i)
<1>1. CASE BeginSendInvoice(r) \/ BeginSendCoachInvoice(r) \/ BeginWaiveCoachFee(r)
           \/ BeginDelete(r)
  BY <1>1, OtherRequestBills
     DEF BeginSendInvoice, BeginSendCoachInvoice, BeginWaiveCoachFee, BeginDelete
<1>2. CASE BeginUnwaiveCoachFee(r) \/ BeginMarkBalancePaid(r) \/ BeginResendInvoice(r)
           \/ BeginExtendDue(r)
  <2>1. \E op, plan : op \notin {"invoice", "coach_invoice"} /\ BeginDecided(r, op, plan)
    BY <1>2 DEF BeginUnwaiveCoachFee, BeginMarkBalancePaid, BeginResendInvoice, BeginExtendDue
  <2> QED
    BY <2>1, OtherRequestBills
<1>3. CASE DecideWaiveCoachFee(r) \/ DecideDelete(r)
  <2>1. reqs[r].op \notin {"invoice", "coach_invoice"}
    BY <1>3 DEF DecideWaiveCoachFee, DecideDelete, Decides
  <2>2. \E plan : Decided(r, plan)
    BY <1>3 DEF DecideWaiveCoachFee, DecideDelete
  <2> QED
    BY <2>1, <2>2, OtherRequestBills
<1>4. CASE CommitSendInvoice(r) \/ CommitSendCoachInvoice(r) \/ CommitWaiveCoachFee(r)
           \/ CommitUnwaiveCoachFee(r) \/ CommitMarkBalancePaid(r) \/ CommitDelete(r)
           \/ CommitResendInvoice(r) \/ CommitExtendDue(r)
  <2>1. \E g, cs : Committed(r, g, cs)
    BY <1>4 DEF CommitSendInvoice, CommitSendCoachInvoice, CommitWaiveCoachFee,
       CommitUnwaiveCoachFee, CommitMarkBalancePaid, CommitDelete, CommitResendInvoice,
       CommitExtendDue
  <2> QED
    BY <2>1, OtherRequestBills
<1> QED
  BY <1>1, <1>2, <1>3, <1>4, DecideSendInvoiceBills, DecideSendCoachInvoiceBills
     DEF InvoicingStep

LEMMA CamperEditBills ==
  ASSUME IInv, BillsCreated, NEW r \in Req, CamperEditStep(r)
  PROVE  BillsCreated' /\ \A i \in Invoice : SameBill(i)
<1>1. CASE BeginRemoveCamper(r) \/ BeginConvertToDayVisitor(r) \/ BeginUpdateDayPass(r)
           \/ BeginUpdateCoach(r) \/ BeginEditCamper(r) \/ BeginAddCamper(r)
           \/ BeginMakeMainContact(r) \/ BeginWaiveDeposit(r)
  BY <1>1, OtherRequestBills
     DEF BeginRemoveCamper, BeginConvertToDayVisitor, BeginUpdateDayPass,
     BeginUpdateCoach, BeginEditCamper, BeginAddCamper, BeginMakeMainContact,
     BeginWaiveDeposit
<1>2. CASE DecideRemoveCamper(r) \/ DecideConvertToDayVisitor(r) \/ DecideUpdateDayPass(r)
           \/ DecideUpdateCoach(r) \/ DecideEditCamper(r) \/ DecideAddCamper(r)
           \/ DecideMakeMainContact(r) \/ DecideWaiveDeposit(r)
  <2>1. reqs[r].op \notin {"invoice", "coach_invoice"}
    BY <1>2 DEF DecideRemoveCamper, DecideConvertToDayVisitor, DecideUpdateDayPass,
       DecideUpdateCoach, DecideEditCamper, DecideAddCamper, DecideMakeMainContact,
       DecideWaiveDeposit, Decides
  <2>2. \E plan : Decided(r, plan)
    BY <1>2 DEF DecideRemoveCamper, DecideConvertToDayVisitor, DecideUpdateDayPass,
       DecideUpdateCoach, DecideEditCamper, DecideAddCamper, DecideMakeMainContact,
       DecideWaiveDeposit
  <2> QED
    BY <2>1, <2>2, OtherRequestBills
<1>3. CASE CommitRemoveCamper(r) \/ CommitConvertToDayVisitor(r) \/ CommitUpdateDayPass(r)
           \/ CommitUpdateCoach(r) \/ CommitEditCamper(r) \/ CommitAddCamper(r)
           \/ CommitMakeMainContact(r) \/ CommitWaiveDeposit(r)
  <2>1. \E g, cs : Committed(r, g, cs)
    BY <1>3 DEF CommitRemoveCamper, CommitConvertToDayVisitor, CommitUpdateDayPass,
       CommitUpdateCoach, CommitEditCamper, CommitAddCamper, CommitMakeMainContact,
       CommitWaiveDeposit, RowCommitted
  <2> QED
    BY <2>1, OtherRequestBills
<1> QED
  BY <1>1, <1>2, <1>3 DEF CamperEditStep

LEMMA NextBills ==
  ASSUME IInv, BillsCreated, [Next]_vars
  PROVE  BillsCreated' /\ \A i \in Invoice : SameBill(i)
<1>1. ASSUME reqs' = reqs, \A i \in Invoice : SameBill(i)
      PROVE  BillsCreated'
  BY <1>1, BillStays DEF BillsCreated, SamePlanned
<1>2. CASE reqs' = reqs /\ stripe' = stripe
  BY <1>1, <1>2, UnchangedBills
<1>3. CASE \E r \in Req : GiveUp(r)
  <2>1. PICK r \in Req : GiveUp(r)
    BY <1>3
  <2>2. /\ reqs'[r] = Idle /\ \A x \in Req \ {r} : reqs'[x] = reqs[x]
        /\ stripe' = stripe
    BY <2>1 DEF GiveUp, IInv, FlightInv, external
  <2> QED
    BY <2>2, RequestBills DEF Idle
<1>4. CASE \E r \in Req : AllocationStep(r) \/ InvoicingStep(r) \/ CamperEditStep(r)
                          \/ StripeCall(r)
  BY <1>4, AllocationBills, InvoicingBills, CamperEditBills, StripeCallBills
<1>5. CASE \E i \in Invoice : PayInvoice(i) \/ FinalizeDraft(i)
  <2>1. reqs' = reqs
    BY <1>5 DEF PayInvoice, FinalizeDraft
  <2> QED
    BY <1>1, <1>5, <2>1, PaidBills
<1>6. CASE \E h \in Hook : ReconcileStep(h)
  BY <1>2, <1>6 DEF ReconcileStep, DeliverEvent, SettleOwedDeposits, CommitBalancePaid,
     CommitCoachFeePaid, DeliveryFails, external
<1>7. CASE \E r \in Req, h \in Hook : SettleByHand(r, h)
  <2>1. PICK r \in Req, h \in Hook : SettleByHand(r, h)
    BY <1>7
  <2>2. /\ reqs'[r] = Idle /\ \A x \in Req \ {r} : reqs'[x] = reqs[x]
        /\ stripe' = stripe
    BY <2>1, SettleByHandAlone DEF external
  <2> QED
    BY <2>2, RequestBills DEF Idle
<1> QED
  BY <1>2, <1>3, <1>4, <1>5, <1>6, <1>7
     DEF Next, RequestStep, CheckoutCompleted, CheckoutExpired, OverridePaymentStatus,
         DueDatePasses, vars, external

LEMMA InitCurrent ==
  ASSUME Init, "full" \notin Kinds
  PROVE  VersionInv /\ BillsCreated
<1>1. \A r \in Req : reqs[r] = Idle
  BY DEF Init
<1>2. group.version \in Nat
  BY InitIInv DEF IInv, DataInv, GroupRow
<1>3. ~group.pif
  BY DEF Init, SubmittedGroup, NullGroup
<1>4. \A r \in Req : reqs[r].pc = "idle" /\ reqs[r].exp = -1
  BY <1>1 DEF Idle, Skip
<1>5. ExpectedKnown /\ \A r \in Req : Current(r)
  BY <1>2, <1>4 DEF ExpectedKnown, Current
<1> QED
  BY <1>3, <1>4, <1>5 DEF VersionInv, BillsCreated, BillCreated

(* The version does its work: whenever a call that carries one may commit, *)
(* what it decided from its two reads is what it would decide now, however *)
(* other calls, deliveries and payments came in between, and the invoice   *)
(* it created is for that (CheckVersion of the billing storage packages).  *)
(* For groups that were not paid in full at signup and whose payment       *)
(* status nobody overrides: neither change moves the version.              *)
THEOREM DecisionsAreCurrent ==
  ASSUME "override" \notin Op, "full" \notin Kinds
  PROVE  Spec => []DecisionIsCurrent
<1>1. Init => VersionInv /\ BillsCreated
  BY InitCurrent
<1>2. IInv /\ IInv' /\ VersionInv /\ BillsCreated /\ [Next]_vars
        => VersionInv' /\ BillsCreated'
  BY NextCurrent, NextBills
<1>3. IInv /\ VersionInv /\ BillsCreated => DecisionIsCurrent
  <2> SUFFICES ASSUME IInv, VersionInv, BillsCreated, NEW r \in Req,
                      reqs[r].pc = "work", reqs[r].plan.todo = <<>>,
                      group.exists, reqs[r].exp = group.version
               PROVE  /\ CurrentDecision(group, campers, reqs[r].op, reqs[r].plan)
                      /\ reqs[r].op = "invoice" =>
                           stripe[reqs[r].plan.inv].lines = reqs[r].plan.lines
    BY DEF DecisionIsCurrent
  <2>1. CurrentDecision(group, campers, reqs[r].op, reqs[r].plan)
    BY DEF VersionInv, Current
  <2>2. CASE reqs[r].op = "invoice"
    <3>1. reqs[r].plan.inv # NoInvoice
      BY <2>2, FlightTyped DEF LegalRequest, LegalPlan, CreatedOrWillBe
    <3>2. SentAs(stripe[reqs[r].plan.inv], reqs[r].plan)
      BY <2>2, <3>1 DEF BillsCreated, BillCreated
    <3> QED
      BY <2>1, <3>2 DEF SentAs
  <2> QED
    BY <2>1, <2>2
<1> QED
  BY <1>1, <1>2, <1>3, Invariance, PTL DEF Spec
=============================================================================
