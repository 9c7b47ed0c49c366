---------------------------- MODULE BillingStore ----------------------------
(***************************************************************************)
(* What the billing services share: one registration group and its campers *)
(* in Postgres, the invoices and credits in Stripe, and the requests in    *)
(* flight.  A service call is not a transaction.  It                       *)
(*                                                                         *)
(*   Begin    reads the group (FindGroupByID),                             *)
(*   Decide   reads the campers and applies the domain rules,              *)
(*   ...      calls Stripe, one call at a time,                            *)
(*   Commit   writes the rows in one transaction that locks the group,     *)
(*            checks the expected version and compares-and-sets the status,*)
(*                                                                         *)
(* and other requests, webhooks and the sweep run between any two of these.*)
(* GiveUp ends a call at any point: a refusal, a lost compare-and-set, a   *)
(* Stripe or database error, a crash.  What Stripe did stays done.         *)
(*                                                                         *)
(* Groups never share rows, so one group stands for all of them.           *)
(***************************************************************************)
EXTENDS Lifecycle, Sequences, FiniteSets

CONSTANTS
    Camper,         \* registration row ids, used or yet to be minted
    Age,            \* ages campers may be given
    Profile,        \* the people who may sign up: [att, age, coach]
    MaxInvoices,    \* bound: Stripe invoices created
    MaxVersion,     \* bound: no request begins at a later version
    Req,            \* admin request slots; also names the Stripe customer
                    \* that a request in the slot may create
    Hook,           \* webhook deliveries handled at the same time
    Op,             \* the operations this instance may begin
    SkipOp,         \* those begun with SkipVersionCheck
    AllowStale,     \* may a request carry a version already superseded
    DraftsLeft      \* may CreateInvoice fail half-way

Skip      == -1
NoCust    == "none"
Invoice   == 1..MaxInvoices
InvoiceRef == Invoice \cup {NoInvoice}
Attendance == {"full_week", "day_pass"}
DayPassPrice == "day_pass"
Price == {TierPrice[code] : code \in Code} \cup {ChildUnder3, DayPassPrice}
AllOp == {"allocate", "unallocate", "confirm_free", "release", "cancel", "sweep",
          "invoice", "coach_invoice", "waive_coach", "unwaive_coach", "mark_paid",
          "delete", "resend", "extend",
          "remove", "convert", "edit_day_pass", "coach", "edit", "add",
          "main_contact", "waive_deposit", "override"}

ASSUME StoreAssumption ==
    /\ Age \subseteq 1..119 /\ Age # {} /\ Camper # {}
    /\ Profile \subseteq [att : Attendance, age : Age, coach : BOOLEAN]
    /\ MaxInvoices \in Nat /\ MaxVersion \in Nat
    /\ Op \subseteq AllOp /\ SkipOp \subseteq Op
    /\ AllowStale \in BOOLEAN /\ DraftsLeft \in BOOLEAN
    /\ NoCust \notin Req

VARIABLES
    group,      \* the registration_groups row
    campers,    \* the registrations rows, by id
    stripe,     \* Stripe's invoices, by id
    credits,    \* camper -> customer whose balance holds their deposit credit
    events,     \* paid invoices whose invoice.paid event is not acknowledged
    reqs,       \* admin requests and sweep runs in flight
    hooks       \* webhook deliveries, and settlements without a version, in flight

vars == <<group, campers, stripe, credits, events, reqs, hooks>>
db   == <<group, campers>>
external == <<stripe, credits, events>>

GroupRow == [exists : BOOLEAN, pay : PaymentStatus, billing : BillingStatus,
             version : Nat, ref : InvoiceRef, due : {"none", "future", "past"},
             coachIn : BOOLEAN, coachRef : InvoiceRef, coachPaid : BOOLEAN,
             waived : BOOLEAN, free : BOOLEAN, pif : BOOLEAN,
             cust : Req \cup {NoCust}]
CamperRow == [st : {"new", "here", "gone"}, main : BOOLEAN, att : Attendance,
              age : Age, coach : BOOLEAN, code : Code \cup {NoCode},
              owed : Nat, paid : Nat, credit : Nat]
StripeInvoice == [st : {"unused", "draft", "open", "void", "paid"},
                  kind : {"balance", "coach"}, lines : SUBSET (Camper \X Price),
                  deposits : SUBSET Camper, riders : SUBSET Camper,
                  refunded : {"no", "part", "all"}]
Transition == {Keep} \cup [from : BillingStatus, to : BillingStatus]
Step == {"customer", "credit", "refund", "void", "try_void", "void_coach",
         "try_void_coach", "create"}

(* What a request decided: the Stripe calls still to make, the transition, *)
(* and the values its transaction will write.                              *)
Plan == [todo : Seq(Step), tr : Transition,
         ref : InvoiceRef, coachRef : InvoiceRef,        \* to void or refund
         cust : Req \cup {NoCust}, keep : BOOLEAN,       \* whom to credit or bill
         kind : {"balance", "coach"}, lines : SUBSET (Camper \X Price),
         deposits : SUBSET Camper, riders : SUBSET Camper,  \* to bill
         inv : InvoiceRef,                               \* the invoice created
         due : {"future", "past"}, clearCoach : BOOLEAN,
         target : Camper, row : CamperRow,
         codes : [Camper -> Code \cup {NoCode}]]
Request == [pc : {"idle", "listed", "read", "work"}, op : AllOp,
            exp : Nat \cup {Skip}, snap : GroupRow, plan : Plan]
Delivery == [pc : {"idle", "read", "locked"}, inv : InvoiceRef,
             tr : Transition, rows : SUBSET Camper]

Deposit == 1    \* pence are abstracted: a deposit is owed, paid or credited once

NullGroup == [exists |-> FALSE, pay |-> "pending", billing |-> "none", version |-> 0,
              ref |-> NoInvoice, due |-> "none", coachIn |-> FALSE,
              coachRef |-> NoInvoice, coachPaid |-> FALSE, waived |-> FALSE,
              free |-> FALSE, pif |-> FALSE, cust |-> NoCust]
NewRow == [st |-> "new", main |-> FALSE, att |-> "full_week",
           age |-> CHOOSE a \in Age : TRUE, coach |-> FALSE, code |-> NoCode,
           owed |-> 0, paid |-> 0, credit |-> 0]
NotCreated == [st |-> "unused", kind |-> "balance", lines |-> {}, deposits |-> {},
               riders |-> {}, refunded |-> "no"]
NoPlan == [todo |-> <<>>, tr |-> Keep, ref |-> NoInvoice, coachRef |-> NoInvoice,
           cust |-> NoCust, keep |-> FALSE, kind |-> "balance", lines |-> {},
           deposits |-> {}, riders |-> {}, inv |-> NoInvoice, due |-> "future",
           clearCoach |-> FALSE, target |-> CHOOSE c \in Camper : TRUE,
           row |-> NewRow, codes |-> [c \in Camper |-> NoCode]]
Idle   == [pc |-> "idle", op |-> "allocate", exp |-> Skip,
           snap |-> NullGroup, plan |-> NoPlan]
NoHook == [pc |-> "idle", inv |-> NoInvoice, tr |-> Keep, rows |-> {}]

TypeOK ==
    /\ group \in GroupRow
    /\ campers \in [Camper -> CamperRow]
    /\ stripe \in [Invoice -> StripeInvoice]
    /\ credits \in [Camper -> Req \cup {NoCust}]
    /\ events \in SUBSET Invoice
    /\ reqs \in [Req -> Request]
    /\ hooks \in [Hook -> Delivery]

----------------------------------------------------------------------------
(* Reading.                                                               *)

Here(cs)    == {c \in Camper : cs[c].st = "here"}
Rows(cs, S) == {cs[c] : c \in S}
FullWeek(cs) == {c \in Here(cs) : IsFullWeek(cs[c])}
Owing(cs)    == {c \in Here(cs) : cs[c].owed > 0}
CoachPassengers(cs) == {c \in Here(cs) : CoachEligible(cs[c])}

(* The dashboard sends the version it last showed.  Versions only grow, so *)
(* one superseded version stands for all of them.                          *)
MayExpect(op, exp) ==
    \/ op \in SkipOp /\ exp = Skip
    \/ op \notin SkipOp /\ exp = group.version
    \/ op \notin SkipOp /\ AllowStale /\ exp >= 0 /\ exp = group.version - 1

(* A call whose first check on the group fails returns with no effect, so  *)
(* only calls that pass it are begun.                                      *)
MayBegin(r, op) ==
    /\ op \in Op
    /\ reqs[r] = Idle
    /\ group.exists
    /\ group.version < MaxVersion

Begin(r, op) ==
    /\ MayBegin(r, op)
    /\ \E exp \in -1..MaxVersion :
         /\ MayExpect(op, exp)
         /\ reqs' = [reqs EXCEPT ![r] = [Idle EXCEPT !.pc = "read", !.op = op,
                                                    !.exp = exp, !.snap = group]]
    /\ UNCHANGED <<db, external, hooks>>

(* Calls that never read the campers decide on the group they have read.   *)
BeginDecided(r, op, plan) ==
    /\ MayBegin(r, op)
    /\ \E exp \in -1..MaxVersion :
         /\ MayExpect(op, exp)
         /\ reqs' = [reqs EXCEPT ![r] = [Idle EXCEPT !.pc = "work", !.op = op,
                                                    !.exp = exp, !.plan = plan]]
    /\ UNCHANGED <<db, external, hooks>>

Decides(r, op) == reqs[r].pc = "read" /\ reqs[r].op = op
Decided(r, plan) ==
    /\ reqs' = [reqs EXCEPT ![r].pc = "work", ![r].plan = plan, ![r].snap = NullGroup]
    /\ UNCHANGED <<db, external, hooks>>

(* Steps of a plan, each only when its condition holds.                    *)
If(cond, step) == IF cond THEN <<step>> ELSE <<>>

GiveUp(r) ==
    /\ reqs[r] # Idle
    /\ reqs' = [reqs EXCEPT ![r] = Idle]
    /\ UNCHANGED <<db, external, hooks>>

----------------------------------------------------------------------------
(* Stripe, as billing_client.go uses it.                                  *)

NextCall(r, step) ==
    /\ reqs[r].pc = "work"
    /\ reqs[r].plan.todo # <<>>
    /\ Head(reqs[r].plan.todo) = step
Called(r, plan) ==
    reqs' = [reqs EXCEPT ![r].plan = [plan EXCEPT !.todo = Tail(@)]]

VoidIfOpen(s, i) ==
    [s EXCEPT ![i].st = IF @ = "open" THEN "void" ELSE @]

(* EnsureCustomer found no customer: create one, store it without a version *)
(* check or a version bump.                                                 *)
EnsureCustomer(r) ==
    /\ NextCall(r, "customer")
    /\ group' = IF group.exists THEN [group EXCEPT !.cust = r] ELSE group
    /\ Called(r, [reqs[r].plan EXCEPT !.cust = r])
    /\ UNCHANGED <<campers, external, hooks>>

(* The idempotency key names the camper: a replay for the same customer is *)
(* a success, for another customer an error (GiveUp).                      *)
CreditCustomerBalance(r) ==
    /\ NextCall(r, "credit")
    /\ LET plan == reqs[r].plan IN
       /\ credits[plan.target] \in {NoCust, plan.cust}
       /\ credits' = [credits EXCEPT ![plan.target] = plan.cust]
       /\ Called(r, plan)
    /\ UNCHANGED <<db, stripe, events, hooks>>

(* VoidInvoiceIdempotent: only an open invoice is voided, and an invoice   *)
(* that is paid, void or draft is no error.                                *)
VoidBalanceInvoice(r) ==
    /\ NextCall(r, "void")
    /\ stripe' = VoidIfOpen(stripe, reqs[r].plan.ref)
    /\ Called(r, reqs[r].plan)
    /\ UNCHANGED <<db, credits, events, hooks>>

VoidCoachInvoice(r) ==
    /\ NextCall(r, "void_coach")
    /\ stripe' = VoidIfOpen(stripe, reqs[r].plan.coachRef)
    /\ Called(r, reqs[r].plan)
    /\ UNCHANGED <<db, credits, events, hooks>>

(* The release and the removal of the last coach passenger log a failed    *)
(* void and go on.                                                         *)
TryVoidInvoice(r) ==
    /\ NextCall(r, "try_void")
    /\ stripe' \in {stripe, VoidIfOpen(stripe, reqs[r].plan.ref)}
    /\ Called(r, reqs[r].plan)
    /\ UNCHANGED <<db, credits, events, hooks>>

TryVoidCoachInvoice(r) ==
    /\ NextCall(r, "try_void_coach")
    /\ stripe' \in {stripe, VoidIfOpen(stripe, reqs[r].plan.coachRef)}
    /\ Called(r, reqs[r].plan)
    /\ UNCHANGED <<db, credits, events, hooks>>

(* RefundInvoiceKeeping refunds everything, or everything but the deposits, *)
(* which may be all there is.  It does not ask what was refunded before: a  *)
(* second partial refund is taken out of the deposits, unless it is more    *)
(* than they are and Stripe refuses it (GiveUp).                            *)
RefundInvoiceKeeping(r) ==
    /\ NextCall(r, "refund")
    /\ LET plan == reqs[r].plan
           i    == plan.ref
       IN /\ \/ /\ stripe[i].st # "paid" \/ plan.keep
                /\ UNCHANGED stripe
             \/ /\ stripe[i].st = "paid" /\ ~plan.keep
                /\ stripe' = [stripe EXCEPT ![i].refunded = "all"]
             \/ /\ stripe[i].st = "paid" /\ plan.keep
                /\ stripe' = [stripe EXCEPT ![i].refunded =
                                 IF @ = "no" THEN "part" ELSE "all"]
          /\ Called(r, plan)
    /\ UNCHANGED <<db, credits, events, hooks>>

(* Ids are minted in order.                                                *)
Minted(i) == stripe[i].st = "unused" /\ \A j \in 1..(i - 1) : stripe[j].st # "unused"

Invoiced(i, st, plan) ==
    stripe' = [stripe EXCEPT ![i] =
        [NotCreated EXCEPT !.st = st, !.kind = plan.kind, !.lines = plan.lines,
                           !.deposits = plan.deposits, !.riders = plan.riders]]

CreateInvoice(r) ==
    /\ NextCall(r, "create")
    /\ \E i \in Invoice :
         /\ Minted(i)
         /\ Invoiced(i, "open", reqs[r].plan)
         /\ Called(r, [reqs[r].plan EXCEPT !.inv = i])
    /\ UNCHANGED <<db, credits, events, hooks>>

(* invoice.New succeeded and an item or the finalisation failed: the call   *)
(* fails, and a draft that finalises itself (AutoAdvance) stays behind with *)
(* the items added so far: places, then deposits, then the coach.           *)
CreateInvoicePartly(r) ==
    LET plan == reqs[r].plan IN
    /\ DraftsLeft
    /\ NextCall(r, "create")
    /\ \E i \in Invoice, L \in SUBSET plan.lines, D \in SUBSET plan.deposits,
          R \in {{}, plan.riders} :
         /\ Minted(i)
         /\ D # {} => L = plan.lines
         /\ R # {} => L = plan.lines /\ D = plan.deposits
         /\ Invoiced(i, "draft",
               [plan EXCEPT !.lines = L, !.deposits = D, !.riders = R])
    /\ reqs' = [reqs EXCEPT ![r] = Idle]
    /\ UNCHANGED <<db, credits, events, hooks>>

StripeCall(r) ==
    \/ EnsureCustomer(r)       \/ CreditCustomerBalance(r)
    \/ VoidBalanceInvoice(r)   \/ VoidCoachInvoice(r)
    \/ TryVoidInvoice(r)       \/ TryVoidCoachInvoice(r)
    \/ RefundInvoiceKeeping(r)
    \/ CreateInvoice(r)        \/ CreateInvoicePartly(r)

(* The family pays an open invoice; a draft finalises by itself, and one   *)
(* with nothing on it is paid at once.  Both send invoice.paid.            *)
PayInvoice(i) ==
    /\ stripe[i].st = "open"
    /\ stripe' = [stripe EXCEPT ![i].st = "paid"]
    /\ events' = events \cup {i}
    /\ UNCHANGED <<db, credits, reqs, hooks>>

NothingToPay(i) == stripe[i].lines = {} /\ stripe[i].deposits = {} /\ stripe[i].riders = {}

FinalizeDraft(i) ==
    /\ stripe[i].st = "draft"
    /\ stripe' = [stripe EXCEPT ![i].st = IF NothingToPay(i) THEN "paid" ELSE "open"]
    /\ events' = IF NothingToPay(i) THEN events \cup {i} ELSE events
    /\ UNCHANGED <<db, credits, reqs, hooks>>

----------------------------------------------------------------------------
(* Committing.                                                            *)

(* Camper rows a settlement has updated and not committed are locked.      *)
Unlocked(S) == \A h \in Hook : hooks[h].rows \cap S = {}

\* Faulty: the version is not checked.
MayCommitUnversioned(r, op, S) ==
    /\ reqs[r].pc = "work" /\ reqs[r].op = op
    /\ reqs[r].plan.todo = <<>>
    /\ group.exists
    /\ reqs[r].plan.tr.from \in {"", group.billing}
    /\ Unlocked(S)
(* LockGroup, CheckVersion and the WHERE clause of Stamp.  S is the camper *)
(* rows the transaction updates.                                           *)
MayCommit(r, op, S) ==
    /\ reqs[r].pc = "work" /\ reqs[r].op = op
    /\ reqs[r].plan.todo = <<>>
    /\ group.exists
    /\ reqs[r].exp \in {Skip, group.version}
    /\ reqs[r].plan.tr.from \in {"", group.billing}
    /\ Unlocked(S)

\* Faulty: the version does not move.
StampWithoutVersion(g, tr) ==
    [g EXCEPT !.billing = IF ChangesBilling(tr) THEN tr.to ELSE @]
Stamp(g, tr) ==
    [g EXCEPT !.version = @ + 1, !.billing = IF ChangesBilling(tr) THEN tr.to ELSE @]
ClearInvoice(g) == [g EXCEPT !.ref = NoInvoice, !.due = "none"]
\* Faulty: the roster edits leave the voided invoice on file.
StampRosterKeepsInvoice(g, tr) == Stamp(g, tr)
(* The roster edits clear the invoice fields exactly when the status moves. *)
StampRoster(g, tr) ==
    IF ChangesBilling(tr) THEN ClearInvoice(Stamp(g, tr)) ELSE Stamp(g, tr)

Committed(r, g, cs) ==
    /\ group' = g
    /\ campers' = cs
    /\ reqs' = [reqs EXCEPT ![r] = Idle]
    /\ UNCHANGED <<external, hooks>>

(* The camper rows with the placements of S cleared.                       *)
Unplace(cs, S) == [c \in Camper |-> IF c \in S THEN [cs[c] EXCEPT !.code = NoCode]
                                               ELSE cs[c]]

(* MarkBalancePaid moves what S owes into what S has paid.                 *)
\* Faulty: a settled deposit is still owed.
SettleDepositsStillOwed(cs, S) ==
    [c \in Camper |-> IF c \in S THEN [cs[c] EXCEPT !.paid = @ + cs[c].owed] ELSE cs[c]]
SettleDeposits(cs, S) ==
    [c \in Camper |-> IF c \in S
                      THEN [cs[c] EXCEPT !.paid = @ + cs[c].owed, !.owed = 0]
                      ELSE cs[c]]
=============================================================================
