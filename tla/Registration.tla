---------------------------- MODULE Registration ----------------------------
(***************************************************************************)
(* The intake of registrations: a submitted form becomes a stored group in *)
(* one database transaction that may hold a sponsorship code's row lock,   *)
(* or open a Stripe Checkout session, before it commits or rolls back; the *)
(* session is paid or expires, and Stripe reports it; an administrator     *)
(* generates and revokes codes, overrides payment statuses and deletes.    *)
(***************************************************************************)
EXTENDS Charges

CONSTANTS
    Sub,        \* submissions of the form; also the group and the session of each
    FreeCode,   \* sponsorship codes
    Roster,     \* the campers a form may name: sequences, in the form's order
    None        \* no code, no group

ASSUME RegistrationAssumption ==
    None \notin FreeCode \cup Sub /\ \A campers \in Roster : ValidForm(campers)

VARIABLES
    codes,      \* the free_codes rows
    subs,       \* the Submit calls
    groups,     \* the registration_groups rows, as far as the checkout is concerned
    sessions,   \* Stripe: the Checkout session of each submission
    events,     \* submissions whose checkout.session event is not yet answered with 200
    deletes,    \* groups whose DeleteRegistration is past CanDelete
    byHand      \* groups whose payment status an administrator has set

vars == <<codes, subs, groups, sessions, events, deletes, byHand>>

CodeRow == [issued : BOOLEAN, used : BOOLEAN, revoked : BOOLEAN, by : Sub \cup {None}]

\* A form, and whether the camp asks for everything at once when it comes in.
Form == [code : FreeCode \cup {None}, full : BOOLEAN, campers : Roster \cup {<<>>}]
Submitting == {"new", "begun", "reserved", "session", "stored", "failed"}
Group == [st : {"none", "here", "deleted"}, pay : PaymentStatus, free : BOOLEAN,
          pif : BOOLEAN, settled : BOOLEAN, session : BOOLEAN]

TypeOK ==
    /\ codes \in [FreeCode -> CodeRow]
    /\ subs \in [Sub -> [pc : Submitting, form : Form]]
    /\ groups \in [Sub -> Group]
    /\ sessions \in [Sub -> {"none", "open", "completed", "expired"}]
    /\ events \subseteq Sub
    /\ deletes \subseteq Sub
    /\ byHand \subseteq Sub

NoForm == [code |-> None, full |-> FALSE, campers |-> <<>>]
NewGroup == [st |-> "none", pay |-> "pending", free |-> FALSE, pif |-> FALSE,
             settled |-> FALSE, session |-> FALSE]

Init ==
    /\ codes = [c \in FreeCode |->
                  [issued |-> FALSE, used |-> FALSE, revoked |-> FALSE, by |-> None]]
    /\ subs = [s \in Sub |-> [pc |-> "new", form |-> NoForm]]
    /\ groups = [s \in Sub |-> NewGroup]
    /\ sessions = [s \in Sub |-> "none"]
    /\ events = {} /\ deletes = {} /\ byHand = {}

Here(s) == groups[s].st = "here"
Pending(s) == Here(s) /\ groups[s].pay = "pending"
MoveTo(s, pc) == subs' = [subs EXCEPT ![s].pc = pc]

----------------------------------------------------------------------------
(* Sponsorship codes                                                       *)

Redeemable(c) == codes[c].issued /\ ~codes[c].used /\ ~codes[c].revoked

\* Faulty: SELECT without FOR UPDATE.
LockedNever(c) == FALSE

\* The row is locked FOR UPDATE until the submission that read it ends.
Locked(c) == \E t \in Sub : subs[t].pc = "reserved" /\ subs[t].form.code = c

GenerateFreeCode(c) ==
    /\ ~codes[c].issued
    /\ codes' = [codes EXCEPT ![c].issued = TRUE]
    /\ UNCHANGED <<subs, groups, sessions, events, deletes, byHand>>

\* Faulty: used_at IS NULL dropped from the WHERE.
RevokeFreeCodeUsed(c) ==
    /\ codes[c].issued /\ ~codes[c].revoked /\ ~Locked(c)
    /\ codes' = [codes EXCEPT ![c].revoked = TRUE]
    /\ UNCHANGED <<subs, groups, sessions, events, deletes, byHand>>

\* The UPDATE waits for the lock and then evaluates its WHERE again.
RevokeFreeCode(c) ==
    /\ Redeemable(c) /\ ~Locked(c)
    /\ codes' = [codes EXCEPT ![c].revoked = TRUE]
    /\ UNCHANGED <<subs, groups, sessions, events, deletes, byHand>>

ReserveFreeCode(s) ==
    /\ subs[s].pc = "begun"
    /\ subs[s].form.code \in FreeCode
    /\ Redeemable(subs[s].form.code) /\ ~Locked(subs[s].form.code)
    /\ MoveTo(s, "reserved")
    /\ UNCHANGED <<codes, groups, sessions, events, deletes, byHand>>

\* The UPDATE trusts the reservation: it has no WHERE on used_at.
MarkFreeCodeUsed(c, s) == [codes EXCEPT ![c].used = TRUE, ![c].by = s]

----------------------------------------------------------------------------
(* Submit: config and prices are read, the charge computed, and then one   *)
(* transaction stores the group.                                           *)

BeginSubmit(s) ==
    /\ subs[s].pc = "new"
    /\ \E form \in {f \in Form : f.campers \in Roster} :
         subs' = [subs EXCEPT ![s] = [pc |-> "begun", form |-> form]]
    /\ UNCHANGED <<codes, groups, sessions, events, deletes, byHand>>

\* The total of the charge; a code makes it zero.
Due(form) == TotalPence(ComputeCharge(form.campers, form.full, DepositPence)) > 0

\* A code pays for everybody and is never a payment in full.
PaidInFull(form) == form.full /\ form.code = None

\* InsertGroup: status pending, nothing settled, no session.
InsertGroup(form) ==
    [NewGroup EXCEPT !.st = "here", !.free = (form.code # None), !.pif = PaidInFull(form)]

\* ApplySettlement of what the domain's SettleCheckout returns: only a pending
\* group moves, and one that paid in full has settled its balance too.
SettleCheckout(g) ==
    IF g.pay = "pending" THEN [g EXCEPT !.pay = "paid", !.settled = @ \/ g.pif] ELSE g

\* Faulty: the pending status is not asked for.
ExpireCheckoutAnyway(g) == [g EXCEPT !.pay = "cancelled"]

ExpireCheckout(g) == IF g.pay = "pending" THEN [g EXCEPT !.pay = "cancelled"] ELSE g

\* A total of zero is settled in the submission's own transaction.
SubmitSettled(s) ==
    LET form == subs[s].form IN
    /\ \/ subs[s].pc = "reserved"
       \/ subs[s].pc = "begun" /\ form.code = None /\ ~Due(form)
    /\ groups' = [groups EXCEPT ![s] = SettleCheckout(InsertGroup(form))]
    /\ codes' = IF form.code = None THEN codes ELSE MarkFreeCodeUsed(form.code, s)
    /\ MoveTo(s, "stored")
    /\ UNCHANGED <<sessions, events, deletes, byHand>>

\* The session exists at Stripe before the transaction commits.
CreateCheckoutSession(s) ==
    /\ subs[s].pc = "begun" /\ subs[s].form.code = None /\ Due(subs[s].form)
    /\ sessions' = [sessions EXCEPT ![s] = "open"]
    /\ MoveTo(s, "session")
    /\ UNCHANGED <<codes, groups, events, deletes, byHand>>

\* Faulty: the session's id is not stored with the group.
SetNoCheckoutSession(g) == g

SetCheckoutSession(g) == [g EXCEPT !.session = TRUE]

SubmitPending(s) ==
    /\ subs[s].pc = "session"
    /\ groups' = [groups EXCEPT ![s] = SetCheckoutSession(InsertGroup(subs[s].form))]
    /\ MoveTo(s, "stored")
    /\ UNCHANGED <<codes, sessions, events, deletes, byHand>>

\* A refusal, a code that is not redeemable, a Stripe or database error, or a
\* crash: nothing of the transaction remains, and Stripe's session does.
Rollback(s) ==
    /\ subs[s].pc \in {"begun", "reserved", "session"}
    /\ MoveTo(s, "failed")
    /\ UNCHANGED <<codes, groups, sessions, events, deletes, byHand>>

----------------------------------------------------------------------------
(* Stripe Checkout and its webhooks                                        *)

\* The family has the session's URL only once Submit has committed.
SessionPaid(s) ==
    /\ sessions[s] = "open" /\ subs[s].pc = "stored"
    /\ sessions' = [sessions EXCEPT ![s] = "completed"]
    /\ events' = events \cup {s}
    /\ UNCHANGED <<codes, subs, groups, deletes, byHand>>

\* A session lives for a day, longer than any transaction.
SessionExpires(s) ==
    /\ sessions[s] = "open" /\ subs[s].pc \in {"stored", "failed"}
    /\ sessions' = [sessions EXCEPT ![s] = "expired"]
    /\ events' = events \cup {s}
    /\ UNCHANGED <<codes, subs, groups, deletes, byHand>>

\* GetGroupBySession: by the recorded id, and locked.
Found(s) == Here(s) /\ groups[s].session

\* The 200 may be lost after the transaction, and the event comes again.
Answered(s) == events' \in {events, events \ {s}}

\* Faulty: a transaction that fails is logged and answered with 200.
HandleCheckoutCompletedOrNot(s) ==
    /\ s \in events /\ sessions[s] = "completed" /\ Found(s)
    /\ groups' \in {groups, [groups EXCEPT ![s] = SettleCheckout(@)]}
    /\ Answered(s)
    /\ UNCHANGED <<codes, subs, sessions, deletes, byHand>>

\* A session without a group is an error: the event stays.  One whose group
\* is no longer pending is answered and changes nothing.
HandleCheckoutCompleted(s) ==
    /\ s \in events /\ sessions[s] = "completed" /\ Found(s)
    /\ groups' = [groups EXCEPT ![s] = SettleCheckout(@)]
    /\ Answered(s)
    /\ UNCHANGED <<codes, subs, sessions, deletes, byHand>>

\* A session without a group has nothing to cancel and is answered.
HandleCheckoutExpired(s) ==
    /\ s \in events /\ sessions[s] = "expired"
    /\ groups' = IF Found(s) THEN [groups EXCEPT ![s] = ExpireCheckout(@)] ELSE groups
    /\ Answered(s)
    /\ UNCHANGED <<codes, subs, sessions, deletes, byHand>>

----------------------------------------------------------------------------
(* The administrator                                                       *)

\* Faulty: the status is not parsed (here, one of the billing statuses).
SetPaymentStatusUnparsed(s) ==
    /\ Here(s)
    /\ \E to \in PaymentStatus \cup {"released"} : groups' = [groups EXCEPT ![s].pay = to]
    /\ byHand' = byHand \cup {s}
    /\ UNCHANGED <<codes, subs, sessions, events, deletes>>

\* Any status to any other; the read and the compare-and-set are one step,
\* since a status that changed between them refuses the write.
SetPaymentStatus(s) ==
    /\ Here(s)
    /\ \E to \in PaymentStatus \ {groups[s].pay} :
         groups' = [groups EXCEPT ![s].pay = to]
    /\ byHand' = byHand \cup {s}
    /\ UNCHANGED <<codes, subs, sessions, events, deletes>>

\* DeleteRegistration reads the group, talks to Stripe, and deletes the row
\* later; the payment status may have changed by then.
StartDelete(s) ==
    /\ Here(s) /\ CanDelete(groups[s]) /\ s \notin deletes
    /\ deletes' = deletes \cup {s}
    /\ UNCHANGED <<codes, subs, groups, sessions, events, byHand>>

\* The code stays used and forgets by whom (ON DELETE SET NULL).
DeleteGroup(s) ==
    /\ s \in deletes
    /\ groups' = [groups EXCEPT ![s].st = "deleted"]
    /\ codes' = [c \in FreeCode |-> IF codes[c].by = s THEN [codes[c] EXCEPT !.by = None]
                                                       ELSE codes[c]]
    /\ deletes' = deletes \ {s}
    /\ UNCHANGED <<subs, sessions, events, byHand>>

\* A failed refund or void, a version conflict, or a crash.
AbandonDelete(s) ==
    /\ s \in deletes
    /\ deletes' = deletes \ {s}
    /\ UNCHANGED <<codes, subs, groups, sessions, events, byHand>>

----------------------------------------------------------------------------
SubmitStep(s) ==
    \/ BeginSubmit(s) \/ ReserveFreeCode(s) \/ SubmitSettled(s)
    \/ CreateCheckoutSession(s) \/ SubmitPending(s) \/ Rollback(s)

CheckoutStep(s) ==
    \/ SessionPaid(s) \/ SessionExpires(s)
    \/ HandleCheckoutCompleted(s) \/ HandleCheckoutExpired(s)

AdminStep(s) ==
    \/ SetPaymentStatus(s) \/ StartDelete(s) \/ DeleteGroup(s) \/ AbandonDelete(s)

Next ==
    \/ \E s \in Sub : SubmitStep(s) \/ CheckoutStep(s) \/ AdminStep(s)
    \/ \E c \in FreeCode : GenerateFreeCode(c) \/ RevokeFreeCode(c)

Spec == Init /\ [][Next]_vars

(* Stripe expires a session nobody pays after a day, and delivers an event *)
(* until it is answered.  Nothing obliges a family or an administrator.    *)
Fairness == \A s \in Sub :
    /\ WF_vars(SessionExpires(s))
    /\ WF_vars(HandleCheckoutCompleted(s))
    /\ WF_vars(HandleCheckoutExpired(s))

FairSpec == Spec /\ Fairness

----------------------------------------------------------------------------
Stored(s) == subs[s].pc = "stored"
CodeOf(s) == subs[s].form.code

(* A code sponsors one registration, ever (ReserveFreeCode's row lock and  *)
(* MarkFreeCodeUsed's unguarded UPDATE, with rollbacks in between), and    *)
(* while that registration exists the code's used_by_group_id names it.    *)
CodeRedeemedOnce ==
    \A s \in Sub : Stored(s) /\ CodeOf(s) # None =>
        /\ \A t \in Sub : Stored(t) /\ CodeOf(t) = CodeOf(s) => t = s
        /\ Here(s) => codes[CodeOf(s)].by = s

(* Codes keep what Sponsorship promises: issued, then redeemed by one      *)
(* submission or revoked (free_codes.go), whatever rolls back or is        *)
(* deleted.                                                                *)
Promise == INSTANCE Sponsorship WITH
    issued    <- {c \in FreeCode : codes[c].issued},
    revoked   <- {c \in FreeCode : codes[c].revoked},
    sponsored <- {p \in Sub \X FreeCode : Stored(p[1]) /\ CodeOf(p[1]) = p[2]}
CodesKeepPromise == Promise!Spec

(* A stored group's payment status is what its Checkout session says, as   *)
(* long as no administrator sets it: a pending group has its session on    *)
(* record, open or about to be reported; a paid one was charged, or had    *)
(* nothing to pay, and is settled iff it paid in full; a cancelled one     *)
(* expired (Submit, HandleCheckoutCompleted, HandleCheckoutExpired).       *)
PaymentMatchesCheckout ==
    \A s \in Sub \ byHand : Here(s) =>
        LET g == groups[s]
            form == subs[s].form
        IN
        /\ g.session = (Due(form) /\ form.code = None)
        /\ g.pay = "pending"   => /\ g.session
                                  /\ sessions[s] = "open" \/ s \in events
        /\ g.pay = "paid"      => /\ g.session => sessions[s] = "completed"
                                  /\ g.settled = PaidInFull(form)
        /\ g.pay = "cancelled" => sessions[s] = "expired"

(* A family without a code is asked for what its members cost one by one,  *)
(* however ComputeCharge groups and counts them, and is sent to Stripe     *)
(* exactly if that is something (Submit, computeCharge).                   *)
CheckoutChargesForm ==
    \A s \in Sub : subs[s].pc \in {"session", "stored"} /\ CodeOf(s) = None =>
        LET form == subs[s].form
            cost == FormCost(form.campers, form.full, DepositPence)
        IN /\ TotalPence(ComputeCharge(form.campers, form.full, DepositPence)) = cost
           /\ (sessions[s] # "none") = (cost > 0)

(* A group that counts as paid stops doing so by an administrator's hand   *)
(* only: no late or repeated checkout event cancels it, also when it was   *)
(* marked paid by hand while its session was open.                         *)
PaidUndoneByHandOnly ==
    [][\A s \in Sub :
         (Here(s) /\ groups[s].pay = "paid") /\ (Here(s) /\ groups[s].pay # "paid")'
           => SetPaymentStatus(s)]_vars

(* Every pending registration is decided: paid if its session was, else    *)
(* cancelled, unless an administrator steps in.                            *)
CheckoutDecided ==
    \A s \in Sub : Pending(s) ~>
        \/ ~Here(s) \/ s \in byHand
        \/ groups[s].pay = (IF sessions[s] = "completed" THEN "paid" ELSE "cancelled")
=============================================================================
