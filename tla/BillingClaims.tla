---------------------------- MODULE BillingClaims ----------------------------
(***************************************************************************)
(* What comments, the README and the dashboard say of billing that the     *)
(* code does not keep.  Each is the property of a run that TLC refutes;    *)
(* one administrator is enough for all of them.                            *)
(***************************************************************************)
EXTENDS Billing

Live == {"open", "paid"}

(* "Only groups that have not yet been invoiced reach here, so a coach fee *)
(* that is folded is always fresh (never double-charged)": SendInvoice,    *)
(* invoicing/service.go:86-88.  While a group's balance invoice charges    *)
(* the coach, no separate coach invoice of the group can be paid.          *)
CoachFoldedOnce ==
    group.exists /\ group.billing = "invoiced" /\ group.coachIn
      /\ group.coachRef # NoInvoice
        => stripe[group.coachRef].st \notin Live

(* "Any deposit they paid is non-refundable and will be KEPT": the          *)
(* dashboard before it deletes, CampAdminDashboard.tsx:1050; "what lets a   *)
(* delete keep that deposit rather than hand it back inside the balance     *)
(* refund": invoicing/storage/repository.go:141-142.  However often a       *)
(* delete is tried, a deposit paid on an invoice is not refunded.           *)
DepositKeptByDelete ==
    \A i \in Invoice : stripe[i].refunded = "all" =>
        \A c \in stripe[i].deposits : campers[c].paid = 0
=============================================================================
