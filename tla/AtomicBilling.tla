---------------------------- MODULE AtomicBilling ----------------------------
(***************************************************************************)
(* What billing promises a family, as if every operation were one step:    *)
(* where its balance stands, which balance invoice is on file, and what    *)
(* has become of each deposit billed later.  Billing implements it with    *)
(* calls that read, then ask Stripe, then commit, and that overlap, fail   *)
(* and are repeated in between.                                            *)
(***************************************************************************)
CONSTANTS
    Camper,
    Invoice,
    NoInvoice

VARIABLES
    status,     \* billing_status, or "deleted"
    ref,        \* the balance invoice on file
    deposit     \* camper -> "none", "owed" or "paid"

vars == <<status, ref, deposit>>

Unbilled == {"none", "allocated", "released", "free_confirmed"}
Exists == status # "deleted"

Init ==
    /\ status = "none"
    /\ ref = NoInvoice
    /\ deposit = [c \in Camper |-> "none"]

Place ==
    /\ status \in Unbilled
    /\ status' \in {"none", "allocated"}
    /\ UNCHANGED <<ref, deposit>>

ConfirmFree ==
    /\ status = "allocated"
    /\ status' = "free_confirmed"
    /\ UNCHANGED <<ref, deposit>>

SendInvoice ==
    /\ status \in Unbilled
    /\ status' = "invoiced"
    /\ ref' \in Invoice
    /\ UNCHANGED deposit

(* The balance is settled once, and deposits are paid then or never.       *)
Settle ==
    /\ Exists /\ status # "balance_paid"
    /\ status' = "balance_paid"
    /\ \E S \in SUBSET Camper :
         deposit' = [c \in Camper |-> IF c \in S /\ deposit[c] = "owed" THEN "paid"
                                      ELSE deposit[c]]
    /\ UNCHANGED ref

Release ==
    /\ Exists
    /\ status' = "released"
    /\ ref' = NoInvoice
    /\ UNCHANGED deposit

(* Somebody joins, leaves, moves or changes: an invoice that no longer     *)
(* holds goes with the status, and a deposit may be owed anew or no longer. *)
OweOrWaive(c) ==
    \/ deposit[c] = "none" /\ deposit' = [deposit EXCEPT ![c] = "owed"]
    \/ deposit[c] = "owed" /\ deposit' = [deposit EXCEPT ![c] = "none"]

EditRoster ==
    /\ Exists
    /\ \/ UNCHANGED <<status, ref>>
       \/ /\ status \in {"allocated", "invoiced"}
          /\ status' \in {"none", "allocated"} \ {status}
          /\ ref' = NoInvoice
    /\ UNCHANGED deposit \/ \E c \in Camper : OweOrWaive(c)

Delete ==
    /\ Exists
    /\ status' = "deleted"
    /\ UNCHANGED <<ref, deposit>>

Next ==
    \/ Place \/ ConfirmFree \/ SendInvoice \/ Settle \/ Release \/ EditRoster \/ Delete

Spec == Init /\ [][Next]_vars
=============================================================================
