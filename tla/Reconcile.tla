------------------------------ MODULE Reconcile ------------------------------
(***************************************************************************)
(* internal/billing/reconcile and the webhook handler in front of it.      *)
(* Stripe delivers invoice.paid until the handler answers 200, and may     *)
(* deliver it again while an earlier delivery is still being handled, or   *)
(* after it was handled and the answer was lost.                           *)
(*                                                                         *)
(* The handler trusts the event: it looks the group up by the group_id in  *)
(* the invoice's metadata and does not ask whether the invoice is the one  *)
(* the group is waiting for.                                               *)
(***************************************************************************)
EXTENDS BillingStore

Acknowledge(i) == events' \in {events, events \ {i}}

\* Faulty: a payment nobody waits for is dismissed.
NotAwaited(i) ==
    IF stripe[i].kind = "balance" THEN group.billing # "invoiced" ELSE group.coachPaid
AlreadySettled(i) ==
    IF stripe[i].kind = "balance" THEN BalanceSettled(group) ELSE group.coachPaid

(* HandleInvoicePaid and HandleCoachInvoicePaid read the group.  A deleted *)
(* group is an error and the event stays; a settled one is acknowledged.   *)
DeliverEvent(h, i) ==
    /\ i \in events
    /\ hooks[h] = NoHook
    /\ group.exists
    /\ IF AlreadySettled(i)
       THEN /\ Acknowledge(i)
            /\ UNCHANGED hooks
       ELSE /\ hooks' = [hooks EXCEPT ![h] =
                 [NoHook EXCEPT !.pc = "read", !.inv = i,
                     !.tr = IF stripe[i].kind = "balance" THEN SettleBalanceTr(group)
                                                          ELSE Keep]]
            /\ UNCHANGED events
    /\ UNCHANGED <<db, stripe, credits, reqs>>

\* Faulty: the deposits are settled in a transaction of their own.
SettleOwedDepositsAtOnce(h) ==
    /\ hooks[h].pc = "read"
    /\ stripe[hooks[h].inv].kind = "balance"
    /\ Unlocked(Owing(campers))
    /\ campers' = SettleDeposits(campers, Owing(campers))
    /\ hooks' = [hooks EXCEPT ![h].pc = "locked"]
    /\ UNCHANGED <<group, external, reqs>>
(* MarkBalancePaid without a version takes no lock on the group before it  *)
(* updates the camper rows it can see; it holds those rows until it ends.  *)
SettleOwedDeposits(h) ==
    /\ hooks[h].pc = "read"
    /\ stripe[hooks[h].inv].kind = "balance"
    /\ Unlocked(Owing(campers))
    /\ hooks' = [hooks EXCEPT ![h].pc = "locked", ![h].rows = Owing(campers)]
    /\ UNCHANGED <<db, external, reqs>>

\* Faulty: the settlement does not move the version.
CommitBalancePaidSilently(h) ==
    /\ hooks[h].pc = "locked"
    /\ group.exists
    /\ group.billing = hooks[h].tr.from
    /\ group' = [group EXCEPT !.billing = hooks[h].tr.to]
    /\ campers' = SettleDeposits(campers, hooks[h].rows)
    /\ Acknowledge(hooks[h].inv)
    /\ hooks' = [hooks EXCEPT ![h] = NoHook]
    /\ UNCHANGED <<stripe, credits, reqs>>
(* The stamp is the compare-and-set from the status the delivery has read. *)
CommitBalancePaid(h) ==
    /\ hooks[h].pc = "locked"
    /\ group.exists
    /\ group.billing = hooks[h].tr.from
    /\ group' = Stamp(group, hooks[h].tr)
    /\ campers' = SettleDeposits(campers, hooks[h].rows)
    /\ Acknowledge(hooks[h].inv)
    /\ hooks' = [hooks EXCEPT ![h] = NoHook]
    /\ UNCHANGED <<stripe, credits, reqs>>

(* MarkCoachFeePaidMeta                                                    *)
CommitCoachFeePaid(h) ==
    /\ hooks[h].pc = "read"
    /\ stripe[hooks[h].inv].kind = "coach"
    /\ group.exists
    /\ group' = [Stamp(group, Keep) EXCEPT !.coachPaid = TRUE]
    /\ Acknowledge(hooks[h].inv)
    /\ hooks' = [hooks EXCEPT ![h] = NoHook]
    /\ UNCHANGED <<campers, stripe, credits, reqs>>

(* A lost compare-and-set, a deleted group, a deadlock victim, a crash: the *)
(* answer is an error or none, the transaction rolls back, and Stripe tries *)
(* again (an administrator need not).                                       *)
DeliveryFails(h) ==
    /\ hooks[h] # NoHook
    /\ hooks' = [hooks EXCEPT ![h] = NoHook]
    /\ UNCHANGED <<db, external, reqs>>

ReconcileStep(h) ==
    \/ \E i \in Invoice : DeliverEvent(h, i)
    \/ SettleOwedDeposits(h)
    \/ CommitBalancePaid(h)
    \/ CommitCoachFeePaid(h)
    \/ DeliveryFails(h)
=============================================================================
