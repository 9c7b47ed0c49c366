----------------------------- MODULE Allocation -----------------------------
(***************************************************************************)
(* internal/billing/allocation and internal/billing/sweep: placing a group *)
(* in accommodation, taking the placement back, confirming a sponsored     *)
(* group, and releasing a group by hand or when its invoice is overdue.    *)
(***************************************************************************)
EXTENDS BillingStore

(* Allocate: every full-week camper of the group needs a tier, entries for *)
(* day visitors are ignored, and the tier is whatever the White Team says  *)
(* (the child tier's age limit is not checked here).                       *)
BeginAllocate(r) == CanAllocate(group) /\ Begin(r, "allocate")

DecideAllocate(r) ==
    /\ Decides(r, "allocate")
    /\ \E codes \in [FullWeek(campers) -> Code] :
         Decided(r, [NoPlan EXCEPT
             !.tr = AllocateTr(reqs[r].snap),
             !.codes = [c \in Camper |->
                          IF c \in FullWeek(campers) THEN codes[c] ELSE NoCode]])

(* AllocateGroup fails when a camper it places has left the group.         *)
CommitAllocate(r) ==
    LET plan   == reqs[r].plan
        placed == {c \in Camper : plan.codes[c] # NoCode}
    IN /\ MayCommit(r, "allocate", placed)
       /\ placed \subseteq Here(campers)
       /\ Committed(r, Stamp(group, plan.tr),
            [c \in Camper |-> IF c \in placed
                              THEN [campers[c] EXCEPT !.code = plan.codes[c]]
                              ELSE campers[c]])

BeginUnallocate(r) ==
    /\ CanUnallocate(group)
    /\ BeginDecided(r, "unallocate", [NoPlan EXCEPT !.tr = UnallocateTr(group)])

CommitUnallocate(r) ==
    /\ MayCommit(r, "unallocate", Here(campers))
    /\ Committed(r, Stamp(group, reqs[r].plan.tr), Unplace(campers, Here(campers)))

BeginConfirmFree(r) ==
    /\ CanConfirmSponsorship(group)
    /\ BeginDecided(r, "confirm_free", [NoPlan EXCEPT !.tr = ConfirmSponsorshipTr(group)])

CommitConfirmFree(r) ==
    /\ MayCommit(r, "confirm_free", {})
    /\ Committed(r, Stamp(group, reqs[r].plan.tr), campers)

(* VoidAndRelease takes a group in any status; the void of its invoice may *)
(* fail and is only logged.                                                *)
ReleasePlan(g) ==
    [NoPlan EXCEPT !.tr   = ReleaseTr(g),
                   !.ref  = g.ref,
                   !.todo = If(HasOpenInvoice(g), "try_void")]

BeginRelease(r) ==
    \E op \in {"release", "cancel"} : BeginDecided(r, op, ReleasePlan(group))

(* ClearInvoiceAndReleaseMeta                                              *)
CommitRelease(r) ==
    \E op \in {"release", "cancel", "sweep"} :
      /\ MayCommit(r, op, Here(campers))
      /\ Committed(r, ClearInvoice(Stamp(group, reqs[r].plan.tr)),
                      Unplace(campers, Here(campers)))

(* SweepOverdue lists the overdue groups, then releases each as it finds    *)
(* it: VoidAndRelease reads the group again and does not ask whether it is  *)
(* still overdue.                                                           *)
SweepList(r) ==
    /\ MayBegin(r, "sweep")
    /\ group.billing = "invoiced" /\ group.due = "past"
    /\ reqs' = [reqs EXCEPT ![r] = [Idle EXCEPT !.pc = "listed", !.op = "sweep"]]
    /\ UNCHANGED <<db, external, hooks>>

SweepRelease(r) ==
    /\ reqs[r].pc = "listed"
    /\ group.exists
    /\ Decided(r, ReleasePlan(group))

(* The due date of the open invoice passes.                                *)
DueDatePasses ==
    /\ group.due = "future"
    /\ group' = [group EXCEPT !.due = "past"]
    /\ UNCHANGED <<campers, external, reqs, hooks>>

AllocationStep(r) ==
    \/ BeginAllocate(r)    \/ DecideAllocate(r)   \/ CommitAllocate(r)
    \/ BeginUnallocate(r)  \/ CommitUnallocate(r)
    \/ BeginConfirmFree(r) \/ CommitConfirmFree(r)
    \/ BeginRelease(r)     \/ CommitRelease(r)
    \/ SweepList(r)        \/ SweepRelease(r)
=============================================================================
