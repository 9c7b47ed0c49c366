------------------------------ MODULE CamperEdit ------------------------------
(***************************************************************************)
(* internal/billing/camperedit: changing who is in a group.  Every edit    *)
(* that can change what the family owes first voids the open balance       *)
(* invoice in Stripe, then writes the rows and moves the group back to     *)
(* allocated or none.                                                      *)
(***************************************************************************)
EXTENDS BillingStore

(* What is common to the edits that disturb a balance invoice: void it when *)
(* it is open and stale, and move billing as RosterChanged says.            *)
Disturbing(g, rowsAfter, invoiceStale, plan) ==
    [plan EXCEPT
        !.tr   = RosterChangedTr(g, rowsAfter, invoiceStale),
        !.ref  = g.ref,
        !.todo = plan.todo \o If(HasOpenInvoice(g) /\ invoiceStale, "void")]

Others(c) == Rows(campers, Here(campers) \ {c})

(* Write a row of the group, which must still be there.                    *)
RowCommitted(r, g, row) ==
    LET c == reqs[r].plan.target IN Committed(r, g, [campers EXCEPT ![c] = row])

----------------------------------------------------------------------------
BeginRemoveCamper(r) == ~BalanceSettled(group) /\ Begin(r, "remove")

(* Removing the last coach passenger also voids an unpaid separate coach   *)
(* invoice, without insisting.                                             *)
DecideRemoveCamper(r) ==
    /\ Decides(r, "remove")
    /\ LET g == reqs[r].snap IN
       \E c \in Here(campers) :
         /\ CanRemoveCamper(g, campers[c], Cardinality(Here(campers)))
         /\ LET coachless == HasUnpaidCoachInvoice(g) /\ CoachPassengers(campers) \ {c} = {}
                plan == Disturbing(g, Others(c), TRUE,
                          [NoPlan EXCEPT !.target = c, !.coachRef = g.coachRef])
            IN Decided(r, [plan EXCEPT !.todo = @ \o If(coachless, "try_void_coach")])

(* DeleteCamperMeta                                                        *)
CommitRemoveCamper(r) ==
    LET plan == reqs[r].plan
        c    == plan.target
    IN /\ MayCommit(r, "remove", {c})
       /\ campers[c].st = "here"
       /\ RowCommitted(r, StampRoster(group, plan.tr), [campers[c] EXCEPT !.st = "gone"])

----------------------------------------------------------------------------
BeginConvertToDayVisitor(r) ==
    ~group.free /\ ~BalanceSettled(group) /\ Begin(r, "convert")

(* The deposit of a converted camper is credited to the Stripe customer,   *)
(* unless they still owe it.                                               *)
DecideConvertToDayVisitor(r) ==
    /\ Decides(r, "convert")
    /\ LET g == reqs[r].snap IN
       \E c \in Here(campers) :
         /\ CanConvertToDayVisitor(g, campers[c])
         /\ LET credited == /\ g.pay = "paid"
                            /\ campers[c].age >= MinDepositAge
                            /\ campers[c].owed = 0
            IN Decided(r, Disturbing(g, Others(c), TRUE,
                 [NoPlan EXCEPT
                    !.target = c,
                    !.cust   = g.cust,
                    !.row    = [NewRow EXCEPT !.credit = IF credited THEN Deposit ELSE 0],
                    !.todo   = If(credited /\ g.cust = NoCust, "customer")
                               \o If(credited, "credit")]))

(* ConvertCamperToDayPassMeta                                              *)
CommitConvertToDayVisitor(r) ==
    LET plan == reqs[r].plan
        c    == plan.target
    IN /\ MayCommit(r, "convert", {c})
       /\ campers[c].st = "here"
       /\ RowCommitted(r, StampRoster(group, plan.tr),
            [campers[c] EXCEPT !.att = "day_pass", !.coach = FALSE, !.code = NoCode,
                               !.credit = plan.row.credit, !.owed = 0])

----------------------------------------------------------------------------
(* Shirt, catering and diet of a day visitor: nothing the model keeps, but *)
(* the group's version moves.                                              *)
BeginUpdateDayPass(r) == Begin(r, "edit_day_pass")

DecideUpdateDayPass(r) ==
    /\ Decides(r, "edit_day_pass")
    /\ \E c \in Here(campers) :
         /\ ~IsFullWeek(campers[c])
         /\ Decided(r, [NoPlan EXCEPT !.target = c])

CommitUpdateDayPass(r) ==
    LET c == reqs[r].plan.target IN
    /\ MayCommit(r, "edit_day_pass", {c})
    /\ campers[c].st = "here"
    /\ Committed(r, Stamp(group, Keep), campers)

----------------------------------------------------------------------------
BeginUpdateCoach(r) == ~group.coachPaid /\ ~group.coachIn /\ Begin(r, "coach")

(* An unpaid separate coach invoice counts the old passengers: void it and *)
(* forget it.                                                              *)
DecideUpdateCoach(r) ==
    /\ Decides(r, "coach")
    /\ LET g == reqs[r].snap IN
       \E c \in Here(campers) :
         /\ CanChangeCoach(g, campers[c])
         /\ Decided(r, [NoPlan EXCEPT
              !.target     = c,
              !.row        = [NewRow EXCEPT !.coach = ~campers[c].coach],
              !.coachRef   = g.coachRef,
              !.clearCoach = HasUnpaidCoachInvoice(g),
              !.todo       = If(HasUnpaidCoachInvoice(g), "void_coach")])

(* UpdateCamperCoachMeta touches full-week rows only.                      *)
CommitUpdateCoach(r) ==
    LET plan == reqs[r].plan
        c    == plan.target
        g    == Stamp(group, Keep)
    IN /\ MayCommit(r, "coach", {c})
       /\ campers[c].st = "here" /\ IsFullWeek(campers[c])
       /\ RowCommitted(r, IF plan.clearCoach THEN [g EXCEPT !.coachRef = NoInvoice] ELSE g,
                       [campers[c] EXCEPT !.coach = plan.row.coach])

----------------------------------------------------------------------------
BeginEditCamper(r) == Begin(r, "edit")

(* An edit replaces the age and, for a full-week camper, the placement.  It *)
(* is a repricing when the Stripe Price changes or the new age turns them   *)
(* into a coach passenger, or out of one.                                   *)
\* Faulty: only the coach counts.
RepricedByCoach(g, old, new) ==
    IsFullWeek(old) /\ CoachEligible(old) # CoachEligible([old EXCEPT !.age = new.age])
Repriced(g, old, new) ==
    IsFullWeek(old) /\
      \/ PriceFor(old.code, old.age, g.free) # PriceFor(new.code, new.age, g.free)
      \/ CoachEligible(old) # CoachEligible([old EXCEPT !.age = new.age])

DecideEditCamper(r) ==
    /\ Decides(r, "edit")
    /\ LET g == reqs[r].snap IN
       \E c \in Here(campers), age \in Age, code \in Code \cup {NoCode} :
         LET old == campers[c]
             new == [old EXCEPT !.age = age, !.code = code]
         IN /\ IF IsFullWeek(old) THEN ChildTierAllowed(code, age) ELSE code = NoCode
            /\ CheckReprice(g, Repriced(g, old, new))
            /\ Decided(r, Disturbing(g, Others(c) \cup {new}, Repriced(g, old, new),
                 [NoPlan EXCEPT !.target = c,
                                !.row = [NewRow EXCEPT !.age = age, !.code = code]]))

(* UpdateCamperDetailsMeta keeps the placement of a day visitor.           *)
CommitEditCamper(r) ==
    LET plan == reqs[r].plan
        c    == plan.target
        code == IF IsFullWeek(campers[c]) THEN plan.row.code ELSE campers[c].code
    IN /\ MayCommit(r, "edit", {c})
       /\ campers[c].st = "here"
       /\ RowCommitted(r, StampRoster(group, plan.tr),
                       [campers[c] EXCEPT !.age = plan.row.age, !.code = code])

----------------------------------------------------------------------------
(* Somebody joins after the group's deposit checkout: a full-week camper of *)
(* depositable age owes a deposit, which the next balance invoice bills.    *)
BeginAddCamper(r) == CanAddCamper(group) /\ Begin(r, "add")

DecideAddCamper(r) ==
    /\ Decides(r, "add")
    /\ \E p \in Profile :
         LET owes == p.att = "full_week" /\ p.age >= MinDepositAge
             row  == [NewRow EXCEPT !.st = "here", !.att = p.att, !.age = p.age,
                                    !.coach = p.coach, !.owed = IF owes THEN Deposit ELSE 0]
         IN Decided(r, Disturbing(reqs[r].snap, Rows(campers, Here(campers)) \cup {row},
                                  TRUE, [NoPlan EXCEPT !.row = row]))

(* AddCamperMeta; the id is minted by the insert.                          *)
CommitAddCamper(r) ==
    LET plan == reqs[r].plan IN
    /\ MayCommit(r, "add", {})
    /\ \E c \in Camper :
         /\ campers[c].st = "new"
         /\ Committed(r, StampRoster(group, plan.tr), [campers EXCEPT ![c] = plan.row])

----------------------------------------------------------------------------
BeginMakeMainContact(r) == Begin(r, "main_contact")

DecideMakeMainContact(r) ==
    /\ Decides(r, "main_contact")
    /\ \E c \in Here(campers) :
         /\ ~campers[c].main
         /\ Decided(r, [NoPlan EXCEPT !.target = c])

(* SetMainContactMeta sets the marker of every row to "is it the target";  *)
(* it fails only when the group has no rows at all.                        *)
CommitMakeMainContact(r) ==
    /\ MayCommit(r, "main_contact", Here(campers))
    /\ Here(campers) # {}
    /\ Committed(r, Stamp(group, Keep),
         [c \in Camper |-> IF c \in Here(campers)
                           THEN [campers[c] EXCEPT !.main = (c = reqs[r].plan.target)]
                           ELSE campers[c]])

----------------------------------------------------------------------------
BeginWaiveDeposit(r) == CanWaiveCamperDeposit(group) /\ Begin(r, "waive_deposit")

DecideWaiveDeposit(r) ==
    /\ Decides(r, "waive_deposit")
    /\ \E c \in Owing(campers) : Decided(r, [NoPlan EXCEPT !.target = c])

(* WaiveCamperDepositMeta leaves an open balance invoice as it is.         *)
CommitWaiveDeposit(r) ==
    LET c == reqs[r].plan.target IN
    /\ MayCommit(r, "waive_deposit", {c})
    /\ campers[c].st = "here"
    /\ RowCommitted(r, Stamp(group, Keep), [campers[c] EXCEPT !.owed = 0])

CamperEditStep(r) ==
    \/ BeginRemoveCamper(r)        \/ DecideRemoveCamper(r)        \/ CommitRemoveCamper(r)
    \/ BeginConvertToDayVisitor(r) \/ DecideConvertToDayVisitor(r)
    \/ CommitConvertToDayVisitor(r)
    \/ BeginUpdateDayPass(r)       \/ DecideUpdateDayPass(r)       \/ CommitUpdateDayPass(r)
    \/ BeginUpdateCoach(r)         \/ DecideUpdateCoach(r)         \/ CommitUpdateCoach(r)
    \/ BeginEditCamper(r)          \/ DecideEditCamper(r)          \/ CommitEditCamper(r)
    \/ BeginAddCamper(r)           \/ DecideAddCamper(r)           \/ CommitAddCamper(r)
    \/ BeginMakeMainContact(r)     \/ DecideMakeMainContact(r)     \/ CommitMakeMainContact(r)
    \/ BeginWaiveDeposit(r)        \/ DecideWaiveDeposit(r)        \/ CommitWaiveDeposit(r)
=============================================================================
