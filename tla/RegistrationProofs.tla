------------------------- MODULE RegistrationProofs -------------------------
(***************************************************************************)
(* For any number of submissions and sponsorship codes: the types, a code  *)
(* redeemed once, codes that keep the promise of Sponsorship, a payment    *)
(* status that matches the Checkout session, a Checkout session exactly    *)
(* for what costs something, and a paid group that stays paid.             *)
(***************************************************************************)
EXTENDS Registration, ChargeProofs

(* A reservation holds a redeemable code for itself, and what was stored   *)
(* with a code has used it up.                                             *)
Reserved(s) == subs[s].pc = "reserved"

CodesInv ==
    /\ \A s \in Sub : Reserved(s) =>
         /\ CodeOf(s) \in FreeCode
         /\ Redeemable(CodeOf(s))
         /\ \A t \in Sub : Reserved(t) /\ CodeOf(t) = CodeOf(s) => t = s
    /\ \A s \in Sub : Stored(s) /\ CodeOf(s) # None =>
         codes[CodeOf(s)].issued /\ codes[CodeOf(s)].used /\ ~codes[CodeOf(s)].revoked

(* How far a submission is, what its group and its session may be.         *)
IntakeInv == \A s \in Sub :
    /\ Stored(s) <=> groups[s].st # "none"
    /\ subs[s].pc \in {"new", "begun", "reserved"} => sessions[s] = "none"
    /\ subs[s].pc = "session" =>
         sessions[s] = "open" /\ Due(subs[s].form) /\ CodeOf(s) = None
    /\ s \in events => sessions[s] \in {"completed", "expired"}
    /\ s \in deletes => Here(s)
    /\ s \in byHand => Stored(s)

(* What a checkout that nobody overrode finds in the group.                *)
CheckoutInv == \A s \in Sub \ byHand : Here(s) =>
    /\ groups[s].pif = PaidInFull(subs[s].form)
    /\ groups[s].pay = "pending" => ~groups[s].settled

(* Once begun, a submission has a form that came in; once it is stored, it *)
(* has a session exactly if there was something to pay and nobody else to  *)
(* pay it.                                                                 *)
SessionInv == \A s \in Sub :
    /\ subs[s].pc # "new" => subs[s].form.campers \in Roster
    /\ Stored(s) => (sessions[s] # "none" <=> Due(subs[s].form) /\ CodeOf(s) = None)

IInv ==
    /\ TypeOK
    /\ CodesInv /\ CodeRedeemedOnce
    /\ IntakeInv /\ SessionInv
    /\ CheckoutInv /\ PaymentMatchesCheckout

----------------------------------------------------------------------------
(* What the helpers of Registration return.                                *)

LEMMA NewGroupTyped == NewGroup \in Group
  BY DEF NewGroup, Group, PaymentStatus

LEMMA InsertedGroup ==
  ASSUME NEW form \in Form
  PROVE  LET g == InsertGroup(form) IN
         /\ g \in Group
         /\ g.st = "here" /\ g.pay = "pending" /\ g.settled = FALSE /\ g.session = FALSE
         /\ g.pif = PaidInFull(form)
  BY DEF InsertGroup, NewGroup, PaidInFull, Form, Group, PaymentStatus

LEMMA SettledGroup ==
  ASSUME NEW g \in Group
  PROVE  LET h == SettleCheckout(g) IN
         /\ h \in Group
         /\ h.st = g.st /\ h.session = g.session /\ h.pif = g.pif
         /\ g.pay # "pending" => h = g
         /\ g.pay = "pending" => h.pay = "paid" /\ h.settled = (g.settled \/ g.pif)
  BY DEF SettleCheckout, Group, PaymentStatus

LEMMA ExpiredGroup ==
  ASSUME NEW g \in Group
  PROVE  LET h == ExpireCheckout(g) IN
         /\ h \in Group
         /\ h.st = g.st /\ h.session = g.session /\ h.pif = g.pif
         /\ h.settled = g.settled
         /\ h.pay = IF g.pay = "pending" THEN "cancelled" ELSE g.pay
  BY DEF ExpireCheckout, Group, PaymentStatus

LEMMA LinkedGroup ==
  ASSUME NEW g \in Group
  PROVE  LET h == SetCheckoutSession(g) IN
         /\ h \in Group
         /\ h.session
         /\ h.st = g.st /\ h.pay = g.pay /\ h.pif = g.pif /\ h.settled = g.settled
  BY DEF SetCheckoutSession, Group, PaymentStatus

LEMMA UpdatedCode ==
  ASSUME NEW row \in CodeRow
  PROVE  /\ [row EXCEPT !.issued = TRUE] \in CodeRow
         /\ [row EXCEPT !.revoked = TRUE] \in CodeRow
         /\ [row EXCEPT !.by = None] \in CodeRow
  BY DEF CodeRow

LEMMA MarkedCodes ==
  ASSUME codes \in [FreeCode -> CodeRow], NEW c \in FreeCode, NEW s \in Sub
  PROVE  LET rows == MarkFreeCodeUsed(c, s) IN
         /\ rows \in [FreeCode -> CodeRow]
         /\ \A d \in FreeCode : rows[d].issued = codes[d].issued
                             /\ rows[d].revoked = codes[d].revoked
         /\ rows[c].used /\ rows[c].by = s
         /\ \A d \in FreeCode \ {c} : rows[d] = codes[d]
  BY DEF MarkFreeCodeUsed, CodeRow

----------------------------------------------------------------------------
(* Every action keeps each part of the invariant.                          *)

LEMMA TypeStep == TypeOK /\ [Next]_vars => TypeOK'
<1> SUFFICES ASSUME TypeOK, [Next]_vars PROVE TypeOK'
  OBVIOUS
<1> USE RegistrationAssumption DEF TypeOK, Submitting
<1>1. ASSUME NEW s \in Sub, BeginSubmit(s) PROVE TypeOK'
  BY <1>1 DEF BeginSubmit
<1>2. ASSUME NEW s \in Sub, ReserveFreeCode(s) PROVE TypeOK'
  BY <1>2 DEF ReserveFreeCode, MoveTo
<1>3. ASSUME NEW s \in Sub, SubmitSettled(s) PROVE TypeOK'
  <2> DEFINE form == subs[s].form
             g == InsertGroup(form)
  <2>1. form \in Form /\ SettleCheckout(g) \in Group
    BY InsertedGroup, SettledGroup
  <2>2. CASE form.code = None
    BY <1>3, <2>1, <2>2 DEF SubmitSettled, MoveTo
  <2>3. CASE form.code # None
    <3>1. form.code \in FreeCode
      BY <2>1, <2>3 DEF Form
    <3>2. MarkFreeCodeUsed(form.code, s) \in [FreeCode -> CodeRow]
      BY <3>1, MarkedCodes
    <3> QED
      BY <1>3, <2>1, <2>3, <3>2 DEF SubmitSettled, MoveTo
  <2> QED
    BY <2>2, <2>3
<1>4. ASSUME NEW s \in Sub, CreateCheckoutSession(s) PROVE TypeOK'
  BY <1>4 DEF CreateCheckoutSession, MoveTo
<1>5. ASSUME NEW s \in Sub, SubmitPending(s) PROVE TypeOK'
  <2>1. SetCheckoutSession(InsertGroup(subs[s].form)) \in Group
    BY InsertedGroup, LinkedGroup
  <2> QED
    BY <1>5, <2>1 DEF SubmitPending, MoveTo
<1>6. ASSUME NEW s \in Sub, Rollback(s) PROVE TypeOK'
  BY <1>6 DEF Rollback, MoveTo
<1>7. ASSUME NEW s \in Sub, SessionPaid(s) PROVE TypeOK'
  BY <1>7 DEF SessionPaid
<1>8. ASSUME NEW s \in Sub, SessionExpires(s) PROVE TypeOK'
  BY <1>8 DEF SessionExpires
<1>9. ASSUME NEW s \in Sub, HandleCheckoutCompleted(s) PROVE TypeOK'
  <2>1. SettleCheckout(groups[s]) \in Group
    BY SettledGroup
  <2> QED
    BY <1>9, <2>1 DEF HandleCheckoutCompleted, Answered
<1>10. ASSUME NEW s \in Sub, HandleCheckoutExpired(s) PROVE TypeOK'
  <2>1. ExpireCheckout(groups[s]) \in Group
    BY ExpiredGroup
  <2> QED
    BY <1>10, <2>1 DEF HandleCheckoutExpired, Answered
<1>11. ASSUME NEW s \in Sub, SetPaymentStatus(s) PROVE TypeOK'
  <2>1. \A to \in PaymentStatus : [groups[s] EXCEPT !.pay = to] \in Group
    BY DEF Group
  <2> QED
    BY <1>11, <2>1 DEF SetPaymentStatus
<1>12. ASSUME NEW s \in Sub, StartDelete(s) PROVE TypeOK'
  BY <1>12 DEF StartDelete
<1>13. ASSUME NEW s \in Sub, DeleteGroup(s) PROVE TypeOK'
  <2>1. [groups[s] EXCEPT !.st = "deleted"] \in Group
    BY DEF Group
  <2>2. \A c \in FreeCode : [codes[c] EXCEPT !.by = None] \in CodeRow
    BY UpdatedCode
  <2> QED
    BY <1>13, <2>1, <2>2 DEF DeleteGroup
<1>14. ASSUME NEW s \in Sub, AbandonDelete(s) PROVE TypeOK'
  BY <1>14 DEF AbandonDelete
<1>15. ASSUME NEW c \in FreeCode, GenerateFreeCode(c) PROVE TypeOK'
  <2>1. [codes[c] EXCEPT !.issued = TRUE] \in CodeRow
    BY UpdatedCode
  <2> QED
    BY <1>15, <2>1 DEF GenerateFreeCode
<1>16. ASSUME NEW c \in FreeCode, RevokeFreeCode(c) PROVE TypeOK'
  <2>1. [codes[c] EXCEPT !.revoked = TRUE] \in CodeRow
    BY UpdatedCode
  <2> QED
    BY <1>16, <2>1 DEF RevokeFreeCode
<1>17. CASE UNCHANGED vars
  BY <1>17 DEF vars
<1> QED
  BY <1>1, <1>2, <1>3, <1>4, <1>5, <1>6, <1>7, <1>8, <1>9,
     <1>10, <1>11, <1>12, <1>13, <1>14, <1>15, <1>16, <1>17
     DEF Next, SubmitStep, CheckoutStep, AdminStep

LEMMA CodesStep == IInv /\ [Next]_vars => CodesInv' /\ CodeRedeemedOnce'
<1> SUFFICES ASSUME IInv, [Next]_vars PROVE CodesInv' /\ CodeRedeemedOnce'
  OBVIOUS
<1> USE RegistrationAssumption DEF
        IInv, TypeOK, CodeRow, Form, Submitting, Group, CodesInv,
        CodeRedeemedOnce, IntakeInv, Reserved, Stored, CodeOf, Here,
        Redeemable
<1>1. ASSUME NEW s \in Sub, BeginSubmit(s) PROVE CodesInv' /\ CodeRedeemedOnce'
  BY <1>1 DEF BeginSubmit
<1>2. ASSUME NEW s \in Sub, ReserveFreeCode(s) PROVE CodesInv' /\ CodeRedeemedOnce'
  BY <1>2 DEF ReserveFreeCode, MoveTo, Redeemable, Locked
<1>3. ASSUME NEW s \in Sub, SubmitSettled(s) PROVE CodesInv' /\ CodeRedeemedOnce'
  <2> DEFINE form == subs[s].form
  <2>1. /\ \A t \in Sub : CodeOf(t)' = CodeOf(t)
        /\ \A t \in Sub : Reserved(t)' => Reserved(t) /\ t # s
        /\ \A t \in Sub : Stored(t)' => Stored(t) \/ t = s
    BY <1>3 DEF SubmitSettled, MoveTo
  <2>2. CASE form.code = None
    BY <1>3, <2>1, <2>2 DEF SubmitSettled
  <2>3. CASE form.code # None
    <3>1. Reserved(s) /\ form.code \in FreeCode /\ Redeemable(form.code)
      BY <1>3, <2>3 DEF SubmitSettled
    <3>2. codes' = MarkFreeCodeUsed(form.code, s)
      BY <1>3, <2>3 DEF SubmitSettled
    <3>3. /\ \A d \in FreeCode : codes'[d].issued = codes[d].issued
                             /\ codes'[d].revoked = codes[d].revoked
          /\ codes'[form.code].used /\ codes'[form.code].by = s
          /\ \A d \in FreeCode \ {form.code} : codes'[d] = codes[d]
      BY <3>1, <3>2, MarkedCodes
    <3>4. \A t \in Sub : Stored(t) => CodeOf(t) # form.code
      BY <3>1, <2>3
    <3>5. \A t \in Sub : Reserved(t) /\ t # s => CodeOf(t) # form.code
      BY <3>1
    <3>6. \A t \in Sub \ {s} : groups'[t] = groups[t]
      BY <1>3 DEF SubmitSettled
    <3>7. CodesInv'
      BY <2>1, <3>1, <3>3, <3>4, <3>5
    <3>8. CodeRedeemedOnce'
      BY <2>1, <3>1, <3>3, <3>4, <3>6
    <3> QED
      BY <3>7, <3>8
  <2> QED
    BY <2>2, <2>3
<1>4. ASSUME NEW s \in Sub, CreateCheckoutSession(s) PROVE CodesInv' /\ CodeRedeemedOnce'
  BY <1>4 DEF CreateCheckoutSession, MoveTo
<1>5. ASSUME NEW s \in Sub, SubmitPending(s) PROVE CodesInv' /\ CodeRedeemedOnce'
  BY <1>5 DEF SubmitPending, MoveTo, SetCheckoutSession, InsertGroup, NewGroup, PaidInFull
<1>6. ASSUME NEW s \in Sub, Rollback(s) PROVE CodesInv' /\ CodeRedeemedOnce'
  BY <1>6 DEF Rollback, MoveTo
<1>7. ASSUME NEW s \in Sub, SessionPaid(s) PROVE CodesInv' /\ CodeRedeemedOnce'
  BY <1>7 DEF SessionPaid
<1>8. ASSUME NEW s \in Sub, SessionExpires(s) PROVE CodesInv' /\ CodeRedeemedOnce'
  BY <1>8 DEF SessionExpires
<1>9. ASSUME NEW s \in Sub, HandleCheckoutCompleted(s) PROVE CodesInv' /\ CodeRedeemedOnce'
  BY <1>9 DEF HandleCheckoutCompleted, SettleCheckout, Answered, Found
<1>10. ASSUME NEW s \in Sub, HandleCheckoutExpired(s) PROVE CodesInv' /\ CodeRedeemedOnce'
  BY <1>10 DEF HandleCheckoutExpired, ExpireCheckout, Answered, Found
<1>11. ASSUME NEW s \in Sub, SetPaymentStatus(s) PROVE CodesInv' /\ CodeRedeemedOnce'
  BY <1>11 DEF SetPaymentStatus
<1>12. ASSUME NEW s \in Sub, StartDelete(s) PROVE CodesInv' /\ CodeRedeemedOnce'
  BY <1>12 DEF StartDelete
<1>13. ASSUME NEW s \in Sub, DeleteGroup(s) PROVE CodesInv' /\ CodeRedeemedOnce'
  BY <1>13 DEF DeleteGroup
<1>14. ASSUME NEW s \in Sub, AbandonDelete(s) PROVE CodesInv' /\ CodeRedeemedOnce'
  BY <1>14 DEF AbandonDelete
<1>15. ASSUME NEW c \in FreeCode, GenerateFreeCode(c) PROVE CodesInv' /\ CodeRedeemedOnce'
  BY <1>15 DEF GenerateFreeCode
<1>16. ASSUME NEW c \in FreeCode, RevokeFreeCode(c) PROVE CodesInv' /\ CodeRedeemedOnce'
  BY <1>16 DEF RevokeFreeCode, Locked
<1>17. CASE UNCHANGED vars
  BY <1>17 DEF vars
<1> QED
  BY <1>1, <1>2, <1>3, <1>4, <1>5, <1>6, <1>7, <1>8, <1>9,
     <1>10, <1>11, <1>12, <1>13, <1>14, <1>15, <1>16, <1>17
     DEF Next, SubmitStep, CheckoutStep, AdminStep

LEMMA IntakeStep == IInv /\ [Next]_vars => IntakeInv'
<1> SUFFICES ASSUME IInv, [Next]_vars PROVE IntakeInv'
  OBVIOUS
<1> USE RegistrationAssumption DEF
        IInv, TypeOK, Form, Submitting, Group, CodesInv, IntakeInv, Reserved,
        Stored, CodeOf, Here
<1>1. ASSUME NEW s \in Sub, BeginSubmit(s) PROVE IntakeInv'
  BY <1>1 DEF BeginSubmit
<1>2. ASSUME NEW s \in Sub, ReserveFreeCode(s) PROVE IntakeInv'
  BY <1>2 DEF ReserveFreeCode, MoveTo
<1>3. ASSUME NEW s \in Sub, SubmitSettled(s) PROVE IntakeInv'
  BY <1>3
     DEF SubmitSettled, MoveTo, SettleCheckout, InsertGroup, NewGroup, MarkFreeCodeUsed,
         PaidInFull
<1>4. ASSUME NEW s \in Sub, CreateCheckoutSession(s) PROVE IntakeInv'
  BY <1>4 DEF CreateCheckoutSession, MoveTo
<1>5. ASSUME NEW s \in Sub, SubmitPending(s) PROVE IntakeInv'
  BY <1>5 DEF SubmitPending, MoveTo, SetCheckoutSession, InsertGroup, NewGroup, PaidInFull
<1>6. ASSUME NEW s \in Sub, Rollback(s) PROVE IntakeInv'
  BY <1>6 DEF Rollback, MoveTo
<1>7. ASSUME NEW s \in Sub, SessionPaid(s) PROVE IntakeInv'
  BY <1>7 DEF SessionPaid
<1>8. ASSUME NEW s \in Sub, SessionExpires(s) PROVE IntakeInv'
  BY <1>8 DEF SessionExpires
<1>9. ASSUME NEW s \in Sub, HandleCheckoutCompleted(s) PROVE IntakeInv'
  BY <1>9 DEF HandleCheckoutCompleted, SettleCheckout, Answered, Found
<1>10. ASSUME NEW s \in Sub, HandleCheckoutExpired(s) PROVE IntakeInv'
  BY <1>10 DEF HandleCheckoutExpired, ExpireCheckout, Answered, Found
<1>11. ASSUME NEW s \in Sub, SetPaymentStatus(s) PROVE IntakeInv'
  BY <1>11 DEF SetPaymentStatus
<1>12. ASSUME NEW s \in Sub, StartDelete(s) PROVE IntakeInv'
  BY <1>12 DEF StartDelete
<1>13. ASSUME NEW s \in Sub, DeleteGroup(s) PROVE IntakeInv'
  BY <1>13 DEF DeleteGroup
<1>14. ASSUME NEW s \in Sub, AbandonDelete(s) PROVE IntakeInv'
  BY <1>14 DEF AbandonDelete
<1>15. ASSUME NEW c \in FreeCode, GenerateFreeCode(c) PROVE IntakeInv'
  BY <1>15 DEF GenerateFreeCode
<1>16. ASSUME NEW c \in FreeCode, RevokeFreeCode(c) PROVE IntakeInv'
  BY <1>16 DEF RevokeFreeCode
<1>17. CASE UNCHANGED vars
  BY <1>17 DEF vars
<1> QED
  BY <1>1, <1>2, <1>3, <1>4, <1>5, <1>6, <1>7, <1>8, <1>9,
     <1>10, <1>11, <1>12, <1>13, <1>14, <1>15, <1>16, <1>17
     DEF Next, SubmitStep, CheckoutStep, AdminStep

LEMMA SessionStep == IInv /\ [Next]_vars => SessionInv'
<1> SUFFICES ASSUME IInv, [Next]_vars PROVE SessionInv'
  OBVIOUS
<1> USE RegistrationAssumption DEF
        IInv, TypeOK, Form, Submitting, CodesInv, IntakeInv, SessionInv, Reserved,
        Stored, CodeOf
<1>1. ASSUME NEW s \in Sub, BeginSubmit(s) PROVE SessionInv'
  BY <1>1 DEF BeginSubmit
<1>2. ASSUME NEW s \in Sub, ReserveFreeCode(s) PROVE SessionInv'
  BY <1>2 DEF ReserveFreeCode, MoveTo
<1>3. ASSUME NEW s \in Sub, SubmitSettled(s) PROVE SessionInv'
  BY <1>3 DEF SubmitSettled, MoveTo
<1>4. ASSUME NEW s \in Sub, CreateCheckoutSession(s) PROVE SessionInv'
  BY <1>4 DEF CreateCheckoutSession, MoveTo
<1>5. ASSUME NEW s \in Sub, SubmitPending(s) PROVE SessionInv'
  BY <1>5 DEF SubmitPending, MoveTo
<1>6. ASSUME NEW s \in Sub, Rollback(s) PROVE SessionInv'
  BY <1>6 DEF Rollback, MoveTo
<1>7. ASSUME NEW s \in Sub, SessionPaid(s) PROVE SessionInv'
  BY <1>7 DEF SessionPaid
<1>8. ASSUME NEW s \in Sub, SessionExpires(s) PROVE SessionInv'
  BY <1>8 DEF SessionExpires
<1>9. ASSUME NEW s \in Sub, HandleCheckoutCompleted(s) PROVE SessionInv'
  BY <1>9 DEF HandleCheckoutCompleted
<1>10. ASSUME NEW s \in Sub, HandleCheckoutExpired(s) PROVE SessionInv'
  BY <1>10 DEF HandleCheckoutExpired
<1>11. ASSUME NEW s \in Sub, AdminStep(s) PROVE SessionInv'
  BY <1>11 DEF AdminStep, SetPaymentStatus, StartDelete, DeleteGroup, AbandonDelete
<1>12. ASSUME NEW c \in FreeCode, GenerateFreeCode(c) PROVE SessionInv'
  BY <1>12 DEF GenerateFreeCode
<1>13. ASSUME NEW c \in FreeCode, RevokeFreeCode(c) PROVE SessionInv'
  BY <1>13 DEF RevokeFreeCode
<1>14. CASE UNCHANGED vars
  BY <1>14 DEF vars
<1> QED
  BY <1>1, <1>2, <1>3, <1>4, <1>5, <1>6, <1>7,
     <1>8, <1>9, <1>10, <1>11, <1>12, <1>13, <1>14
     DEF Next, SubmitStep, CheckoutStep

LEMMA CheckoutInvStep == IInv /\ [Next]_vars => CheckoutInv' /\ PaymentMatchesCheckout'
<1> SUFFICES ASSUME IInv, [Next]_vars PROVE CheckoutInv' /\ PaymentMatchesCheckout'
  OBVIOUS
<1> USE RegistrationAssumption DEF
        IInv, TypeOK, Form, Submitting, Group, PaymentStatus, CodesInv,
        IntakeInv, CheckoutInv, PaymentMatchesCheckout, Reserved, Stored,
        CodeOf, Here, PaidInFull
<1>1. ASSUME NEW s \in Sub, BeginSubmit(s) PROVE CheckoutInv' /\ PaymentMatchesCheckout'
  BY <1>1 DEF BeginSubmit
<1>2. ASSUME NEW s \in Sub, ReserveFreeCode(s) PROVE CheckoutInv' /\ PaymentMatchesCheckout'
  BY <1>2 DEF ReserveFreeCode, MoveTo
<1>3. ASSUME NEW s \in Sub, SubmitSettled(s) PROVE CheckoutInv' /\ PaymentMatchesCheckout'
  <2> DEFINE form == subs[s].form
             new == InsertGroup(form)
             g == SettleCheckout(new)
  <2>1. /\ form \in Form /\ new \in Group
        /\ new.pay = "pending" /\ new.settled = FALSE /\ new.session = FALSE
        /\ new.pif = PaidInFull(form)
    BY InsertedGroup
  <2> HIDE DEF new
  <2>2. g.pay = "paid" /\ g.session = FALSE /\ g.pif = PaidInFull(form)
        /\ g.settled = PaidInFull(form)
    BY <2>1, SettledGroup, LinkedGroup
  <2>3. subs'[s].form = form /\ groups'[s] = g
    BY <1>3 DEF SubmitSettled, MoveTo, new
  <2>4. \A t \in Sub \ {s} : groups'[t] = groups[t] /\ subs'[t] = subs[t]
    BY <1>3 DEF SubmitSettled, MoveTo
  <2>5. sessions' = sessions /\ events' = events /\ byHand' = byHand
    BY <1>3 DEF SubmitSettled
  <2>6. ~(Due(form) /\ form.code = None)
    <3>1. Reserved(s) => form.code # None
      OBVIOUS
    <3> QED
      BY <1>3, <3>1 DEF SubmitSettled
  <2>7. g.session = (Due(form) /\ form.code = None)
    BY <2>2, <2>6
  <2> HIDE DEF g
  <2> QED
    BY <1>3, <2>2, <2>3, <2>4, <2>5, <2>7 DEF SubmitSettled
<1>4. ASSUME NEW s \in Sub, CreateCheckoutSession(s)
      PROVE  CheckoutInv' /\ PaymentMatchesCheckout'
  BY <1>4 DEF CreateCheckoutSession, MoveTo
<1>5. ASSUME NEW s \in Sub, SubmitPending(s) PROVE CheckoutInv' /\ PaymentMatchesCheckout'
  <2> DEFINE form == subs[s].form
             new == InsertGroup(form)
             g == SetCheckoutSession(new)
  <2>1. /\ form \in Form /\ new \in Group
        /\ new.pay = "pending" /\ new.settled = FALSE /\ new.session = FALSE
        /\ new.pif = PaidInFull(form)
    BY InsertedGroup
  <2> HIDE DEF new
  <2>2. g.pay = "pending" /\ g.session /\ g.pif = PaidInFull(form)
        /\ g.settled = FALSE
    BY <2>1, SettledGroup, LinkedGroup
  <2>3. subs'[s].form = form /\ groups'[s] = g
    BY <1>5 DEF SubmitPending, MoveTo, new
  <2>4. \A t \in Sub \ {s} : groups'[t] = groups[t] /\ subs'[t] = subs[t]
    BY <1>5 DEF SubmitPending, MoveTo
  <2>5. sessions' = sessions /\ events' = events /\ byHand' = byHand
    BY <1>5 DEF SubmitPending
  <2>6. g.session = (Due(form) /\ form.code = None)
    BY <1>5, <2>2 DEF SubmitPending
  <2> HIDE DEF g
  <2> QED
    BY <1>5, <2>2, <2>3, <2>4, <2>5, <2>6 DEF SubmitPending
<1>6. ASSUME NEW s \in Sub, Rollback(s) PROVE CheckoutInv' /\ PaymentMatchesCheckout'
  BY <1>6 DEF Rollback, MoveTo
<1>7. ASSUME NEW s \in Sub, SessionPaid(s) PROVE CheckoutInv' /\ PaymentMatchesCheckout'
  BY <1>7 DEF SessionPaid
<1>8. ASSUME NEW s \in Sub, SessionExpires(s) PROVE CheckoutInv' /\ PaymentMatchesCheckout'
  BY <1>8 DEF SessionExpires
<1>9. ASSUME NEW s \in Sub, HandleCheckoutCompleted(s)
      PROVE  CheckoutInv' /\ PaymentMatchesCheckout'
  BY <1>9 DEF HandleCheckoutCompleted, SettleCheckout, Answered, Found
<1>10. ASSUME NEW s \in Sub, HandleCheckoutExpired(s)
       PROVE  CheckoutInv' /\ PaymentMatchesCheckout'
  BY <1>10 DEF HandleCheckoutExpired, ExpireCheckout, Answered, Found
<1>11. ASSUME NEW s \in Sub, SetPaymentStatus(s)
       PROVE  CheckoutInv' /\ PaymentMatchesCheckout'
  BY <1>11 DEF SetPaymentStatus
<1>12. ASSUME NEW s \in Sub, StartDelete(s) PROVE CheckoutInv' /\ PaymentMatchesCheckout'
  BY <1>12 DEF StartDelete
<1>13. ASSUME NEW s \in Sub, DeleteGroup(s) PROVE CheckoutInv' /\ PaymentMatchesCheckout'
  BY <1>13 DEF DeleteGroup
<1>14. ASSUME NEW s \in Sub, AbandonDelete(s) PROVE CheckoutInv' /\ PaymentMatchesCheckout'
  BY <1>14 DEF AbandonDelete
<1>15. ASSUME NEW c \in FreeCode, GenerateFreeCode(c)
       PROVE  CheckoutInv' /\ PaymentMatchesCheckout'
  BY <1>15 DEF GenerateFreeCode
<1>16. ASSUME NEW c \in FreeCode, RevokeFreeCode(c)
       PROVE  CheckoutInv' /\ PaymentMatchesCheckout'
  BY <1>16 DEF RevokeFreeCode
<1>17. CASE UNCHANGED vars
  BY <1>17 DEF vars
<1> QED
  BY <1>1, <1>2, <1>3, <1>4, <1>5, <1>6, <1>7, <1>8, <1>9,
     <1>10, <1>11, <1>12, <1>13, <1>14, <1>15, <1>16, <1>17
     DEF Next, SubmitStep, CheckoutStep, AdminStep

----------------------------------------------------------------------------
LEMMA InitIInv == Init => IInv
<1> SUFFICES ASSUME Init PROVE IInv
  OBVIOUS
<1>1. TypeOK
  <2>1. NoForm \in Form
    BY DEF NoForm, Form
  <2> QED
    BY <2>1, NewGroupTyped DEF Init, TypeOK, CodeRow, Submitting
<1>2. \A s \in Sub : subs[s].pc = "new" /\ groups[s].st = "none"
  BY DEF Init, NewGroup
<1>3. CodesInv /\ CodeRedeemedOnce
  BY <1>2 DEF CodesInv, CodeRedeemedOnce, Reserved, Stored
<1>4. IntakeInv /\ SessionInv /\ CheckoutInv /\ PaymentMatchesCheckout
  BY <1>2
     DEF Init, IntakeInv, SessionInv, CheckoutInv, PaymentMatchesCheckout, Stored, Here
<1> QED
  BY <1>1, <1>3, <1>4 DEF IInv

(* The inductive invariant holds of every behaviour.                       *)
THEOREM RegistrationInvariance == Spec => []IInv
<1>1. IInv /\ [Next]_vars => IInv'
  BY TypeStep, CodesStep, IntakeStep, SessionStep, CheckoutInvStep DEF IInv
<1> QED
  BY InitIInv, <1>1, PTL DEF Spec

(* Every variable keeps its type.                                          *)
THEOREM RegistrationTypeCorrect == Spec => []TypeOK
<1>1. IInv => TypeOK
  BY DEF IInv
<1> QED
  BY <1>1, RegistrationInvariance, PTL

(* No sponsorship code ever sponsors two registrations: the row lock that  *)
(* ReserveFreeCode takes is enough, whatever else happens meanwhile.       *)
THEOREM SingleRedemption == Spec => []CodeRedeemedOnce
<1>1. IInv => CodeRedeemedOnce
  BY DEF IInv
<1> QED
  BY <1>1, RegistrationInvariance, PTL

(* A group whose status nobody set by hand is pending, paid or cancelled   *)
(* as its Checkout session is.                                             *)
THEOREM PaymentAgrees == Spec => []PaymentMatchesCheckout
<1>1. IInv => PaymentMatchesCheckout
  BY DEF IInv
<1> QED
  BY <1>1, RegistrationInvariance, PTL

(* Whatever campers a form names, the family is asked for what they cost   *)
(* one by one, and is sent to Stripe exactly if that is more than nothing: *)
(* the grouping and counting of ComputeCharge loses and invents no penny.  *)
THEOREM CheckoutAgrees == Spec => []CheckoutChargesForm
<1>1. ASSUME IInv, NEW s \in Sub,
             subs[s].pc \in {"session", "stored"}, CodeOf(s) = None
      PROVE  LET form == subs[s].form
                 cost == FormCost(form.campers, form.full, DepositPence)
             IN /\ TotalPence(ComputeCharge(form.campers, form.full, DepositPence)) = cost
                /\ (sessions[s] # "none") = (cost > 0)
  <2> DEFINE form == subs[s].form
             cost == FormCost(form.campers, form.full, DepositPence)
             total == TotalPence(ComputeCharge(form.campers, form.full, DepositPence))
  <2>1. form \in Form /\ ValidForm(form.campers)
    BY <1>1, RegistrationAssumption DEF IInv, TypeOK, SessionInv
  <2>2. total = cost /\ cost \in Nat
    BY <2>1, ChargeAddsUp, PricesAreKnown DEF Form
  <2>3. sessions[s] # "none" <=> Due(form)
    BY <1>1 DEF IInv, IntakeInv, SessionInv, Stored
  <2>4. Due(form) <=> total > 0
    BY DEF Due
  <2> QED
    BY <2>2, <2>3, <2>4
<1>2. IInv => CheckoutChargesForm
  BY <1>1 DEF CheckoutChargesForm
<1> QED
  BY <1>2, RegistrationInvariance, PTL

(* Only SetPaymentStatus takes a paid group out of "paid".                 *)
THEOREM PaidStaysPaid == Spec => PaidUndoneByHandOnly
<1> DEFINE Undone(s) == /\ Here(s) /\ groups[s].pay = "paid"
                        /\ (Here(s) /\ groups[s].pay # "paid")'
<1>1. ASSUME IInv, [Next]_vars, NEW s \in Sub, Undone(s)
      PROVE  SetPaymentStatus(s)
  <2> USE <1>1 DEF IInv, TypeOK, IntakeInv, Stored, Here
  <2>1. groups'[s] # groups[s]
    OBVIOUS
  <2>2. ASSUME NEW t \in Sub, SubmitSettled(t) PROVE FALSE
    BY <2>1, <2>2 DEF SubmitSettled
  <2>3. ASSUME NEW t \in Sub, SubmitPending(t) PROVE FALSE
    BY <2>1, <2>3 DEF SubmitPending
  <2>4. ASSUME NEW t \in Sub, HandleCheckoutCompleted(t) PROVE FALSE
    BY <2>1, <2>4 DEF HandleCheckoutCompleted, SettleCheckout
  <2>5. ASSUME NEW t \in Sub, HandleCheckoutExpired(t) PROVE FALSE
    BY <2>1, <2>5 DEF HandleCheckoutExpired, ExpireCheckout
  <2>6. ASSUME NEW t \in Sub, DeleteGroup(t) PROVE FALSE
    BY <2>1, <2>6 DEF DeleteGroup
  <2>7. ASSUME NEW t \in Sub, SetPaymentStatus(t) PROVE SetPaymentStatus(s)
    <3>1. t = s
      BY <2>1, <2>7 DEF SetPaymentStatus
    <3> QED
      BY <2>7, <3>1
  <2> QED
    BY <2>1, <2>2, <2>3, <2>4, <2>5, <2>6, <2>7
       DEF Next, SubmitStep, CheckoutStep, AdminStep, vars, BeginSubmit, ReserveFreeCode,
           CreateCheckoutSession, Rollback, SessionPaid, SessionExpires, StartDelete,
           AbandonDelete, GenerateFreeCode, RevokeFreeCode
<1>2. IInv /\ [Next]_vars =>
        [\A s \in Sub :
           (Here(s) /\ groups[s].pay = "paid") /\ (Here(s) /\ groups[s].pay # "paid")'
             => SetPaymentStatus(s)]_vars
  BY <1>1
<1> QED
  BY <1>2, RegistrationInvariance, PTL DEF Spec, PaidUndoneByHandOnly

----------------------------------------------------------------------------
(* The codes keep the promise of Sponsorship: generating, revoking and a   *)
(* settled submission with a code are its steps, and all else stutters.    *)

Issued == {c \in FreeCode : codes[c].issued}
Revoked == {c \in FreeCode : codes[c].revoked}
Paired == {p \in Sub \X FreeCode : Stored(p[1]) /\ CodeOf(p[1]) = p[2]}

LEMMA PairedMembers ==
  \A s \in Sub, c \in FreeCode : <<s, c>> \in Paired <=> Stored(s) /\ CodeOf(s) = c
  BY DEF Paired

LEMMA RedeemedCode ==
  ASSUME NEW c \in FreeCode, c \in Promise!Redeemed
  PROVE  \E s \in Sub : Stored(s) /\ CodeOf(s) = c
  BY DEF Promise!Redeemed

LEMMA SponsoredSub ==
  ASSUME NEW s \in Sub, s \in Promise!Sponsored
  PROVE  Stored(s)
  BY DEF Promise!Sponsored

(* What Sponsorship sees of a submission's steps: nothing, until one with  *)
(* a code is stored.                                                       *)
LEMMA SubmissionsUnseen ==
  ASSUME IInv, NEW s \in Sub,
         SubmitStep(s), ~(SubmitSettled(s) /\ CodeOf(s) # None)
  PROVE  codes' = codes /\ Paired' = Paired
<1> USE DEF IInv, TypeOK, Stored, CodeOf, SubmitStep
<1>1. codes' = codes
  BY DEF BeginSubmit, ReserveFreeCode, CreateCheckoutSession, SubmitPending, Rollback,
         SubmitSettled
<1>2. \A t \in Sub : t # s => subs'[t] = subs[t]
  BY DEF BeginSubmit, ReserveFreeCode, CreateCheckoutSession, SubmitPending, Rollback,
         SubmitSettled, MoveTo
<1>3. ~Stored(s)
  BY DEF BeginSubmit, ReserveFreeCode, CreateCheckoutSession, SubmitPending, Rollback,
         SubmitSettled
<1>4. \A c \in FreeCode : ~(Stored(s) /\ CodeOf(s) = c)'
  BY RegistrationAssumption
     DEF BeginSubmit, ReserveFreeCode, CreateCheckoutSession, SubmitPending, Rollback,
         SubmitSettled, MoveTo, CodesInv, IntakeInv
<1>5. \A p \in Sub \X FreeCode : (p \in Paired)' <=> p \in Paired
  BY <1>2, <1>3, <1>4 DEF Paired
<1> QED
  BY <1>1, <1>5 DEF Paired

LEMMA RedemptionSeen ==
  ASSUME IInv, NEW s \in Sub, SubmitSettled(s), CodeOf(s) # None
  PROVE  /\ CodeOf(s) \in Issued
         /\ CodeOf(s) \notin Revoked \cup Promise!Redeemed
         /\ s \notin Promise!Sponsored
         /\ Paired' = Paired \cup {<<s, CodeOf(s)>>}
         /\ UNCHANGED <<Issued, Revoked>>
<1> DEFINE c == CodeOf(s)
<1> USE DEF IInv, TypeOK
<1>1. Reserved(s) /\ c \in FreeCode /\ Redeemable(c)
  BY DEF SubmitSettled, CodesInv, Reserved, CodeOf
<1>2. c \in Issued /\ c \notin Revoked
  BY <1>1 DEF Issued, Revoked, Redeemable
<1>3. c \notin Promise!Redeemed
  BY <1>1, RedeemedCode DEF CodesInv, Redeemable
<1>4. s \notin Promise!Sponsored
  BY <1>1, SponsoredSub DEF Stored, Reserved
<1>5. Paired' = Paired \cup {<<s, c>>}
  <2>1. \A t \in Sub : t # s => subs'[t] = subs[t]
    BY DEF SubmitSettled, MoveTo
  <2>2. Stored(s)' /\ CodeOf(s)' = c
    BY DEF SubmitSettled, MoveTo, Stored, CodeOf
  <2>3. \A t \in Sub, d \in FreeCode :
          (Stored(t) /\ CodeOf(t) = d)' <=> (Stored(t) /\ CodeOf(t) = d) \/ (t = s /\ d = c)
    BY <1>1, <2>1, <2>2 DEF Stored, CodeOf, Reserved
  <2> QED
    BY <1>1, <2>3 DEF Paired
<1>6. UNCHANGED <<Issued, Revoked>>
  <2>1. codes' = MarkFreeCodeUsed(c, s)
    BY <1>1 DEF SubmitSettled, CodeOf
  <2>2. \A d \in FreeCode : codes'[d].issued = codes[d].issued
                         /\ codes'[d].revoked = codes[d].revoked
    BY <1>1, <2>1, MarkedCodes
  <2> QED
    BY <2>2 DEF Issued, Revoked
<1> QED
  BY <1>2, <1>3, <1>4, <1>5, <1>6

(* The detailed codes implement the promised ones: SubmitSettled with a    *)
(* code is one Redeem, and no rollback, deletion or repeated event undoes  *)
(* or repeats it.                                                          *)
THEOREM PromiseKept == Spec => CodesKeepPromise
<1>1. Init => Promise!Init
  BY DEF Init, Promise!Init, Stored
<1>2. ASSUME IInv, [Next]_vars
      PROVE  [Promise!Next]_(Promise!vars)
  <2> USE <1>2 DEF Promise!vars
  <2> DEFINE Seen == <<Issued, Revoked, Paired>>
  <2>1. ASSUME UNCHANGED Seen PROVE UNCHANGED Promise!vars
    BY <2>1 DEF Issued, Revoked, Paired
  <2>2. ASSUME codes' = codes, subs' = subs PROVE UNCHANGED Seen
    BY <2>2 DEF Issued, Revoked, Paired, Stored, CodeOf
  <2>3. ASSUME NEW s \in Sub, SubmitStep(s) PROVE UNCHANGED Seen \/ Promise!Next
    <3>1. CASE SubmitSettled(s) /\ CodeOf(s) # None
      <4>1. PICK c \in FreeCode : c = CodeOf(s)
        BY <3>1, RedemptionSeen DEF Issued
      <4>2. Promise!Redeem(s, c)
        BY <3>1, <4>1, RedemptionSeen DEF Promise!Redeem, Issued, Revoked, Paired
      <4> QED
        BY <4>2 DEF Promise!Next
    <3>2. CASE ~(SubmitSettled(s) /\ CodeOf(s) # None)
      <4>1. codes' = codes /\ Paired' = Paired
        BY <2>3, <3>2, SubmissionsUnseen
      <4> QED
        BY <4>1 DEF Issued, Revoked
    <3> QED
      BY <3>1, <3>2
  <2>4. ASSUME NEW c \in FreeCode, GenerateFreeCode(c) PROVE Promise!Next
    <3>1. Promise!Issue(c)
      <4>1. c \notin Issued /\ Issued' = Issued \cup {c} /\ Revoked' = Revoked
        BY <2>4 DEF GenerateFreeCode, Issued, Revoked, IInv, TypeOK, CodeRow
      <4>2. Paired' = Paired
        BY <2>4 DEF GenerateFreeCode, Paired, Stored, CodeOf
      <4> QED
        BY <4>1, <4>2 DEF Promise!Issue, Issued, Revoked, Paired
    <3> QED
      BY <3>1 DEF Promise!Next
  <2>5. ASSUME NEW c \in FreeCode, RevokeFreeCode(c) PROVE Promise!Next
    <3>1. Promise!Revoke(c)
      <4>1. /\ c \in Issued /\ c \notin Revoked
            /\ Issued' = Issued /\ Revoked' = Revoked \cup {c}
        BY <2>5 DEF RevokeFreeCode, Redeemable, Issued, Revoked, IInv, TypeOK, CodeRow
      <4>2. Paired' = Paired
        BY <2>5 DEF RevokeFreeCode, Paired, Stored, CodeOf
      <4>3. c \notin Promise!Redeemed
        BY <2>5, RedeemedCode, RegistrationAssumption
           DEF RevokeFreeCode, Redeemable, IInv, CodesInv
      <4> QED
        BY <4>1, <4>2, <4>3 DEF Promise!Revoke, Issued, Revoked, Paired
    <3> QED
      BY <3>1 DEF Promise!Next
  <2>6. ASSUME NEW s \in Sub, CheckoutStep(s) PROVE UNCHANGED Seen
    BY <2>2, <2>6 DEF CheckoutStep, SessionPaid, SessionExpires, HandleCheckoutCompleted,
                      HandleCheckoutExpired
  <2>7. ASSUME NEW s \in Sub, AdminStep(s) PROVE UNCHANGED Seen
    <3>1. CASE DeleteGroup(s)
      <4>1. subs' = subs /\ \A c \in FreeCode : codes'[c].issued = codes[c].issued
                                             /\ codes'[c].revoked = codes[c].revoked
        BY <3>1 DEF DeleteGroup, IInv, TypeOK, CodeRow
      <4> QED
        BY <4>1 DEF Issued, Revoked, Paired, Stored, CodeOf
    <3> QED
      BY <2>2, <2>7, <3>1 DEF AdminStep, SetPaymentStatus, StartDelete, AbandonDelete
  <2>8. ASSUME UNCHANGED vars PROVE UNCHANGED Seen
    BY <2>2, <2>8 DEF vars
  <2> QED
    BY <2>1, <2>3, <2>4, <2>5, <2>6, <2>7, <2>8 DEF Next
<1> QED
  BY <1>1, <1>2, RegistrationInvariance, PTL DEF Spec, CodesKeepPromise, Promise!Spec
=============================================================================
