--------------------------- MODULE SettingsProofs ---------------------------
(***************************************************************************)
(* For any number of families, administrators and changes of settings: the *)
(* types, what the check before full payment is worth, that a page nobody  *)
(* outdates shows what is charged and is not refused, and that a           *)
(* registration stored as paid in full was charged everything.             *)
(***************************************************************************)
EXTENDS Settings, ChargeProofs

(* A call that has validated found every price the form shows and every one *)
(* of its process; what it has missed since, a deployment included, is     *)
(* written down for the moment it switches full payment on.                *)
CallInv == \A a \in Admin : calls[a].pc = "validated" =>
    /\ QuotedTiers(settings) \subseteq settings.priced \cup calls[a].exposed
    /\ EnvPrice \subseteq settings.env \cup calls[a].exposed

(* A form that was filled in came from a page that was usable, and the     *)
(* page is not loaded again.                                               *)
FilledInv == \A f \in Family : visits[f].pc \notin {"loading", "left"} =>
    /\ Usable(pages[f])
    /\ visits[f].campers \in Roster
    /\ Selectable(pages[f], visits[f].campers)

(* What a page has loaded is still so: true of every page while no setting *)
(* changes.                                                                *)
Current(page) ==
    /\ "config" \notin page.todo =>
         page.open = settings.open /\ page.configFull = settings.full
    /\ "prices" \notin page.todo => page.price = settings.deposit
    /\ "accommodations" \notin page.todo => page.avail = settings.avail
    /\ page.quote \in {"deposit", "tiers", "done"} =>
         page.full = settings.full /\ page.env = settings.env
    /\ page.quote \in {"tiers", "done"} => page.deposit = settings.deposit
    /\ page.quote = "tiers" => page.full
    /\ page.quote = "done" /\ page.full =>
         page.tiers = QuotedTiers(settings) \cap settings.priced
PageInv == \A f \in Family \ changed : Current(pages[f])

(* ... and so is whatever its submission has read.                         *)
ReadInv == \A f \in Family \ changed :
    LET v == visits[f] IN
    /\ v.pc \in {"open", "available", "mode", "deposit", "accepted"} =>
         v.env = settings.env
    /\ v.pc \in {"mode", "deposit", "accepted"} => v.full = settings.full
    /\ v.pc \in {"deposit", "accepted"} => v.deposit = settings.deposit
    /\ v.pc = "accepted" /\ v.full => Priceable(v.campers, v.env)

IInv == /\ TypeOK /\ FullModeIsPriced /\ CallInv
        /\ FilledInv /\ PageInv /\ ReadInv
        /\ RefusedForAReason /\ PaidInFullChargedAll

----------------------------------------------------------------------------
(* What every step does: some write a setting, some load part of a page,   *)
(* some take a visit further.                                              *)

Setter == \/ SetRegistrationsOpen \/ UpdatePrice \/ SetAccommodationAvailability
          \/ SetDepositMode \/ Deploy
          \/ \E a \in Admin : SetRegistrationPaymentMode(a)
Checking(a) == ValidateFullPaymentPricing(a) \/ AbandonFullPayment(a)
Loading(f) == \/ LoadConfig(f) \/ LoadPrices(f) \/ LoadAccommodations(f)
              \/ QuoteMode(f) \/ QuoteDeposit(f) \/ QuoteTiers(f) \/ QuoteFails(f)
Moving(f) == \/ FillForm(f) \/ SubmitOpen(f) \/ EnsureAccommodationAvailable(f)
             \/ ReadPaymentMode(f) \/ ReadDeposit(f) \/ ComputeSubmitted(f) \/ Leave(f)

LEMMA Steps ==
  ASSUME [Next]_vars
  PROVE  \/ Setter
         \/ \E a \in Admin : Checking(a)
         \/ \E f \in Family : Loading(f) \/ Moving(f)
         \/ UNCHANGED vars
  BY DEF Next, AdminStep, FamilyStep, Setter, Checking, Loading, Moving

LEMMA EmptyPageTyped == EmptyPage \in Page
  BY DEF EmptyPage, Page, Quoting

LEMMA PagesStepTyped ==
  ASSUME TypeOK, NEW f \in Family, NEW page \in Page, Load(f, page)
  PROVE  TypeOK'
  BY DEF TypeOK, Load

LEMMA VisitsStepTyped ==
  ASSUME TypeOK, NEW f \in Family, NEW v \in Visit, Advance(f, v)
  PROVE  TypeOK'
  BY DEF TypeOK, Advance

(* A write changes the settings, and outdates every page that has loaded   *)
(* anything.                                                               *)
LEMMA WriteTyped ==
  ASSUME TypeOK, NEW s \in Setting, Write(s)
  PROVE  /\ settings' \in Setting /\ changed' \subseteq Family
         /\ writes' \in 0..MaxWrites
  BY SettingsAssumption DEF TypeOK, Write

LEMMA TypeStep == IInv /\ [Next]_vars => TypeOK'
<1> SUFFICES ASSUME IInv, [Next]_vars PROVE TypeOK'
  OBVIOUS
<1>0. TypeOK
  BY DEF IInv
<1>1. ASSUME SetRegistrationsOpen PROVE TypeOK'
  <2>1. [settings EXCEPT !.open = ~@] \in Setting
    BY <1>0 DEF TypeOK, Setting
  <2> QED
    BY <1>0, <1>1, <2>1, WriteTyped DEF SetRegistrationsOpen, TypeOK
<1>2. ASSUME UpdatePrice PROVE TypeOK'
  <2>1. PICK d \in Deposit : Write([settings EXCEPT !.deposit = d])
    BY <1>2 DEF UpdatePrice
  <2>2. [settings EXCEPT !.deposit = d] \in Setting
    BY <1>0, SettingsAssumption DEF TypeOK, Setting
  <2> QED
    BY <1>0, <1>2, <2>1, <2>2, WriteTyped DEF UpdatePrice, TypeOK
<1>3. ASSUME SetAccommodationAvailability PROVE TypeOK'
  <2> DEFINE Toggled(t) == [settings EXCEPT !.avail = IF t \notin settings.avail
                                                      THEN @ \cup {t} ELSE @ \ {t}]
             Lost(t) == IF t \notin settings.avail THEN {t} \ settings.priced ELSE {}
  <2>1. PICK t \in Code :
          /\ Write(Toggled(t))
          /\ exposed' = exposed \cup Lost(t)
          /\ calls' = [a \in Admin |-> [calls[a] EXCEPT !.exposed = @ \cup Lost(t)]]
          /\ UNCHANGED <<pages, visits>>
    BY <1>3 DEF SetAccommodationAvailability
  <2>2. Toggled(t) \in Setting
    BY <1>0 DEF TypeOK, Setting
  <2>3. calls' \in [Admin -> Call] /\ exposed' \subseteq Code \cup EnvPrice
    BY <1>0, <2>1 DEF TypeOK, Call
  <2>4. /\ settings' \in Setting /\ changed' \subseteq Family /\ writes' \in 0..MaxWrites
    BY <1>0, <2>1, <2>2, WriteTyped
  <2> QED
    BY <1>0, <2>1, <2>3, <2>4 DEF TypeOK
<1>4. ASSUME SetDepositMode PROVE TypeOK'
  <2>1. [settings EXCEPT !.full = FALSE] \in Setting
    BY <1>0 DEF TypeOK, Setting
  <2> QED
    BY <1>0, <1>4, <2>1, WriteTyped DEF SetDepositMode, TypeOK
<1>5. ASSUME Deploy PROVE TypeOK'
  <2>1. PICK tiers \in SUBSET (Code \ settings.priced), env \in SUBSET EnvPrice :
          /\ Write([settings EXCEPT !.priced = @ \cup tiers, !.env = env])
          /\ exposed' = exposed \cup (EnvPrice \ env)
          /\ calls' = [a \in Admin |->
                         [calls[a] EXCEPT !.exposed = @ \cup (EnvPrice \ env)]]
          /\ UNCHANGED <<pages, visits>>
    BY <1>5 DEF Deploy
  <2>2. [settings EXCEPT !.priced = @ \cup tiers, !.env = env] \in Setting
    BY <1>0 DEF TypeOK, Setting
  <2>3. settings' \in Setting /\ changed' \subseteq Family /\ writes' \in 0..MaxWrites
    BY <1>0, <2>1, <2>2, WriteTyped
  <2>4. calls' \in [Admin -> Call] /\ exposed' \subseteq Code \cup EnvPrice
    BY <1>0, <2>1 DEF TypeOK, Call
  <2> QED
    BY <1>0, <2>1, <2>3, <2>4 DEF TypeOK
<1>6. ASSUME NEW a \in Admin, Checking(a) PROVE TypeOK'
  BY <1>0, <1>6
     DEF Checking, ValidateFullPaymentPricing, AbandonFullPayment, TypeOK, Call, NoCall
<1>7. ASSUME NEW a \in Admin, SetRegistrationPaymentMode(a) PROVE TypeOK'
  <2>1. [settings EXCEPT !.full = TRUE] \in Setting
    BY <1>0 DEF TypeOK, Setting
  <2>2. settings' \in Setting /\ changed' \subseteq Family /\ writes' \in 0..MaxWrites
    BY <1>0, <1>7, <2>1, WriteTyped DEF SetRegistrationPaymentMode
  <2>3. calls' \in [Admin -> Call] /\ exposed' \subseteq Code \cup EnvPrice
    BY <1>0, <1>7 DEF SetRegistrationPaymentMode, TypeOK, Call, NoCall
  <2> QED
    BY <1>0, <1>7, <2>2, <2>3 DEF SetRegistrationPaymentMode, TypeOK
<1>8. ASSUME NEW f \in Family, Loading(f) PROVE TypeOK'
  <2>1. PICK page \in Page : Load(f, page)
    <3>1. pages[f] \in Page /\ settings \in Setting /\ ChildTier \in Code
      BY <1>0, SettingsAssumption DEF TypeOK
    <3> QED
      BY <1>8, <3>1
         DEF Loading, LoadConfig, LoadPrices, LoadAccommodations, QuoteMode, QuoteDeposit,
             QuoteTiers, QuoteFails, QuotedTiers, Page, Quoting, Setting
  <2> QED
    BY <1>0, <2>1, PagesStepTyped
<1>9. ASSUME NEW f \in Family, Moving(f), ~ComputeSubmitted(f) PROVE TypeOK'
  <2>1. visits[f] \in Visit /\ settings \in Setting
    BY <1>0 DEF TypeOK
  <2>2. CASE FillForm(f)
    <3>1. PICK campers \in Roster :
            visits' = [visits EXCEPT ![f].pc = "filled", ![f].campers = campers]
      BY <2>2 DEF FillForm
    <3>2. [visits[f] EXCEPT !.pc = "filled", !.campers = campers] \in Visit
      BY <2>1 DEF Visit, Visiting
    <3>3. visits' = [visits EXCEPT ![f] = [visits[f] EXCEPT !.pc = "filled",
                                                            !.campers = campers]]
      BY <3>1
    <3> QED
      BY <1>0, <2>2, <3>2, <3>3 DEF FillForm, TypeOK
  <2>3. CASE ~FillForm(f)
    <3>1. PICK v \in Visit : Advance(f, v)
      BY <1>9, <2>1, <2>3
         DEF Moving, SubmitOpen, EnsureAccommodationAvailable, ReadPaymentMode, ReadDeposit,
             Leave, Continue, Visit, Visiting, Setting
    <3> QED
      BY <1>0, <3>1, VisitsStepTyped
  <2> QED
    BY <2>2, <2>3
<1>10. ASSUME NEW f \in Family, ComputeSubmitted(f) PROVE TypeOK'
  <2> DEFINE v == visits[f]
             total == TotalPence(ComputeCharge(v.campers, v.full, v.deposit))
  <2>1. v \in Visit /\ v.full \in BOOLEAN /\ v.deposit \in Nat /\ v.pc = "deposit"
    BY <1>0, <1>10 DEF TypeOK, Visit, ComputeSubmitted
  <2>2. ValidForm(v.campers)
    BY <2>1, SettingsAssumption DEF IInv, FilledInv
  <2>3. total \in Nat
    BY <2>1, <2>2, ChargeAddsUp
  <2> HIDE DEF total
  <2>4. [v EXCEPT !.pc = "accepted", !.charged = total] \in Visit
    BY <2>1, <2>3 DEF Visit, Visiting
  <2>5. [v EXCEPT !.pc = "refused"] \in Visit
    BY <2>1 DEF Visit, Visiting
  <2>6. \/ Advance(f, [v EXCEPT !.pc = "accepted", !.charged = total])
        \/ Advance(f, [v EXCEPT !.pc = "refused"])
    BY <1>10 DEF ComputeSubmitted, ChargedMode, total
  <2> QED
    BY <1>0, <2>4, <2>5, <2>6, VisitsStepTyped
<1>11. CASE UNCHANGED vars
  BY <1>0, <1>11 DEF vars, TypeOK
<1> QED
  BY <1>1, <1>2, <1>3, <1>4, <1>5, <1>6, <1>7, <1>8, <1>9, <1>10, <1>11, Steps DEF Setter

LEMMA PricingStep == IInv /\ [Next]_vars => FullModeIsPriced' /\ CallInv'
<1> SUFFICES ASSUME IInv, [Next]_vars PROVE FullModeIsPriced' /\ CallInv'
  OBVIOUS
<1> USE DEF IInv, TypeOK, Setting, Call, FullModeIsPriced, CallInv, QuotedTiers
<1>1. CASE SetRegistrationsOpen
  BY <1>1 DEF SetRegistrationsOpen, Write
<1>2. CASE UpdatePrice
  BY <1>2 DEF UpdatePrice, Write
<1>3. CASE SetAccommodationAvailability
  <2> DEFINE Toggled(t) == [settings EXCEPT !.avail = IF t \notin settings.avail
                                                      THEN @ \cup {t} ELSE @ \ {t}]
             Lost(t) == IF t \notin settings.avail THEN {t} \ settings.priced ELSE {}
  <2>1. PICK t \in Code :
          /\ settings' = Toggled(t)
          /\ exposed' = exposed \cup Lost(t)
          /\ calls' = [a \in Admin |-> [calls[a] EXCEPT !.exposed = @ \cup Lost(t)]]
    BY <1>3 DEF SetAccommodationAvailability, Write
  <2>2. /\ settings'.avail \subseteq settings.avail \cup {t}
        /\ t \in settings.avail => settings'.avail \subseteq settings.avail
        /\ settings'.full = settings.full /\ settings'.priced = settings.priced
        /\ settings'.env = settings.env
    BY <2>1
  <2>3. \A a \in Admin : /\ calls'[a].pc = calls[a].pc
                         /\ calls'[a].exposed = calls[a].exposed \cup Lost(t)
    BY <2>1
  <2> QED
    BY <2>1, <2>2, <2>3
<1>4. CASE SetDepositMode
  BY <1>4 DEF SetDepositMode, Write
<1>5. CASE Deploy
  <2>1. PICK tiers \in SUBSET (Code \ settings.priced), env \in SUBSET EnvPrice :
          /\ settings' = [settings EXCEPT !.priced = @ \cup tiers, !.env = env]
          /\ exposed' = exposed \cup (EnvPrice \ env)
          /\ calls' = [a \in Admin |->
                         [calls[a] EXCEPT !.exposed = @ \cup (EnvPrice \ env)]]
    BY <1>5 DEF Deploy, Write
  <2>2. /\ settings'.avail = settings.avail /\ settings'.full = settings.full
        /\ settings'.priced = settings.priced \cup tiers /\ settings'.env = env
    BY <2>1
  <2>3. \A a \in Admin : /\ calls'[a].pc = calls[a].pc
                         /\ calls'[a].exposed = calls[a].exposed \cup (EnvPrice \ env)
    BY <2>1
  <2>4. FullModeIsPriced'
    BY <2>1, <2>2
  <2>5. CallInv'
    BY <2>2, <2>3
  <2> QED
    BY <2>4, <2>5
<1>6. ASSUME NEW a \in Admin, Checking(a) PROVE FullModeIsPriced' /\ CallInv'
  BY <1>6 DEF Checking, ValidateFullPaymentPricing, AbandonFullPayment, NoCall
<1>7. ASSUME NEW a \in Admin, SetRegistrationPaymentMode(a)
      PROVE  FullModeIsPriced' /\ CallInv'
  BY <1>7 DEF SetRegistrationPaymentMode, Write, NoCall
<1>8. ASSUME NEW f \in Family, Loading(f) PROVE FullModeIsPriced' /\ CallInv'
  <2>1. UNCHANGED <<settings, calls, exposed>>
    BY <1>8
       DEF Loading, LoadConfig, LoadPrices, LoadAccommodations, QuoteMode, QuoteDeposit,
           QuoteTiers, QuoteFails, Load
  <2> QED
    BY <2>1
<1>9. ASSUME NEW f \in Family, Moving(f) PROVE FullModeIsPriced' /\ CallInv'
  <2>1. UNCHANGED <<settings, calls, exposed>>
    BY <1>9
       DEF Moving, FillForm, SubmitOpen, EnsureAccommodationAvailable, ReadPaymentMode,
           ReadDeposit, ComputeSubmitted, Leave, Continue, Advance
  <2> QED
    BY <2>1
<1>10. CASE UNCHANGED vars
  BY <1>10 DEF vars
<1> QED
  BY <1>1, <1>2, <1>3, <1>4, <1>5, <1>6, <1>7, <1>8, <1>9, <1>10, Steps DEF Setter

(* A write leaves pages and visits alone, and a family that it leaves      *)
(* current has not begun its visit.                                        *)
LEMMA Outdated ==
  ASSUME IInv, Setter
  PROVE  /\ pages' = pages /\ visits' = visits
         /\ \A f \in Family \ changed' :
              pages[f] = EmptyPage /\ visits[f].pc \in {"loading", "left"}
<1>1. \E s : Write(s)
  BY DEF Setter, SetRegistrationsOpen, UpdatePrice, SetAccommodationAvailability,
         SetDepositMode, Deploy, SetRegistrationPaymentMode
<1>2. ASSUME NEW f \in Family \ changed'
      PROVE  pages[f] = EmptyPage /\ visits[f].pc \in {"loading", "left"}
  <2>1. pages[f] = EmptyPage
    BY <1>1, <1>2 DEF Write, Visits
  <2>2. ~Usable(EmptyPage)
    BY DEF Usable, EmptyPage
  <2> QED
    BY <2>1, <2>2 DEF IInv, FilledInv
<1>3. pages' = pages /\ visits' = visits
  BY DEF Setter, SetRegistrationsOpen, UpdatePrice, SetAccommodationAvailability,
         SetDepositMode, Deploy, SetRegistrationPaymentMode
<1> QED
  BY <1>2, <1>3

LEMMA FilledStep == IInv /\ [Next]_vars => FilledInv'
<1> SUFFICES ASSUME IInv, [Next]_vars PROVE FilledInv'
  OBVIOUS
<1> USE DEF IInv, FilledInv
<1>1. ASSUME Setter PROVE FilledInv'
  BY <1>1, Outdated
<1>2. ASSUME NEW a \in Admin, Checking(a) PROVE FilledInv'
  BY <1>2 DEF Checking, ValidateFullPaymentPricing, AbandonFullPayment
<1>3. ASSUME NEW f \in Family, Loading(f) PROVE FilledInv'
  <2>1. visits' = visits /\ visits[f].pc = "loading"
        /\ \A g \in Family \ {f} : pages'[g] = pages[g]
    BY <1>3
       DEF Loading, LoadConfig, LoadPrices, LoadAccommodations, QuoteMode, QuoteDeposit,
           QuoteTiers, QuoteFails, Load, TypeOK
  <2> QED
    BY <2>1
<1>4. ASSUME NEW f \in Family, FillForm(f) PROVE FilledInv'
  <2>1. PICK campers \in Roster :
          /\ Selectable(pages[f], campers)
          /\ visits' = [visits EXCEPT ![f].pc = "filled", ![f].campers = campers]
    BY <1>4 DEF FillForm
  <2>2. visits'[f].campers = campers /\ pages' = pages /\ Usable(pages[f])
    BY <1>4, <2>1 DEF FillForm, TypeOK, Visit
  <2>3. \A g \in Family \ {f} : visits'[g] = visits[g]
    BY <2>1 DEF TypeOK
  <2> QED
    BY <2>1, <2>2, <2>3
<1>5. ASSUME NEW f \in Family, Moving(f), ~FillForm(f) PROVE FilledInv'
  <2>1. /\ pages' = pages
        /\ \A g \in Family \ {f} : visits'[g] = visits[g]
        /\ visits'[f].pc = "left" \/ /\ visits[f].pc \notin {"loading", "left"}
                                     /\ visits'[f].campers = visits[f].campers
    BY <1>5
       DEF Moving, SubmitOpen, EnsureAccommodationAvailable, ReadPaymentMode, ReadDeposit,
           ComputeSubmitted, Leave, Continue, Advance, TypeOK, Visit
  <2> QED
    BY <2>1
<1>6. CASE UNCHANGED vars
  BY <1>6 DEF vars
<1> QED
  BY <1>1, <1>2, <1>3, <1>4, <1>5, <1>6, Steps

LEMMA PageStep == IInv /\ [Next]_vars => PageInv'
<1> SUFFICES ASSUME IInv, [Next]_vars PROVE PageInv'
  OBVIOUS
<1> USE DEF IInv, PageInv
<1>1. ASSUME Setter PROVE PageInv'
  BY <1>1, Outdated DEF EmptyPage, Current
<1>2. ASSUME NEW a \in Admin, Checking(a) PROVE PageInv'
  BY <1>2 DEF Checking, ValidateFullPaymentPricing, AbandonFullPayment, Current
<1>3. ASSUME NEW f \in Family, Loading(f) PROVE PageInv'
  <2>1. UNCHANGED <<settings, changed>> /\ \A g \in Family \ {f} : pages'[g] = pages[g]
    BY <1>3
       DEF Loading, LoadConfig, LoadPrices, LoadAccommodations, QuoteMode, QuoteDeposit,
           QuoteTiers, QuoteFails, Load, TypeOK
  <2>2. pages[f] \in Page
    BY DEF TypeOK
  <2>3. \A g \in Family \ {f} : Current(pages[g]) => Current(pages[g])'
    BY <2>1 DEF Current, QuotedTiers
  <2> SUFFICES ASSUME f \notin changed, Current(pages[f]) PROVE Current(pages[f])'
    BY <2>1, <2>3
  <2>4. CASE LoadConfig(f)
    BY <2>1, <2>2, <2>4 DEF LoadConfig, Load, Page, TypeOK, Current, QuotedTiers
  <2>5. CASE LoadPrices(f)
    BY <2>1, <2>2, <2>5 DEF LoadPrices, Load, Page, TypeOK, Current, QuotedTiers
  <2>6. CASE LoadAccommodations(f)
    BY <2>1, <2>2, <2>6 DEF LoadAccommodations, Load, Page, TypeOK, Current, QuotedTiers
  <2>7. CASE QuoteMode(f)
    BY <2>1, <2>2, <2>7 DEF QuoteMode, Load, Page, TypeOK, Current, QuotedTiers
  <2>8. CASE QuoteDeposit(f)
    BY <2>1, <2>2, <2>8 DEF QuoteDeposit, Load, Page, TypeOK, Current, QuotedTiers
  <2>9. CASE QuoteTiers(f)
    BY <2>1, <2>2, <2>9 DEF QuoteTiers, Load, Page, TypeOK, Current, QuotedTiers
  <2>10. CASE QuoteFails(f)
    BY <2>1, <2>2, <2>10 DEF QuoteFails, Load, Page, TypeOK, Current, QuotedTiers
  <2> QED
    BY <1>3, <2>4, <2>5, <2>6, <2>7, <2>8, <2>9, <2>10 DEF Loading
<1>4. ASSUME NEW f \in Family, Moving(f) PROVE PageInv'
  <2>1. UNCHANGED <<settings, changed, pages>>
    BY <1>4
       DEF Moving, FillForm, SubmitOpen, EnsureAccommodationAvailable, ReadPaymentMode,
           ReadDeposit, ComputeSubmitted, Leave, Continue, Advance
  <2> QED
    BY <2>1 DEF Current
<1>5. CASE UNCHANGED vars
  BY <1>5 DEF vars, Current
<1> QED
  BY <1>1, <1>2, <1>3, <1>4, <1>5, Steps

(* Of a current page that was usable, everything is known.                 *)
LEMMA FreshPage ==
  ASSUME IInv, NEW f \in Family \ changed, Usable(pages[f])
  PROVE  /\ settings.open
         /\ pages[f].avail = settings.avail /\ pages[f].price = settings.deposit
         /\ IsFullMode(pages[f]) <=> settings.full
         /\ settings.full => /\ pages[f].deposit = settings.deposit
                             /\ pages[f].env = settings.env
                             /\ pages[f].tiers = QuotedTiers(settings) \cap settings.priced
<1> DEFINE page == pages[f]
<1>1. Current(page) /\ page \in Page /\ settings \in Setting
  BY DEF IInv, TypeOK, PageInv
<1>2. /\ page.todo = {} /\ page.quote \in {"done", "failed"} /\ page.open
      /\ IsFullMode(page) => page.quote = "done"
  BY DEF Usable, Quoted
<1> HIDE DEF page
<1>3. /\ page.configFull = settings.full /\ page.open = settings.open
      /\ page.price = settings.deposit /\ page.avail = settings.avail
      /\ page.quote = "done" => page.full = settings.full /\ page.deposit = settings.deposit
  BY <1>1, <1>2 DEF Current
<1>4. IsFullMode(page) <=> settings.full
  <2>1. settings.full \in BOOLEAN /\ page.full \in BOOLEAN /\ page.configFull \in BOOLEAN
    BY <1>1 DEF Page, Setting
  <2> QED
    BY <1>3, <2>1 DEF IsFullMode, Quoted
<1>5. settings.full => /\ page.env = settings.env
                       /\ page.tiers = QuotedTiers(settings) \cap settings.priced
  BY <1>1, <1>2, <1>3, <1>4 DEF Current
<1> QED
  BY <1>1, <1>2, <1>3, <1>4, <1>5 DEF page

(* No choice made on a current page is hidden.                             *)
LEMMA ChoicesAreShown ==
  ASSUME IInv, NEW f \in Family \ changed, visits[f].pc = "open"
  PROVE  \A i \in DOMAIN visits[f].campers :
           LET c == visits[f].campers[i] IN ~Disabled(c.choice) /\ ~Disabled(c.second)
<1>1. /\ Usable(pages[f]) /\ visits[f].campers \in Roster
      /\ Selectable(pages[f], visits[f].campers)
  BY DEF IInv, FilledInv
<1>2. pages[f].avail = settings.avail
  BY <1>1, FreshPage
<1>3. \A i \in DOMAIN visits[f].campers :
        LET c == visits[f].campers[i]
        IN {c.choice, c.second} \subseteq settings.avail \cup {NoCode}
  BY <1>1, <1>2, SettingsAssumption DEF Selectable
<1> QED
  BY <1>3 DEF Disabled

LEMMA ReadStep ==
  IInv /\ [Next]_vars => ReadInv' /\ RefusedForAReason' /\ PaidInFullChargedAll'
<1> SUFFICES ASSUME IInv, [Next]_vars
             PROVE  ReadInv' /\ RefusedForAReason' /\ PaidInFullChargedAll'
  OBVIOUS
<1> USE DEF IInv, ReadInv, RefusedForAReason, PaidInFullChargedAll
<1>1. ASSUME Setter PROVE ReadInv' /\ RefusedForAReason' /\ PaidInFullChargedAll'
  <2>1. ReadInv' /\ RefusedForAReason'
    BY <1>1, Outdated
  <2>2. PaidInFullChargedAll'
    BY <1>1, Outdated
  <2> QED
    BY <2>1, <2>2
<1>2. ASSUME UNCHANGED <<settings, changed, visits>>
      PROVE  ReadInv' /\ RefusedForAReason' /\ PaidInFullChargedAll'
  BY <1>2 DEF Priceable
<1>3. ASSUME NEW f \in Family, Moving(f)
      PROVE  ReadInv' /\ RefusedForAReason' /\ PaidInFullChargedAll'
  <2>1. /\ UNCHANGED <<settings, changed>>
        /\ \A g \in Family \ {f} : visits'[g] = visits[g]
    BY <1>3
       DEF Moving, FillForm, SubmitOpen, EnsureAccommodationAvailable, ReadPaymentMode,
           ReadDeposit, ComputeSubmitted, Leave, Continue, Advance, TypeOK
  <2> DEFINE v == visits[f]
             w == visits'[f]
             Read(u) ==
               /\ u.pc \in {"open", "available", "mode", "deposit", "accepted"} =>
                    u.env = settings.env
               /\ u.pc \in {"mode", "deposit", "accepted"} => u.full = settings.full
               /\ u.pc \in {"deposit", "accepted"} => u.deposit = settings.deposit
               /\ u.pc = "accepted" /\ u.full => Priceable(u.campers, u.env)
             Reasoned(u) == u.pc = "refused" => u.full /\ ~Priceable(u.campers, u.env)
             Charged(u) == u.pc = "accepted" => u.charged = FormCost(u.campers, u.full, u.deposit)
  <2>2. v \in Visit /\ settings \in Setting
    BY DEF TypeOK
  <2>3. \A u, env : Priceable(u, env)' <=> Priceable(u, env)
    BY <2>1 DEF Priceable
  <2>4. SUFFICES Charged(w) /\ (f \notin changed => Read(w) /\ Reasoned(w))
    BY <2>1, <2>3
  <2>5. CASE FillForm(f)
    <3>1. w.pc = "filled"
      BY <2>2, <2>5 DEF FillForm, TypeOK, Visit
    <3> QED
      BY <3>1
  <2>6. CASE SubmitOpen(f)
    <3>1. /\ w.pc = IF settings.open THEN "open" ELSE "refused"
          /\ w.env = settings.env
      BY <2>2, <2>6 DEF SubmitOpen, Advance, TypeOK, Visit
    <3>2. f \notin changed => settings.open
      BY <2>6, FreshPage DEF SubmitOpen, FilledInv
    <3> QED
      BY <3>1, <3>2
  <2>7. CASE EnsureAccommodationAvailable(f)
    <3>1. v.pc = "open" /\ w.pc \in {"available", "refused"} /\ w.env = v.env
      BY <2>2, <2>7 DEF EnsureAccommodationAvailable, Continue, Advance, TypeOK, Visit
    <3>2. f \notin changed => w.pc = "available"
      BY <2>2, <2>7, ChoicesAreShown
         DEF EnsureAccommodationAvailable, Continue, Advance, TypeOK, Visit
    <3> QED
      BY <3>1, <3>2
  <2>8. CASE ReadPaymentMode(f)
    <3>1. /\ v.pc = "available" /\ w.pc = "mode" /\ w.full = settings.full
          /\ w.env = v.env
      BY <2>2, <2>8 DEF ReadPaymentMode, Advance, TypeOK, Visit
    <3> QED
      BY <3>1
  <2>9. CASE ReadDeposit(f)
    <3>1. v.pc = "mode" /\ w.pc = "deposit" /\ w.deposit = settings.deposit
          /\ w.full = v.full /\ w.env = v.env
      BY <2>2, <2>9 DEF ReadDeposit, Advance, TypeOK, Visit
    <3> QED
      BY <3>1
  <2>10. CASE ComputeSubmitted(f)
    <3> DEFINE total == TotalPence(ComputeCharge(v.campers, v.full, v.deposit))
    <3>1. v.pc = "deposit"
      BY <2>10 DEF ComputeSubmitted
    <3>2. total = FormCost(v.campers, v.full, v.deposit)
      BY <2>2, <3>1, ChargeAddsUp, SettingsAssumption DEF FilledInv, Visit
    <3> HIDE DEF total
    <3>3. CASE v.full => Priceable(v.campers, v.env)
      <4>1. w = [v EXCEPT !.pc = "accepted", !.charged = total]
        BY <2>2, <2>10, <3>3 DEF ComputeSubmitted, ChargedMode, Advance, TypeOK, total
      <4>2. /\ w.pc = "accepted" /\ w.charged = total
            /\ w.campers = v.campers /\ w.full = v.full /\ w.deposit = v.deposit
            /\ w.env = v.env
        BY <2>2, <4>1 DEF Visit
      <4> QED
        BY <3>1, <3>2, <3>3, <4>2
    <3>4. CASE ~(v.full => Priceable(v.campers, v.env))
      <4>1. w = [v EXCEPT !.pc = "refused"]
        BY <2>2, <2>10, <3>4 DEF ComputeSubmitted, Advance, TypeOK
      <4>2. w.pc = "refused" /\ w.campers = v.campers /\ w.full = v.full /\ w.env = v.env
        BY <2>2, <4>1 DEF Visit
      <4> QED
        BY <3>4, <4>2
    <3> QED
      BY <3>3, <3>4
  <2>11. CASE Leave(f)
    <3>1. w.pc = "left"
      BY <2>2, <2>11 DEF Leave, Advance, TypeOK, Visit
    <3> QED
      BY <3>1
  <2> QED
    BY <1>3, <2>5, <2>6, <2>7, <2>8, <2>9, <2>10, <2>11 DEF Moving
<1>4. ASSUME NEW a \in Admin, Checking(a) PROVE UNCHANGED <<settings, changed, visits>>
  BY <1>4 DEF Checking, ValidateFullPaymentPricing, AbandonFullPayment
<1>5. ASSUME NEW f \in Family, Loading(f) PROVE UNCHANGED <<settings, changed, visits>>
  BY <1>5
     DEF Loading, LoadConfig, LoadPrices, LoadAccommodations, QuoteMode, QuoteDeposit,
         QuoteTiers, QuoteFails, Load
<1>6. ASSUME UNCHANGED vars PROVE UNCHANGED <<settings, changed, visits>>
  BY <1>6 DEF vars
<1> QED
  BY <1>1, <1>2, <1>3, <1>4, <1>5, <1>6, Steps

LEMMA InitIInv == Init => IInv
<1> SUFFICES ASSUME Init PROVE IInv
  OBVIOUS
<1>1. TypeOK
  <2>1. settings \in Setting /\ NoCall \in Call /\ NewVisit \in Visit
    BY PricesAreKnown DEF Init, Setting, NoCall, Call, NewVisit, Visit, Visiting
  <2> QED
    BY <2>1, EmptyPageTyped, SettingsAssumption DEF Init, TypeOK
<1>2. /\ ~settings.full
      /\ \A f \in Family : visits[f].pc = "loading" /\ pages[f] = EmptyPage
      /\ \A a \in Admin : calls[a].pc = "idle"
  BY DEF Init, NewVisit, NoCall
<1>3. Current(EmptyPage)
  BY DEF Current, EmptyPage
<1> QED
  BY <1>1, <1>2, <1>3
     DEF IInv, FullModeIsPriced, CallInv, FilledInv, PageInv, ReadInv, RefusedForAReason,
         PaidInFullChargedAll

(* The inductive invariant holds of every behaviour.                       *)
THEOREM SettingsInvariance == Spec => []IInv
<1>1. IInv /\ [Next]_vars => IInv'
  BY TypeStep, PricingStep, FilledStep, PageStep, ReadStep DEF IInv
<1> QED
  BY InitIInv, <1>1, PTL DEF Spec

(* Every variable keeps its type; in particular every amount charged is an *)
(* amount.                                                                 *)
THEOREM SettingsTypeCorrect == Spec => []TypeOK
<1>1. IInv => TypeOK
  BY DEF IInv
<1> QED
  BY <1>1, SettingsInvariance, PTL

(* ValidateFullPaymentPricing is worth what it says: in full payment only  *)
(* what was shown or dropped after its look can lack a price.              *)
THEOREM FullModePriced == Spec => []FullModeIsPriced
<1>1. IInv => FullModeIsPriced
  BY DEF IInv
<1> QED
  BY <1>1, SettingsInvariance, PTL

(* A family whose page nobody outdated is refused only for a price that    *)
(* full payment needs and the camp does not have.                          *)
THEOREM RefusalHasReason == Spec => []RefusedForAReason
<1>1. IInv => RefusedForAReason
  BY DEF IInv
<1> QED
  BY <1>1, SettingsInvariance, PTL

(* Whenever the mode changes, the charge of a submission and the mode it   *)
(* is stored with agree, and the charge is what its members cost.          *)
THEOREM PaidInFullIsCharged == Spec => []PaidInFullChargedAll
<1>1. IInv => PaidInFullChargedAll
  BY DEF IInv
<1> QED
  BY <1>1, SettingsInvariance, PTL

----------------------------------------------------------------------------
(* The page's arithmetic, camper by camper, against the server's.          *)

LEMMA DaysAddUp ==
  ASSUME NEW campers, ValidForm(campers), NEW i \in DOMAIN campers \ Weekers(campers)
  PROVE  /\ campers[i].days \in Nat
         /\ campers[i].days > 0 => DayPassDays(campers) > 0
<1> DEFINE D == DOMAIN campers \ Weekers(campers)
           f == [j \in DOMAIN campers |-> campers[j].days]
<1>1. IsFiniteSet(D)
  BY FS_Subset DEF ValidForm
<1>2. \A j \in D : f[j] \in Nat
  BY DEF ValidForm, ValidCamper, Weekers
<1>3. DayPassDays(campers) = SumFunctionOnSet(f, D)
  BY DEF DayPassDays
<1>4. f[i] = campers[i].days
  OBVIOUS
<1> HIDE DEF D, f
<1>5. i \in D
  BY DEF D
<1>6. SumFunctionOnSet(f, D) = f[i] + SumFunctionOnSet(f, D \ {i})
  BY <1>1, <1>2, <1>5, SumTakeOut
<1>7. SumFunctionOnSet(f, D \ {i}) \in Nat
  <2>1. IsFiniteSet(D \ {i})
    BY <1>1, FS_Subset
  <2> QED
    BY <1>2, <2>1, SumIsNat
<1> QED
  BY <1>2, <1>3, <1>4, <1>5, <1>6, <1>7

LEMMA RidersCount ==
  ASSUME NEW campers, ValidForm(campers), NEW i \in DOMAIN campers,
         CoachEligible(campers[i])
  PROVE  CoachEligibleCount(campers) > 0
<1> DEFINE R == {j \in DOMAIN campers : CoachEligible(campers[j])}
<1>1. IsFiniteSet(R)
  BY FS_Subset DEF ValidForm
<1>2. Cardinality(R) \in Nat /\ Cardinality(R) # 0
  BY <1>1, FS_CardinalityType, FS_EmptySet
<1> QED
  BY <1>2 DEF CoachEligibleCount

(* One camper on a page that has every price the form needs.               *)
LEMMA AmountIsCost ==
  ASSUME NEW campers \in Roster, NEW page, NEW i \in DOMAIN campers, NEW full, full,
         page.deposit \in Nat, page.env = settings.env, Priceable(campers, settings.env),
         page.tiers = QuotedTiers(settings) \cap settings.priced,
         Selectable(page, campers), page.avail = settings.avail
  PROVE  FullAmount(page, campers[i]) = CamperCost(campers[i], full, page.deposit)
<1> DEFINE c == campers[i]
<1>1. ValidForm(campers) /\ ValidCamper(c)
  BY SettingsAssumption DEF ValidForm
<1>2. CASE IsFullWeek(c)
  <2>1. i \in Weekers(campers) /\ c.choice \in Code /\ c.choice # NoCode
    BY <1>1, <1>2, CodesArePriced DEF Weekers, ValidCamper
  <2>2. c.choice \in settings.avail
    BY <2>1 DEF Selectable
  <2>3. TierAmount(page, c) = PriceAmount[AccommodationPriceID(c.choice, c.age)]
    <3>1. CASE PricedByAge(c)
      <4>1. ChildUnder3 \in settings.env
        BY <2>1, <3>1 DEF Priceable, NeededEnv, EnvPrice
      <4> QED
        BY <3>1, <4>1 DEF TierAmount, EnvAmount, AccommodationPriceID, PricedByAge
    <3>2. CASE ~PricedByAge(c)
      <4>1. c.choice \in settings.priced
        BY <2>1, <3>2 DEF Priceable, NeededTiers
      <4> QED
        BY <2>2, <3>2, <4>1 DEF TierAmount, AccommodationPriceID, PricedByAge, QuotedTiers
    <3> QED
      BY <3>1, <3>2
  <2>4. (IF c.coach /\ c.age >= MinDepositAge THEN EnvAmount(page, CoachPrice) ELSE 0)
          = IF CoachEligible(c) THEN PriceAmount[CoachPrice] ELSE 0
    <3>1. CoachEligible(c) <=> c.coach /\ c.age >= MinDepositAge
      BY <1>2 DEF CoachEligible
    <3>2. CASE CoachEligible(c)
      <4>1. CoachPrice \in settings.env
        BY <1>1, <3>2, RidersCount DEF Priceable, NeededEnv, EnvPrice
      <4> QED
        BY <3>1, <3>2, <4>1 DEF EnvAmount
    <3> QED
      BY <3>1, <3>2
  <2>5. PayDeposit(c) <=> c.age >= MinDepositAge
    BY <1>2 DEF PayDeposit
  <2>6. /\ PriceAmount[AccommodationPriceID(c.choice, c.age)] \in Nat
        /\ PriceAmount[CoachPrice] \in Nat
    BY <2>1, PricesAreKnown DEF AccommodationPriceID
  <2> DEFINE p == PriceAmount[AccommodationPriceID(c.choice, c.age)]
             q == IF CoachEligible(c) THEN PriceAmount[CoachPrice] ELSE 0
             d == IF PayDeposit(c) THEN page.deposit ELSE 0
  <2>7. p \in Nat /\ q \in Nat /\ d \in Nat
    BY <2>6
  <2>8. FullAmount(page, c) = d + p + q
    BY <1>2, <2>3, <2>4, <2>5 DEF FullAmount
  <2>9. CamperCost(c, full, page.deposit) = d + (p + q)
    BY <1>2 DEF CamperCost
  <2> HIDE DEF p, q, d
  <2>10. \A x, y, z \in Nat : x + y + z = x + (y + z)
    OBVIOUS
  <2> QED
    BY <2>7, <2>8, <2>9, <2>10, Zenon
<1>3. CASE ~IsFullWeek(c)
  <2>1. i \in DOMAIN campers \ Weekers(campers)
    BY <1>3 DEF Weekers
  <2>2. c.days \in Nat /\ (c.days > 0 => DayPassDays(campers) > 0)
    BY <1>1, <2>1, DaysAddUp
  <2>3. PriceAmount[DayPassPrice] \in Nat
    BY PricesAreKnown
  <2>4. FullAmount(page, c) = EnvAmount(page, DayPassPrice) * c.days
    BY <1>3 DEF FullAmount
  <2>5. CamperCost(c, full, page.deposit) = 0 + c.days * PriceAmount[DayPassPrice]
    BY <1>3 DEF CamperCost, PayDeposit
  <2>6. CASE c.days > 0
    <3>1. DayPassPrice \in settings.env
      BY <2>2, <2>6 DEF Priceable, NeededEnv, EnvPrice
    <3>2. EnvAmount(page, DayPassPrice) = PriceAmount[DayPassPrice]
      BY <3>1 DEF EnvAmount
    <3>3. \A m, n \in Nat : m * n = 0 + n * m
      OBVIOUS
    <3> QED
      BY <2>2, <2>3, <2>4, <2>5, <3>2, <3>3
  <2>7. CASE c.days = 0
    <3>1. EnvAmount(page, DayPassPrice) \in Nat
      BY <2>3 DEF EnvAmount
    <3>2. \A m, n \in Nat : m * 0 = 0 + 0 * n
      OBVIOUS
    <3> QED
      BY <2>3, <2>4, <2>5, <2>7, <3>1, <3>2
  <2> QED
    <3>1. c.days > 0 \/ c.days = 0
      BY <2>2
    <3> QED
      BY <2>6, <2>7, <3>1, Zenon
<1> QED
  BY <1>2, <1>3

(* What the page shows comes to what the server charges, although the page *)
(* goes camper by camper and the server counts and groups them: unless a   *)
(* setting changed since the page's first request.                         *)
THEOREM ShownAndChargedAgree == Spec => []ShownIsCharged
<1>1. ASSUME IInv, NEW f \in Family \ changed, visits[f].pc = "accepted"
      PROVE  visits[f].charged = Shown(f)
  <2> DEFINE v == visits[f]
             page == pages[f]
             D == DOMAIN v.campers
  <2>1. /\ v.charged = FormCost(v.campers, v.full, v.deposit)
        /\ v.full = settings.full /\ v.deposit = settings.deposit
        /\ v.full => Priceable(v.campers, settings.env)
    BY <1>1 DEF IInv, PaidInFullChargedAll, ReadInv
  <2>2. Usable(page) /\ v.campers \in Roster /\ Selectable(page, v.campers)
    BY <1>1 DEF IInv, FilledInv
  <2>3. /\ page.avail = settings.avail /\ page.price = settings.deposit
        /\ IsFullMode(page) <=> settings.full
        /\ settings.full => /\ page.deposit = settings.deposit
                            /\ page.env = settings.env
                            /\ page.tiers = QuotedTiers(settings) \cap settings.priced
    BY <1>1, <2>2, FreshPage
  <2>4. IsFiniteSet(D) /\ settings.deposit \in Nat /\ settings.full \in BOOLEAN
    BY <1>1, <2>2, SettingsAssumption DEF IInv, TypeOK, Setting, ValidForm
  <2>5. CASE settings.full
    <3> DEFINE g == [i \in D |-> FullAmount(page, v.campers[i])]
    <3>1. \A i \in D : g[i] = CamperCost(v.campers[i], v.full, settings.deposit)
      <4>1. ASSUME NEW i \in D
            PROVE  FullAmount(page, v.campers[i])
                     = CamperCost(v.campers[i], v.full, page.deposit)
        <5> DEFINE cs == v.campers
                   full == v.full
        <5>1. /\ cs \in Roster /\ i \in DOMAIN cs /\ full
              /\ Priceable(cs, settings.env)
              /\ Selectable(page, cs)
          BY <2>1, <2>2, <2>5
        <5>2. /\ page.deposit \in Nat /\ page.env = settings.env
              /\ page.tiers = QuotedTiers(settings) \cap settings.priced
              /\ page.avail = settings.avail
          BY <2>3, <2>4, <2>5
        <5> HIDE DEF cs, full, page
        <5>3. FullAmount(page, cs[i]) = CamperCost(cs[i], full, page.deposit)
          BY <5>1, <5>2, AmountIsCost
        <5> QED
          BY <5>3 DEF cs, full
      <4> QED
        BY <2>3, <2>5, <4>1
    <3>2. Shown(f) = SumFunctionOnSet(g, D)
      BY <2>3, <2>5 DEF Shown, ComputeFullTotalPence, SumFunction
    <3> HIDE DEF g
    <3>3. FormCost(v.campers, v.full, settings.deposit) = SumFunctionOnSet(g, D)
      BY <2>4, <3>1, FormCostIsSum
    <3> QED
      BY <2>1, <3>2, <3>3
  <2>6. CASE ~settings.full
    <3> DEFINE g == [i \in D |-> IF PayDeposit(v.campers[i]) THEN page.price ELSE 0]
    <3>1. \A i \in D : g[i] = CamperCost(v.campers[i], v.full, settings.deposit)
      <4>1. \A n \in Nat : n + 0 = n
        OBVIOUS
      <4> QED
        BY <2>1, <2>3, <2>4, <2>6, <4>1 DEF CamperCost
    <3>2. Shown(f) = SumFunctionOnSet(g, D)
      BY <2>3, <2>6 DEF Shown, ComputeTotalPence, SumFunction
    <3> HIDE DEF g
    <3>3. FormCost(v.campers, v.full, settings.deposit) = SumFunctionOnSet(g, D)
      BY <2>4, <3>1, FormCostIsSum
    <3> QED
      BY <2>1, <3>2, <3>3
  <2> QED
    BY <2>5, <2>6
<1>2. IInv => ShownIsCharged
  BY <1>1 DEF ShownIsCharged
<1> QED
  BY <1>2, SettingsInvariance, PTL
=============================================================================
