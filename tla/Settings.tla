------------------------------ MODULE Settings ------------------------------
(***************************************************************************)
(* The camp's settings while families register: administrators open and    *)
(* close registration, choose what is charged at signup, edit the deposit  *)
(* and hide tiers, a deployment configures Stripe prices, and in between   *)
(* families load the registration page, see a total and submit.  No lock   *)
(* and no version guards a setting: the page is four requests, pricing     *)
(* three queries, a submission five, and the check before full payment is  *)
(* switched on reads what it then does not protect.                        *)
(* A submission that is accepted goes on in Registration.                  *)
(***************************************************************************)
EXTENDS Charges

CONSTANTS
    Family,         \* visitors of the registration page
    Admin,          \* calls that switch full payment on
    Roster,         \* the campers a form may name, with a second choice each
    Deposit,        \* amounts an administrator may set the deposit to
    MaxWrites       \* bound: changes of settings in a behaviour

ASSUME SettingsAssumption ==
    /\ DepositPence \in Deposit /\ Deposit \subseteq Nat /\ MaxWrites \in Nat
    /\ ChildTier \in Code
    /\ \A campers \in Roster :
         /\ ValidForm(campers)
         /\ \A i \in DOMAIN campers \ Weekers(campers) :
              campers[i].choice = NoCode /\ campers[i].second = NoCode

VARIABLES
    settings,   \* camp_config, the deposit, the tiers, and the process's price ids
    calls,      \* the SetRegistrationPaymentMode("full") calls
    pages,      \* what each family's page has loaded
    visits,     \* how far each family is, and its submission
    exposed,    \* prices lost since the check full payment was switched on by
    changed,    \* families since whose first request a setting has changed
    writes      \* how many changes there have been

vars == <<settings, calls, pages, visits, exposed, changed, writes>>

\* Price ids from the environment, which another deployment may lack.  A request
\* has those of the process that answers it (env of a page and of a visit).
EnvPrice == {ChildUnder3, DayPassPrice, CoachPrice}

Setting == [open : BOOLEAN, full : BOOLEAN, deposit : Nat, avail : SUBSET Code,
            priced : SUBSET Code, env : SUBSET EnvPrice]
Call == [pc : {"idle", "validated"}, exposed : SUBSET (Code \cup EnvPrice)]

\* The page's four requests.  quote is how far the one for prices is; the form
\* does without its answer when it fails.
Quoting == {"mode", "deposit", "tiers", "done", "failed"}
Page == [todo : SUBSET {"config", "prices", "accommodations"}, open : BOOLEAN,
         configFull : BOOLEAN, price : Nat, avail : SUBSET Code, quote : Quoting,
         full : BOOLEAN, deposit : Nat, tiers : SUBSET Code, env : SUBSET EnvPrice]
Visiting == {"loading", "filled", "open", "available", "mode", "deposit",
             "accepted", "refused", "left"}
Visit == [pc : Visiting, campers : Roster \cup {<<>>}, env : SUBSET EnvPrice,
          full : BOOLEAN, deposit : Nat, charged : Nat]

TypeOK ==
    /\ settings \in Setting
    /\ calls \in [Admin -> Call]
    /\ pages \in [Family -> Page]
    /\ visits \in [Family -> Visit]
    /\ exposed \subseteq Code \cup EnvPrice
    /\ changed \subseteq Family
    /\ writes \in 0..MaxWrites

NoCall == [pc |-> "idle", exposed |-> {}]
EmptyPage == [todo |-> {"config", "prices", "accommodations"}, open |-> FALSE,
              configFull |-> FALSE, price |-> 0, avail |-> {}, quote |-> "mode",
              full |-> FALSE, deposit |-> 0, tiers |-> {}, env |-> {}]
NewVisit == [pc |-> "loading", campers |-> <<>>, env |-> {}, full |-> FALSE,
             deposit |-> 0, charged |-> 0]

\* Migrations leave every tier shown and deposits asked for; what is priced
\* depends on the deployment.
Init ==
    /\ settings \in [open : {TRUE}, full : {FALSE}, deposit : {DepositPence},
                     avail : {Code}, priced : SUBSET Code, env : SUBSET EnvPrice]
    /\ calls = [a \in Admin |-> NoCall]
    /\ pages = [f \in Family |-> EmptyPage]
    /\ visits = [f \in Family |-> NewVisit]
    /\ exposed = {} /\ changed = {} /\ writes = 0

Submitting(f) == visits[f].pc \in {"filled", "open", "available", "mode", "deposit"}
Visits(f) == pages[f] # EmptyPage

----------------------------------------------------------------------------
(* Settings                                                                *)

\* Every family whose visit has begun may now have read something else.
Write(s) ==
    /\ writes < MaxWrites
    /\ settings' = s
    /\ changed' = changed \cup {f \in Family : Visits(f)}
    /\ writes' = writes + 1

SetRegistrationsOpen ==
    /\ Write([settings EXCEPT !.open = ~@])
    /\ UNCHANGED <<calls, pages, visits, exposed>>

\* Faulty: the handler does not refuse a negative amount.
UpdatePriceUnchecked ==
    /\ \E d \in Deposit \cup {-1} : Write([settings EXCEPT !.deposit = d])
    /\ UNCHANGED <<calls, pages, visits, exposed>>

UpdatePrice ==
    /\ \E d \in Deposit \ {settings.deposit} : Write([settings EXCEPT !.deposit = d])
    /\ UNCHANGED <<calls, pages, visits, exposed>>

\* No tier is asked for a price when it is shown.
SetAccommodationAvailability ==
    \E t \in Code :
        LET shown == t \notin settings.avail
            lost  == IF shown THEN {t} \ settings.priced ELSE {}
        IN /\ Write([settings EXCEPT !.avail = IF shown THEN @ \cup {t} ELSE @ \ {t}])
           /\ exposed' = exposed \cup lost
           /\ calls' = [a \in Admin |-> [calls[a] EXCEPT !.exposed = @ \cup lost]]
           /\ UNCHANGED <<pages, visits>>

SetDepositMode ==
    /\ settings.full
    /\ Write([settings EXCEPT !.full = FALSE])
    /\ UNCHANGED <<calls, pages, visits, exposed>>

\* The tiers priced for the form: those shown, and the children's always.
QuotedTiers(s) == s.avail \cup {ChildTier}

\* Faulty: the tiers' prices are asked for, the others are not.
ValidateTierPricing(a) ==
    /\ calls[a].pc = "idle"
    /\ QuotedTiers(settings) \subseteq settings.priced
    /\ calls' = [calls EXCEPT ![a] = [pc |-> "validated", exposed |-> {}]]
    /\ UNCHANGED <<settings, pages, visits, exposed, changed, writes>>

ValidateFullPaymentPricing(a) ==
    /\ calls[a].pc = "idle"
    /\ QuotedTiers(settings) \subseteq settings.priced
    /\ settings.env = EnvPrice
    /\ calls' = [calls EXCEPT ![a] = [pc |-> "validated", exposed |-> {}]]
    /\ UNCHANGED <<settings, pages, visits, exposed, changed, writes>>

SetRegistrationPaymentMode(a) ==
    /\ calls[a].pc = "validated"
    /\ Write([settings EXCEPT !.full = TRUE])
    /\ exposed' = calls[a].exposed
    /\ calls' = [calls EXCEPT ![a] = NoCall]
    /\ UNCHANGED <<pages, visits>>

\* The update fails, or the call is dropped with its process.
AbandonFullPayment(a) ==
    /\ calls[a].pc = "validated"
    /\ calls' = [calls EXCEPT ![a] = NoCall]
    /\ UNCHANGED <<settings, pages, visits, exposed, changed, writes>>

\* A new process takes over: its environment prices some tiers for good, and
\* alone says what the other prices are.  The old one finishes the requests it has
\* begun, or drops them when its time is up (QuoteFails, Leave, AbandonFullPayment).
Deploy ==
    \E tiers \in SUBSET (Code \ settings.priced), env \in SUBSET EnvPrice :
        LET lost == EnvPrice \ env
        IN /\ <<tiers, env>> # <<{}, settings.env>>
           /\ Write([settings EXCEPT !.priced = @ \cup tiers, !.env = env])
           /\ exposed' = exposed \cup lost
           /\ calls' = [a \in Admin |-> [calls[a] EXCEPT !.exposed = @ \cup lost]]
           /\ UNCHANGED <<pages, visits>>

----------------------------------------------------------------------------
(* The registration page                                                   *)

Load(f, page) ==
    /\ visits[f].pc = "loading"
    /\ pages' = [pages EXCEPT ![f] = page]
    /\ UNCHANGED <<settings, calls, visits, exposed, changed, writes>>

LoadConfig(f) ==
    /\ "config" \in pages[f].todo
    /\ Load(f, [pages[f] EXCEPT !.todo = @ \ {"config"}, !.open = settings.open,
                                !.configFull = settings.full])

LoadPrices(f) ==
    /\ "prices" \in pages[f].todo
    /\ Load(f, [pages[f] EXCEPT !.todo = @ \ {"prices"}, !.price = settings.deposit])

LoadAccommodations(f) ==
    /\ "accommodations" \in pages[f].todo
    /\ Load(f, [pages[f] EXCEPT !.todo = @ \ {"accommodations"}, !.avail = settings.avail])

\* PricingSnapshot: the mode, the deposit, and in full payment the tiers.  A tier
\* without a price is left out, a price id the process lacks is an amount of 0.
QuoteMode(f) ==
    /\ pages[f].quote = "mode"
    /\ Load(f, [pages[f] EXCEPT !.quote = "deposit", !.env = settings.env,
                                !.full = settings.full])

QuoteDeposit(f) ==
    /\ pages[f].quote = "deposit"
    /\ Load(f, [pages[f] EXCEPT !.quote = IF pages[f].full THEN "tiers" ELSE "done",
                                !.deposit = settings.deposit])

QuoteTiers(f) ==
    /\ pages[f].quote = "tiers"
    /\ Load(f, [pages[f] EXCEPT !.quote = "done",
                                !.tiers = QuotedTiers(settings) \cap settings.priced])

\* Stripe or the database does not answer, or the process has ended.
QuoteFails(f) ==
    /\ pages[f].quote \notin {"done", "failed"}
    /\ Load(f, [pages[f] EXCEPT !.quote = "failed"])

Quoted(page) == page.quote = "done"
IsFullMode(page) == page.configFull \/ (Quoted(page) /\ page.full)
Usable(page) == /\ page.todo = {} /\ page.quote \in {"done", "failed"} /\ page.open
                /\ IsFullMode(page) => Quoted(page)

PricedByAge(c) == c.choice = ChildTier /\ c.age < MinDepositAge

\* A tier that is hidden cannot be picked.  Prices that came without tiers (in
\* deposit mode, or none is priced) have null for a list: looking one up throws,
\* and there is no form.
Selectable(page, campers) ==
    \A i \in Weekers(campers) :
        /\ {campers[i].choice, campers[i].second} \subseteq page.avail \cup {NoCode}
        /\ IsFullMode(page) => page.tiers # {} \/ PricedByAge(campers[i])

FillForm(f) ==
    /\ visits[f].pc = "loading" /\ Usable(pages[f])
    /\ \E campers \in Roster :
         /\ Selectable(pages[f], campers)
         /\ visits' = [visits EXCEPT ![f].pc = "filled", ![f].campers = campers]
    /\ UNCHANGED <<settings, calls, pages, exposed, changed, writes>>

----------------------------------------------------------------------------
(* The total the page shows                                                *)

EnvAmount(page, price) == IF price \in page.env THEN PriceAmount[price] ELSE 0

\* Faulty: the price of a child under three is forgotten.
TierAmountAnyAge(page, c) ==
    IF c.choice \in page.tiers THEN PriceAmount[TierPrice[c.choice]] ELSE 0

TierAmount(page, c) ==
    IF PricedByAge(c) THEN EnvAmount(page, ChildUnder3)
    ELSE IF c.choice \in page.tiers THEN PriceAmount[TierPrice[c.choice]] ELSE 0

FullAmount(page, c) ==
    IF IsFullWeek(c)
    THEN (IF c.age >= MinDepositAge THEN page.deposit ELSE 0) + TierAmount(page, c) +
         (IF c.coach /\ c.age >= MinDepositAge THEN EnvAmount(page, CoachPrice) ELSE 0)
    ELSE EnvAmount(page, DayPassPrice) * c.days

ComputeFullTotalPence(page, campers) ==
    SumFunction([i \in DOMAIN campers |-> FullAmount(page, campers[i])])
ComputeTotalPence(page, campers) ==
    SumFunction([i \in DOMAIN campers |-> IF PayDeposit(campers[i]) THEN page.price ELSE 0])

Shown(f) ==
    IF IsFullMode(pages[f]) THEN ComputeFullTotalPence(pages[f], visits[f].campers)
    ELSE ComputeTotalPence(pages[f], visits[f].campers)

----------------------------------------------------------------------------
(* Submit, up to its transaction                                           *)

Advance(f, visit) ==
    /\ visits' = [visits EXCEPT ![f] = visit]
    /\ UNCHANGED <<settings, calls, pages, exposed, changed, writes>>

Continue(f, pc, ok) == Advance(f, [visits[f] EXCEPT !.pc = IF ok THEN pc ELSE "refused"])

SubmitOpen(f) ==
    /\ visits[f].pc = "filled"
    /\ Advance(f, [visits[f] EXCEPT !.pc = IF settings.open THEN "open" ELSE "refused",
                                    !.env = settings.env])

\* Faulty: a choice left blank counts as a hidden tier.
DisabledOrBlank(code) == code \notin settings.avail

\* Blank choices pass.
Disabled(code) == code # NoCode /\ code \notin settings.avail

EnsureAccommodationAvailable(f) ==
    /\ visits[f].pc = "open"
    /\ Continue(f, "available",
                \A i \in DOMAIN visits[f].campers :
                    LET c == visits[f].campers[i]
                    IN ~Disabled(c.choice) /\ ~Disabled(c.second))

ReadPaymentMode(f) ==
    /\ visits[f].pc = "available"
    /\ Advance(f, [visits[f] EXCEPT !.pc = "mode", !.full = settings.full])

ReadDeposit(f) ==
    /\ visits[f].pc = "mode"
    /\ Advance(f, [visits[f] EXCEPT !.pc = "deposit", !.deposit = settings.deposit])

\* The prices a form cannot be charged without.
NeededTiers(campers) == {campers[i].choice :
                           i \in {j \in Weekers(campers) : ~PricedByAge(campers[j])}}
NeededEnv(campers) ==
    {p \in EnvPrice :
       \/ p = ChildUnder3 /\ \E i \in Weekers(campers) : PricedByAge(campers[i])
       \/ p = DayPassPrice /\ DayPassDays(campers) > 0
       \/ p = CoachPrice /\ CoachEligibleCount(campers) > 0}
Priceable(campers, env) ==
    NeededTiers(campers) \subseteq settings.priced /\ NeededEnv(campers) \subseteq env

\* Faulty: the mode is read again.
ChargedModeNow(f) == settings.full

\* The mode Submit has read, and stores with the group.
ChargedMode(f) == visits[f].full

ComputeSubmitted(f) ==
    LET v == visits[f] IN
    /\ v.pc = "deposit"
    /\ IF v.full => Priceable(v.campers, v.env)
       THEN Advance(f, [v EXCEPT !.pc = "accepted",
              !.charged = TotalPence(ComputeCharge(v.campers, ChargedMode(f), v.deposit))])
       ELSE Advance(f, [v EXCEPT !.pc = "refused"])

\* The database or Stripe fails, the process has ended, or the family leaves.
Leave(f) ==
    /\ visits[f].pc = "loading" \/ Submitting(f)
    /\ Advance(f, [visits[f] EXCEPT !.pc = "left"])

AdminStep ==
    \/ SetRegistrationsOpen \/ UpdatePrice \/ SetAccommodationAvailability
    \/ SetDepositMode \/ Deploy
    \/ \E a \in Admin : \/ ValidateFullPaymentPricing(a) \/ SetRegistrationPaymentMode(a)
                       \/ AbandonFullPayment(a)
FamilyStep(f) ==
    \/ LoadConfig(f) \/ LoadPrices(f) \/ LoadAccommodations(f)
    \/ QuoteMode(f) \/ QuoteDeposit(f) \/ QuoteTiers(f) \/ QuoteFails(f)
    \/ FillForm(f) \/ SubmitOpen(f) \/ EnsureAccommodationAvailable(f)
    \/ ReadPaymentMode(f) \/ ReadDeposit(f) \/ ComputeSubmitted(f) \/ Leave(f)
Next == AdminStep \/ \E f \in Family : FamilyStep(f)

Spec == Init /\ [][Next]_vars

----------------------------------------------------------------------------
(* What the checks are for                                                 *)

(* In full payment every tier on the form, the children's tier, and every  *)
(* price of the environment is known, but for those an administrator has   *)
(* shown, or a deployment dropped, since ValidateFullPaymentPricing looked *)
(* at them: the check is worth what it says and no more.                   *)
FullModeIsPriced ==
    settings.full =>
        /\ settings.avail \cup {ChildTier} \subseteq settings.priced \cup exposed
        /\ EnvPrice \subseteq settings.env \cup exposed

(* A family is charged what its page showed (computeFullTotalPence         *)
(* "mirrors backend full-payment mode pricing"), or a setting changed      *)
(* while it filled the form in.                                            *)
ShownIsCharged ==
    \A f \in Family \ changed :
        visits[f].pc = "accepted" => visits[f].charged = Shown(f)

(* A form the page let a family fill in is refused only when a setting     *)
(* changed meanwhile, or when in full payment a price it needs is missing. *)
RefusedForAReason ==
    \A f \in Family \ changed :
        LET v == visits[f]
        IN v.pc = "refused" => v.full /\ ~Priceable(v.campers, v.env)

(* A registration stored as paid in full, which is never billed again, has *)
(* been charged everything its members cost one by one, at the deposit its *)
(* submission read, and any other only the deposits, even when the payment *)
(* mode changed while it was being submitted.                              *)
PaidInFullChargedAll ==
    \A f \in Family :
        LET v == visits[f] IN
        v.pc = "accepted" => v.charged = FormCost(v.campers, v.full, v.deposit)
=============================================================================
