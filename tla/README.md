# Registration and billing of the camp website, in TLA+

This directory models the back end of the Pagasa Centre camp website (`src/backend`, Go, PostgreSQL,
Stripe) where it is hardest to get right: what happens to a family's registration between the
submitted form and the settled balance, while two dashboards, Stripe's webhooks and the nightly sweep
act on the same rows and a call may stop half-way. Four smaller parts stand on their own: the settings
that change while families register, the Google Sheet that mirrors the registrations, the live feed
between the administrators' dashboards, and the limit on login attempts. The modules are checked by TLC on small instances;
every safety property, every action property and every refinement is also proved with TLAPS, for every value of the constants.

Paths below are relative to `src/backend/internal` unless they start with `src/`.

## 1. The system

| Part | State it keeps | Operations | What makes it hard |
|---|---|---|---|
| **Domain rules** `registration/domain` | none | guards and transitions of billing status, coach and roster rules | long sequences of legal calls |
| **Group storage** `registration/storage/groupsql`, `billing/*/storage`, `billing/conflict.go` | `registration_groups`, `registrations` | `LockGroup`, `CheckVersion`, `Stamp`, the `...Meta` writes | version optional, compare-and-set only when the status changes, one write path without the lock |
| **Stripe client** `stripe/billing_client.go` | customers, invoices, customer-balance credits, refunds | `EnsureCustomer`, `CreateInvoice`, `VoidInvoiceIdempotent`, `CreditCustomerBalance`, `RefundInvoiceKeeping` | each call may fail, and what succeeded before a rollback stays |
| **Allocation** `billing/allocation` | (rows above) | `Allocate`, `Unallocate`, `ConfirmFree`, `VoidAndRelease` | decides on unlocked reads |
| **Sweep** `billing/sweep`, scheduled in `src/backend/cmd/api/main.go` | none | `SweepOverdue` | a list that is stale when used; one sweep per replica |
| **Invoicing** `billing/invoicing` | (rows, Stripe) | `SendInvoice`, `SendCoachInvoice`, `WaiveCoachFee`, `UnwaiveCoachFee`, `MarkBalancePaid`, `DeleteRegistration`, `ResendInvoice`, `ExtendInvoiceDue`, bulk forms | Stripe first, commit later |
| **Camper editing** `billing/camperedit` | (rows, Stripe) | remove, convert to day visitor, day passes, coach, edit, add, main contact, waive deposit | voids and credits before the version check |
| **Reconciliation** `billing/reconcile`, `api/payment` | (rows) | `HandleInvoicePaid`, `HandleCoachInvoicePaid` | redelivery, concurrent deliveries, lost answers |
| **Checkout** `payment` | (rows) | `checkout.session.completed`, `.expired`, payment-status override | order of events, no version bump |
| **Registration intake** `registration` | (rows), checkout session | `Submit` | a Stripe session made inside a transaction |
| **Sponsorship codes** `registration/storage/free_codes.go` | `free_codes` | reserve, use, revoke | two redemptions of one code |
| **Settings** `campadmin/config_actions.go`, `camp`, `accommodation`, `registration/pricing.go`, the registration page | `camp_config`, the deposit in `prices`, `accommodation_types`, a process's price ids | open, close, set mode, deposit and availability, deploy; load the page, price a form | every reader takes several requests, no version, a check before the update only |
| **Sheets** `sheets`, `billing/sheetsync`, and the callers in `registration`, `payment`, `billing/*` | Pending and Paid tabs, `headerOnce` | append, delete by row number, change the contact by row number, resync | two requests per deletion, no lock, no database transaction |
| **Event feed** `adminlog`, `api/campadmin/stream.go`, the dashboard | the hub's clients and their buffers, streams, the debounce timer | record, broadcast, subscribe, deliver, reload | full buffers, a client that leaves during a broadcast, reconnection |
| **Sessions** `auth` | login attempts | `allow`, tokens | window boundary, attempts dropped lazily |
| **Price catalogue** `stripe/price_catalog.go`, `registration/domain/charges.go` | 60 s cache | price lookup, `ComputeCharge` | stale cache |
| **Administration, HTTP, e-mail, read models, rest of the front end** | none | dispatch, DTOs, mail, queries | none of billing's own |

How they interact. The dashboard calls the HTTP layer, which dispatches to one of the three billing
services; a service reads the group, reads the campers, asks the domain rules, calls Stripe, and
commits one transaction through the storage layer. Stripe calls back: `invoice.paid` reaches
reconciliation, `checkout.session.*` the checkout service. The sweep calls `VoidAndRelease`. All of
them share the one group row, its camper rows and what Stripe holds for it, and nothing else:
groups share no rows, so one group stands for all.

The dashboard sends back the version it last showed. Bulk actions, the sweep, the webhooks and callers
that omit it carry `SkipVersionCheck`; for them only the row lock and the compare-and-set of
`billing_status` remain.

What makes each part correct:

* *Domain rules*: whatever the order of calls, no settled group is unsettled except by a release, and
  nobody sponsored or paid in full is billed a balance.
* *Storage*: a versioned commit writes what would still be decided now; the invoice reference and the
  status agree even without versions.
* *Allocation and camper editing*: a billed group has a bed for every full-week camper, exactly one main
  contact, and an invoice that charges the roster as it is.
* *Invoicing*: the coach is charged on one invoice at most; a waived fee has no invoice.
* *Reconciliation*: a payment settles the group, once, however it is delivered.
* *Intake and codes*: a sponsorship code is redeemed once, whatever rolls back; a code redeemed is never
  revoked, a code revoked never redeemed.
* *Checkout*: a registration's payment status is what its session says; a paid one is not cancelled by a
  late event; a pending one is decided; and a session asks for what the campers on the form cost.
* *Settings*: what the page shows is what is charged, and what it lets through is accepted, unless a setting
  changed meanwhile or a price is missing; full payment is switched on only when everything has a price; and a
  registration stored as paid in full was charged everything.
* *Sheets*: a write touches the rows of its own group, as long as the row numbers it counted are still
  right; a group that was listed is lost only by overlapping calls; a resync that runs by itself repairs
  whatever went wrong before; the header is on top, and once.
* *Event feed*: nothing is sent on a channel its handler has closed; a change reaches every dashboard that
  stays connected, though full buffers drop events; one that connects again catches up.
* *Sessions*: whatever window one looks at, at most the maximum of attempts was let in; and a client locked
  out is let in again when its attempts have aged, whatever it tried meanwhile.

## 2. The modules

```
Lifecycle        registration/domain: pure rules
   |
BillingStore     variables, read/decide/call/commit protocol, Stripe, the commit rules
   |        \         \            \
Allocation  Invoicing  CamperEdit  Reconcile     one module per service
    \        |          |          /
             Billing              Init, checkout, Next, fairness, invariants
            /   |    \
           /    |     implements AtomicBilling, every operation one step
          /     |
 BillingClaims  BillingProofs                    what comments promise / TLAPS proofs: the stored data,
      |               |                          the refinement, what the version guarantees
  MCBilling     InvoiceProofs                    the instances TLC checks / proofs about the invoices:
                                                 who is billed, for what, and once

Lifecycle
   |
Charges          what a form is charged: pure operators
   |     \
   |    ChargeProofs                             proof that it is what its campers cost
   |
Registration     submissions, codes, checkout sessions; implements Sponsorship,
   |     \        what a code promises
   |    MCRegistration                           the instance TLC checks
RegistrationProofs                               TLAPS proofs, with ChargeProofs

Charges
   |
Settings         settings, deployments, the registration page, Submit up to its transaction
   |     \
   |    MCSettings                               the instance TLC checks
SettingsProofs                                   TLAPS proofs, with ChargeProofs

SheetSync        two tabs, the calls that write them, one request to Google per step
   |     \
   |    MCSheetSync                              the instance TLC checks
SheetSyncProofs                                  TLAPS proofs

AdminFeed        hub, streams, dashboards        (checked as it is)
   |
AdminFeedProofs                                  TLAPS proofs

LoginLimiter     loginLimiter.allow              (checked as it is)
   |
LoginLimiterProofs                               TLAPS proofs
```

`Registration` ends where `Billing` begins: a group it stores and settles is an initial state of `Billing`,
which follows one group through its billing and keeps the checkout events as steps of its own, because
they also write billing columns. `Registration` follows many submissions, because codes are shared. A form
names its campers; `Charges` turns them into checkout lines as `ComputeCharge` does, and their total
decides whether the submission is settled at once or sent to Stripe. Lines and totals are functions of the
form, so they are computed where they are needed and not kept as state.

`Settings` ends where `Registration` begins: what `BeginSubmit` takes as read at once, with the settings of the
moment, is in `Settings` query by query, with the page that came before. The two share `Charges`, and are not composed: the
transaction reads no setting again.

**State.** `group` is the `registration_groups` row, `campers` the `registrations` rows (`st` tells a row
not yet inserted, present, or deleted), `stripe` the invoices by id, `credits` the idempotency keys used
for customer-balance credits, `events` the paid invoices whose `invoice.paid` was not yet answered with
200, `reqs` the service calls in flight and `hooks` the webhook deliveries in flight, with the settlements by hand that skip the version.

**A service call is several steps**, because it is not a transaction in the code:

| Step | Code |
|---|---|
| `Begin...` | `FindGroupByID`, and the guard that needs the group only |
| `Decide...` | `CampersForGroup`, the rest of the rules; yields a *plan*: the Stripe calls to make, the transition, the values to write |
| `EnsureCustomer`, `CreateInvoice`, `VoidBalanceInvoice`, ... | one Stripe call each, in the order of the code |
| `Commit...` | the storage transaction: lock, `CheckVersion`, compare-and-set in `Stamp`, writes |
| `GiveUp` | any refusal, 409, Stripe or database error, or crash: Stripe's side stays as it is |

Calls that never read the campers (`Unallocate`, `ConfirmFree`, `MarkBalancePaid`, `ResendInvoice`, ...)
decide in `Begin`. A call whose first guard fails has no effect, so it is not begun. `MarkBalancePaid` without a
version is two steps, since it updates camper rows, which it holds locked, before it compares-and-sets the group: for the
webhook `SettleOwedDeposits`, then `CommitBalancePaid`; for an administrator `SettleByHand`, which from then on is such a
delivery of no invoice (`CommitBalancePaid`, or `DeliveryFails` when the status has changed) and leaves the request slot. With a
version it locks the group first and is one step (`CommitMarkBalancePaid`). A request slot is reused; a second
slot is a second administrator, another replica's sweep, or a retry that overlaps the first attempt.

**A submission is one transaction seen in steps**, because others meet its locks and sessions half-way:

| Step of `Registration` | Code |
|---|---|
| `BeginSubmit` | `Submit` up to `WithTx`: settings, prices, the charge, read once |
| `ReserveFreeCode` | `SELECT ... FOR UPDATE`; `Locked` is the row lock, held until the submission ends |
| `SubmitSettled` | nothing to pay: group, code and settlement, then commit |
| `CreateCheckoutSession` | the call to Stripe, which no rollback takes back |
| `SubmitPending` | group with the session's id, then commit; only now does the family get the URL |
| `Rollback` | any refusal, error or crash before the commit |
| `SessionPaid`, `SessionExpires` | Stripe: the session ends and its event is due |
| `HandleCheckoutCompleted`, `HandleCheckoutExpired` | one locked transaction, then an answer that may be lost |
| `SetPaymentStatus`, `StartDelete`, `DeleteGroup`, `AbandonDelete` | the administrator; a delete checks `CanDelete` and commits later |

`codes`, `groups` are the tables, `sessions` and `events` Stripe's side, `subs` the calls in flight, `deletes` the
deletes in flight, and `byHand` remembers which groups an administrator set, for the properties only.

**A sheet call is a commit and then one request to Google per step.** `SheetSync` has its own small copy of
the database (payment status, campers, contact), because the sheet depends on nothing else, and is not
composed with `Billing`: no billing decision reads the sheet.

| Step of `SheetSync` | Code |
|---|---|
| `Submit`, `HandleCheckoutCompleted`, `EditCampers`, `UpdateGroupContact`, `DeleteRegistration`, `ResyncSheet` | the caller, up to its commit; the call then follows the requests in `todo` |
| `SetPaymentStatus` | the override and the expiry, which leave the sheet alone |
| `LoadRows` | `syncToSheet`, `resyncSheet` of `camperedit`: the campers are read after the commit |
| `ReadA1`, `WriteHeader` | `ensureHeaders`, once per tab and process; a failure is remembered as done |
| `AppendRows` | `Values.Append` |
| `ReadColumnA`, then `DeleteByGroupID` or `UpdateContactInTab` | the two requests of a deletion or a contact change: count, then write by row number |
| `StampOnly` | the end of a resync that did not fail |
| `Restart` | the process stops; the calls end where they are |

A request may fail before or after it took effect. `ResyncSheet` reads at its beginning; `ResyncAllSheets` is one
such call after the other; the group and the campers an edit reads are one step. A row is its group, its camper
and its contact; the other columns are copied with it. `stale`, `alone`, `listed` and `headless` are history:
they say when another call has outdated the row numbers a call counted, when a call had its group to
itself, which groups must still be there, and which tab lost its header to a failed request.

**The settings.** `settings` is what the database and the running process hold. A page is four requests in any order, of which the
one for prices (`PricingSnapshot`) is itself three queries; a failed one leaves the page without prices. A submission reads
whether registration is open, the availability, the mode, the deposit and the prices, one after the other.

| Step of `Settings` | Code |
|---|---|
| `SetRegistrationsOpen`, `UpdatePrice`, `SetAccommodationAvailability`, `SetDepositMode` | the handler and its one `UPDATE` |
| `ValidateFullPaymentPricing`, then `SetRegistrationPaymentMode` | the check, and the update it does not protect |
| `Deploy` | `applyStripePriceOverrides`, which only ever adds prices to tiers, and the price ids in the environment; the old process drains its requests, which keep the price ids they began with, for as long as it may |
| `QuoteFails`, `Leave`, `AbandonFullPayment` | a request that fails, or is dropped with its process: of a page, of a submission (or the family gives up), of the check before full payment |
| `LoadConfig`, `LoadPrices`, `LoadAccommodations`; `QuoteMode`, `QuoteDeposit`, `QuoteTiers` | `CampRegisterPage` and what it calls |
| `FillForm` | the form, when there is one: hidden tiers cannot be picked |
| `SubmitOpen`, `EnsureAccommodationAvailable`, `ReadPaymentMode`, `ReadDeposit`, `ComputeSubmitted` | `Submit` up to `WithTx` |

`Shown` is the page's own arithmetic (`lib/camp.ts`), `ComputeCharge` the back end's (`Charges`). `changed` and `exposed` are history:
whose page may be outdated, and which prices were lost since full payment was checked. The tiers' list and the environment
are read in one step; shirt sizes, names and currencies are left out.

**The feed.** `Change` is the commit of any administrator's action, or a login; `Insert` the audit row,
`Broadcast` and one `Send` per client the hub, which holds its lock for reading meanwhile (`NoBroadcast` is what a writer
waits for). `HandleStream` subscribes, `Ping` and `Deliver` flush, `Unsubscribe` is the deferred `unsub`; `TimerFires`
is the 400 ms debounce, `Load` and `LoadFails` the dashboard's requests. An event's content is only a reason to load, so
events are counted, not kept. `seen` is what the loads of a dashboard have read since one failed. Tokens are not state:
`LoadFails` also stands for a session that has run out, and the stream verifies its token once, when it begins. A
tab that reconnects while its old handler lingers is another `Dashboard`.

**The limiter.** `Allow` and `Refuse` are the two ends of `allow`, each under its lock. Times become ages, which stop
growing at the width of the window: an older attempt is in no window that is still open. `Restart` empties the map, as a
new process does. `admitted` is history, for the properties: who was let in within the last window.

**What is abstracted.** Pence: a deposit is one unit owed, paid or credited, and an invoice is the set of
(camper, Stripe price) lines, the set of deposits and the set of coach riders it charges, so that
"charges the right amount" is equality of sets. Names, e-mail, diets, units and shirts are left out: no
rule reads them. `cancelled` stands for every payment status that is neither pending nor paid (`failed`,
`failed_capacity`, `refunded`), which no billing rule tells apart. Due dates are none, future or past; the due date passes at any moment. A superseded
version is one behind: versions only grow, so every superseded version fails alike. Audit rows, e-mail
and sheet rows are written after the commit, only logged when they fail, and read by no billing rule: the billing
modules leave them out, and `AdminFeed` and `SheetSync` model two of them for themselves.

**Faulty operators.** An operator commented `Faulty:` is not part of the model. It stands before the
operator it varies, changed as a slip in the code would change it; substituting it refutes this property:

| Faulty operator | The slip | Refutes |
|---|---|---|
| `RosterChangedIgnoresUnplaced` | an allocated group keeps its status though somebody is unplaced | `PlacedWhenBilled` |
| `RepricedByCoach` | an edit asks the coach question, not the price one, to find the invoice stale | `InvoiceChargesRoster` |
| `RosterChangedKeepsInvoiced` | a roster change leaves the invoice open | `InvoiceCoversDeposits` |
| `MayCommitUnversioned` | `CheckVersion` dropped | `OneMainContact`, `WaivedHasNoCoachInvoice` |
| `StampWithoutVersion` | the stamp forgets to move the version | `DecisionIsCurrent` |
| `ReleaseToCancelled` | a release writes a status of the other enumeration | `TypeOK` |
| `CanInvoiceSponsored` | the sponsor missing from the guard | `SponsoredNeverBilled` |
| `CommitSendInvoiceWithoutCoach` | `coach_included_in_balance` not written | `InvoiceMatchesGroup` |
| `CanUnallocateSettled` | the paid-in-full exception widened to every settled group | `SettledUndoneOnlyByRelease` |
| `StampRosterKeepsInvoice` | the invoice columns not cleared with the status | `RefMatchesStatus` |
| `SettleDepositsStillOwed` | `deposit_owed_pence` not reset | `DepositCountedOnce` |
| `CoachInvoicedSeparately` | a coach fee already paid with the balance forgotten | `PaidInFullNotChargedCoach` |
| `HasPaidCoachInvoice` | the payment test inverted | `CoachInvoiceIsCurrent` |
| `CommitBalancePaidSilently` | the webhook's settlement does not move the version | `SettledBillIsFinal` |
| `NotAwaited` | a payment dismissed unless the group is invoiced | `PaidIsSettled` |
| `SettleOwedDepositsAtOnce` | the webhook pays the deposits in a transaction of their own | `BilledAtomically` |
| `LockedNever` | `FOR UPDATE` dropped from `ReserveFreeCode` | `CodeRedeemedOnce` |
| `RevokeFreeCodeUsed` | `used_at IS NULL` dropped from the revocation | `CodesKeepPromise` |
| `HandleCheckoutCompletedOrNot` | a failed transaction answered with 200 | `PaymentMatchesCheckout` |
| `ExpireCheckoutAnyway` | an expiry does not ask for a pending group | `PaidUndoneByHandOnly` |
| `SetNoCheckoutSession` | the session's id not stored | `CheckoutDecided` |
| `AccKeyByTier` | accommodation counted by tier, the under-3 price forgotten | `CheckoutChargesForm` |
| `UpdatePriceUnchecked` | a negative amount is not refused | `TypeOK` of `Settings` |
| `ValidateTierPricing` | the check before full payment forgets the prices of the environment | `FullModeIsPriced` |
| `TierAmountAnyAge` | the page forgets the price of a child under three | `ShownIsCharged` |
| `DisabledOrBlank` | a blank choice counts as a hidden tier | `RefusedForAReason` |
| `ChargedModeNow` | the mode is read again for the charge | `PaidInFullChargedAll` |
| `SetPaymentStatusUnparsed` | `ParsePaymentStatus` skipped | `TypeOK` of `Registration` and of `SheetSync` |
| `RemoveFromPaid` | a resync clears only the tab the group should be in | `ResyncExact` |
| `RemovePendingAndAppendPaid` | the pending row goes before the paid one is there | `LostOnlyByOverlap` |
| `OnceFlag` | a plain flag instead of `sync.Once`: nobody waits for the header | `HeaderOnTop` |
| `DeleteTopDown` | rows deleted in ascending order | `OwnRowsOnly` |
| `SendUnbounded` | no bound on a client's buffer | `TypeOK` of `AdminFeed` |
| `UnsubscribeUnlocked` | `unsub` does not take the hub's lock | `NoSendOnClosedChannel` |
| `SendOrStop` | a full client ends the broadcast | `ChangeReachesDashboards` |
| `FlushOnly` | `onOpen` does not load | `ConnectingCatchesUp` |
| `AllowOneMore` | `>` for `>=` | `AtMostMaxPerWindow` |
| `RefuseAndRemember` | a refused attempt counts | `LockoutEnds` |

## 3. The runs

`registration_races` uses `MCRegistration`, `settings_change` `MCSettings`, `sheet_calls` `MCSheetSync`, `admin_feed` and `login_limiter` the component's own
module, all other runs `MCBilling`. `CHECK_DEADLOCK FALSE` everywhere but in `login_limiter`: a group that is deleted,
or one that has reached the bounds with nothing left to pay, may rightly stop, and so may a model in
which every form has been submitted and decided, or every change of settings made. `SYMMETRY Slots` permutes request slots
and webhook slots: they are interchangeable (a slot's name is also the name of the customer it may
create, which is permuted with it), and it is used only in runs without a liveness property.

| Run | Instance | Question |
|---|---|---|
| `roster_races` | 2 requests, releases without a version and the rest with one, 1 delivery, 2 campers, 2 tiers with different prices, 2 invoices, requests up to version 2 | Do allocation, invoicing, adding, editing, removing and promoting campers, interleaved with releases, payment and the due date, keep bed, price, deposit and contact consistent; does a versioned commit always rest on a decision that still holds (`DecisionIsCurrent`); do the row lock and the compare-and-set keep the reference and the deposits; and does a family see every operation as one step (`BilledAtomically`: `AtomicBilling` is implemented)? |
| `every_operation` | 1 request, every operation, none with a version, ages 3 and 8, all four profiles, deposit, free and full groups, requests up to version 2 | Is every operation, with the sweep, checkout, override and webhooks in between, well typed; are sponsored and paid-in-full families never billed a balance; does an invoiced group refer to its invoice; and is a settlement undone by a release only? |
| `coach_races` | 2 requests with current or superseded versions, a paid-in-full group | Is the coach fee charged once, to today's passengers, and not at all when waived? |
| `bill_is_final` | 1 request, 2 registered campers, ages 3 and 8, requests up to version 4 | Over sequences long enough for a coach invoice to lose its last passenger: does what a settled family paid for stay as it was, also against an edit decided before its payment was reported (`SettledBillIsFinal`)? |
| `paid_settles` | 1 request with current or superseded versions, a release with none, half-made drafts, a settlement by hand, `FairSpec` | Does every paid balance invoice settle its group unless the group is deleted? |
| `registration_races` | 2 submissions, 1 code, 3 families, `FairSpec` | Is the code redeemed once and never both redeemed and revoked (`CodesKeepPromise`: `Sponsorship` is implemented); does a registration's payment follow its session, unless an administrator steps in, is every pending one decided, and does a session ask for what the campers cost one by one (`CheckoutChargesForm`)? |
| `settings_change` | 1 family with 3 forms to choose from, 1 call that switches full payment on, 2 tiers, 2 deposits, 3 changes of settings, any prices missing at the start | Is a family charged what its page showed, and never refused, unless a setting changed meanwhile or a price it needs is missing; is everything priced in full payment but what was shown or dropped since; and does a mode switched during a submission leave no half-charged registration stored as paid in full? |
| `sheet_calls` | 2 groups of up to 2 campers, 2 calls in flight, 4 commits or resyncs, 1 failed request or restart | What do interleaved read-then-write calls do to each other's rows: is a write confined to its own group unless its row numbers were outdated, is a listed group lost only by overlapping calls, does a resync repair a group whatever happened before, and is the header where it belongs? |
| `admin_feed` | 2 dashboards, 2 changes, buffers of 1, `FairSpec` | Is nothing sent on a closed channel, and does every recorded change reach every dashboard that stays connected or connects later, though buffers drop events and the process may stop? |
| `login_limiter` | 2 clients, 2 attempts per window of 3 ticks, 5 places for attempts | Is no window ever exceeded, however attempts, refusals and the lazy dropping are spread over it, and does a lockout end? |

`AtomicBilling` lets a settled group go nowhere but to released, so `roster_races` covers `SettledUndoneOnlyByRelease` too.
`PlansLegal` is no question of its own: it is the part of the inductive invariant that bounds what is in flight.

These pass. Two more runs check a sentence of a comment or of the dashboard and end with a
counterexample; they are the findings of section 6.

**Bounds.** `MaxVersion` bounds the version at which a request may *begin*, so up to three (`coach_races`:
four, `bill_is_final`: five) successive versions are acted on, by both slots, and commits go beyond. Three commits are enough
for allocate, invoice, edit and for settle, release, settle; with five a group is invoiced without a coach, gets a rider and a coach
invoice, and loses the rider again. `MaxInvoices = 2` gives an orphaned or voided
invoice and its successor; `CoachChargedTwice` needs three. `Camper` holds every id that will ever be
minted: two ids give one submitted camper and one late arrival, which is what deposits, the last removal
and two main contacts need. Ages 3 and 8 lie on either side of `MinDepositAge`, which decides deposits,
coach and the under-3 price; the age limit of the child tier is above both, so the guard on it is in the
model and not exercised. One webhook delivery is in flight
at a time, and of the operations that overlap only a release skips the version: that any number of deliveries and of calls
without a version keep the reference, the deposits and `AtomicBilling` is proved (section 4), and does not hang on the instance. In `registration_races` two submissions and one code give every pair of rivals (for a
code, or a submission and a revocation); sessions and groups of different submissions share nothing, and
the proofs cover any number. Its three families are one that owes nothing in either mode, one that owes
nothing but day passes and only in full payment, and one with every kind of line, two prices within
the child tier among them; the prices are small and no two of them add up to a third.

In `settings_change` one family is enough, because families share nothing but the settings, which no family changes; three changes
are enough to price what is missing, switch full payment on and change something under a page or a submission. One form has
every kind of camper; the other two are a child priced by age alone, which a torn page can still price, and a day visitor.

In `sheet_calls` four commits are enough for two groups to be listed and then edited, moved, deleted or
resynchronised at once, and one fault for a call that stops at any of its requests; two campers make a deletion of
two rows, where the order matters. In `admin_feed` a buffer of one is full as soon as the dashboard is slow, and the
second change finds it so. In `login_limiter` five places hold two clients' full windows and an attempt that has aged
in the map; the numbers in the code, ten and fifteen minutes, are covered by the proofs.

**Fairness.** `Fairness` is strong on delivering an unacknowledged event and on the three steps of a
delivery (the last also of a settlement by hand), weak on the failure of one that has lost its compare-and-set. Stripe redelivers until it is
answered with 200, so a delivery that can succeed again and again is not refused for ever. Nothing is
assumed of administrators, families, the sweep or drafts. `PaidIsSettled` does need the commits to be
strongly fair: an administrator may keep changing the status under each delivery, within the versions
the bound allows. In `Registration`, `Fairness` is weak: Stripe expires a session nobody pays after a day,
and delivers an event until it is answered; nothing there can be disabled again and again.
In `AdminFeed` it is weak on a broadcast once begun or due, on handlers that have something to write, on timers and on
requests, which the runtime and the browser schedule; whether a load succeeds is left open, and nothing
is assumed of administrators, connections, reconnection or the process. `Settings`, `SheetSync` and `LoginLimiter` claim safety only.

## 4. What is proved

Every invariant, action property and refinement of the passing runs is stated by a theorem; the four liveness
properties are not.

**The billing data.** `BillingProofs` proves first, for every set of campers, ages, profiles, tiers and prices, any number of requests
and deliveries and any bounds:

| Theorem | Statement |
|---|---|
| `Invariance` | `Spec => []IInv` |
| `TypeCorrect` | `Spec => []TypeOK` |
| `ReferenceAgrees` | `Spec => []RefMatchesStatus` |
| `DepositsCountedOnce` | `Spec => []DepositCountedOnce` |
| `RequestsLegal` | `Spec => []PlansLegal` |
| `SettledStaysSettled` | `Spec => SettledUndoneOnlyByRelease` |

Assumptions: `CodesArePriced` (no tier is the empty code, every tier has a price), `StoreAssumption`
(the sets are of the right kind), `BillingAssumption` (a form has a camper).

The argument. `RefMatchesStatus` is not inductive: a commit writes what a request decided long ago, so
whether it keeps the invariant depends on what may be in flight. `IInv` is `DataInv`, what holds of the
stored rows, and `FlightInv`, what holds of every plan and delivery in flight *whatever has happened to the
group since*: `LegalTr` says which transition each operation may carry (an invoice is sent from an
unbilled status only, a roster edit leads to `none` or `allocated`, a delivery leads to `balance_paid`), and
`LegalPlan` that an invoice is recorded only once created and that a new row's deposit is counted once.
None of these mention the current group, so a step of somebody else cannot falsify them. The commit
then needs only its own compare-and-set to tie the plan's `from` to the group's status: that is why
`RefMatchesStatus` survives requests without a version. There is one lemma per action, one per service,
and `NextIInv` joins them. `SettledStaysSettled` follows from `IInv`: of the transitions `LegalTr` allows,
those that start at `balance_paid` stay there or release.

**The refinement.** `BillingProofs` proves next, under the same assumptions:

| Theorem | Statement |
|---|---|
| `AtomicBillingImplemented` | `Spec => BilledAtomically`, the refinement of `AtomicBilling` |

The argument. `AtomicBilling` sees the status (or that the group is deleted), the balance invoice on file and what
became of each deposit billed later. Only commits move these: everything else, Stripe calls and failures
included, is a stutter. What a commit may write follows from `IInv`, and what it finds from its compare-and-set.
Two parts of `LegalTr` and `LegalPlan` are there for this theorem: a settlement starts from a balance that is not settled
(`SettlesTr`), because otherwise a late delivery would pay deposits in a step that settles nothing; and a row written by a
plan owes a deposit and has paid none (`OwedOnly`), because deposits are paid by settlements alone.

**The version.** Last, `BillingProofs` proves what the version of a group is for:

| Theorem | Statement | Assuming |
|---|---|---|
| `OneContact` | `Spec => []OneMainContact` | removals and changes of the main contact carry a version |
| `DecisionsAreCurrent` | `Spec => []DecisionIsCurrent` | no override of the payment status, no group paid in full at signup |

Both assumptions of `DecisionsAreCurrent` are needed: an override, and the checkout of a family that pays in
full, change what the rules look at and do not move the version. Other operations may skip the version in both
theorems; what is claimed is claimed of calls that carry one.

The argument. `NextMoves` says what the version accounts for: a step either moves it, or leaves the camper
rows alone and the group but for its customer, its due date and what the checkout and the override write, which
(under the assumptions) no rule can tell apart (`SameGroup`). A call in flight therefore carries either an expected version that can never be the
group's again, or a decision about rows that are still the same: `VersionInv` says so for the group a call has read
(`SameGroup`) and for the decision it has taken (`CurrentDecision`), and `DecisionStays` that neither can be falsified
without moving the version. A step of the call itself starts or takes the decision on today's rows.
`MainInv` is the same for the main contact: a call that may still commit plans a removal or a promotion that leaves one.
`BillsCreated` adds that an invoice a call created is the one it decided on, and `SameBill` that once sent an invoice
changes in nothing but its status.

**The balance invoice.** `InvoiceProofs` proves what the balance invoice on file is worth:

| Theorem | Statement | Assuming |
|---|---|---|
| `InvoiceOnFileMatches` | `Spec => []InvoiceMatchesGroup` | nothing more |
| `NobodyBilledWithoutBed` | `Spec => []PlacedWhenBilled` | `DecisionsAreCurrent`'s two, and that the calls of `MoneyOp` carry a version |
| `InvoiceIsCurrent` | `Spec => []InvoiceChargesRoster` | the same |
| `OwedDepositsAreBilled` | `Spec => []InvoiceCoversDeposits` | the same |

`MoneyOp` names the calls that place, unplace, bill, remove, convert, edit and add campers and set who rides the coach.
Bulk actions send no version, so `every_operation` lists none of the last three, and an override or a full-payment checkout
changes what an edit or an invoice was decided on without moving the version. What stays free: releases, cancellations, the sweep, waivers, settlements by hand, coach invoices and resends may skip the version.

The argument. `BillOnFile` needs no version: only `CommitSendInvoice` leads to `invoiced`, it records an invoice this
call created (`BillsCreated`), no sent invoice changes in anything but its status (`SameBill`), and every other commit keeps the
invoice on file or takes it back (`KeepsBill`). For the other three, `RosterInv` says that in an allocated or invoiced group everyone is
placed, and that in an invoiced one the invoice charges what `Charged` says today. A commit writes rows decided earlier, so
each case takes from `CurrentDecision` that the decision is about today's rows (`CarriesVersion`: a call of `MoneyOp` has no `Skip`
to get around the compare-and-set), and from the rule that was asked (`RosterChanged`, `CheckReprice`, `SendInvoice`'s
list) that the invoice goes, or that the new rows cost the same.

**Who is billed.** `InvoiceProofs` goes on to who is billed at all, and that what is paid stands:

| Theorem | Statement | Assuming |
|---|---|---|
| `NoBillForSponsored` | `Spec => []SponsoredNeverBilled` | nothing more |
| `PaidBillStands` | `Spec => SettledBillIsFinal` | the same as `InvoiceIsCurrent` |
| `WaivedFeeNotInvoiced` | `Spec => []WaivedHasNoCoachInvoice` | coach invoices carry a version |
| `CoachPaidOnce` | `Spec => []PaidInFullNotChargedCoach` | no override of a payment status |

`WaivedFeeNotInvoiced` needs its assumption: a waiver and a coach invoice change no status, so of two that were decided at the
same time only the version refuses the second. The bulk coach invoice sends none, and then a waived fee may be invoiced.

The argument. `SponsorInv`: whether a group is sponsored or paid in full is fixed at signup (`SameKind`), so what a call
saw of it when it began still holds when it creates its invoice, with or without a version, and neither a delivery
that would settle a balance nor a settlement by hand is ever of a sponsored group, nor that delivery of one that paid in full (`PaysFor`). `FinalBill` follows from `CurrentDecision`: of the commits that change rows,
each was refused on a settled group by its own rule (`CheckReprice`, `CanRemoveCamper`, `CanChangeCoach`) or changes nothing that is charged. `WaiverInv`
says that a coach invoice in flight whose version is still the group's finds the fee not waived. `FullInv` needs no version:
before a paid-in-full group's checkout completes it is neither invoiced nor settled, nor about to be settled by hand, hence has no coach invoice and none in flight; afterwards nothing
changes whether the coach was in it.

**The coach invoice.** The last part of `InvoiceProofs` is about the invoice a paid-in-full family gets for its coach:

| Theorem | Statement | Assuming |
|---|---|---|
| `CoachInvoiceStaysCurrent` | `Spec => []CoachInvoiceIsCurrent` | no override of a payment status, and that removals, conversions, edits, coach changes and coach invoices carry a version |

The assumptions are those of a dashboard that does not use the bulk coach invoice, and those of `coach_races`. Two such calls decided at once change no
status, so only the version refuses the second; with an override a family may be settled by hand, and by calls that follow other rules.

The argument. Who rides is written by five kinds of call, and the invoice's riders by one, so the invariant speaks of the calls in flight:
`SeatsInv` says that a call whose version is still the group's, while a coach invoice is on file, has planned no removal, no conversion and
no second coach invoice, that its coach change takes the invoice off the file and its edit leaves every seat as it is; and that a coach
invoice at work charges today's passengers. Its guards look at the status, so a paid-in-full family must stay where the rules for settled groups apply:
`PaidInv` says that it is never allocated or invoiced, and that no call in flight would move it there, settle it by hand or add a camper to it,
and no delivery settle its balance, whatever the versions. `SettledBefore` joins them: the checkout that settles the family comes before any coach invoice. `NextRiders`
then says which steps may change who rides while a coach invoice is on file, and `NextSeats` that every step keeps `Seats` of every call.

**What a form is charged.** `ChargeProofs` proves, for every form a submission may hold and all prices that are natural numbers (`PricesAreKnown`):

| Theorem | Statement |
|---|---|
| `ChargeAddsUp` | for every valid form, in both modes and at every deposit, `TotalPence` of the lines of `ComputeCharge` is what its campers cost one by one (`FormCost`) |

`ComputeCharge` groups campers by tier and price, counts each group, adds a line each for deposits, day passes and the coach,
and drops lines of nothing. The proof regroups the sum: a sum over a set is the sum over the groups a function makes of it (`SumByKey`),
a group whose members cost the same costs its size times that (`SumOfConstant`), and lines of nothing add nothing. The sums of the community
modules are folds, recursive functions over the subsets of a set. The library's induction theorems take an operator as a parameter and cannot be cited, so
`SubsetInduction` states induction over a finite set of a *set* of subsets, from the well-foundedness of the strict subset order:
what holds of a set whenever it holds of its proper subsets holds of all. With it a function that obeys the fold's recursion exists (`SumsExist`) and is unique
(`SumsAgree`), so the sum obeys it too, and the order in which the fold takes the elements does not matter (`SumTakeOut`).

**Intake and codes.** `RegistrationProofs` proves, for every set of submissions and of codes, assuming that the null value is
neither and that forms are valid (`RegistrationAssumption`) and that every price is a natural number (`PricesAreKnown`):

| Theorem | Statement |
|---|---|
| `RegistrationInvariance` | `Spec => []IInv` |
| `RegistrationTypeCorrect` | `Spec => []TypeOK` |
| `SingleRedemption` | `Spec => []CodeRedeemedOnce` |
| `PromiseKept` | `Spec => CodesKeepPromise`, the refinement of `Sponsorship` |
| `PaymentAgrees` | `Spec => []PaymentMatchesCheckout` |
| `PaidStaysPaid` | `Spec => PaidUndoneByHandOnly` |
| `CheckoutAgrees` | `Spec => []CheckoutChargesForm` |

The argument. `CodeRedeemedOnce` speaks of committed submissions and is not inductive: `MarkFreeCodeUsed`
trusts the reservation. `CodesInv` adds what the reservation guarantees (two submissions that hold the
lock of one code are the same, and its row is redeemable as long as the lock is held, because the
revocation waits for it) and that a stored submission's code is used. `IntakeInv` ties the group, the form and
the session to how far the submission got, and `CheckoutInv` says which sessions have an event due:
with them, each handler finds the group in the status its session implies. In the refinement,
`SubmitSettled` with a code is the redemption, and everything else that touches no code is a stutter.
`CheckoutAgrees` alone needs to know what a form is charged, and takes it from `ChargeAddsUp`; that a session exists exactly
if there is something to pay is in `IntakeInv`.

**Settings.** `SettingsProofs` proves, for any families, forms, tiers, prices, administrators and number of changes (`SettingsAssumption`: the
forms are valid, deposits are natural numbers, the child tier is a tier and a day visitor names none):

| Theorem | Statement |
|---|---|
| `SettingsInvariance` | `Spec => []IInv` |
| `SettingsTypeCorrect` | `Spec => []TypeOK` |
| `FullModePriced` | `Spec => []FullModeIsPriced` |
| `RefusalHasReason` | `Spec => []RefusedForAReason` |
| `PaidInFullIsCharged` | `Spec => []PaidInFullChargedAll` |
| `ShownAndChargedAgree` | `Spec => []ShownIsCharged` |

The argument. What readers do over several requests is reasoned about through the history `changed`: while no setting has changed since a family
began, whatever its page has loaded (`PageInv`) and whatever its submission has read (`ReadInv`) is still what the settings say,
however far either has got; a change adds every family under way to `changed` and leaves nothing to show. `FilledInv` keeps what made the form usable, and
`CallInv` what the check before full payment found, up to what it says was lost since, by a deployment too. A submission is priced with
what the process that took it knows, which is today's as long as nothing has changed. `ShownAndChargedAgree` then compares two sums over the same
settings: the page adds up camper by camper (`Shown`), the back end by lines, and `ChargeAddsUp` brings the latter to the former.
`PaidInFullIsCharged` rests on `ChargeAddsUp` alone, and on the mode being read once.

**The sheet.** `SheetSyncProofs` proves, for any groups, campers and calls in flight and any number of commits, failures and restarts
(`SheetAssumption`: campers are finitely many numbers, and the header is no group):

| Theorem | Statement |
|---|---|
| `SheetInvariance` | `Spec => []IInv` |
| `SheetTypeCorrect` | `Spec => []TypeOK` |
| `HeaderStaysOnTop` | `Spec => []HeaderOnTop` |
| `ResyncIsExact` | `Spec => []ResyncExact` |
| `LostByOverlapOnly` | `Spec => []LostOnlyByOverlap` |
| `WritesOwnRows` | `Spec => OwnRowsOnly` |

The argument. `PlanInv` says that a call has left of its requests one of the ends of its plan, with rows of its own group only, and that one call at a time writes a tab's header; `HitsInv` that
row numbers nobody has outdated point at rows of the call's group, or at one the header replaced. `HeaderInv` excuses a tab only when a
request for its header has failed. A resync that is alone is
followed request by request (`ResyncInv`: which tabs hold none of the group's rows yet, and which hold exactly those it read),
which needs that such a call counts *all* of the group's rows (`AloneInv`). `ListedInv` says why a listed group stays: some tab holds rows of it that
no header is about to replace, and its one call deletes rows only with others in place. Below these are lemmas about row numbers: an increasing
enumeration of a set of numbers is unique and `InOrder` is one, so `Picked` lists the rows with those numbers from the top; and deleting the numbers
of a set from the bottom up leaves exactly the rows with other numbers, in order (`DeleteRows`), which a deletion from the
top down does not. Both are inductions over finite sets, done as in `ChargeProofs`.

**The feed and the limiter.** `AdminFeedProofs` proves, for any dashboards, changes and buffer size (`FeedAssumption`: it is positive), and
`LoginLimiterProofs` for any clients, any finite or infinite set of attempts, any maximum and window (`LimiterAssumption`):

| Theorem | Statement |
|---|---|
| `TypeCorrect` (`AdminFeedProofs`) | `Spec => []TypeOK`, which bounds every buffer |
| `SendsOnOpenChannels` | `Spec => []NoSendOnClosedChannel` |
| `WindowLimit` | `Spec => []AtMostMaxPerWindow` |
| `LockoutIsFinite` | `Spec => []LockoutEnds` |

The arguments. A send goes to a client that was in the hub's map when the broadcast began; the invariant adds that the map
holds served channels only and that a broadcast's remaining clients are still in the map, which no `unsub` can falsify because it
waits for the lock. For the limiter the invariant ties the code's map to the history: the attempts it keeps and
has not yet dropped, restricted to the window, are exactly those let in (`MapIsHistory`), and they are finitely many and
within the maximum (`WindowsBounded`); the clock only takes attempts out of the window.

**Only model-checked:** `PaidIsSettled`, `CheckoutDecided`, `ChangeReachesDashboards` and `ConnectingCatchesUp`. They are liveness properties under
fairness, which speaks of `ENABLED`, and that is out of the provers' reach.

## 5. What is not modelled

* **Validation of a form's fields.** It ends a submission before it has read anything, and leaves nothing. What else a form is
  refused for is in `Settings`. Currencies are one.
* **The price cache.** It holds a price for 60 seconds, and the amount of a Stripe Price never changes: only
  the deposit is edited in place, and that is read from the database.
* **Sheet columns.** `values()` lays a row out; a row here is its group, camper and contact.
* **Tokens and the event log's listing.** Signatures and expiry of session tokens; the query that pages through audit rows.
* **Webhook and submission changes on the feed.** They record no administrator's event and are not broadcast: a dashboard shows them
  when it next loads. `AdminFeed` speaks of what is recorded.
* **The order of a dashboard's loads.** An answer may overtake an older one, whose content is then shown; no property
  speaks of what is on the screen (see the hazard in `PROJECT.json`).
* **HTTP, DTOs, e-mail text, read models, most of the front end, migrations.** Conversion, wording, queries and
  cryptography. Their one part in the protocol, the version that may be absent, is `MayExpect`.
* **Losses of Stripe itself**, other than a failed call and a repeated or late event, are not considered.

## 6. Where comments and code disagree

| Run | Sentence | What happens |
|---|---|---|
| `coach_charged_twice` | "never double-charged", `billing/invoicing/service.go:86-88` | `SendInvoice` folds the coach in without asking for a separate coach invoice, which a repricing edit leaves open |
| `deposit_refunded` | "non-refundable and will be KEPT", `CampAdminDashboard.tsx:1050` | a repeated delete takes its second refund out of the deposits |

Four more disagreements were met while modelling and are in the model, without a run of their own: a waived
deposit looks paid to a conversion, which credits it (`billing/camperedit/service.go:149-152`, "money they never gave us"); the
sweep releases a group paid between its list and the release, settled balance and all (`src/backend/README.md:72`, "Release overdue
invoiced groups"); an invoice nobody recorded is paid and settles deposits it never charged
(`src/backend/migrations/0016_deposit_paid.up.sql:1`, "Deposit money that actually arrived"); and a sheet deletion by outdated row numbers
removes rows of another group (`stale` in `SheetSync`).

## 7. Plan

Order of work; the most important behaviour comes first.

1. *Done*: `Lifecycle`, `BillingStore`, `Allocation`, `Invoicing`, `CamperEdit`, `Reconcile`, `Billing`,
   `BillingClaims`, `AtomicBilling`; `Sponsorship`, `Charges`, `Registration`; `Settings`; `SheetSync`; `AdminFeed`; `LoginLimiter`.
2. *Done*: a theorem for every safety property, action property and refinement of the runs: `BillingProofs`, `InvoiceProofs`,
   `ChargeProofs`, `RegistrationProofs`, `SettingsProofs`, `SheetSyncProofs`, `AdminFeedProofs`, `LoginLimiterProofs`.
3. Weaker assumptions where the code may allow them, and properties for the hazards that have none.

Further work starts from the hazards listed in `PROJECT.json`, several of which have no property yet.
