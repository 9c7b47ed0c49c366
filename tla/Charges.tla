------------------------------ MODULE Charges ------------------------------
(***************************************************************************)
(* What a submitted form is charged: ComputeCharge of registration/domain, *)
(* with the prices a submission looks up (Service.computeCharge, the price *)
(* catalogue).  Whether every price it needs is configured is a matter of  *)
(* Settings; here the prices are known.  Pure operators over a sequence of *)
(* campers, each with fields att, age, coach, choice and days.             *)
(***************************************************************************)
EXTENDS Lifecycle, FiniteSetsExt

CONSTANTS
    PriceAmount,    \* Stripe Price -> flat unit amount in pence
    DepositPence,   \* the row "deposit" of prices, until an administrator edits it
    DayPassPrice,   \* STRIPE_PRICE_DAY_PASS
    CoachPrice      \* STRIPE_PRICE_COACH

ASSUME PricesAreKnown ==
    /\ DepositPence \in Nat
    /\ PriceAmount \in
         [{TierPrice[t] : t \in Code} \cup {ChildUnder3, DayPassPrice, CoachPrice} -> Nat]

PayDeposit(c) == IsFullWeek(c) /\ c.age >= MinDepositAge
Weekers(campers) == {i \in DOMAIN campers : IsFullWeek(campers[i])}
DepositPayingCount(campers) == Cardinality({i \in DOMAIN campers : PayDeposit(campers[i])})
CoachEligibleCount(campers) ==
    Cardinality({i \in DOMAIN campers : CoachEligible(campers[i])})
DayPassDays(campers) ==
    SumFunctionOnSet([i \in DOMAIN campers |-> campers[i].days],
                     DOMAIN campers \ Weekers(campers))

\* tier tells the lines of a tier from the others, whatever a tier is called.
Line(what, tier, price, unit, qty) ==
    [what |-> what, tier |-> tier, price |-> price, unit |-> unit, qty |-> qty]

\* Faulty: campers are counted by tier, and the under-3 price is forgotten.
AccKeyByTier(c) == <<c.choice, TierPrice[c.choice]>>

\* Campers who share a tier and a price share a line.
AccKey(c) == <<c.choice, AccommodationPriceID(c.choice, c.age)>>

AccommodationLines(campers) ==
    {Line("tier", k[1], k[2], PriceAmount[k[2]],
          Cardinality({i \in Weekers(campers) : AccKey(campers[i]) = k})) :
       k \in {AccKey(campers[i]) : i \in Weekers(campers)}}
DepositLine(unit, qty)  == Line("deposit", NoCode, NoPrice, unit, qty)
DayPassLine(campers) ==
    Line("day_pass", NoCode, DayPassPrice, PriceAmount[DayPassPrice], DayPassDays(campers))
CoachLine(campers) ==
    Line("coach", NoCode, CoachPrice, PriceAmount[CoachPrice], CoachEligibleCount(campers))

\* Deposits only, on one line; or everything, where lines of nothing are left out.
ComputeCharge(campers, full, deposit) ==
    LET paying == DepositPayingCount(campers)
        all == AccommodationLines(campers) \cup
                 {DepositLine(deposit, paying), DayPassLine(campers), CoachLine(campers)}
    IN {l \in (IF full THEN all ELSE {DepositLine(deposit * paying, 1)}) :
          l.unit > 0 /\ l.qty > 0}

TotalPence(lines) == SumFunction([l \in lines |-> l.unit * l.qty])

----------------------------------------------------------------------------
(* What a form may say, once validated: a full-week camper has a first     *)
(* choice, a day visitor has days.                                         *)
ValidCamper(c) ==
    /\ c.att \in {"full_week", "day_pass"} /\ c.age \in Nat /\ c.coach \in BOOLEAN
    /\ IF IsFullWeek(c) THEN c.choice \in Code ELSE c.days \in Nat
ValidForm(campers) ==
    /\ IsFiniteSet(DOMAIN campers)
    /\ \A i \in DOMAIN campers : ValidCamper(campers[i])

(* What a camper costs, looked at alone, and a form camper by camper: what *)
(* the grouping and counting of ComputeCharge should come to.              *)
CamperCost(c, full, deposit) ==
    (IF PayDeposit(c) THEN deposit ELSE 0) +
    IF ~full THEN 0
    ELSE IF IsFullWeek(c)
    THEN PriceAmount[AccommodationPriceID(c.choice, c.age)]
           + (IF CoachEligible(c) THEN PriceAmount[CoachPrice] ELSE 0)
    ELSE c.days * PriceAmount[DayPassPrice]
FormCost(campers, full, deposit) ==
    SumFunction([i \in DOMAIN campers |-> CamperCost(campers[i], full, deposit)])
=============================================================================
