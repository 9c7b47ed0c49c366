------------------------------ MODULE MCBilling ------------------------------
(* Instances of Billing for TLC.                                            *)
EXTENDS BillingClaims, TLC

Person(att, age, coach) == [att |-> att, age |-> age, coach |-> coach]
Adult   == Person("full_week", 8, FALSE)
Rider   == Person("full_week", 8, TRUE)
Toddler == Person("full_week", 3, TRUE)
Visitor == Person("day_pass", 8, FALSE)

OneAdult  == {Adult}
VisitorOrAdult == {Adult, Visitor}
FullWeekers == {Adult, Rider, Toddler}
Everybody == {Adult, Rider, Toddler, Visitor}

TwoTiers  == {"child", "tent"}
TwoTierPrice == ("child" :> "price_child") @@ ("tent" :> "price_tent")
OneTier   == {"tent"}
OneTierPrice == "tent" :> "price_tent"

\* Request slots are interchangeable, and so are webhook deliveries.
Slots == Permutations(Req) \cup Permutations(Hook)
=============================================================================
