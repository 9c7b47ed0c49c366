--------------------------- MODULE MCRegistration ---------------------------
(* An instance of Registration for TLC: small prices, no two of which add   *)
(* up to another, and one tier whose price depends on the age.              *)
EXTENDS Registration, TLC

Camper(att, age, coach, choice, days) ==
    [att |-> att, age |-> age, coach |-> coach, choice |-> choice, days |-> days]
Adult   == Camper("full_week", 8, TRUE, "tent", 0)
Toddler == Camper("full_week", 3, TRUE, "child", 0)
Child   == Camper("full_week", 8, FALSE, "child", 0)
Visitor == Camper("day_pass", 8, FALSE, "", 2)

\* Nothing due, nothing but day passes due, and every kind of line.
Families == {<<Toddler>>, <<Visitor>>, <<Adult, Toddler, Child, Child, Visitor>>}

Tiers == {"child", "tent"}
TierPrices == ("child" :> "price_child") @@ ("tent" :> "price_tent")
Amounts == ("price_child" :> 5) @@ ("price_tent" :> 16) @@ ("price_under3" :> 0)
             @@ ("price_day" :> 3) @@ ("price_coach" :> 100)
=============================================================================
