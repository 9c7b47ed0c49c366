----------------------------- MODULE MCSettings -----------------------------
(* An instance of Settings for TLC: prices no two of which add up to        *)
(* another, a tier whose price depends on the age, and a family of every    *)
(* kind of camper.                                                          *)
EXTENDS Settings, TLC

Camper(att, age, coach, choice, second, days) ==
    [att |-> att, age |-> age, coach |-> coach, choice |-> choice, second |-> second,
     days |-> days]
Lodger  == Camper("full_week", 8, TRUE, "lodge", "child", 0)
Toddler == Camper("full_week", 3, TRUE, "child", "", 0)
Child   == Camper("full_week", 8, FALSE, "child", "", 0)
Visitor == Camper("day_pass", 8, FALSE, "", "", 2)

Families == {<<Toddler>>, <<Visitor>>, <<Lodger, Toddler, Child, Child, Visitor>>}

Tiers == {"child", "lodge"}
TierPrices == ("child" :> "price_child") @@ ("lodge" :> "price_lodge")
Amounts == ("price_child" :> 5) @@ ("price_lodge" :> 16) @@ ("price_under3" :> 1)
             @@ ("price_day" :> 3) @@ ("price_coach" :> 200)
=============================================================================
