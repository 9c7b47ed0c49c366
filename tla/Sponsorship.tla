---------------------------- MODULE Sponsorship ----------------------------
(***************************************************************************)
(* What a sponsorship code promises: once issued it sponsors one           *)
(* registration, or is revoked, and never both.  Registration implements   *)
(* it with row locks and transactions that may roll back.                  *)
(***************************************************************************)
CONSTANTS
    Sub,        \* submissions of the registration form
    FreeCode    \* sponsorship codes

VARIABLES
    issued,     \* the codes an administrator generated
    revoked,    \* the codes an administrator disabled
    sponsored   \* the registrations a code paid for: pairs <<submission, code>>

vars == <<issued, revoked, sponsored>>

Redeemed == {p[2] : p \in sponsored}
Sponsored == {p[1] : p \in sponsored}

Init == issued = {} /\ revoked = {} /\ sponsored = {}

Issue(c) ==
    /\ c \notin issued
    /\ issued' = issued \cup {c}
    /\ UNCHANGED <<revoked, sponsored>>

Revoke(c) ==
    /\ c \in issued \ (revoked \cup Redeemed)
    /\ revoked' = revoked \cup {c}
    /\ UNCHANGED <<issued, sponsored>>

Redeem(s, c) ==
    /\ c \in issued \ (revoked \cup Redeemed)
    /\ s \notin Sponsored
    /\ sponsored' = sponsored \cup {<<s, c>>}
    /\ UNCHANGED <<issued, revoked>>

Next == \E c \in FreeCode :
    \/ Issue(c) \/ Revoke(c)
    \/ \E s \in Sub : Redeem(s, c)

Spec == Init /\ [][Next]_vars
=============================================================================
