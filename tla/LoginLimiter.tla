---------------------------- MODULE LoginLimiter ----------------------------
(***************************************************************************)
(* auth/limiter.go: how often a client may try the administrators' shared  *)
(* password.  The times of a client's attempts are kept in memory and      *)
(* dropped lazily, when the client tries again.  Times are modelled by the *)
(* age of an attempt, which stops growing at the width of the window: an   *)
(* older attempt is in no window that is still open.                       *)
(***************************************************************************)
EXTENDS Integers, FiniteSets

CONSTANTS
    Client,             \* client keys
    Attempt,            \* attempts remembered at the same time
    MaxLoginAttempts,
    LoginWindow         \* in ticks of the clock

ASSUME LimiterAssumption ==
    MaxLoginAttempts \in Nat /\ LoginWindow \in Nat \ {0}

VARIABLES
    age,        \* ticks since an attempt was let in
    attempts,   \* the limiter's map: the attempts kept for each client
    admitted    \* history: those let in within the last LoginWindow ticks

vars == <<age, attempts, admitted>>

TypeOK ==
    /\ age \in [Attempt -> 0..LoginWindow]
    /\ attempts \in [Client -> SUBSET Attempt]
    /\ admitted \in [Client -> SUBSET Attempt]

Init ==
    /\ age = [a \in Attempt |-> LoginWindow]
    /\ attempts = [k \in Client |-> {}]
    /\ admitted = [k \in Client |-> {}]

\* t.After(cutoff): an attempt exactly as old as the window is dropped.
Kept(k) == {a \in attempts[k] : age[a] < LoginWindow}

\* An attempt that no longer matters gives its place to a new one.
Unused(k) == {a \in Attempt : age[a] = LoginWindow
                               /\ \A j \in Client \ {k} : a \notin attempts[j]}

Remember(k, a) ==
    /\ age' = [age EXCEPT ![a] = 0]
    /\ attempts' = [attempts EXCEPT ![k] = Kept(k) \cup {a}]
    /\ admitted' = [admitted EXCEPT ![k] = @ \cup {a}]

\* Faulty: one more than the maximum.
AllowOneMore(k) ==
    Cardinality(Kept(k)) <= MaxLoginAttempts /\ \E a \in Unused(k) : Remember(k, a)

(* allow(key), under the limiter's lock: true ...                          *)
Allow(k) ==
    Cardinality(Kept(k)) < MaxLoginAttempts /\ \E a \in Unused(k) : Remember(k, a)

\* Faulty: a refused attempt is remembered like any other.
RefuseAndRemember(k) ==
    /\ Cardinality(Kept(k)) >= MaxLoginAttempts
    /\ \E a \in Unused(k) : /\ age' = [age EXCEPT ![a] = 0]
                         /\ attempts' = [attempts EXCEPT ![k] = Kept(k) \cup {a}]
    /\ UNCHANGED admitted

(* ... or false: nothing is added.                                         *)
Refuse(k) ==
    /\ Cardinality(Kept(k)) >= MaxLoginAttempts
    /\ attempts' = [attempts EXCEPT ![k] = Kept(k)]
    /\ UNCHANGED <<age, admitted>>

ClockTick ==
    /\ age' = [a \in Attempt |-> IF age[a] < LoginWindow THEN age[a] + 1 ELSE age[a]]
    /\ admitted' = [k \in Client |-> {a \in admitted[k] : age[a] + 1 < LoginWindow}]
    /\ UNCHANGED attempts

\* A new process starts with an empty map.
Restart ==
    /\ attempts' = [k \in Client |-> {}]
    /\ admitted' = [k \in Client |-> {}]
    /\ age' = [a \in Attempt |-> LoginWindow]

Next == ClockTick \/ Restart \/ \E k \in Client : Allow(k) \/ Refuse(k)

Spec == Init /\ [][Next]_vars

----------------------------------------------------------------------------
(* Whenever one looks back over one window, at most MaxLoginAttempts were  *)
(* let in by this process, however the attempts and the lazy dropping of   *)
(* old ones are spread over it (loginLimiter.allow).                       *)
AtMostMaxPerWindow ==
    \A k \in Client : Cardinality(admitted[k]) <= MaxLoginAttempts

(* A client locked out gets in again as soon as an attempt that was let in *)
(* leaves the window: those refused meanwhile do not prolong it.           *)
LockoutEnds ==
    \A k \in Client :
        Cardinality(admitted[k]) < MaxLoginAttempts
            => Cardinality(Kept(k)) < MaxLoginAttempts
=============================================================================
