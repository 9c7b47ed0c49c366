------------------------- MODULE LoginLimiterProofs -------------------------
(***************************************************************************)
(* For any number of clients and attempts, any maximum and any window: no  *)
(* window lets in more than the maximum, and a lockout ends.               *)
(***************************************************************************)
EXTENDS LoginLimiter, FiniteSetTheorems, TLAPS

(* Dropping old attempts lazily keeps what the history keeps.              *)
MapIsHistory == \A k \in Client : admitted[k] = Kept(k)

WindowsBounded ==
    \A k \in Client : /\ IsFiniteSet(admitted[k])
                      /\ Cardinality(admitted[k]) <= MaxLoginAttempts

IInv == TypeOK /\ MapIsHistory /\ WindowsBounded

LEMMA InitIInv == Init => IInv
<1> SUFFICES ASSUME Init PROVE IInv
    OBVIOUS
<1>1. TypeOK
  BY LimiterAssumption DEF Init, TypeOK
<1>2. MapIsHistory
  BY DEF Init, MapIsHistory, Kept
<1>3. WindowsBounded
  BY FS_EmptySet, LimiterAssumption DEF Init, WindowsBounded
<1> QED
  BY <1>1, <1>2, <1>3 DEF IInv

(* An attempt let in takes a place nobody's window holds.                  *)
LEMMA AllowIInv == ASSUME IInv, NEW k \in Client, Allow(k) PROVE IInv'
<1>1. PICK a \in Unused(k) : Remember(k, a)
  BY DEF Allow
<1>2. Cardinality(Kept(k)) < MaxLoginAttempts
  BY DEF Allow
<1>3. /\ a \in Attempt /\ age[a] = LoginWindow
      /\ \A j \in Client \ {k} : a \notin attempts[j]
  BY DEF Unused
<1> USE DEF IInv
<1>4. TypeOK'
  BY <1>1, <1>3, LimiterAssumption DEF TypeOK, Remember, Kept
<1>5. Kept(k)' = Kept(k) \cup {a}
  BY <1>1, <1>3, LimiterAssumption DEF TypeOK, Remember, Kept
<1>6. ASSUME NEW j \in Client \ {k} PROVE Kept(j)' = Kept(j)
  BY <1>1, <1>3, <1>6 DEF TypeOK, Remember, Kept
<1>7. MapIsHistory'
  BY <1>1, <1>5, <1>6 DEF TypeOK, MapIsHistory, Remember
<1>8. WindowsBounded'
  <2> DEFINE S == admitted[k]
  <2>0. IsFiniteSet(S)
    BY DEF WindowsBounded
  <2>1. /\ IsFiniteSet(S \cup {a})
        /\ Cardinality(S \cup {a}) = IF a \in S THEN Cardinality(S) ELSE Cardinality(S) + 1
    BY <2>0, FS_AddElement
  <2>2. Cardinality(admitted[k]) + 1 <= MaxLoginAttempts
    BY <1>2, FS_CardinalityType, LimiterAssumption DEF MapIsHistory, WindowsBounded
  <2>3. Cardinality(admitted[k] \cup {a}) \in Nat /\ Cardinality(admitted[k]) \in Nat
    BY <2>1, FS_CardinalityType DEF WindowsBounded
  <2>4. /\ IsFiniteSet(admitted'[k])
        /\ Cardinality(admitted'[k]) <= MaxLoginAttempts
    <3>1. admitted'[k] = admitted[k] \cup {a}
      BY <1>1 DEF TypeOK, Remember
    <3> QED
      BY <2>1, <2>2, <2>3, <3>1, LimiterAssumption
  <2>5. ASSUME NEW j \in Client \ {k} PROVE admitted'[j] = admitted[j]
    BY <1>1 DEF TypeOK, Remember
  <2> QED
    BY <2>4, <2>5 DEF WindowsBounded
<1> QED
  BY <1>4, <1>7, <1>8

LEMMA RefuseIInv == ASSUME IInv, NEW k \in Client, Refuse(k) PROVE IInv'
<1> USE DEF IInv
<1>1. TypeOK'
  BY DEF TypeOK, Refuse, Kept
<1>2. \A j \in Client : Kept(j)' = Kept(j)
  BY DEF TypeOK, Refuse, Kept
<1> QED
  BY <1>1, <1>2 DEF MapIsHistory, WindowsBounded, Refuse

LEMMA ClockTickIInv == ASSUME IInv, ClockTick PROVE IInv'
<1> USE DEF IInv
<1>1. TypeOK'
  BY LimiterAssumption DEF TypeOK, ClockTick
<1>2. MapIsHistory'
  BY LimiterAssumption DEF TypeOK, MapIsHistory, ClockTick, Kept
<1>3. WindowsBounded'
  <2> SUFFICES ASSUME NEW k \in Client
               PROVE  /\ IsFiniteSet(admitted'[k])
                      /\ Cardinality(admitted'[k]) <= MaxLoginAttempts
    BY DEF WindowsBounded
  <2>1. admitted'[k] \subseteq admitted[k]
    BY DEF ClockTick
  <2>2. /\ IsFiniteSet(admitted'[k])
        /\ Cardinality(admitted'[k]) <= Cardinality(admitted[k])
    BY <2>1, FS_Subset DEF WindowsBounded
  <2>3. Cardinality(admitted'[k]) \in Nat /\ Cardinality(admitted[k]) \in Nat
    BY <2>2, FS_CardinalityType DEF WindowsBounded
  <2> QED
    BY <2>2, <2>3, LimiterAssumption DEF WindowsBounded
<1> QED
  BY <1>1, <1>2, <1>3

LEMMA RestartIInv == ASSUME IInv, Restart PROVE IInv'
<1>1. TypeOK'
  BY LimiterAssumption DEF IInv, TypeOK, Restart
<1>2. MapIsHistory'
  BY DEF MapIsHistory, Restart, Kept
<1>3. WindowsBounded'
  BY FS_EmptySet, LimiterAssumption DEF WindowsBounded, Restart
<1> QED
  BY <1>1, <1>2, <1>3 DEF IInv

LEMMA NextIInv == IInv /\ [Next]_vars => IInv'
<1> SUFFICES ASSUME IInv, [Next]_vars PROVE IInv'
    OBVIOUS
<1>1. CASE ClockTick
  BY <1>1, ClockTickIInv
<1>2. CASE Restart
  BY <1>2, RestartIInv
<1>3. ASSUME NEW k \in Client, Allow(k) PROVE IInv'
  BY <1>3, AllowIInv
<1>4. ASSUME NEW k \in Client, Refuse(k) PROVE IInv'
  BY <1>4, RefuseIInv
<1>5. CASE UNCHANGED vars
  BY <1>5 DEF IInv, TypeOK, MapIsHistory, WindowsBounded, Kept, vars
<1> QED
  BY <1>1, <1>2, <1>3, <1>4, <1>5 DEF Next

LEMMA Inductive == Spec => []IInv
<1> QED
  BY InitIInv, NextIInv, PTL DEF Spec

(* No window of LoginWindow ticks lets in more than MaxLoginAttempts of a  *)
(* client's attempts (loginLimiter.allow).                                 *)
THEOREM WindowLimit == Spec => []AtMostMaxPerWindow
<1>1. IInv => AtMostMaxPerWindow
  BY DEF IInv, WindowsBounded, AtMostMaxPerWindow
<1> QED
  BY <1>1, Inductive, PTL

(* Attempts that were refused do not prolong a lockout (loginLimiter.allow). *)
THEOREM LockoutIsFinite == Spec => []LockoutEnds
<1>1. IInv => LockoutEnds
  BY DEF IInv, MapIsHistory, LockoutEnds
<1> QED
  BY <1>1, Inductive, PTL
=============================================================================
