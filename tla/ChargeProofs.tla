---------------------------- MODULE ChargeProofs ----------------------------
(***************************************************************************)
(* What ComputeCharge comes to, for every form and every price: the sum of *)
(* what its campers cost one by one.  The grouping of campers into lines,  *)
(* the counting and the lines of nothing left out change nothing.          *)
(* The sums of the community modules are folds, recursive functions over   *)
(* the subsets of a set, so the lemmas begin with induction over a finite  *)
(* set, stated for a set of sets to be first-order.                        *)
(***************************************************************************)
EXTENDS Charges, FiniteSetTheorems, TLAPS

----------------------------------------------------------------------------
(* Induction.                                                              *)

(* What holds of a set whenever it holds of its proper subsets, holds of   *)
(* every subset of a finite set.                                           *)
LEMMA SubsetInduction ==
    ASSUME NEW S, IsFiniteSet(S), NEW A \in SUBSET SUBSET S,
           \A T \in SUBSET S : (\A U \in SUBSET T : U # T => U \in A) => T \in A
    PROVE  A = SUBSET S
<1> SUFFICES ASSUME A # SUBSET S PROVE FALSE
  OBVIOUS
<1> DEFINE B == (SUBSET S) \ A
<1>1. IsWellFoundedOn(StrictSubsetOrdering(S), SUBSET S)
  <2>1. IsWellFoundedOn(StrictSubsetOrdering(S), FiniteSubsetsOf(S))
    BY FS_StrictSubsetOrderingWellFounded, Zenon
  <2>2. FiniteSubsetsOf(S) = SUBSET S
    BY FS_FiniteSubsetsOfFinite, Zenon
  <2> QED BY <2>1, <2>2, Zenon
<1>2. B \subseteq SUBSET S /\ B # {}
  OBVIOUS
<1>3. PICK T \in B : \A U \in B : ~(<<U, T>> \in StrictSubsetOrdering(S))
  <2> HIDE DEF B
  <2> QED BY <1>1, <1>2, WFMin
<1>4. \A U \in SUBSET T : U # T => U \in A
  BY <1>3 DEF StrictSubsetOrdering
<1> QED BY <1>3, <1>4

(* What holds of the empty set and of a set with one element more whenever *)
(* it holds of the set, holds of every finite set.                         *)
LEMMA FiniteSetInduction ==
    ASSUME NEW S, IsFiniteSet(S), NEW A \in SUBSET SUBSET S, {} \in A,
           \A T \in A : \A x \in S \ T : T \cup {x} \in A
    PROVE  S \in A
<1>1. ASSUME NEW T \in SUBSET S, \A U \in SUBSET T : U # T => U \in A
      PROVE  T \in A
  <2>1. CASE T = {}
    BY <2>1
  <2>2. CASE T # {}
    <3>1. PICK x \in T : TRUE
      BY <2>2
    <3>2. T \ {x} \in A /\ (T \ {x}) \cup {x} = T
      BY <1>1, <3>1
    <3> QED BY <3>1, <3>2
  <2> QED BY <2>1, <2>2
<1>2. A = SUBSET S
  BY <1>1, SubsetInduction, Zenon
<1> QED BY <1>2

----------------------------------------------------------------------------
(* The recursion behind SumFunctionOnSet is well defined.                  *)

Pick(s) == CHOOSE x \in s : TRUE
Summing(h, fun, s) == IF s = {} THEN 0 ELSE fun[Pick(s)] + h[s \ {Pick(s)}]
Sums(h, fun, S) == h = [s \in SUBSET S |-> Summing(h, fun, s)]

LEMMA SumIsRecursive ==
    ASSUME NEW fun, NEW S
    PROVE  SumFunctionOnSet(fun, S) = (CHOOSE h : Sums(h, fun, S))[S]
BY DEF SumFunctionOnSet, FoldFunctionOnSet, MapThenFoldSet, Sums, Summing, Pick

LEMMA PickIn == ASSUME NEW s, s # {} PROVE Pick(s) \in s
BY DEF Pick

LEMMA SumsValue ==
    ASSUME NEW fun, NEW S, NEW h, Sums(h, fun, S), NEW s \in SUBSET S
    PROVE  h[s] = Summing(h, fun, s)
BY DEF Sums

(* Two such functions agree wherever both are defined.                     *)
LEMMA SumsAgree ==
    ASSUME NEW fun, NEW S, IsFiniteSet(S), NEW h, Sums(h, fun, S),
           NEW T, NEW k, Sums(k, fun, T), S \subseteq T
    PROVE  h[S] = k[S]
<1> DEFINE A == {U \in SUBSET S : h[U] = k[U]}
<1>1. ASSUME NEW U \in SUBSET S, \A V \in SUBSET U : V # U => V \in A
      PROVE  U \in A
  <2>1. h[U] = Summing(h, fun, U) /\ k[U] = Summing(k, fun, U)
    BY SumsValue, U \in SUBSET T
  <2>2. CASE U = {}
    BY <2>1, <2>2 DEF Summing
  <2>3. CASE U # {}
    <3>1. Pick(U) \in U
      BY <2>3, PickIn
    <3>2. U \ {Pick(U)} \in A
      BY <1>1, <3>1
    <3> QED BY <2>1, <3>2, <2>3 DEF Summing
  <2> QED BY <2>2, <2>3
<1>2. A \in SUBSET SUBSET S
  OBVIOUS
<1>3. A = SUBSET S
  <2> HIDE DEF A
  <2> QED BY <1>1, <1>2, SubsetInduction, Zenon
<1> QED BY <1>3

(* There is one for every finite set.                                      *)
SumTo(fun, s) ==
    IF s = {} THEN 0 ELSE fun[Pick(s)] + SumFunctionOnSet(fun, s \ {Pick(s)})

LEMMA SumsExist ==
    ASSUME NEW fun, NEW S, IsFiniteSet(S)
    PROVE  /\ \E h : Sums(h, fun, S)
           /\ SumFunctionOnSet(fun, S) = SumTo(fun, S)
<1> DEFINE Good(U) == /\ \E h : Sums(h, fun, U)
                      /\ SumFunctionOnSet(fun, U) = SumTo(fun, U)
           A == {U \in SUBSET S : Good(U)}
<1>1. ASSUME NEW T \in SUBSET S, \A U \in SUBSET T : U # T => U \in A
      PROVE  T \in A
  <2> DEFINE g == [s \in SUBSET T |-> SumTo(fun, s)]
  <2>1. ASSUME NEW s \in SUBSET T
        PROVE  g[s] = Summing(g, fun, s)
    <3>1. CASE s = {}
      BY <3>1 DEF SumTo, Summing
    <3>2. CASE s # {}
      <4>1. Pick(s) \in s
        BY <3>2, PickIn
      <4>2. s \ {Pick(s)} \in A
        BY <1>1, <4>1
      <4> QED BY <4>2, <3>2 DEF SumTo, Summing
    <3> QED BY <3>1, <3>2
  <2>2. Sums(g, fun, T)
    BY <2>1 DEF Sums
  <2>3. \E h : Sums(h, fun, T)
    BY <2>2
  <2> DEFINE k == CHOOSE h : Sums(h, fun, T)
  <2>4. Sums(k, fun, T)
    BY <2>3
  <2>5. IsFiniteSet(T)
    BY FS_Subset
  <2>6. k[T] = g[T]
    BY <2>2, <2>4, <2>5, SumsAgree
  <2>7. SumFunctionOnSet(fun, T) = SumTo(fun, T)
    BY <2>6, SumIsRecursive
  <2> QED BY <2>3, <2>7
<1>2. A \in SUBSET SUBSET S
  OBVIOUS
<1>3. A = SUBSET S
  <2> HIDE DEF A
  <2> QED BY <1>1, <1>2, SubsetInduction, Zenon
<1> QED BY <1>3

----------------------------------------------------------------------------
(* Sums.                                                                   *)

LEMMA SumOfNothing == ASSUME NEW fun PROVE SumFunctionOnSet(fun, {}) = 0
BY SumsExist, FS_EmptySet DEF SumTo

LEMMA SumPick ==
    ASSUME NEW fun, NEW S, IsFiniteSet(S), S # {}
    PROVE  SumFunctionOnSet(fun, S) = fun[Pick(S)] + SumFunctionOnSet(fun, S \ {Pick(S)})
BY SumsExist DEF SumTo

(* Equal terms, equal sums.                                                *)
LEMMA SumOfEquals ==
    ASSUME NEW S, IsFiniteSet(S), NEW f, NEW g, \A x \in S : f[x] = g[x]
    PROVE  SumFunctionOnSet(f, S) = SumFunctionOnSet(g, S)
<1> DEFINE A == {T \in SUBSET S : SumFunctionOnSet(f, T) = SumFunctionOnSet(g, T)}
<1>1. ASSUME NEW T \in SUBSET S, \A U \in SUBSET T : U # T => U \in A
      PROVE  T \in A
  <2>1. IsFiniteSet(T)
    BY FS_Subset
  <2>2. CASE T = {}
    BY <2>2, SumOfNothing
  <2>3. CASE T # {}
    <3>1. Pick(T) \in T /\ T \ {Pick(T)} \in A
      BY <1>1, <2>3, PickIn
    <3> QED BY <2>1, <2>3, <3>1, SumPick
  <2> QED BY <2>2, <2>3
<1>2. A \in SUBSET SUBSET S
  OBVIOUS
<1>3. A = SUBSET S
  <2> HIDE DEF A
  <2> QED BY <1>1, <1>2, SubsetInduction, Zenon
<1> QED BY <1>3

LEMMA SumIsNat ==
    ASSUME NEW S, IsFiniteSet(S), NEW f, \A x \in S : f[x] \in Nat
    PROVE  SumFunctionOnSet(f, S) \in Nat
<1> DEFINE A == {T \in SUBSET S : SumFunctionOnSet(f, T) \in Nat}
<1>1. ASSUME NEW T \in SUBSET S, \A U \in SUBSET T : U # T => U \in A
      PROVE  T \in A
  <2>1. IsFiniteSet(T)
    BY FS_Subset
  <2>2. CASE T = {}
    BY <2>2, SumOfNothing
  <2>3. CASE T # {}
    <3>1. Pick(T) \in T /\ T \ {Pick(T)} \in A
      BY <1>1, <2>3, PickIn
    <3> QED BY <2>1, <2>3, <3>1, SumPick
  <2> QED BY <2>2, <2>3
<1>2. A \in SUBSET SUBSET S
  OBVIOUS
<1>3. A = SUBSET S
  <2> HIDE DEF A
  <2> QED BY <1>1, <1>2, SubsetInduction, Zenon
<1> QED BY <1>3

(* Any term may be taken out first.                                        *)
LEMMA SumTakeOut ==
    ASSUME NEW S, IsFiniteSet(S), NEW f, \A x \in S : f[x] \in Nat, NEW y \in S
    PROVE  SumFunctionOnSet(f, S) = f[y] + SumFunctionOnSet(f, S \ {y})
<1> DEFINE A == {T \in SUBSET S : \A z \in T :
                   SumFunctionOnSet(f, T) = f[z] + SumFunctionOnSet(f, T \ {z})}
<1>1. ASSUME NEW T \in SUBSET S, \A U \in SUBSET T : U # T => U \in A
      PROVE  T \in A
  <2> SUFFICES ASSUME NEW z \in T
               PROVE  SumFunctionOnSet(f, T) = f[z] + SumFunctionOnSet(f, T \ {z})
    OBVIOUS
  <2> DEFINE p == Pick(T)
  <2>1. p \in T
    BY PickIn
  <2>2. SumFunctionOnSet(f, T) = f[p] + SumFunctionOnSet(f, T \ {p})
    BY FS_Subset, SumPick
  <2>3. CASE p = z
    BY <2>2, <2>3
  <2>4. CASE p # z
    <3>1. T \ {p} \in A /\ T \ {z} \in A
      BY <1>1, <2>1
    <3>2. SumFunctionOnSet(f, T \ {p}) = f[z] + SumFunctionOnSet(f, (T \ {p}) \ {z})
      BY <3>1, <2>4
    <3>3. SumFunctionOnSet(f, T \ {z}) = f[p] + SumFunctionOnSet(f, (T \ {z}) \ {p})
      BY <3>1, <2>4, <2>1
    <3>4. (T \ {p}) \ {z} = (T \ {z}) \ {p}
      OBVIOUS
    <3>5. SumFunctionOnSet(f, (T \ {p}) \ {z}) \in Nat
      BY FS_Subset, SumIsNat, (T \ {p}) \ {z} \subseteq S
    <3>6. f[p] \in Nat /\ f[z] \in Nat
      BY <2>1
    <3> HIDE DEF p
    <3> QED BY <2>2, <3>2, <3>3, <3>4, <3>5, <3>6
  <2> QED BY <2>3, <2>4
<1>2. A \in SUBSET SUBSET S
  OBVIOUS
<1>3. A = SUBSET S
  <2> HIDE DEF A
  <2> QED BY <1>1, <1>2, SubsetInduction, Zenon
<1> QED BY <1>3

LEMMA SumAddElement ==
    ASSUME NEW S, IsFiniteSet(S), NEW f, \A x \in S : f[x] \in Nat,
           NEW y, y \notin S, f[y] \in Nat
    PROVE  SumFunctionOnSet(f, S \cup {y}) = f[y] + SumFunctionOnSet(f, S)
<1>1. IsFiniteSet(S \cup {y})
  BY FS_AddElement
<1>2. (S \cup {y}) \ {y} = S
  OBVIOUS
<1> QED BY <1>1, <1>2, SumTakeOut

LEMMA SumOfSums ==
    ASSUME NEW S, IsFiniteSet(S), NEW f, NEW g, NEW h,
           \A x \in S : f[x] \in Nat /\ g[x] \in Nat /\ h[x] = f[x] + g[x]
    PROVE  SumFunctionOnSet(h, S) = SumFunctionOnSet(f, S) + SumFunctionOnSet(g, S)
<1> DEFINE A == {T \in SUBSET S : SumFunctionOnSet(h, T) =
                   SumFunctionOnSet(f, T) + SumFunctionOnSet(g, T)}
<1>1. {} \in A
  BY SumOfNothing
<1>2. ASSUME NEW T \in A, NEW y \in S \ T
      PROVE  T \cup {y} \in A
  <2>1. IsFiniteSet(T)
    BY FS_Subset
  <2>2. /\ SumFunctionOnSet(f, T \cup {y}) = f[y] + SumFunctionOnSet(f, T)
        /\ SumFunctionOnSet(g, T \cup {y}) = g[y] + SumFunctionOnSet(g, T)
        /\ SumFunctionOnSet(h, T \cup {y}) = h[y] + SumFunctionOnSet(h, T)
    BY <2>1, SumAddElement
  <2>3. SumFunctionOnSet(f, T) \in Nat /\ SumFunctionOnSet(g, T) \in Nat
    BY <2>1, SumIsNat
  <2> QED BY <2>2, <2>3
<1>3. A \in SUBSET SUBSET S
  OBVIOUS
<1>4. S \in A
  <2> HIDE DEF A
  <2> QED BY <1>1, <1>2, <1>3, FiniteSetInduction, Zenon
<1> QED BY <1>4

LEMMA SumScaled ==
    ASSUME NEW S, IsFiniteSet(S), NEW f, NEW g, NEW c \in Nat,
           \A x \in S : f[x] \in Nat /\ g[x] = f[x] * c
    PROVE  SumFunctionOnSet(g, S) = SumFunctionOnSet(f, S) * c
<1> DEFINE A == {T \in SUBSET S : SumFunctionOnSet(g, T) = SumFunctionOnSet(f, T) * c}
<1>1. {} \in A
  BY SumOfNothing
<1>2. ASSUME NEW T \in A, NEW y \in S \ T
      PROVE  T \cup {y} \in A
  <2>1. IsFiniteSet(T)
    BY FS_Subset
  <2>2. g[y] \in Nat /\ \A x \in T : g[x] \in Nat
    OBVIOUS
  <2>3. /\ SumFunctionOnSet(f, T \cup {y}) = f[y] + SumFunctionOnSet(f, T)
        /\ SumFunctionOnSet(g, T \cup {y}) = g[y] + SumFunctionOnSet(g, T)
    BY <2>1, <2>2, SumAddElement
  <2>4. SumFunctionOnSet(f, T) \in Nat
    BY <2>1, SumIsNat
  <2>5. \A m, n \in Nat : (m + n) * c = m * c + n * c
    OBVIOUS
  <2> QED BY <2>3, <2>4, <2>5
<1>3. A \in SUBSET SUBSET S
  OBVIOUS
<1>4. S \in A
  <2> HIDE DEF A
  <2> QED BY <1>1, <1>2, <1>3, FiniteSetInduction, Zenon
<1> QED BY <1>4

(* What adds nothing may be left out.                                      *)
LEMMA SumWithin ==
    ASSUME NEW S, IsFiniteSet(S), NEW T \in SUBSET S, NEW f,
           \A x \in S : f[x] \in Nat, \A x \in S \ T : f[x] = 0
    PROVE  SumFunctionOnSet(f, S) = SumFunctionOnSet(f, T)
<1> DEFINE R == S \ T
           A == {U \in SUBSET R : SumFunctionOnSet(f, T \cup U) = SumFunctionOnSet(f, T)}
<1>1. {} \in A
  BY T \cup {} = T
<1>2. ASSUME NEW U \in A, NEW y \in R \ U
      PROVE  U \cup {y} \in A
  <2>1. IsFiniteSet(T \cup U) /\ IsFiniteSet(T)
    BY FS_Subset
  <2>2. SumFunctionOnSet(f, (T \cup U) \cup {y}) = f[y] + SumFunctionOnSet(f, T \cup U)
    BY <2>1, SumAddElement
  <2>3. SumFunctionOnSet(f, T) \in Nat
    BY <2>1, SumIsNat
  <2>4. (T \cup U) \cup {y} = T \cup (U \cup {y})
    OBVIOUS
  <2>5. SumFunctionOnSet(f, T \cup (U \cup {y})) = SumFunctionOnSet(f, T)
    <3>1. SumFunctionOnSet(f, T \cup U) = SumFunctionOnSet(f, T) /\ f[y] = 0
      OBVIOUS
    <3> HIDE DEF A, R
    <3> QED BY <2>2, <2>3, <2>4, <3>1
  <2> QED BY <2>5
<1>3. A \in SUBSET SUBSET R /\ IsFiniteSet(R)
  BY FS_Subset
<1>4. R \in A
  <2> HIDE DEF A, R
  <2> QED BY <1>1, <1>2, <1>3, FiniteSetInduction, Zenon
<1> QED BY <1>4, T \cup R = S

LEMMA SumOfConstant ==
    ASSUME NEW S, IsFiniteSet(S), NEW f, NEW c \in Nat, \A x \in S : f[x] = c
    PROVE  SumFunctionOnSet(f, S) = c * Cardinality(S)
<1> DEFINE A == {T \in SUBSET S : SumFunctionOnSet(f, T) = c * Cardinality(T)}
<1>1. {} \in A
  BY SumOfNothing, FS_EmptySet
<1>2. ASSUME NEW T \in A, NEW y \in S \ T
      PROVE  T \cup {y} \in A
  <2>1. IsFiniteSet(T)
    BY FS_Subset
  <2>2. SumFunctionOnSet(f, T \cup {y}) = c + SumFunctionOnSet(f, T)
    BY <2>1, SumAddElement
  <2>3. Cardinality(T \cup {y}) = Cardinality(T) + 1 /\ Cardinality(T) \in Nat
    BY <2>1, FS_AddElement, FS_CardinalityType
  <2>4. \A n \in Nat : c * (n + 1) = c + c * n
    OBVIOUS
  <2> QED BY <2>2, <2>3, <2>4
<1>3. A \in SUBSET SUBSET S
  OBVIOUS
<1>4. S \in A
  <2> HIDE DEF A
  <2> QED BY <1>1, <1>2, <1>3, FiniteSetInduction, Zenon
<1> QED BY <1>4

(* A sum over an image, when no two elements have the same.                *)
LEMMA SumOverImage ==
    ASSUME NEW S, IsFiniteSet(S), NEW h, NEW f, NEW g,
           \A x, y \in S : h[x] = h[y] => x = y,
           \A x \in S : g[x] = f[h[x]] /\ g[x] \in Nat
    PROVE  /\ IsFiniteSet({h[x] : x \in S})
           /\ SumFunctionOnSet(f, {h[x] : x \in S}) = SumFunctionOnSet(g, S)
<1> DEFINE Im(T) == {h[x] : x \in T}
           A == {T \in SUBSET S : /\ IsFiniteSet(Im(T))
                                  /\ SumFunctionOnSet(f, Im(T)) = SumFunctionOnSet(g, T)}
<1>1. {} \in A
  <2>1. Im({}) = {}
    OBVIOUS
  <2> QED BY <2>1, SumOfNothing, FS_EmptySet
<1>2. ASSUME NEW T \in A, NEW y \in S \ T
      PROVE  T \cup {y} \in A
  <2>1. IsFiniteSet(T)
    BY FS_Subset
  <2>2. Im(T \cup {y}) = Im(T) \cup {h[y]} /\ h[y] \notin Im(T)
    OBVIOUS
  <2>3. IsFiniteSet(Im(T)) /\ (\A z \in Im(T) : f[z] \in Nat) /\ f[h[y]] \in Nat
    OBVIOUS
  <2>4. IsFiniteSet(Im(T \cup {y}))
    <3>1. IsFiniteSet(Im(T) \cup {h[y]})
      <4> HIDE DEF Im
      <4> QED BY <2>3, FS_AddElement
    <3> QED BY <2>2, <3>1
  <2>5. SumFunctionOnSet(f, Im(T) \cup {h[y]}) = f[h[y]] + SumFunctionOnSet(f, Im(T))
    BY <2>2, <2>3, SumAddElement
  <2>6. SumFunctionOnSet(g, T \cup {y}) = g[y] + SumFunctionOnSet(g, T)
    BY <2>1, SumAddElement
  <2> QED BY <2>2, <2>4, <2>5, <2>6
<1>3. A \in SUBSET SUBSET S
  OBVIOUS
<1>4. S \in A
  <2> HIDE DEF A
  <2> QED BY <1>1, <1>2, <1>3, FiniteSetInduction, Zenon
<1> QED BY <1>4

WithKey(S, key, k) == {x \in S : key[x] = k}

(* Counting by key: so much for each key, times how many there are of it.  *)
LEMMA SumByKey ==
    ASSUME NEW S, IsFiniteSet(S), NEW key, NEW K, IsFiniteSet(K),
           \A x \in S : key[x] \in K,
           NEW amount, \A k \in K : amount[k] \in Nat,
           NEW f, \A x \in S : f[x] = amount[key[x]],
           NEW g, \A k \in K : g[k] = amount[k] * Cardinality(WithKey(S, key, k))
    PROVE  SumFunctionOnSet(g, K) = SumFunctionOnSet(f, S)
<1> DEFINE Count(T, k) == Cardinality({x \in T : key[x] = k})
           G(T) == [k \in K |-> amount[k] * Count(T, k)]
           A == {T \in SUBSET S : SumFunctionOnSet(G(T), K) = SumFunctionOnSet(f, T)}
<1>c. \A T \in SUBSET S, k \in K : /\ IsFiniteSet({x \in T : key[x] = k})
                                  /\ Count(T, k) \in Nat
  BY FS_Subset, FS_CardinalityType
<1>n. \A T \in SUBSET S, k \in K : G(T)[k] = amount[k] * Count(T, k) /\ G(T)[k] \in Nat
  <2>1. \A m, n \in Nat : m * n \in Nat
    OBVIOUS
  <2> HIDE DEF Count
  <2> QED BY <1>c, <2>1
<1>1. {} \in A
  <2>1. \A k \in K : G({})[k] = 0
    <3>1. \A k \in K : Count({}, k) = 0
      <4>1. \A k \in K : {x \in {} : key[x] = k} = {}
        OBVIOUS
      <4> QED BY <4>1, FS_EmptySet
    <3> QED BY <3>1
  <2>2. SumFunctionOnSet(G({}), K) = 0 * Cardinality(K)
    <3> HIDE DEF G
    <3> QED BY <2>1, SumOfConstant
  <2> QED BY <2>2, SumOfNothing, FS_CardinalityType
<1>2. ASSUME NEW T \in A, NEW y \in S \ T
      PROVE  T \cup {y} \in A
  <2> DEFINE U == T \cup {y}
             k == key[y]
             g1 == G(T)
             g2 == G(U)
  <2>0. U \in SUBSET S /\ T \in SUBSET S /\ IsFiniteSet(T) /\ k \in K
    BY FS_Subset
  <2>1. \A j \in K \ {k} : g2[j] = g1[j]
    <3>1. \A j \in K \ {k} : {x \in U : key[x] = j} = {x \in T : key[x] = j}
      OBVIOUS
    <3> QED BY <3>1
  <2>2. g2[k] = g1[k] + amount[k]
    <3>1. {x \in U : key[x] = k} = {x \in T : key[x] = k} \cup {y}
      OBVIOUS
    <3>2. Count(U, k) = Count(T, k) + 1
      <4> DEFINE C == {x \in T : key[x] = k}
      <4>1. IsFiniteSet(C) /\ y \notin C
        BY <1>c, <2>0
      <4>2. Cardinality(C \cup {y}) = Cardinality(C) + 1
        <5> HIDE DEF C
        <5> QED BY <4>1, FS_AddElement
      <4> QED BY <3>1, <4>2
    <3>3. \A m, n \in Nat : m * (n + 1) = m * n + m
      OBVIOUS
    <3>4. amount[k] \in Nat /\ Count(T, k) \in Nat
      BY <1>c, <2>0
    <3>5. g2[k] = amount[k] * Count(U, k) /\ g1[k] = amount[k] * Count(T, k)
      BY <1>n, <2>0
    <3> HIDE DEF Count, k, g1, g2, G
    <3> QED BY <3>2, <3>3, <3>4, <3>5
  <2>3. \A j \in K : g1[j] \in Nat /\ g2[j] \in Nat
    BY <1>n, <2>0
  <2> HIDE DEF g1, g2, G, Count
  <2>4. /\ SumFunctionOnSet(g1, K) = g1[k] + SumFunctionOnSet(g1, K \ {k})
        /\ SumFunctionOnSet(g2, K) = g2[k] + SumFunctionOnSet(g2, K \ {k})
    BY <2>0, <2>3, SumTakeOut
  <2>5. IsFiniteSet(K \ {k})
    BY FS_Subset
  <2>6. SumFunctionOnSet(g2, K \ {k}) = SumFunctionOnSet(g1, K \ {k})
    BY <2>1, <2>5, SumOfEquals
  <2>7. SumFunctionOnSet(g1, K \ {k}) \in Nat
    BY <2>3, <2>5, SumIsNat
  <2>8. SumFunctionOnSet(f, U) = f[y] + SumFunctionOnSet(f, T)
    BY <2>0, SumAddElement
  <2>9. SumFunctionOnSet(g1, K) = SumFunctionOnSet(f, T)
    BY DEF g1
  <2>10. f[y] = amount[k] /\ amount[k] \in Nat /\ g1[k] \in Nat
    BY <2>0, <2>3
  <2> HIDE DEF U, k
  <2>11. SumFunctionOnSet(g2, K) = SumFunctionOnSet(f, U)
    BY <2>2, <2>4, <2>6, <2>7, <2>8, <2>9, <2>10
  <2> QED BY <2>11, <2>0 DEF U, g2
<1>3. A \in SUBSET SUBSET S
  OBVIOUS
<1>4. S \in A
  <2> HIDE DEF A
  <2> QED BY <1>1, <1>2, <1>3, FiniteSetInduction, Zenon
<1>5. SumFunctionOnSet(g, K) = SumFunctionOnSet(G(S), K)
  <2>1. \A k \in K : g[k] = G(S)[k]
    BY DEF WithKey
  <2> HIDE DEF G
  <2> QED BY <2>1, SumOfEquals
<1> QED BY <1>4, <1>5

(* So much for each member of a subset, nothing for the others.            *)
LEMMA SumOfSome ==
    ASSUME NEW S, IsFiniteSet(S), NEW T \in SUBSET S, NEW c \in Nat,
           NEW f, \A x \in S : f[x] = IF x \in T THEN c ELSE 0
    PROVE  SumFunctionOnSet(f, S) = c * Cardinality(T)
<1>1. SumFunctionOnSet(f, S) = SumFunctionOnSet(f, T)
  BY SumWithin
<1>2. SumFunctionOnSet(f, T) = c * Cardinality(T)
  BY FS_Subset, SumOfConstant
<1> QED BY <1>1, <1>2

(* A set of lines, and what of it is left when the lines of nothing go.    *)
LineSum(lines) == SumFunctionOnSet([l \in lines |-> l.unit * l.qty], lines)

LEMMA TotalIsLineSum ==
    ASSUME NEW lines, IsFiniteSet(lines),
           \A l \in lines : l.unit \in Nat /\ l.qty \in Nat
    PROVE  TotalPence({l \in lines : l.unit > 0 /\ l.qty > 0}) = LineSum(lines)
<1> DEFINE X == {l \in lines : l.unit > 0 /\ l.qty > 0}
           f == [l \in lines |-> l.unit * l.qty]
           g == [l \in X |-> l.unit * l.qty]
<1>1. TotalPence(X) = SumFunctionOnSet(g, X)
  BY DEF TotalPence, SumFunction
<1>2. SumFunctionOnSet(g, X) = SumFunctionOnSet(f, X)
  <2>1. \A l \in X : g[l] = f[l]
    OBVIOUS
  <2>2. IsFiniteSet(X)
    BY FS_Subset
  <2> HIDE DEF X, f, g
  <2> QED BY <2>1, <2>2, SumOfEquals
<1>3. \A m, n \in Nat : /\ m * n \in Nat
                        /\ m = 0 \/ n = 0 => m * n = 0
  OBVIOUS
<1>4. \A l \in lines : f[l] \in Nat /\ (l \notin X => f[l] = 0)
  BY <1>3
<1>5. SumFunctionOnSet(f, lines) = SumFunctionOnSet(f, X)
  <2>1. X \subseteq lines
    OBVIOUS
  <2> HIDE DEF X, f
  <2> QED BY <1>4, <2>1, SumWithin
<1> QED BY <1>1, <1>2, <1>5 DEF LineSum

LEMMA LineSumIsOver ==
    ASSUME NEW lines, IsFiniteSet(lines), NEW f,
           \A l \in lines : f[l] = l.unit * l.qty
    PROVE  LineSum(lines) = SumFunctionOnSet(f, lines)
BY SumOfEquals DEF LineSum

----------------------------------------------------------------------------
(* The lines of a form.                                                    *)

LEMMA ImageIsFinite ==
    ASSUME NEW S, IsFiniteSet(S), NEW h
    PROVE  IsFiniteSet({h[x] : x \in S})
<1> DEFINE T == {h[x] : x \in S}
           f == [x \in S |-> h[x]]
<1>1. f \in Surjection(S, T)
  BY DEF Surjection
<1> QED
  <2> HIDE DEF T, f
  <2>1. IsFiniteSet(T)
    BY <1>1, FS_Surjection, Zenon
  <2> QED BY <2>1 DEF T

UnitPrices == {TierPrice[t] : t \in Code} \cup {ChildUnder3, DayPassPrice, CoachPrice}

LEMMA PricesAreNat == \A p \in UnitPrices : PriceAmount[p] \in Nat
BY PricesAreKnown DEF UnitPrices

(* The tiers' lines come to what their campers cost.                       *)
LEMMA TiersAddUp ==
    ASSUME NEW campers, ValidForm(campers),
           NEW f, \A i \in Weekers(campers) :
             f[i] = PriceAmount[AccommodationPriceID(campers[i].choice, campers[i].age)]
    PROVE  /\ IsFiniteSet(AccommodationLines(campers))
           /\ \A l \in AccommodationLines(campers) :
                /\ l.what = "tier" /\ l.unit \in Nat /\ l.qty \in Nat
           /\ LineSum(AccommodationLines(campers)) = SumFunctionOnSet(f, Weekers(campers))
<1> DEFINE W == Weekers(campers)
           key == [i \in W |-> AccKey(campers[i])]
           K == {key[i] : i \in W}
           count(k) == Cardinality({i \in W : key[i] = k})
           line == [k \in K |-> Line("tier", k[1], k[2], PriceAmount[k[2]], count(k))]
           amount == [k \in K |-> PriceAmount[k[2]]]
           g == [k \in K |-> amount[k] * count(k)]
           total == [l \in AccommodationLines(campers) |-> l.unit * l.qty]
<1>1. IsFiniteSet(W)
  BY FS_Subset DEF ValidForm, Weekers
<1>2. IsFiniteSet(K)
  <2> HIDE DEF key, W
  <2> QED BY <1>1, ImageIsFinite
<1>3. AccommodationLines(campers) = {line[k] : k \in K}
  <2>1. K = {AccKey(campers[i]) : i \in W}
    OBVIOUS
  <2>2. \A k \in K : {i \in W : key[i] = k} = {i \in W : AccKey(campers[i]) = k}
    OBVIOUS
  <2>3. \A k \in K : line[k] = Line("tier", k[1], k[2], PriceAmount[k[2]],
                            Cardinality({i \in W : AccKey(campers[i]) = k}))
    <3> HIDE DEF K, key, W
    <3> QED BY <2>2
  <2>4. AccommodationLines(campers) =
          {Line("tier", k[1], k[2], PriceAmount[k[2]],
                Cardinality({i \in W : AccKey(campers[i]) = k})) : k \in K}
    BY <2>1 DEF AccommodationLines
  <2> HIDE DEF K, key, W, line
  <2> QED BY <2>3, <2>4
<1>4. \A k \in K : k = <<k[1], k[2]>> /\ PriceAmount[k[2]] \in Nat
  BY PricesAreNat DEF AccKey, AccommodationPriceID, UnitPrices, ValidForm, ValidCamper, Weekers
<1>5. \A k \in K : count(k) \in Nat
  BY <1>1, FS_Subset, FS_CardinalityType
<1>6. \A k \in K : /\ line[k].what = "tier" /\ line[k].tier = k[1] /\ line[k].price = k[2]
                   /\ line[k].unit = PriceAmount[k[2]] /\ line[k].qty = count(k)
  <2> HIDE DEF K, count
  <2> QED BY DEF Line
<1>7. \A l \in AccommodationLines(campers) :
        l.what = "tier" /\ l.unit \in Nat /\ l.qty \in Nat
  <2> HIDE DEF K, count, line
  <2> QED BY <1>3, <1>4, <1>5, <1>6
<1>8. \A j, k \in K : line[j] = line[k] => j = k
  <2> HIDE DEF K, line, count
  <2> QED BY <1>4, <1>6
<1>9. \A k \in K : g[k] = total[line[k]] /\ g[k] \in Nat
  <2>1. \A m, n \in Nat : m * n \in Nat
    OBVIOUS
  <2>2. \A k \in K : amount[k] = PriceAmount[k[2]] /\ line[k] \in AccommodationLines(campers)
    BY <1>3
  <2> HIDE DEF K, count, line, amount
  <2> QED BY <1>4, <1>5, <1>6, <2>1, <2>2
<1>10. /\ IsFiniteSet({line[k] : k \in K})
       /\ SumFunctionOnSet(total, {line[k] : k \in K}) = SumFunctionOnSet(g, K)
  <2> HIDE DEF K, line, g, total
  <2> QED BY <1>2, <1>8, <1>9, SumOverImage
<1>11. SumFunctionOnSet(g, K) = SumFunctionOnSet(f, W)
  <2>1. \A i \in W : key[i] \in K /\ f[i] = amount[key[i]]
    BY DEF AccKey
  <2>2. \A k \in K : amount[k] \in Nat /\ g[k] = amount[k] * Cardinality({i \in W : key[i] = k})
    BY <1>4
  <2>3. /\ \A i \in W : key[i] \in K
        /\ \A i \in W : f[i] = amount[key[i]]
        /\ \A k \in K : amount[k] \in Nat
        /\ \A k \in K : g[k] = amount[k] * Cardinality(WithKey(W, key, k))
    BY <2>1, <2>2 DEF WithKey
  <2> HIDE DEF K, g, W, key, amount
  <2> QED BY <1>1, <1>2, <2>3, SumByKey
<1>12. LineSum(AccommodationLines(campers)) = SumFunctionOnSet(total, {line[k] : k \in K})
  BY <1>3 DEF LineSum
<1>13. IsFiniteSet(AccommodationLines(campers))
  BY <1>3, <1>10
<1> HIDE DEF K, g, key, amount, count, line, total
<1> QED BY <1>7, <1>10, <1>11, <1>12, <1>13

(* The line of the deposits, and of the coach, come to so much for each    *)
(* camper who pays one; the line of the day passes to so much for each day. *)
LEMMA CountedAddUp ==
    ASSUME NEW campers, ValidForm(campers), NEW c \in Nat,
           NEW f, \A i \in DOMAIN campers : f[i] = IF PayDeposit(campers[i]) THEN c ELSE 0,
           NEW g, \A i \in DOMAIN campers : g[i] = IF CoachEligible(campers[i]) THEN c ELSE 0,
           NEW h, \A i \in DOMAIN campers :
                    h[i] = IF IsFullWeek(campers[i]) THEN 0 ELSE campers[i].days * c
    PROVE  /\ DepositPayingCount(campers) \in Nat
           /\ SumFunctionOnSet(f, DOMAIN campers) = c * DepositPayingCount(campers)
           /\ CoachEligibleCount(campers) \in Nat
           /\ SumFunctionOnSet(g, DOMAIN campers) = c * CoachEligibleCount(campers)
           /\ DayPassDays(campers) \in Nat
           /\ SumFunctionOnSet(h, DOMAIN campers) = c * DayPassDays(campers)
<1> DEFINE D == DOMAIN campers
           P == {i \in D : PayDeposit(campers[i])}
           C == {i \in D : CoachEligible(campers[i])}
           V == D \ Weekers(campers)
           days == [i \in D |-> campers[i].days]
<1>1. IsFiniteSet(D) /\ IsFiniteSet(P) /\ IsFiniteSet(C) /\ IsFiniteSet(V)
  BY FS_Subset DEF ValidForm
<1>2. /\ P \in SUBSET D /\ \A i \in D : f[i] = IF i \in P THEN c ELSE 0
      /\ C \in SUBSET D /\ \A i \in D : g[i] = IF i \in C THEN c ELSE 0
  OBVIOUS
<1>3. /\ SumFunctionOnSet(f, D) = c * Cardinality(P) /\ Cardinality(P) \in Nat
      /\ SumFunctionOnSet(g, D) = c * Cardinality(C) /\ Cardinality(C) \in Nat
  <2> HIDE DEF D, P, C
  <2> QED BY <1>1, <1>2, SumOfSome, FS_CardinalityType
<1>4. /\ V \in SUBSET D /\ \A i \in V : days[i] \in Nat /\ h[i] = days[i] * c
      /\ \A i \in D \ V : h[i] = 0
  BY DEF ValidForm, ValidCamper, Weekers
<1>5. SumFunctionOnSet(days, V) \in Nat
  <2> HIDE DEF V, days
  <2> QED BY <1>1, <1>4, SumIsNat
<1>6. SumFunctionOnSet(h, V) = SumFunctionOnSet(days, V) * c
  <2> HIDE DEF D, V, days
  <2> QED BY <1>1, <1>4, SumScaled
<1>7. SumFunctionOnSet(h, D) = SumFunctionOnSet(h, V)
  <2>1. \A m \in Nat : m * c \in Nat
    OBVIOUS
  <2>2. \A i \in D : h[i] \in Nat
    <3> HIDE DEF D, V, days
    <3> QED BY <1>4, <2>1
  <2> HIDE DEF D, V, days
  <2> QED BY <1>1, <1>4, <2>2, SumWithin
<1>8. SumFunctionOnSet(h, D) = c * SumFunctionOnSet(days, V)
  <2>1. \A m \in Nat : m * c = c * m
    OBVIOUS
  <2> HIDE DEF D, V, days
  <2> QED BY <1>5, <1>6, <1>7, <2>1
<1>9. /\ DepositPayingCount(campers) = Cardinality(P)
      /\ CoachEligibleCount(campers) = Cardinality(C)
      /\ DayPassDays(campers) = SumFunctionOnSet(days, V)
  BY DEF DepositPayingCount, CoachEligibleCount, DayPassDays
<1> QED BY <1>3, <1>5, <1>8, <1>9

LEMMA FourLines ==
    ASSUME NEW T, IsFiniteSet(T), \A l \in T : l.unit \in Nat /\ l.qty \in Nat,
           NEW a, NEW b, NEW c, a \notin T, b \notin T, c \notin T, a # b, a # c, b # c,
           \A l \in {a, b, c} : l.unit \in Nat /\ l.qty \in Nat
    PROVE  /\ IsFiniteSet(T \cup {a, b, c})
           /\ LineSum(T \cup {a, b, c}) =
                LineSum(T) + a.unit * a.qty + b.unit * b.qty + c.unit * c.qty
           /\ LineSum(T) \in Nat
<1> DEFINE all == T \cup {a, b, c}
           f == [l \in all |-> l.unit * l.qty]
<1>0. \A m, n \in Nat : m * n \in Nat
  OBVIOUS
<1>1. \A l \in all : f[l] = l.unit * l.qty /\ f[l] \in Nat
  BY <1>0
<1>2. /\ IsFiniteSet(T \cup {a}) /\ IsFiniteSet((T \cup {a}) \cup {b})
      /\ IsFiniteSet(((T \cup {a}) \cup {b}) \cup {c})
  BY FS_AddElement
<1>3. ((T \cup {a}) \cup {b}) \cup {c} = all
  OBVIOUS
<1>4. /\ SumFunctionOnSet(f, T \cup {a}) = f[a] + SumFunctionOnSet(f, T)
      /\ SumFunctionOnSet(f, (T \cup {a}) \cup {b}) = f[b] + SumFunctionOnSet(f, T \cup {a})
      /\ SumFunctionOnSet(f, ((T \cup {a}) \cup {b}) \cup {c}) =
            f[c] + SumFunctionOnSet(f, (T \cup {a}) \cup {b})
  <2>1. /\ \A l \in T : f[l] \in Nat
        /\ \A l \in T \cup {a} : f[l] \in Nat
        /\ \A l \in (T \cup {a}) \cup {b} : f[l] \in Nat
        /\ f[a] \in Nat /\ f[b] \in Nat /\ f[c] \in Nat
    BY <1>1
  <2>2. b \notin T \cup {a} /\ c \notin (T \cup {a}) \cup {b}
    OBVIOUS
  <2> HIDE DEF f
  <2> QED BY <1>2, <2>1, <2>2, SumAddElement
<1>5. LineSum(T) = SumFunctionOnSet(f, T) /\ SumFunctionOnSet(f, T) \in Nat
  <2>1. \A l \in T : f[l] = l.unit * l.qty /\ f[l] \in Nat
    BY <1>1
  <2> HIDE DEF f
  <2> QED BY <2>1, LineSumIsOver, SumIsNat
<1>6. LineSum(all) = SumFunctionOnSet(f, all)
  BY DEF LineSum
<1>7. f[a] \in Nat /\ f[b] \in Nat /\ f[c] \in Nat
  BY <1>1
<1>8. f[a] = a.unit * a.qty /\ f[b] = b.unit * b.qty /\ f[c] = c.unit * c.qty
  BY <1>1
<1>9. LineSum(all) = LineSum(T) + f[a] + f[b] + f[c]
  <2> DEFINE s0 == SumFunctionOnSet(f, T)
             s1 == SumFunctionOnSet(f, T \cup {a})
             s2 == SumFunctionOnSet(f, (T \cup {a}) \cup {b})
             s3 == SumFunctionOnSet(f, all)
  <2>1. s1 = f[a] + s0 /\ s2 = f[b] + s1 /\ s3 = f[c] + s2 /\ s0 \in Nat
    BY <1>3, <1>4, <1>5, Zenon
  <2>2. LineSum(T) = s0 /\ LineSum(all) = s3
    BY <1>5, <1>6
  <2> HIDE DEF s0, s1, s2, s3, f, all
  <2> QED BY <1>7, <2>1, <2>2
<1> QED BY <1>2, <1>3, <1>5, <1>8, <1>9

LEMMA FormCostIsSum ==
    ASSUME NEW campers, NEW full, NEW deposit, IsFiniteSet(DOMAIN campers),
           NEW f, \A i \in DOMAIN campers : f[i] = CamperCost(campers[i], full, deposit)
    PROVE  FormCost(campers, full, deposit) = SumFunctionOnSet(f, DOMAIN campers)
<1> DEFINE D == DOMAIN campers
           g == [i \in D |-> CamperCost(campers[i], full, deposit)]
<1>1. FormCost(campers, full, deposit) = SumFunctionOnSet(g, D)
  BY DEF FormCost, SumFunction
<1>2. \A i \in D : g[i] = f[i]
  OBVIOUS
<1>3. SumFunctionOnSet(g, D) = SumFunctionOnSet(f, D)
  <2> HIDE DEF D, g
  <2> QED BY <1>2, SumOfEquals DEF D
<1> QED BY <1>1, <1>3

(* In deposit mode there is one line: the deposits.                        *)
LEMMA DepositsAddUp ==
    ASSUME NEW campers, ValidForm(campers), NEW deposit \in Nat
    PROVE  /\ TotalPence(ComputeCharge(campers, FALSE, deposit))
                 = FormCost(campers, FALSE, deposit)
           /\ FormCost(campers, FALSE, deposit) \in Nat
<1> DEFINE D == DOMAIN campers
           n == DepositPayingCount(campers)
           line == DepositLine(deposit * n, 1)
           f == [i \in D |-> IF PayDeposit(campers[i]) THEN deposit ELSE 0]
<1>1. IsFiniteSet(D)
  BY DEF ValidForm
<1>2. n \in Nat /\ SumFunctionOnSet(f, D) = deposit * n
  <2> DEFINE g == [i \in D |-> IF CoachEligible(campers[i]) THEN deposit ELSE 0]
             h == [i \in D |-> IF IsFullWeek(campers[i]) THEN 0 ELSE campers[i].days * deposit]
  <2>1. /\ \A i \in D : f[i] = IF PayDeposit(campers[i]) THEN deposit ELSE 0
        /\ \A i \in D : g[i] = IF CoachEligible(campers[i]) THEN deposit ELSE 0
        /\ \A i \in D : h[i] = IF IsFullWeek(campers[i]) THEN 0 ELSE campers[i].days * deposit
    OBVIOUS
  <2> HIDE DEF f, g, h
  <2> QED BY <2>1, CountedAddUp
<1>3. deposit * n \in Nat
  <2> HIDE DEF n
  <2> QED BY <1>2
<1>4. line.unit = deposit * n /\ line.qty = 1
  BY DEF DepositLine, Line
<1>5. TotalPence(ComputeCharge(campers, FALSE, deposit)) = LineSum({line})
  <2>1. ComputeCharge(campers, FALSE, deposit) = {l \in {line} : l.unit > 0 /\ l.qty > 0}
    BY DEF ComputeCharge
  <2>2. IsFiniteSet({line}) /\ \A l \in {line} : l.unit \in Nat /\ l.qty \in Nat
    <3> HIDE DEF line, n
    <3>1. IsFiniteSet({line})
      BY FS_Singleton
    <3>2. line.unit \in Nat /\ line.qty \in Nat
      BY <1>3, <1>4
    <3> QED BY <3>1, <3>2
  <2> HIDE DEF line
  <2> QED BY <2>1, <2>2, TotalIsLineSum
<1>6. LineSum({line}) = deposit * n
  <2> DEFINE t == [l \in {line} |-> l.unit * l.qty]
  <2>1. t[line] = deposit * n
    <3> HIDE DEF n, line
    <3> QED BY <1>3, <1>4
  <2>2. SumFunctionOnSet(t, {} \cup {line}) = t[line] + SumFunctionOnSet(t, {})
    <3> HIDE DEF t, line
    <3>1. t[line] \in Nat
      BY <2>1, <1>3
    <3> QED BY <3>1, SumAddElement, FS_EmptySet
  <2>3. LineSum({line}) = SumFunctionOnSet(t, {} \cup {line})
    BY {} \cup {line} = {line} DEF LineSum
  <2> HIDE DEF t, line, n
  <2> QED BY <1>3, <2>1, <2>2, <2>3, SumOfNothing
<1>7. FormCost(campers, FALSE, deposit) = SumFunctionOnSet(f, D)
  <2>1. \A i \in D : f[i] = CamperCost(campers[i], FALSE, deposit)
    BY DEF CamperCost
  <2> HIDE DEF f
  <2> QED BY <1>1, <2>1, FormCostIsSum
<1> HIDE DEF n, f, line
<1> QED BY <1>2, <1>3, <1>5, <1>6, <1>7

LEMMA FullAddsUp ==
    ASSUME NEW campers, ValidForm(campers), NEW deposit \in Nat
    PROVE  /\ TotalPence(ComputeCharge(campers, TRUE, deposit))
                 = FormCost(campers, TRUE, deposit)
           /\ FormCost(campers, TRUE, deposit) \in Nat
<1> DEFINE D == DOMAIN campers
           W == Weekers(campers)
           coach == PriceAmount[CoachPrice]
           pass == PriceAmount[DayPassPrice]
           tier(i) == PriceAmount[AccommodationPriceID(campers[i].choice, campers[i].age)]
           fd == [i \in D |-> IF PayDeposit(campers[i]) THEN deposit ELSE 0]
           ft == [i \in D |-> IF i \in W THEN tier(i) ELSE 0]
           fc == [i \in D |-> IF CoachEligible(campers[i]) THEN coach ELSE 0]
           fp == [i \in D |-> IF IsFullWeek(campers[i]) THEN 0 ELSE campers[i].days * pass]
           T == AccommodationLines(campers)
           ld == DepositLine(deposit, DepositPayingCount(campers))
           lp == DayPassLine(campers)
           lc == CoachLine(campers)
           all == T \cup {ld, lp, lc}
<1>1. IsFiniteSet(D) /\ W \in SUBSET D /\ IsFiniteSet(W)
  BY FS_Subset DEF ValidForm, Weekers
<1>2. coach \in Nat /\ pass \in Nat /\ \A i \in W : tier(i) \in Nat
  BY PricesAreNat
     DEF UnitPrices, AccommodationPriceID, ValidForm, ValidCamper, Weekers
<1>3. /\ DepositPayingCount(campers) \in Nat
      /\ SumFunctionOnSet(fd, D) = deposit * DepositPayingCount(campers)
      /\ CoachEligibleCount(campers) \in Nat
      /\ SumFunctionOnSet(fc, D) = coach * CoachEligibleCount(campers)
      /\ DayPassDays(campers) \in Nat
      /\ SumFunctionOnSet(fp, D) = pass * DayPassDays(campers)
  <2> DEFINE F(c) == [i \in D |-> IF PayDeposit(campers[i]) THEN c ELSE 0]
             G(c) == [i \in D |-> IF CoachEligible(campers[i]) THEN c ELSE 0]
             H(c) == [i \in D |-> IF IsFullWeek(campers[i]) THEN 0 ELSE campers[i].days * c]
  <2>1. ASSUME NEW c \in Nat
        PROVE  /\ DepositPayingCount(campers) \in Nat
               /\ SumFunctionOnSet(F(c), D) = c * DepositPayingCount(campers)
               /\ CoachEligibleCount(campers) \in Nat
               /\ SumFunctionOnSet(G(c), D) = c * CoachEligibleCount(campers)
               /\ DayPassDays(campers) \in Nat
               /\ SumFunctionOnSet(H(c), D) = c * DayPassDays(campers)
    <3>1. /\ \A i \in D : F(c)[i] = IF PayDeposit(campers[i]) THEN c ELSE 0
          /\ \A i \in D : G(c)[i] = IF CoachEligible(campers[i]) THEN c ELSE 0
          /\ \A i \in D : H(c)[i] = IF IsFullWeek(campers[i]) THEN 0 ELSE campers[i].days * c
      OBVIOUS
    <3> HIDE DEF F, G, H
    <3> QED BY <3>1, CountedAddUp
  <2>2. F(deposit) = fd /\ G(coach) = fc /\ H(pass) = fp
    OBVIOUS
  <2> HIDE DEF F, G, H, fd, fc, fp, coach, pass
  <2> QED BY <1>2, <2>1, <2>2
<1>4. /\ IsFiniteSet(T) /\ \A l \in T : l.what = "tier" /\ l.unit \in Nat /\ l.qty \in Nat
      /\ LineSum(T) = SumFunctionOnSet(ft, D)
  <2>1. \A i \in W : ft[i] = tier(i)
    BY <1>1
  <2>2. /\ IsFiniteSet(T)
        /\ \A l \in T : l.what = "tier" /\ l.unit \in Nat /\ l.qty \in Nat
        /\ LineSum(T) = SumFunctionOnSet(ft, W)
    <3> HIDE DEF ft
    <3> QED BY <2>1, TiersAddUp
  <2>3. (\A i \in D : ft[i] \in Nat) /\ (\A i \in D \ W : ft[i] = 0)
    BY <1>2
  <2>4. SumFunctionOnSet(ft, D) = SumFunctionOnSet(ft, W)
    <3> HIDE DEF ft, D, W
    <3> QED BY <1>1, <2>3, SumWithin
  <2> QED BY <2>2, <2>4
<1>5. /\ ld.what = "deposit" /\ ld.unit = deposit /\ ld.qty = DepositPayingCount(campers)
      /\ lp.what = "day_pass" /\ lp.unit = pass /\ lp.qty = DayPassDays(campers)
      /\ lc.what = "coach" /\ lc.unit = coach /\ lc.qty = CoachEligibleCount(campers)
  BY DEF DepositLine, DayPassLine, CoachLine, Line
<1>6. /\ IsFiniteSet(all)
      /\ LineSum(all) = LineSum(T) + ld.unit * ld.qty + lp.unit * lp.qty + lc.unit * lc.qty
      /\ LineSum(T) \in Nat
  <2>1. ld \notin T /\ lp \notin T /\ lc \notin T /\ ld # lp /\ ld # lc /\ lp # lc
    <3> HIDE DEF ld, lp, lc, T
    <3> QED BY <1>4, <1>5
  <2>2. \A l \in {ld, lp, lc} : l.unit \in Nat /\ l.qty \in Nat
    <3> HIDE DEF ld, lp, lc, T, coach, pass
    <3> QED BY <1>2, <1>3, <1>5
  <2> HIDE DEF ld, lp, lc, T
  <2> QED BY <1>4, <2>1, <2>2, FourLines
<1>7. TotalPence(ComputeCharge(campers, TRUE, deposit)) = LineSum(all)
  <2>1. ComputeCharge(campers, TRUE, deposit) = {l \in all : l.unit > 0 /\ l.qty > 0}
    BY DEF ComputeCharge
  <2>2. \A l \in all : l.unit \in Nat /\ l.qty \in Nat
    <3> HIDE DEF ld, lp, lc, T, coach, pass
    <3> QED BY <1>2, <1>3, <1>4, <1>5
  <2> HIDE DEF all
  <2> QED BY <1>6, <2>1, <2>2, TotalIsLineSum
<1> DEFINE f2 == [i \in D |-> fd[i] + ft[i]]
           f3 == [i \in D |-> f2[i] + fc[i]]
           f4 == [i \in D |-> f3[i] + fp[i]]
<1>8. \A i \in D : fd[i] \in Nat /\ ft[i] \in Nat /\ fc[i] \in Nat /\ fp[i] \in Nat
  <2>1. \A m \in Nat : m * pass \in Nat
    BY <1>2
  <2>2. \A i \in D : ~IsFullWeek(campers[i]) => campers[i].days \in Nat
    BY DEF ValidForm, ValidCamper
  <2> HIDE DEF W, coach, pass
  <2>3. \A i \in D : fp[i] \in Nat
    BY <2>1, <2>2
  <2>4. \A i \in D : fd[i] \in Nat /\ ft[i] \in Nat /\ fc[i] \in Nat
    BY <1>2
  <2> QED BY <2>3, <2>4
<1>9. \A i \in D : /\ f2[i] = fd[i] + ft[i] /\ f3[i] = f2[i] + fc[i] /\ f4[i] = f3[i] + fp[i]
                   /\ f2[i] \in Nat /\ f3[i] \in Nat /\ f4[i] \in Nat
  <2> HIDE DEF fd, ft, fc, fp
  <2> QED BY <1>8
<1>10. \A i \in D : f4[i] = CamperCost(campers[i], TRUE, deposit)
  <2> SUFFICES ASSUME NEW i \in D PROVE f4[i] = CamperCost(campers[i], TRUE, deposit)
    OBVIOUS
  <2> DEFINE c == campers[i]
  <2>1. f4[i] = ((fd[i] + ft[i]) + fc[i]) + fp[i]
    <3> HIDE DEF f2, f3, f4, fd, ft, fc, fp
    <3> QED BY <1>9
  <2>2. CASE IsFullWeek(c)
    <3>1. i \in W
      BY <2>2 DEF Weekers
    <3>2. fd[i] = (IF PayDeposit(c) THEN deposit ELSE 0) /\ ft[i] = tier(i)
          /\ fc[i] = (IF CoachEligible(c) THEN coach ELSE 0) /\ fp[i] = 0
      BY <2>2, <3>1
    <3>3. CamperCost(c, TRUE, deposit) =
            (IF PayDeposit(c) THEN deposit ELSE 0) + (tier(i) +
               (IF CoachEligible(c) THEN coach ELSE 0))
      BY <2>2 DEF CamperCost
    <3>4. fd[i] \in Nat /\ ft[i] \in Nat /\ fc[i] \in Nat
      BY <1>8
    <3> HIDE DEF fd, ft, fc, fp, f2, f3, f4, coach, W, tier, c
    <3>5. f4[i] = fd[i] + (ft[i] + fc[i])
      BY <2>1, <3>2, <3>4
    <3> QED BY <3>2, <3>3, <3>5 DEF c
  <2>3. CASE ~IsFullWeek(c)
    <3>1. i \notin W /\ ~PayDeposit(c) /\ ~CoachEligible(c)
      BY <2>3 DEF Weekers, PayDeposit, CoachEligible
    <3>2. fd[i] = 0 /\ ft[i] = 0 /\ fc[i] = 0 /\ fp[i] = c.days * pass
      BY <2>3, <3>1
    <3>3. CamperCost(c, TRUE, deposit) = 0 + c.days * pass
      BY <2>3, <3>1 DEF CamperCost
    <3>4. fp[i] \in Nat
      BY <1>8
    <3> HIDE DEF fd, ft, fc, fp, f2, f3, f4, pass, W, tier, c
    <3>5. CamperCost(c, TRUE, deposit) = 0 + fp[i]
      BY <3>2, <3>3
    <3>6. f4[i] = ((0 + 0) + 0) + fp[i]
      BY <2>1, <3>2
    <3>7. \A n \in Nat : 0 + n = n /\ ((0 + 0) + 0) + n = n
      OBVIOUS
    <3>8. f4[i] = fp[i] /\ CamperCost(c, TRUE, deposit) = fp[i]
      BY <3>4, <3>5, <3>6, <3>7, Zenon
    <3> QED BY <3>8 DEF c
  <2> QED BY <2>2, <2>3
<1>11. SumFunctionOnSet(f4, D) =
         SumFunctionOnSet(fd, D) + SumFunctionOnSet(ft, D)
           + SumFunctionOnSet(fc, D) + SumFunctionOnSet(fp, D)
  <2> HIDE DEF fd, ft, fc, fp, f2, f3, f4, D
  <2>1. SumFunctionOnSet(f2, D) = SumFunctionOnSet(fd, D) + SumFunctionOnSet(ft, D)
    BY <1>1, <1>8, <1>9, SumOfSums
  <2>2. SumFunctionOnSet(f3, D) = SumFunctionOnSet(f2, D) + SumFunctionOnSet(fc, D)
    BY <1>1, <1>8, <1>9, SumOfSums
  <2>3. SumFunctionOnSet(f4, D) = SumFunctionOnSet(f3, D) + SumFunctionOnSet(fp, D)
    BY <1>1, <1>8, <1>9, SumOfSums
  <2> QED BY <2>1, <2>2, <2>3
<1>12. FormCost(campers, TRUE, deposit) = SumFunctionOnSet(f4, D)
  <2> HIDE DEF f4
  <2> QED BY <1>1, <1>10, FormCostIsSum
<1>13. SumFunctionOnSet(f4, D) \in Nat
  <2> HIDE DEF f4, D
  <2> QED BY <1>1, <1>9, SumIsNat
<1>14. /\ SumFunctionOnSet(fd, D) \in Nat /\ SumFunctionOnSet(ft, D) \in Nat
       /\ SumFunctionOnSet(fc, D) \in Nat /\ SumFunctionOnSet(fp, D) \in Nat
  <2> HIDE DEF fd, ft, fc, fp, D
  <2> QED BY <1>1, <1>8, SumIsNat
<1>15. LineSum(all) = SumFunctionOnSet(ft, D) + SumFunctionOnSet(fd, D)
                       + SumFunctionOnSet(fp, D) + SumFunctionOnSet(fc, D)
  <2>1. /\ ld.unit * ld.qty = SumFunctionOnSet(fd, D)
        /\ lp.unit * lp.qty = SumFunctionOnSet(fp, D)
        /\ lc.unit * lc.qty = SumFunctionOnSet(fc, D)
    <3> HIDE DEF ld, lp, lc, fd, fp, fc, coach, pass, D
    <3> QED BY <1>3, <1>5
  <2> HIDE DEF ld, lp, lc, fd, ft, fp, fc, all, T, D
  <2> QED BY <1>4, <1>6, <2>1
<1>16. LineSum(all) = SumFunctionOnSet(f4, D)
  <2> HIDE DEF ld, lp, lc, fd, ft, fp, fc, f2, f3, f4, all, T, D
  <2> QED BY <1>11, <1>14, <1>15
<1> HIDE DEF ld, lp, lc, fd, ft, fp, fc, f2, f3, f4, all, T, D
<1> QED BY <1>7, <1>12, <1>13, <1>16, Zenon

(* A form is charged what its campers cost one by one, whatever their      *)
(* number and kinds, the prices and the deposit: no grouping, counting or  *)
(* line left out changes the total (ComputeCharge, DepositPayingCount,     *)
(* CoachEligibleCount).                                                    *)
THEOREM ChargeAddsUp ==
    ASSUME NEW campers, ValidForm(campers), NEW full \in BOOLEAN, NEW deposit \in Nat
    PROVE  /\ TotalPence(ComputeCharge(campers, full, deposit))
                 = FormCost(campers, full, deposit)
           /\ FormCost(campers, full, deposit) \in Nat
<1>1. CASE full = TRUE
  BY <1>1, FullAddsUp
<1>2. CASE full = FALSE
  BY <1>2, DepositsAddUp
<1> QED BY <1>1, <1>2
=============================================================================
