--------------------------- MODULE SheetSyncProofs ---------------------------
(***************************************************************************)
(* For any number of groups, campers and calls in flight, whatever fails   *)
(* and however often the process restarts: the types, the header on top,   *)
(* writes by row numbers that touch their own group's rows only, a resync  *)
(* that leaves exactly the database's rows, and no listed group lost but   *)
(* by an overlap.  Rows are addressed by number, so the lemmas begin with  *)
(* increasing enumerations of sets of numbers and what a deletion from the *)
(* bottom up leaves.                                                       *)
(***************************************************************************)
EXTENDS SheetSync, FiniteSetTheorems, TLAPS

Live(p) == calls[p].pc # "idle"
HeadTab(p) == Head(calls[p].todo).tab
Has(g, t) == RowNumbers(g, tabs[t]) # {}

(* The plans, and what is left of them.                                    *)
DeleteLast == <<DeleteIn("pending")>>
Move == AppendPaidAndRemovePending
ThenMove == DeleteLast \o Move
RemoveThenMove == RemoveByGroupID \o Move
ThenAppend == DeleteLast \o AppendPending
RemoveThenAppend == RemoveByGroupID \o AppendPending
ContactPending == Tail(UpdateContactByGroupID)

Left(op) ==
    CASE op = "append"  -> {AppendPending}
      [] op = "move"    -> {Move, DeleteLast}
      [] op = "remove"  -> {RemoveByGroupID, DeleteLast}
      [] op = "contact" -> {UpdateContactByGroupID, ContactPending}
      [] op = "edit"    -> {RemoveThenMove, ThenMove, Move, DeleteLast}
      [] op = "resync"  -> {RemoveThenMove, ThenMove, Move, DeleteLast,
                            RemoveThenAppend, ThenAppend, AppendPending}

(* A call in flight does what is left of its plan, with rows of its group, *)
(* and only one writes the header of a tab.                                *)
Planned(p) ==
    LET call == calls[p] IN
    /\ call.pc # "stamp" => call.todo \in Left(call.op)
    /\ call.pc = "stamp" => call.todo = <<>> /\ call.op = "resync"
    /\ call.pc = "load" => \/ call.op = "move" /\ call.todo = Move
                           \/ call.op = "edit" /\ call.todo = RemoveThenMove
    /\ call.pc = "header" =>
         /\ Head(call.todo).do = "append" /\ once[HeadTab(p)] = "running"
         /\ \A q \in Call : calls[q].pc = "header" /\ HeadTab(q) = HeadTab(p) => q = p
    /\ call.pc = "write" => Head(call.todo).do \in {"delete", "contact"}
    /\ \A i \in DOMAIN call.rows : call.rows[i].g = call.g
    /\ IsFiniteSet(call.hits)
PlanInv == \A p \in Call : Live(p) => Planned(p)

(* Row numbers that no deletion has outdated are those of the group's rows, *)
(* one of which the header may have replaced.                              *)
Counted(p) ==
    \A i \in calls[p].hits :
        /\ i \in DOMAIN tabs[HeadTab(p)]
        /\ tabs[HeadTab(p)][i].g \in {calls[p].g, Header}
HitsInv == \A p \in Call : calls[p].pc = "write" /\ ~calls[p].stale => Counted(p)

(* Unless Google failed, a header that was due is there and stays.         *)
Headed(t) ==
    /\ tabs[t] # <<>> => tabs[t][1] = HeaderRow
    /\ once[t] = "done" => tabs[t] # <<>>
    /\ \A p \in Call : calls[p].pc = "write" /\ HeadTab(p) = t =>
         tabs[t] # <<>> /\ 1 \notin calls[p].hits
HeaderInv == \A t \in Tab \ headless : Headed(t)
BodyInv == \A t \in Tab : \A i \in DOMAIN tabs[t] : i > 1 => tabs[t][i].g # Header

Registers(g) == db[g].st \notin {"none", "deleted"}
DbInv == \A g \in Group : Registers(g) => db[g].roster # {}

(* A call that is alone has the group to itself, the group exists, and the *)
(* row numbers it counted are all of them.                                 *)
Alone(p) ==
    /\ \A q \in Call \ {p} : Live(q) => calls[q].g # calls[p].g
    /\ calls[p].op # "remove" => Registers(calls[p].g)
    /\ calls[p].pc = "write" /\ ~calls[p].stale =>
         RowNumbers(calls[p].g, tabs[HeadTab(p)]) \subseteq calls[p].hits
AloneInv == \A p \in Call : Live(p) /\ calls[p].alone => Alone(p)

(* How far a resync that is alone has got.                                 *)
Written(p, t) == once[t] = "done" /\ RowsOf(calls[p].g, t) = calls[p].rows
Resynced(p) ==
    LET g == calls[p].g
        todo == calls[p].todo
    IN
    /\ todo \in {ThenMove, ThenAppend} => ~Has(g, "paid")
    /\ todo \in {Move, AppendPending} => ~Has(g, "paid") /\ ~Has(g, "pending")
    /\ todo = DeleteLast => Written(p, "paid") /\ ~Has(g, "pending")
    /\ calls[p].pc = "stamp" =>
         \E t \in Tab : Written(p, t) /\ \A u \in Tab \ {t} : ~Has(g, u)
ResyncInv ==
    \A p \in Call : Live(p) /\ calls[p].op = "resync" /\ calls[p].alone => Resynced(p)

(* A listed group has rows no header will replace, and at most one call,   *)
(* which deletes rows only when others are in place.                       *)
Disturbed(t) == once[t] = "running" /\ tabs[t] # <<>> /\ tabs[t][1].g # NoGroup
Safe(g, t) == Has(g, t) /\ ~Disturbed(t)
Sparing(p) ==
    /\ calls[p].op # "remove"
    /\ calls[p].op \in {"edit", "resync"} => calls[p].todo \in {<<>>, DeleteLast}
    /\ calls[p].op = "move" /\ calls[p].pc # "load" => calls[p].rows # <<>>
    /\ calls[p].todo = DeleteLast => Safe(calls[p].g, "paid")
Kept(g) ==
    /\ Registers(g)
    /\ \E t \in Tab : Safe(g, t)
    /\ \A p \in Call : Live(p) /\ calls[p].g = g =>
         Sparing(p) /\ \A q \in Call : Live(q) /\ calls[q].g = g => q = p
ListedInv == \A g \in listed : Kept(g)

IInv == /\ TypeOK /\ PlanInv /\ HitsInv
        /\ HeaderInv /\ BodyInv
        /\ DbInv /\ AloneInv /\ ResyncInv /\ ListedInv

----------------------------------------------------------------------------
(* Induction, and the least and the greatest of some numbers.              *)

(* What holds of a set whenever it holds of its proper subsets, holds of   *)
(* every subset of a finite set.                                           *)
LEMMA SubsetInduction ==
    ASSUME NEW S, IsFiniteSet(S), NEW A \in SUBSET SUBSET S,
           \A T \in SUBSET S : (\A U \in SUBSET T : U # T => U \in A) => T \in A
    PROVE  A = SUBSET S
<1> SUFFICES ASSUME A # SUBSET S PROVE FALSE
  OBVIOUS
<1> DEFINE B == (SUBSET S) \ A
<1>1. IsWellFoundedOn(StrictSubsetOrdering(S), SUBSET S)
  <2>1. IsWellFoundedOn(StrictSubsetOrdering(S), FiniteSubsetsOf(S))
    BY FS_StrictSubsetOrderingWellFounded, Zenon
  <2>2. FiniteSubsetsOf(S) = SUBSET S
    BY FS_FiniteSubsetsOfFinite, Zenon
  <2> QED BY <2>1, <2>2, Zenon
<1>2. B \subseteq SUBSET S /\ B # {}
  OBVIOUS
<1>3. PICK T \in B : \A U \in B : ~(<<U, T>> \in StrictSubsetOrdering(S))
  <2> HIDE DEF B
  <2> QED BY <1>1, <1>2, WFMin
<1>4. \A U \in SUBSET T : U # T => U \in A
  BY <1>3 DEF StrictSubsetOrdering
<1> QED BY <1>3, <1>4

(* What holds of the empty set and of a set with one element more whenever *)
(* it holds of the set, holds of every finite set.                         *)
LEMMA FiniteSetInduction ==
    ASSUME NEW S, IsFiniteSet(S), NEW A \in SUBSET SUBSET S, {} \in A,
           \A T \in A : \A x \in S \ T : T \cup {x} \in A
    PROVE  S \in A
<1>1. ASSUME NEW T \in SUBSET S, \A U \in SUBSET T : U # T => U \in A
      PROVE  T \in A
  <2>1. CASE T = {}
    BY <2>1
  <2>2. CASE T # {}
    <3>1. PICK x \in T : TRUE
      BY <2>2
    <3>2. T \ {x} \in A /\ (T \ {x}) \cup {x} = T
      BY <1>1, <3>1
    <3> QED BY <3>1, <3>2
  <2> QED BY <2>1, <2>2
<1>2. A = SUBSET S
  BY <1>1, SubsetInduction, Zenon
<1> QED BY <1>2

LEMMA LeastIn ==
    ASSUME NEW S, S \subseteq Nat, S # {}
    PROVE  Min(S) \in S /\ \A x \in S : Min(S) <= x
<1>1. PICK m \in S : \A x \in S : ~(<<x, m>> \in OpToRel(<, Nat))
  BY NatLessThanWellFounded, WFMin
<1>2. \A x \in S : ~(x < m)
  BY <1>1 DEF OpToRel
<1>3. \A x \in S : x \in Nat /\ m \in Nat
  OBVIOUS
<1>4. \A x \in S : m <= x
  BY <1>2, <1>3
<1>5. \E y \in S : \A x \in S : y <= x
  BY <1>4
<1> QED BY <1>5 DEF Min

LEMMA GreatestIn ==
    ASSUME NEW S, S \subseteq Nat, IsFiniteSet(S), S # {}
    PROVE  Max(S) \in S /\ \A x \in S : Max(S) >= x
<1> DEFINE A == {T \in SUBSET S : T # {} => \E m \in T : \A x \in T : m >= x}
<1>1. {} \in A
  OBVIOUS
<1>2. ASSUME NEW T \in A, NEW y \in S \ T PROVE T \cup {y} \in A
  <2>1. CASE T = {}
    BY <2>1
  <2>2. CASE T # {}
    <3>1. PICK m \in T : \A x \in T : m >= x
      BY <2>2
    <3>2. CASE m >= y
      BY <3>1, <3>2
    <3>3. CASE m < y
      BY <3>1, <3>3
    <3> QED BY <3>2, <3>3
  <2> QED BY <2>1, <2>2
<1>3. A \in SUBSET SUBSET S
  OBVIOUS
<1>4. S \in A
  <2> HIDE DEF A
  <2> QED BY <1>1, <1>2, <1>3, FiniteSetInduction, Zenon
<1>5. \E m \in S : \A x \in S : m >= x
  BY <1>4
<1> QED BY <1>5 DEF Max

----------------------------------------------------------------------------
(* InOrder: the recursion is well defined, and enumerates its numbers from *)
(* the smallest to the greatest.                                           *)

Ordering(h, s) == IF s = {} THEN <<>> ELSE <<Min(s)>> \o h[s \ {Min(s)}]
Orders(h, S) == h = [s \in SUBSET S |-> Ordering(h, s)]

LEMMA InOrderIsRecursive ==
    ASSUME NEW S PROVE InOrder(S) = (CHOOSE h : Orders(h, S))[S]
BY DEF InOrder, MapThenFoldSet, Orders, Ordering

LEMMA OrdersValue ==
    ASSUME NEW S, NEW h, Orders(h, S), NEW s \in SUBSET S
    PROVE  h[s] = Ordering(h, s)
BY DEF Orders

LEMMA OrdersAgree ==
    ASSUME NEW S, S \subseteq Nat, IsFiniteSet(S), NEW h, Orders(h, S),
           NEW T, NEW k, Orders(k, T), S \subseteq T
    PROVE  h[S] = k[S]
<1> DEFINE A == {U \in SUBSET S : h[U] = k[U]}
<1>1. ASSUME NEW U \in SUBSET S, \A V \in SUBSET U : V # U => V \in A
      PROVE  U \in A
  <2>1. h[U] = Ordering(h, U) /\ k[U] = Ordering(k, U)
    BY OrdersValue, U \in SUBSET T
  <2>2. CASE U = {}
    BY <2>1, <2>2 DEF Ordering
  <2>3. CASE U # {}
    <3>1. Min(U) \in U
      BY <2>3, LeastIn
    <3>2. U \ {Min(U)} \in A
      BY <1>1, <3>1
    <3> QED BY <2>1, <3>2, <2>3 DEF Ordering
  <2> QED BY <2>2, <2>3
<1>2. A \in SUBSET SUBSET S
  OBVIOUS
<1>3. A = SUBSET S
  <2> HIDE DEF A
  <2> QED BY <1>1, <1>2, SubsetInduction
<1> QED BY <1>3

OrderOf(s) == IF s = {} THEN <<>> ELSE <<Min(s)>> \o InOrder(s \ {Min(s)})

LEMMA OrdersExist ==
    ASSUME NEW S, S \subseteq Nat, IsFiniteSet(S)
    PROVE  /\ \E h : Orders(h, S)
           /\ InOrder(S) = OrderOf(S)
<1> DEFINE Good(U) == (\E h : Orders(h, U)) /\ InOrder(U) = OrderOf(U)
           A == {U \in SUBSET S : Good(U)}
<1>1. ASSUME NEW T \in SUBSET S, \A U \in SUBSET T : U # T => U \in A
      PROVE  T \in A
  <2> DEFINE g == [s \in SUBSET T |-> OrderOf(s)]
  <2>1. ASSUME NEW s \in SUBSET T
        PROVE  g[s] = Ordering(g, s)
    <3>1. CASE s = {}
      BY <3>1 DEF OrderOf, Ordering
    <3>2. CASE s # {}
      <4>1. Min(s) \in s
        BY <3>2, LeastIn
      <4>2. s \ {Min(s)} \in A
        BY <1>1, <4>1
      <4> QED BY <4>2, <3>2 DEF OrderOf, Ordering
    <3> QED BY <3>1, <3>2
  <2>2. Orders(g, T)
    BY <2>1 DEF Orders
  <2>3. \E h : Orders(h, T)
    BY <2>2
  <2> DEFINE k == CHOOSE h : Orders(h, T)
  <2>4. Orders(k, T)
    BY <2>3
  <2>5. IsFiniteSet(T)
    BY FS_Subset
  <2>6. k[T] = g[T]
    BY <2>2, <2>4, <2>5, OrdersAgree
  <2>7. InOrder(T) = OrderOf(T)
    BY <2>6, InOrderIsRecursive
  <2> QED BY <2>3, <2>7
<1>2. A \in SUBSET SUBSET S
  OBVIOUS
<1>3. A = SUBSET S
  <2> HIDE DEF A
  <2> QED BY <1>1, <1>2, SubsetInduction, Zenon
<1> QED BY <1>3

(* A strictly increasing enumeration of a set of numbers.                  *)
Increasing(f, S) ==
    /\ f \in Seq(S)
    /\ \A x \in S : \E i \in 1..Len(f) : f[i] = x
    /\ \A i, j \in 1..Len(f) : i < j => f[i] < f[j]

LEMMA InOrderIncreases ==
    ASSUME NEW S, S \subseteq Nat, IsFiniteSet(S)
    PROVE  Increasing(InOrder(S), S)
<1> DEFINE A == {T \in SUBSET S : Increasing(InOrder(T), T)}
<1>1. ASSUME NEW T \in SUBSET S, \A U \in SUBSET T : U # T => U \in A
      PROVE  T \in A
  <2>1. IsFiniteSet(T)
    BY FS_Subset
  <2>2. InOrder(T) = OrderOf(T)
    BY <2>1, OrdersExist
  <2>3. CASE T = {}
    <3>1. InOrder(T) = <<>>
      BY <2>2, <2>3 DEF OrderOf
    <3>2. Increasing(<<>>, T)
      BY <2>3 DEF Increasing
    <3> QED BY <3>1, <3>2
  <2>4. CASE T # {}
    <3> DEFINE m == Min(T)
               r == InOrder(T \ {m})
               f == InOrder(T)
    <3>1. m \in T /\ m \in Nat /\ \A x \in T : m <= x
      BY <2>4, LeastIn
    <3>2. Increasing(r, T \ {m})
      BY <1>1, <3>1
    <3>3. f = <<m>> \o r
      BY <2>2, <2>4 DEF OrderOf
    <3>0. \A x \in T : x \in Nat
      OBVIOUS
    <3> HIDE DEF m, r, f
    <3>4. r \in Seq(T) /\ f \in Seq(T) /\ Len(f) = 1 + Len(r) /\ Len(r) \in Nat
      BY <3>1, <3>2, <3>3 DEF Increasing
    <3>5. f[1] = m /\ \A i \in 1..Len(r) : f[i + 1] = r[i]
      BY <3>3, <3>4
    <3>6. \A i \in 2..Len(f) : i - 1 \in 1..Len(r) /\ f[i] = r[i - 1]
      <4> TAKE i \in 2..Len(f)
      <4>1. i - 1 \in 1..Len(r) /\ (i - 1) + 1 = i
        BY <3>4
      <4> QED BY <4>1, <3>5
    <3>7. \A x \in T : \E i \in 1..Len(f) : f[i] = x
      <4> TAKE x \in T
      <4>1. CASE x = m
        BY <4>1, <3>5, <3>4
      <4>2. CASE x # m
        <5>1. PICK i \in 1..Len(r) : r[i] = x
          BY <4>2, <3>2 DEF Increasing
        <5>2. i + 1 \in 1..Len(f) /\ f[i + 1] = x
          BY <5>1, <3>4, <3>5
        <5> QED BY <5>2
      <4> QED BY <4>1, <4>2
    <3>8. ASSUME NEW i \in 1..Len(f), NEW j \in 1..Len(f), i < j
          PROVE  f[i] < f[j]
      <4>1. j \in 2..Len(f) /\ j - 1 \in 1..Len(r) /\ f[j] = r[j - 1]
        BY <3>8, <3>6, <3>4
      <4>2. r[j - 1] \in T \ {m}
        BY <4>1, <3>2 DEF Increasing
      <4>3. CASE i = 1
        <5>1. f[i] = m /\ f[j] \in T /\ f[j] # m /\ m <= f[j]
          BY <4>1, <4>2, <4>3, <3>1, <3>5
        <5>2. f[j] \in Nat
          BY <5>1, <3>0
        <5> QED BY <5>1, <5>2, <3>1
      <4>4. CASE i # 1
        <5>1. i - 1 \in 1..Len(r) /\ f[i] = r[i - 1] /\ i - 1 < j - 1
          BY <4>4, <3>8, <3>6, <3>4
        <5> QED BY <5>1, <4>1, <3>2 DEF Increasing
      <4> QED BY <4>3, <4>4
    <3>9. Increasing(f, T)
      BY <3>4, <3>7, <3>8 DEF Increasing
    <3> QED BY <3>9 DEF f
  <2> QED BY <2>3, <2>4
<1>2. A \in SUBSET SUBSET S
  OBVIOUS
<1>3. A = SUBSET S
  <2> HIDE DEF A
  <2> QED BY <1>1, <1>2, SubsetInduction, Zenon
<1> QED BY <1>3

(* There is only one.                                                      *)
LEMMA IncreasingOnce ==
    ASSUME NEW S, S \subseteq Nat, NEW f, NEW g, Increasing(f, S), Increasing(g, S)
    PROVE  f = g
<1>0. \A a, i : a \in Seq(S) /\ i \in 1..Len(a) => a[i] \in S /\ a[i] \in Nat
  <2> TAKE a, i
  <2> HAVE a \in Seq(S) /\ i \in 1..Len(a)
  <2>1. a[i] \in S
    OBVIOUS
  <2> QED BY <2>1
<1>1. ASSUME NEW a, NEW b, Increasing(a, S), Increasing(b, S),
             NEW i \in 1..Len(a), i \in 1..Len(b), a[i] < b[i],
             \A j \in 1..Len(a) : j < i => a[j] = b[j]
      PROVE  FALSE
  <2>1. a[i] \in S /\ b[i] \in S /\ a[i] \in Nat /\ b[i] \in Nat
    BY <1>0, <1>1 DEF Increasing
  <2>2. PICK j \in 1..Len(b) : b[j] = a[i]
    BY <1>1, <2>1 DEF Increasing
  <2>3. CASE j < i
    <3>1. Len(a) \in Nat /\ Len(b) \in Nat
      BY <1>1 DEF Increasing
    <3>2. j \in 1..Len(a)
      BY <2>3, <3>1
    <3>3. a[j] < a[i] /\ a[j] = b[j]
      BY <3>2, <2>3, <1>1 DEF Increasing
    <3> QED BY <3>3, <2>2, <2>1
  <2>4. CASE j = i
    BY <2>4, <2>2, <2>1, <1>1
  <2>5. CASE j > i
    <3>1. b[i] < b[j]
      BY <2>5, <1>1 DEF Increasing
    <3> QED BY <3>1, <2>2, <2>1, <1>1
  <2> QED BY <2>3, <2>4, <2>5
<1> DEFINE D == {i \in 1..Len(f) : i \in 1..Len(g) /\ f[i] # g[i]}
<1>2. Len(f) \in Nat /\ Len(g) \in Nat /\ f \in Seq(S) /\ g \in Seq(S)
  BY DEF Increasing
<1>3. D = {}
  <2> SUFFICES ASSUME D # {} PROVE FALSE
    OBVIOUS
  <2> DEFINE i == Min(D)
  <2>1. D \in SUBSET Nat
    BY <1>2
  <2>2. i \in D /\ \A j \in D : i <= j
    <3> HIDE DEF D
    <3> QED BY <2>1, LeastIn
  <2> HIDE DEF i
  <2>3. \A j \in 1..Len(f) : j < i => f[j] = g[j]
    BY <2>2, <1>2
  <2>4. \A j \in 1..Len(g) : j < i => g[j] = f[j]
    BY <2>2, <1>2
  <2>5. f[i] \in Nat /\ g[i] \in Nat
    BY <2>2, <1>2, <1>0
  <2>6. f[i] < g[i] \/ g[i] < f[i]
    BY <2>2, <2>5
  <2> QED BY <2>6, <2>2, <2>3, <2>4, <1>1
<1>4. ASSUME NEW a, NEW b, Increasing(a, S), Increasing(b, S), Len(a) < Len(b),
             \A i \in 1..Len(a) : a[i] = b[i]
      PROVE  FALSE
  <2> DEFINE n == Len(a) + 1
  <2>1. Len(a) \in Nat /\ Len(b) \in Nat /\ n \in 1..Len(b)
    BY <1>4 DEF Increasing
  <2>0. b[n] \in S /\ b[n] \in Nat
    BY <1>0, <1>4, <2>1 DEF Increasing
  <2>2. PICK j \in 1..Len(a) : a[j] = b[n]
    BY <1>4, <2>0 DEF Increasing
  <2>3. j \in 1..Len(b) /\ j < n /\ b[j] < b[n]
    BY <1>4, <2>1, <2>2 DEF Increasing
  <2> QED BY <2>0, <2>2, <2>3, <1>4
<1>5. Len(f) = Len(g)
  <2>1. \A i \in 1..Len(f) : i \in 1..Len(g) => f[i] = g[i]
    BY <1>3
  <2>2. CASE Len(f) < Len(g)
    BY <2>1, <2>2, <1>2, <1>4
  <2>3. CASE Len(g) < Len(f)
    BY <2>1, <2>3, <1>2, <1>4
  <2> QED BY <2>2, <2>3, <1>2
<1> QED BY <1>2, <1>3, <1>5

----------------------------------------------------------------------------
(* The rows of a group, picked by their numbers.                           *)

LEMMA NumbersOfRows ==
    ASSUME NEW rows \in Seq(Row), NEW g
    PROVE  /\ RowNumbers(g, rows) \subseteq 1..Len(rows)
           /\ RowNumbers(g, rows) \subseteq Nat
           /\ IsFiniteSet(RowNumbers(g, rows))
<1>1. RowNumbers(g, rows) \subseteq 1..Len(rows) /\ Len(rows) \in Nat
  BY DEF RowNumbers
<1>2. IsFiniteSet(1..Len(rows))
  BY <1>1, FS_Interval
<1>3. IsFiniteSet(RowNumbers(g, rows))
  BY <1>1, <1>2, FS_Subset
<1> QED BY <1>1, <1>3

(* The rows at P of one tab are those at Q of another when f takes Q to P  *)
(* in order and the rows match.                                            *)
Numbers(P) == P \subseteq Nat /\ IsFiniteSet(P)
Matches(f, a, P, b, Q) ==
    /\ f \in [Q -> P]
    /\ \A i \in P : \E j \in Q : f[j] = i
    /\ \A j, k \in Q : j < k => f[j] < f[k]
    /\ \A j \in Q : b[j] = a[f[j]]

LEMMA PickedAlike ==
    ASSUME NEW a, NEW b, NEW P, Numbers(P), NEW Q, Numbers(Q),
           NEW f, Matches(f, a, P, b, Q)
    PROVE  Picked(b, Q) = Picked(a, P)
<1>20. P \subseteq Nat /\ IsFiniteSet(P) /\ Q \subseteq Nat /\ IsFiniteSet(Q)
  BY DEF Numbers
<1>0. /\ f \in [Q -> P]
      /\ \A i \in P : \E j \in Q : f[j] = i
      /\ \A j, k \in Q : j < k => f[j] < f[k]
      /\ \A j \in Q : b[j] = a[f[j]]
  BY DEF Matches
<1> DEFINE o == InOrder(Q)
           w == [k \in 1..Len(o) |-> f[o[k]]]
<1>1. Increasing(o, Q)
  BY <1>20, InOrderIncreases
<1> HIDE DEF o
<1>2. o \in Seq(Q) /\ DOMAIN o = 1..Len(o) /\ Len(o) \in Nat
  BY <1>1 DEF Increasing
<1>3. \A k \in 1..Len(o) : o[k] \in Q /\ w[k] = f[o[k]] /\ w[k] \in P
  <2> TAKE k \in 1..Len(o)
  <2>1. o[k] \in Q
    BY <1>2
  <2> QED BY <2>1, <1>0
<1>4. w \in Seq(P) /\ Len(w) = Len(o)
  BY <1>2, <1>3
<1>5. \A i \in P : \E k \in 1..Len(w) : w[k] = i
  <2> TAKE i \in P
  <2>1. PICK j \in Q : f[j] = i
    BY <1>0
  <2>2. PICK k \in 1..Len(o) : o[k] = j
    BY <1>1 DEF Increasing
  <2> QED BY <2>1, <2>2, <1>4
<1>6. \A j, k \in 1..Len(w) : j < k => w[j] < w[k]
  BY <1>0, <1>1, <1>3, <1>4 DEF Increasing
<1>7. Increasing(w, P)
  BY <1>4, <1>5, <1>6 DEF Increasing
<1>8. InOrder(P) = w
  BY <1>20, <1>7, InOrderIncreases, IncreasingOnce
<1>9. Picked(a, P) = [k \in 1..Len(o) |-> a[w[k]]]
  BY <1>8 DEF Picked
<1>10. Picked(b, Q) = [k \in 1..Len(o) |-> b[o[k]]]
  BY <1>2 DEF Picked, o
<1>11. \A k \in 1..Len(o) : b[o[k]] = a[w[k]]
  BY <1>0, <1>3
<1> QED BY <1>9, <1>10, <1>11

LEMMA AllPicked ==
    ASSUME NEW rows \in Seq(Row) PROVE Picked(rows, 1..Len(rows)) = rows
<1> DEFINE n == Len(rows)
           w == [k \in 1..n |-> k]
<1>1. n \in Nat /\ 1..n \subseteq Nat /\ IsFiniteSet(1..n)
  BY FS_Interval
<1>2. w \in Seq(1..n) /\ Len(w) = n
  BY <1>1
<1>3. Increasing(w, 1..n)
  BY <1>2 DEF Increasing
<1>4. InOrder(1..n) = w
  BY <1>1, <1>3, InOrderIncreases, IncreasingOnce
<1>5. Picked(rows, 1..n) = [k \in 1..n |-> rows[k]]
  BY <1>4 DEF Picked
<1> QED BY <1>5

LEMMA NonePicked ==
    ASSUME NEW rows, NEW P, P \subseteq Nat, IsFiniteSet(P)
    PROVE  Picked(rows, P) = <<>> <=> P = {}
<1> DEFINE o == InOrder(P)
<1>1. Increasing(o, P)
  BY InOrderIncreases
<1>2. Picked(rows, P) = [k \in DOMAIN o |-> rows[o[k]]]
  BY DEF Picked
<1> HIDE DEF o
<1>3. o \in Seq(P) /\ Len(o) \in Nat /\ DOMAIN o = 1..Len(o)
  BY <1>1 DEF Increasing
<1>4. CASE P = {}
  <2>1. \A k \in 1..Len(o) : o[k] \in P
    BY <1>3
  <2>2. DOMAIN o = {}
    BY <2>1, <1>3, <1>4
  <2> QED BY <1>2, <1>4, <2>2
<1>5. CASE P # {}
  <2>1. PICK x \in P : TRUE
    BY <1>5
  <2>2. DOMAIN o # {}
    BY <1>1, <1>3, <2>1 DEF Increasing
  <2>3. DOMAIN Picked(rows, P) # {}
    BY <1>2, <2>2
  <2> QED BY <1>5, <2>3
<1> QED BY <1>4, <1>5

LEMMA RowsForGroupFacts ==
    ASSUME NEW g \in Group, NEW roster \in SUBSET Camper, NEW contact \in Contact
    PROVE  LET rows == RowsForGroup(g, roster, contact)
           IN /\ rows \in Seq(Row)
              /\ \A i \in DOMAIN rows : rows[i].g = g
              /\ roster # {} => rows # <<>>
<1> DEFINE o == InOrder(roster)
           rows == RowsForGroup(g, roster, contact)
<1>1. roster \subseteq Nat /\ IsFiniteSet(roster)
  BY SheetAssumption, FS_Subset
<1>2. Increasing(o, roster)
  BY <1>1, InOrderIncreases
<1>3. rows = [i \in DOMAIN o |-> [g |-> g, camper |-> o[i], contact |-> contact]]
  BY DEF RowsForGroup
<1> HIDE DEF o, rows
<1>4. o \in Seq(roster) /\ Len(o) \in Nat /\ DOMAIN o = 1..Len(o)
  BY <1>2 DEF Increasing
<1>5. \A i \in DOMAIN o : o[i] \in Camper
  BY <1>4
<1>6. \A i \in DOMAIN o : rows[i] \in Row /\ rows[i].g = g
  BY <1>3, <1>5 DEF Row
<1>7. rows \in Seq(Row)
  BY <1>3, <1>4, <1>6
<1>8. roster # {} => rows # <<>>
  <2> SUFFICES ASSUME roster # {} PROVE rows # <<>>
    OBVIOUS
  <2>1. DOMAIN o # {}
    BY <1>2, <1>4 DEF Increasing
  <2>2. DOMAIN rows # {}
    BY <1>3, <2>1
  <2> QED BY <2>2
<1>9. DOMAIN rows = DOMAIN o
  BY <1>3
<1> QED BY <1>6, <1>7, <1>8, <1>9 DEF rows

----------------------------------------------------------------------------
(* DeleteRows: the recursion is well defined, and leaves the other rows,   *)
(* in their order.                                                         *)

Deleting(h, rows, s) == IF s = {} THEN rows ELSE RemoveRow(h[s \ {Min(s)}], Min(s))
Deletes(h, rows, S) == h = [s \in SUBSET S |-> Deleting(h, rows, s)]

LEMMA DeleteRowsIsRecursive ==
    ASSUME NEW rows, NEW S PROVE DeleteRows(rows, S) = (CHOOSE h : Deletes(h, rows, S))[S]
BY DEF DeleteRows, MapThenFoldSet, Deletes, Deleting

LEMMA DeletesValue ==
    ASSUME NEW rows, NEW S, NEW h, Deletes(h, rows, S), NEW s \in SUBSET S
    PROVE  h[s] = Deleting(h, rows, s)
BY DEF Deletes

LEMMA DeletesAgree ==
    ASSUME NEW rows, NEW S, S \subseteq Nat, IsFiniteSet(S), NEW h, Deletes(h, rows, S),
           NEW T, NEW k, Deletes(k, rows, T), S \subseteq T
    PROVE  h[S] = k[S]
<1> DEFINE A == {U \in SUBSET S : h[U] = k[U]}
<1>1. ASSUME NEW U \in SUBSET S, \A V \in SUBSET U : V # U => V \in A
      PROVE  U \in A
  <2>1. h[U] = Deleting(h, rows, U) /\ k[U] = Deleting(k, rows, U)
    BY DeletesValue, U \in SUBSET T
  <2>2. CASE U = {}
    BY <2>1, <2>2 DEF Deleting
  <2>3. CASE U # {}
    <3>1. Min(U) \in U
      BY <2>3, LeastIn
    <3>2. U \ {Min(U)} \in A
      BY <1>1, <3>1
    <3> QED BY <2>1, <3>2, <2>3 DEF Deleting
  <2> QED BY <2>2, <2>3
<1>2. A \in SUBSET SUBSET S
  OBVIOUS
<1>3. A = SUBSET S
  <2> HIDE DEF A
  <2> QED BY <1>1, <1>2, SubsetInduction
<1> QED BY <1>3

LeftBy(rows, s) == IF s = {} THEN rows ELSE RemoveRow(DeleteRows(rows, s \ {Min(s)}), Min(s))

LEMMA DeletesExist ==
    ASSUME NEW rows, NEW S, S \subseteq Nat, IsFiniteSet(S)
    PROVE  /\ \E h : Deletes(h, rows, S)
           /\ DeleteRows(rows, S) = LeftBy(rows, S)
<1> DEFINE Good(U) == (\E h : Deletes(h, rows, U)) /\ DeleteRows(rows, U) = LeftBy(rows, U)
           A == {U \in SUBSET S : Good(U)}
<1>1. ASSUME NEW T \in SUBSET S, \A U \in SUBSET T : U # T => U \in A
      PROVE  T \in A
  <2> DEFINE g == [s \in SUBSET T |-> LeftBy(rows, s)]
  <2>1. ASSUME NEW s \in SUBSET T
        PROVE  g[s] = Deleting(g, rows, s)
    <3>1. CASE s = {}
      BY <3>1 DEF LeftBy, Deleting
    <3>2. CASE s # {}
      <4>1. Min(s) \in s
        BY <3>2, LeastIn
      <4>2. s \ {Min(s)} \in A
        BY <1>1, <4>1
      <4> QED BY <4>2, <3>2 DEF LeftBy, Deleting
    <3> QED BY <3>1, <3>2
  <2>2. Deletes(g, rows, T)
    BY <2>1 DEF Deletes
  <2>3. \E h : Deletes(h, rows, T)
    BY <2>2
  <2> DEFINE k == CHOOSE h : Deletes(h, rows, T)
  <2>4. Deletes(k, rows, T)
    BY <2>3
  <2>5. IsFiniteSet(T) /\ T \subseteq Nat
    BY FS_Subset
  <2>6. k[T] = g[T]
    <3> HIDE DEF k, g
    <3> QED BY <2>2, <2>4, <2>5, DeletesAgree
  <2>7. DeleteRows(rows, T) = LeftBy(rows, T)
    BY <2>6, DeleteRowsIsRecursive
  <2> QED BY <2>3, <2>7
<1>2. A \in SUBSET SUBSET S
  OBVIOUS
<1>3. A = SUBSET S
  <2> HIDE DEF A
  <2> QED BY <1>1, <1>2, SubsetInduction, Zenon
<1> QED BY <1>3

(* Where each row that is left was before; f[j] is its old number.         *)
KeptBy(f, rows, S, left) ==
    /\ left \in Seq(Row)
    /\ f \in [1..Len(left) -> (1..Len(rows)) \ S]
    /\ \A i \in (1..Len(rows)) \ S : \E j \in 1..Len(left) : f[j] = i
    /\ \A j, k \in 1..Len(left) : j < k => f[j] < f[k]
    /\ \A j \in 1..Len(left) : left[j] = rows[f[j]] /\ j <= f[j]
    /\ \A i \in 1..Len(rows) : (\A s \in S : i < s) => i \in 1..Len(left) /\ f[i] = i

LEMMA RemoveAtFacts ==
    ASSUME NEW rows \in Seq(Row), NEW m \in 1..Len(rows)
    PROVE  LET left == RemoveAt(rows, m)
           IN /\ left \in Seq(Row) /\ Len(left) = Len(rows) - 1
              /\ \A j \in 1..Len(left) : left[j] = rows[IF j < m THEN j ELSE j + 1]
<1> DEFINE a == SubSeq(rows, 1, m - 1)
           b == SubSeq(rows, m + 1, Len(rows))
           left == RemoveAt(rows, m)
<1>1. Len(rows) \in Nat /\ m \in Nat /\ m >= 1 /\ m <= Len(rows)
  OBVIOUS
<1>2. a \in Seq(Row) /\ Len(a) = m - 1 /\ \A j \in 1..(m - 1) : a[j] = rows[j]
  BY <1>1
<1>3. b \in Seq(Row) /\ Len(b) = Len(rows) - m
  BY <1>1
<1>4. \A j \in 1..(Len(rows) - m) : b[j] = rows[m + j]
  BY <1>1
<1>5. left = a \o b
  BY DEF RemoveAt
<1> HIDE DEF a, b, left
<1>6. left \in Seq(Row) /\ Len(left) = Len(rows) - 1
  <2>0. a \in Seq(Row) /\ b \in Seq(Row)
    BY <1>2, <1>3
  <2>1. left \in Seq(Row) /\ Len(left) = Len(a) + Len(b)
    BY <2>0, <1>5
  <2> QED BY <2>1, <1>1, <1>2, <1>3
<1>7. ASSUME NEW j \in 1..Len(left)
      PROVE  left[j] = rows[IF j < m THEN j ELSE j + 1]
  <2>1. CASE j < m
    BY <2>1, <1>1, <1>2, <1>3, <1>5, <1>6
  <2>2. CASE ~(j < m)
    <3>1. j - (m - 1) \in 1..(Len(rows) - m) /\ m + (j - (m - 1)) = j + 1
      BY <2>2, <1>1, <1>6
    <3>2. left[j] = b[j - (m - 1)]
      BY <2>2, <1>1, <1>2, <1>3, <1>5, <1>6
    <3> QED BY <2>2, <3>1, <3>2, <1>4
  <2> QED BY <2>1, <2>2
<1> QED BY <1>6, <1>7 DEF left

(* One more row goes, above all that went before it.                       *)
LEMMA OneMoreDeleted ==
    ASSUME NEW rows \in Seq(Row), NEW S, S \subseteq Nat, NEW old, NEW f,
           KeptBy(f, rows, S, old), NEW m \in Nat, \A s \in S : m < s
    PROVE  \E g : KeptBy(g, rows, S \cup {m}, RemoveRow(old, m))
<1>1. old \in Seq(Row) /\ Len(old) \in Nat /\ DOMAIN old = 1..Len(old) /\ Len(rows) \in Nat
  BY DEF KeptBy
<1>2. \A j \in 1..Len(old) : f[j] \in (1..Len(rows)) \ S /\ f[j] \in Nat /\ j <= f[j]
  BY <1>1 DEF KeptBy
<1>3. CASE m \notin 1..Len(rows)
  <2>1. m \notin 1..Len(old)
    BY <1>1, <1>2, <1>3
  <2>2. RemoveRow(old, m) = old
    BY <2>1, <1>1 DEF RemoveRow
  <2>3. (1..Len(rows)) \ (S \cup {m}) = (1..Len(rows)) \ S
    BY <1>3
  <2>4. KeptBy(f, rows, S \cup {m}, old)
    BY <2>3 DEF KeptBy
  <2> QED BY <2>2, <2>4
<1>4. CASE m \in 1..Len(rows)
  <2>1. m \in 1..Len(old) /\ f[m] = m /\ m \notin S
    BY <1>4 DEF KeptBy
  <2> DEFINE left == RemoveAt(old, m)
             at(j) == IF j < m THEN j ELSE j + 1
             g == [j \in 1..Len(left) |-> f[at(j)]]
  <2>2. RemoveRow(old, m) = left
    BY <2>1, <1>1 DEF RemoveRow
  <2>3. left \in Seq(Row) /\ Len(left) = Len(old) - 1
    BY <2>1, <1>1, RemoveAtFacts
  <2>4. \A j \in 1..Len(left) : left[j] = old[at(j)]
    BY <2>1, <1>1, RemoveAtFacts
  <2> HIDE DEF left
  <2>5. \A j \in 1..Len(left) : at(j) \in 1..Len(old) /\ at(j) # m /\ at(j) >= j
    BY <2>1, <2>3, <1>1
  <2>6. \A j, k \in 1..Len(left) : j < k => at(j) < at(k)
    BY <2>1, <2>3, <1>1
  <2>7. ASSUME NEW i \in 1..Len(old), i # m
        PROVE  \E j \in 1..Len(left) : at(j) = i
    <3>1. CASE i < m
      <4>1. i \in 1..Len(left) /\ at(i) = i
        BY <3>1, <2>1, <2>3, <1>1
      <4> QED BY <4>1
    <3>2. CASE i > m
      <4>1. i - 1 \in 1..Len(left) /\ at(i - 1) = i
        BY <3>2, <2>1, <2>3, <1>1
      <4> QED BY <4>1
    <3> QED BY <3>1, <3>2, <2>7, <2>1, <1>1
  <2>8. \A i \in 1..m : i < m => i \in 1..Len(left) /\ at(i) = i
    BY <2>1, <2>3, <1>1
  <2>9. \A j \in 1..Len(left) : g[j] = f[at(j)]
    OBVIOUS
  <2>10. \A j \in 1..Len(old) : j # m => f[j] # m
    <3> TAKE j \in 1..Len(old)
    <3> HAVE j # m
    <3>1. f[j] \in Nat /\ (j < m => f[j] < f[m]) /\ (m < j => f[m] < f[j])
      BY <2>1, <1>2 DEF KeptBy
    <3> QED BY <3>1, <2>1, <1>1
  <2>11. g \in [1..Len(left) -> (1..Len(rows)) \ (S \cup {m})]
    <3> HIDE DEF at
    <3>1. \A j \in 1..Len(left) : f[at(j)] \in (1..Len(rows)) \ (S \cup {m})
      BY <2>5, <2>10, <1>2
    <3> QED BY <3>1
  <2> HIDE DEF at, g
  <2>12. ASSUME NEW i \in (1..Len(rows)) \ (S \cup {m})
         PROVE  \E j \in 1..Len(left) : g[j] = i
    <3>1. PICK k \in 1..Len(old) : f[k] = i
      BY DEF KeptBy
    <3>2. k # m
      BY <3>1, <2>1
    <3>3. PICK j \in 1..Len(left) : at(j) = k
      BY <3>2, <2>7
    <3> QED BY <3>1, <3>3, <2>9
  <2>13. \A j, k \in 1..Len(left) : j < k => g[j] < g[k]
    BY <2>5, <2>6, <2>9 DEF KeptBy
  <2>14. ASSUME NEW j \in 1..Len(left)
         PROVE  left[j] = rows[g[j]] /\ j <= g[j]
    <3>1. at(j) \in 1..Len(old) /\ at(j) \in Nat /\ j \in Nat /\ at(j) >= j
      BY <2>5, <1>1, <2>3
    <3>2. left[j] = rows[f[at(j)]]
      BY <3>1, <2>4 DEF KeptBy
    <3>3. at(j) <= f[at(j)] /\ f[at(j)] \in Nat
      BY <3>1, <1>2
    <3>4. j <= f[at(j)]
      BY <3>1, <3>3
    <3> QED BY <3>2, <3>4, <2>9
  <2>15. ASSUME NEW i \in 1..Len(rows), \A s \in S \cup {m} : i < s
         PROVE  i \in 1..Len(left) /\ g[i] = i
    <3>1. i < m /\ i \in 1..m
      BY <2>15, <1>4, <1>1
    <3>2. i \in 1..Len(left) /\ at(i) = i
      BY <3>1, <2>8
    <3>3. f[i] = i
      BY <2>15 DEF KeptBy
    <3> QED BY <3>2, <3>3, <2>9
  <2>16. KeptBy(g, rows, S \cup {m}, left)
    BY <2>3, <2>11, <2>12, <2>13, <2>14, <2>15 DEF KeptBy
  <2> QED BY <2>2, <2>16
<1> QED BY <1>3, <1>4

LEMMA DeletedRows ==
    ASSUME NEW rows \in Seq(Row), NEW S, S \subseteq Nat, IsFiniteSet(S)
    PROVE  \E f : KeptBy(f, rows, S, DeleteRows(rows, S))
<1> DEFINE A == {T \in SUBSET S : \E f : KeptBy(f, rows, T, DeleteRows(rows, T))}
<1>1. ASSUME NEW T \in SUBSET S, \A U \in SUBSET T : U # T => U \in A
      PROVE  T \in A
  <2>1. IsFiniteSet(T)
    BY FS_Subset
  <2>2. DeleteRows(rows, T) = LeftBy(rows, T)
    BY <2>1, DeletesExist
  <2>3. CASE T = {}
    <3>1. DeleteRows(rows, T) = rows
      BY <2>2, <2>3 DEF LeftBy
    <3>2. KeptBy([i \in 1..Len(rows) |-> i], rows, T, rows)
      BY <2>3 DEF KeptBy
    <3> QED BY <3>1, <3>2
  <2>4. CASE T # {}
    <3> DEFINE m == Min(T)
               U == T \ {m}
    <3>1. m \in T /\ m \in Nat /\ \A x \in T : m <= x
      BY <2>4, LeastIn
    <3>2. DeleteRows(rows, T) = RemoveRow(DeleteRows(rows, U), m)
      BY <2>2, <2>4 DEF LeftBy
    <3> HIDE DEF m
    <3>3. U \in A /\ U \cup {m} = T /\ U \subseteq Nat
      BY <1>1, <3>1
    <3>4. PICK f : KeptBy(f, rows, U, DeleteRows(rows, U))
      BY <3>3
    <3>5. \A s \in U : m < s
      <4> TAKE s \in U
      <4>1. s \in T /\ s # m /\ s \in Nat
        BY <3>3
      <4> QED BY <4>1, <3>1
    <3>6. \E g : KeptBy(g, rows, U \cup {m}, RemoveRow(DeleteRows(rows, U), m))
      <4> HIDE DEF U, A
      <4> QED BY <3>1, <3>3, <3>4, <3>5, OneMoreDeleted
    <3> QED BY <3>2, <3>3, <3>6
  <2> QED BY <2>3, <2>4
<1>2. A \in SUBSET SUBSET S
  OBVIOUS
<1>3. A = SUBSET S
  <2> HIDE DEF A
  <2> QED BY <1>1, <1>2, SubsetInduction, Zenon
<1> QED BY <1>3

----------------------------------------------------------------------------
(* What each write leaves of a tab.                                        *)

(* The rows of g are the same, wherever they are now.                      *)
SameRows(g, a, b) == Picked(b, RowNumbers(g, b)) = Picked(a, RowNumbers(g, a))

LEMMA SameRowsSame ==
    ASSUME NEW a \in Seq(Row), NEW b \in Seq(Row), NEW g, SameRows(g, a, b)
    PROVE  RowNumbers(g, a) = {} <=> RowNumbers(g, b) = {}
BY NumbersOfRows, NonePicked DEF SameRows

LEMMA RowsInPlace ==
    ASSUME NEW a \in Seq(Row), NEW b \in Seq(Row), NEW g,
           RowNumbers(g, a) = RowNumbers(g, b),
           \A i \in RowNumbers(g, a) : a[i] = b[i]
    PROVE  SameRows(g, a, b)
<1> DEFINE P == RowNumbers(g, a)
           f == [i \in P |-> i]
<1>1. P \subseteq Nat /\ IsFiniteSet(P) /\ P = RowNumbers(g, b)
  BY NumbersOfRows
<1>2. f \in [P -> P] /\ \A i \in P : f[i] = i
  OBVIOUS
<1>3. \A i \in P : a[i] = b[i]
  OBVIOUS
<1> HIDE DEF P, f
<1>4. Matches(f, a, P, b, P)
  BY <1>2, <1>3 DEF Matches
<1>5. Picked(b, P) = Picked(a, P)
  BY <1>1, <1>4, PickedAlike DEF Numbers
<1> QED BY <1>1, <1>5 DEF SameRows, P

(* AppendRows.                                                             *)
LEMMA AppendedRows ==
    ASSUME NEW tab \in Seq(Row), NEW rows \in Seq(Row), NEW g,
           \A i \in DOMAIN rows : rows[i].g = g
    PROVE  LET new == tab \o rows
           IN /\ new \in Seq(Row) /\ Len(new) = Len(tab) + Len(rows)
              /\ \A i \in 1..Len(tab) : new[i] = tab[i]
              /\ \A i \in 1..Len(new) : i > Len(tab) => new[i].g = g
              /\ \A h : h # g => RowNumbers(h, new) = RowNumbers(h, tab) /\ SameRows(h, tab, new)
              /\ RowNumbers(g, tab) = {} => Picked(new, RowNumbers(g, new)) = rows
              /\ RowNumbers(g, tab) # {} \/ rows # <<>> => RowNumbers(g, new) # {}
<1> DEFINE new == tab \o rows
<1>1. new \in Seq(Row) /\ Len(new) = Len(tab) + Len(rows) /\ Len(tab) \in Nat /\ Len(rows) \in Nat
  OBVIOUS
<1>2. \A i \in 1..Len(tab) : new[i] = tab[i]
  OBVIOUS
<1>3. \A i \in 1..Len(rows) : Len(tab) + i \in 1..Len(new) /\ new[Len(tab) + i] = rows[i]
  OBVIOUS
<1>4. DOMAIN new = 1..Len(new) /\ DOMAIN tab = 1..Len(tab) /\ DOMAIN rows = 1..Len(rows)
  OBVIOUS
<1> HIDE DEF new
<1>5. \A i \in 1..Len(new) : i > Len(tab) =>
        i - Len(tab) \in 1..Len(rows) /\ new[i] = rows[i - Len(tab)]
  <2> TAKE i \in 1..Len(new)
  <2> HAVE i > Len(tab)
  <2>1. i - Len(tab) \in 1..Len(rows) /\ Len(tab) + (i - Len(tab)) = i
    BY <1>1
  <2> QED BY <2>1, <1>3
<1>6. \A i \in 1..Len(new) : i > Len(tab) => new[i].g = g
  BY <1>4, <1>5
<1>7. ASSUME NEW h, h # g
      PROVE  RowNumbers(h, new) = RowNumbers(h, tab) /\ SameRows(h, tab, new)
  <2>1. RowNumbers(h, new) \subseteq RowNumbers(h, tab)
    <3> SUFFICES ASSUME NEW i \in RowNumbers(h, new) PROVE i \in RowNumbers(h, tab)
      OBVIOUS
    <3>1. i \in 1..Len(new) /\ new[i].g = h
      BY <1>4 DEF RowNumbers
    <3>2. i \in 1..Len(tab)
      BY <3>1, <1>6, <1>1, <1>7
    <3> QED BY <3>1, <3>2, <1>2, <1>4 DEF RowNumbers
  <2>2. RowNumbers(h, tab) \subseteq RowNumbers(h, new)
    BY <1>1, <1>2, <1>4 DEF RowNumbers
  <2>3. \A i \in RowNumbers(h, tab) : tab[i] = new[i]
    BY <1>2, <1>4 DEF RowNumbers
  <2>4. RowNumbers(h, tab) = RowNumbers(h, new)
    BY <2>1, <2>2
  <2> QED BY <2>3, <2>4, <1>1, RowsInPlace
<1>8. ASSUME RowNumbers(g, tab) = {}
      PROVE  Picked(new, RowNumbers(g, new)) = rows
  <2> DEFINE P == 1..Len(rows)
             Q == RowNumbers(g, new)
             f == [j \in Q |-> j - Len(tab)]
  <2>1. P \subseteq Nat /\ IsFiniteSet(P)
    BY <1>1, FS_Interval
  <2>2. Q \subseteq Nat /\ IsFiniteSet(Q) /\ Q \subseteq 1..Len(new)
    BY <1>1, NumbersOfRows
  <2>3. \A j \in Q : j > Len(tab) /\ j \in 1..Len(new)
    <3> TAKE j \in Q
    <3>1. j \in 1..Len(new) /\ new[j].g = g
      BY <1>4 DEF RowNumbers
    <3>2. j \notin 1..Len(tab)
      BY <3>1, <1>2, <1>4, <1>8 DEF RowNumbers
    <3> QED BY <3>1, <3>2, <1>1
  <2>4. \A j \in Q : f[j] \in P /\ f[j] = j - Len(tab) /\ new[j] = rows[f[j]]
    BY <2>3, <1>5
  <2>5. \A i \in P : \E j \in Q : f[j] = i
    <3> TAKE i \in P
    <3>1. Len(tab) + i \in 1..Len(new) /\ new[Len(tab) + i].g = g
      BY <1>3, <1>4
    <3>2. Len(tab) + i \in Q
      BY <3>1, <1>4 DEF RowNumbers
    <3>3. f[Len(tab) + i] = i
      BY <3>2, <1>1
    <3> QED BY <3>2, <3>3
  <2>6. \A j, k \in Q : j < k => f[j] < f[k]
    BY <2>2, <2>4, <1>1
  <2>7. f \in [Q -> P]
    BY <2>4
  <2> HIDE DEF P, Q, f
  <2>8. \A j \in Q : new[j] = rows[f[j]]
    BY <2>4
  <2>9. Matches(f, rows, P, new, Q)
    BY <2>5, <2>6, <2>7, <2>8 DEF Matches
  <2>10. Picked(new, Q) = Picked(rows, P)
    <3>1. Numbers(P) /\ Numbers(Q)
      BY <2>1, <2>2 DEF Numbers
    <3> QED BY <3>1, <2>9, PickedAlike
  <2> QED BY <2>10, AllPicked DEF P, Q
<1>9. RowNumbers(g, tab) # {} \/ rows # <<>> => RowNumbers(g, new) # {}
  <2>1. RowNumbers(g, tab) \subseteq RowNumbers(g, new)
    BY <1>1, <1>2, <1>4 DEF RowNumbers
  <2>2. ASSUME rows # <<>> PROVE RowNumbers(g, new) # {}
    <3>1. 1 \in 1..Len(rows)
      BY <2>2, <1>1
    <3>2. Len(tab) + 1 \in DOMAIN new /\ new[Len(tab) + 1].g = g
      BY <3>1, <1>3, <1>4
    <3> QED BY <3>2 DEF RowNumbers
  <2> QED BY <2>1, <2>2
<1> QED BY <1>1, <1>2, <1>6, <1>7, <1>8, <1>9 DEF new

(* WriteHeader.                                                            *)
LEMMA HeaderWritten ==
    ASSUME NEW tab \in Seq(Row)
    PROVE  LET new == <<HeaderRow>> \o (IF tab = <<>> THEN tab ELSE Tail(tab))
           IN /\ new \in Seq(Row) /\ Len(new) >= 1 /\ Len(new) >= Len(tab)
              /\ new # <<>> /\ new[1] = HeaderRow /\ new[1].g = Header
              /\ \A i \in 1..Len(new) : i > 1 => i \in 1..Len(tab) /\ new[i] = tab[i]
              /\ \A i \in 1..Len(tab) : i > 1 => new[i] = tab[i]
<1> DEFINE rest == IF tab = <<>> THEN tab ELSE Tail(tab)
           new == <<HeaderRow>> \o rest
<1>1. Blank \in Row /\ HeaderRow \in Row /\ HeaderRow.g = Header
  BY SheetAssumption DEF Blank, HeaderRow, Row, AnyContact
<1>2. rest \in Seq(Row) /\ Len(rest) \in Nat /\ Len(tab) \in Nat
      /\ Len(rest) = (IF tab = <<>> THEN 0 ELSE Len(tab) - 1)
  OBVIOUS
<1>3. \A i \in 1..Len(rest) : rest[i] = tab[i + 1] /\ i + 1 \in 1..Len(tab)
  BY <1>2
<1> HIDE DEF rest
<1>4. new \in Seq(Row) /\ Len(new) = 1 + Len(rest) /\ new[1] = HeaderRow
  BY <1>1, <1>2
<1>5. \A i \in 1..Len(rest) : new[i + 1] = rest[i]
  BY <1>1, <1>2
<1> HIDE DEF new
<1>6. \A i \in 1..Len(new) : i > 1 => i \in 1..Len(tab) /\ new[i] = tab[i]
  <2> TAKE i \in 1..Len(new)
  <2> HAVE i > 1
  <2>1. i - 1 \in 1..Len(rest) /\ (i - 1) + 1 = i
    BY <1>2, <1>4
  <2> QED BY <2>1, <1>3, <1>5
<1>7. Len(new) >= 1 /\ Len(new) >= Len(tab) /\ new # <<>>
  <2>1. Len(tab) = 0 <=> tab = <<>>
    OBVIOUS
  <2> QED BY <2>1, <1>2, <1>4
<1>8. \A i \in 1..Len(tab) : i > 1 => new[i] = tab[i]
  BY <1>2, <1>6, <1>7, <1>4
<1> QED BY <1>1, <1>4, <1>6, <1>7, <1>8 DEF new, rest

LEMMA OtherRowsThanHeader ==
    ASSUME NEW tab \in Seq(Row), NEW new \in Seq(Row), NEW g, g # Header,
           tab # <<>> => tab[1].g # g,
           Len(new) >= Len(tab), new[1].g = Header,
           \A i \in 1..Len(new) : i > 1 => i \in 1..Len(tab) /\ new[i] = tab[i]
    PROVE  RowNumbers(g, new) = RowNumbers(g, tab) /\ SameRows(g, tab, new)
<1>1. DOMAIN new = 1..Len(new) /\ DOMAIN tab = 1..Len(tab)
      /\ Len(new) \in Nat /\ Len(tab) \in Nat
  OBVIOUS
<1>2. ASSUME NEW i \in RowNumbers(g, new) PROVE i \in RowNumbers(g, tab)
  <2>1. i \in 1..Len(new) /\ new[i].g = g /\ i # 1
    BY <1>1 DEF RowNumbers
  <2>2. i > 1
    BY <2>1, <1>1
  <2> QED BY <2>1, <2>2, <1>1 DEF RowNumbers
<1>3. ASSUME NEW i \in RowNumbers(g, tab) PROVE i \in RowNumbers(g, new) /\ new[i] = tab[i]
  <2>1. i \in 1..Len(tab) /\ tab[i].g = g
    BY <1>1 DEF RowNumbers
  <2>2. i # 1 /\ i > 1 /\ i \in 1..Len(new)
    BY <2>1, <1>1
  <2> QED BY <2>1, <2>2, <1>1 DEF RowNumbers
<1>4. RowNumbers(g, new) = RowNumbers(g, tab)
  BY <1>2, <1>3
<1> QED BY <1>3, <1>4, RowsInPlace

(* DeleteByGroupID.                                                        *)
LEMMA OtherRowsThanDeleted ==
    ASSUME NEW tab \in Seq(Row), NEW S, S \subseteq Nat, IsFiniteSet(S), NEW g,
           \A i \in S : i \in 1..Len(tab) => tab[i].g # g
    PROVE  SameRows(g, tab, DeleteRows(tab, S))
<1> DEFINE new == DeleteRows(tab, S)
           P == RowNumbers(g, tab)
           Q == RowNumbers(g, new)
<1>1. PICK f : KeptBy(f, tab, S, new)
  BY DeletedRows
<1> HIDE DEF new
<1>2. new \in Seq(Row) /\ DOMAIN new = 1..Len(new) /\ DOMAIN tab = 1..Len(tab)
  BY <1>1 DEF KeptBy
<1>3. P \subseteq Nat /\ IsFiniteSet(P) /\ Q \subseteq Nat /\ IsFiniteSet(Q)
  BY <1>2, NumbersOfRows
<1> DEFINE w == [j \in Q |-> f[j]]
<1>4. \A j \in Q : j \in 1..Len(new) /\ w[j] = f[j] /\ new[j] = tab[w[j]] /\ w[j] \in P
  <2> TAKE j \in Q
  <2>1. j \in 1..Len(new) /\ new[j].g = g /\ w[j] = f[j]
    BY <1>2 DEF RowNumbers
  <2>2. new[j] = tab[f[j]] /\ f[j] \in 1..Len(tab)
    BY <2>1, <1>1 DEF KeptBy
  <2> QED BY <2>1, <2>2, <1>2 DEF RowNumbers
<1>5. \A i \in P : \E j \in Q : w[j] = i
  <2> TAKE i \in P
  <2>1. i \in 1..Len(tab) /\ tab[i].g = g
    BY <1>2 DEF RowNumbers
  <2>2. i \notin S
    BY <2>1
  <2>3. PICK j \in 1..Len(new) : f[j] = i
    BY <2>1, <2>2, <1>1 DEF KeptBy
  <2>4. new[j] = tab[i]
    BY <2>3, <1>1 DEF KeptBy
  <2>5. j \in Q
    BY <2>1, <2>4, <1>2 DEF RowNumbers
  <2> QED BY <2>3, <2>5
<1>6. \A j, k \in Q : j < k => w[j] < w[k]
  BY <1>1, <1>4 DEF KeptBy
<1>7. w \in [Q -> P]
  BY <1>4
<1> HIDE DEF P, Q, w
<1>8. \A j \in Q : new[j] = tab[w[j]]
  BY <1>4
<1>9. Matches(w, tab, P, new, Q)
  BY <1>5, <1>6, <1>7, <1>8 DEF Matches
<1>10. Picked(new, Q) = Picked(tab, P)
  <2>1. Numbers(P) /\ Numbers(Q)
    BY <1>3 DEF Numbers
  <2> QED BY <2>1, <1>9, PickedAlike
<1> QED BY <1>10 DEF SameRows, P, Q, new

LEMMA RowsAfterDelete ==
    ASSUME NEW tab \in Seq(Row), NEW S, S \subseteq Nat, IsFiniteSet(S)
    PROVE  LET new == DeleteRows(tab, S)
           IN /\ new \in Seq(Row)
              /\ \A j \in 1..Len(new) : \E i \in (1..Len(tab)) \ S :
                    new[j] = tab[i] /\ (j > 1 => i > 1)
              /\ tab # <<>> /\ 1 \notin S => new # <<>> /\ new[1] = tab[1]
              /\ \A g : RowNumbers(g, tab) \subseteq S => RowNumbers(g, new) = {}
<1> DEFINE new == DeleteRows(tab, S)
<1>1. PICK f : KeptBy(f, tab, S, new)
  BY DeletedRows
<1> HIDE DEF new
<1>2. new \in Seq(Row) /\ DOMAIN new = 1..Len(new) /\ DOMAIN tab = 1..Len(tab)
      /\ Len(new) \in Nat /\ Len(tab) \in Nat
  BY <1>1 DEF KeptBy
<1>3. \A j \in 1..Len(new) : f[j] \in (1..Len(tab)) \ S /\ new[j] = tab[f[j]] /\ j <= f[j]
  BY <1>1 DEF KeptBy
<1>4. \A j \in 1..Len(new) : j > 1 => f[j] > 1
  BY <1>2, <1>3
<1>5. ASSUME tab # <<>>, 1 \notin S PROVE new # <<>> /\ new[1] = tab[1]
  <2>1. 1 \in (1..Len(tab)) \ S
    BY <1>5, <1>2
  <2>2. PICK j \in 1..Len(new) : f[j] = 1
    BY <2>1, <1>1 DEF KeptBy
  <2>3. j = 1
    BY <2>2, <1>2, <1>3
  <2> QED BY <2>2, <2>3, <1>2, <1>3
<1>6. ASSUME NEW g, RowNumbers(g, tab) \subseteq S PROVE RowNumbers(g, new) = {}
  <2> SUFFICES ASSUME NEW j \in RowNumbers(g, new) PROVE FALSE
    OBVIOUS
  <2>1. j \in 1..Len(new) /\ new[j].g = g
    BY <1>2 DEF RowNumbers
  <2>2. f[j] \in DOMAIN tab /\ f[j] \notin S /\ tab[f[j]].g = g
    BY <2>1, <1>2, <1>3
  <2> QED BY <2>2, <1>6 DEF RowNumbers
<1> QED BY <1>2, <1>3, <1>4, <1>5, <1>6 DEF new

(* UpdateContactInTab.                                                     *)
SameButAt(S, tab, new) ==
    /\ new \in Seq(Row) /\ Len(new) >= Len(tab)
    /\ \A i \in 1..Len(tab) : new[i].g = tab[i].g /\ (i \notin S => new[i] = tab[i])
    /\ \A i \in 1..Len(new) : i > Len(tab) => new[i].g = NoGroup

LEMMA ContactsChanged ==
    ASSUME NEW tab \in Seq(Row), NEW S, S \subseteq Nat, IsFiniteSet(S), NEW c \in Contact
    PROVE  SameButAt(S, tab, SetContactOfRows(tab, S, c))
<1> DEFINE m == Max(S \cup {Len(tab)})
           more == [i \in 1..(m - Len(tab)) |-> Blank]
           padded == tab \o more
           new == SetContactOfRows(tab, S, c)
<1>1. Blank \in Row /\ Blank.g = NoGroup
  BY SheetAssumption DEF Blank, Row, AnyContact
<1>2. Len(tab) \in Nat /\ S \cup {Len(tab)} \subseteq Nat
      /\ IsFiniteSet(S \cup {Len(tab)}) /\ S \cup {Len(tab)} # {}
  <2>1. IsFiniteSet(S \cup {Len(tab)})
    BY FS_AddElement
  <2>2. Len(tab) \in Nat
    OBVIOUS
  <2> QED BY <2>1, <2>2
<1>3. m \in Nat /\ m >= Len(tab)
  BY <1>2, GreatestIn
<1>4. new = [i \in DOMAIN padded |->
               IF i \in S THEN [padded[i] EXCEPT !.contact = c] ELSE padded[i]]
  BY DEF SetContactOfRows
<1> HIDE DEF m, new
<1>5. more \in Seq(Row) /\ Len(more) = m - Len(tab)
  BY <1>1, <1>2, <1>3
<1>6. \A i \in 1..(m - Len(tab)) : more[i] = Blank
  OBVIOUS
<1> HIDE DEF more
<1>7. padded \in Seq(Row) /\ Len(padded) = Len(tab) + Len(more)
  BY <1>5
<1>8. \A i \in 1..Len(tab) : padded[i] = tab[i]
  BY <1>5
<1>9. \A i \in 1..Len(more) : padded[Len(tab) + i] = more[i]
  BY <1>5
<1> HIDE DEF padded
<1>10. DOMAIN padded = 1..Len(padded) /\ Len(padded) = m
  BY <1>7, <1>5, <1>3, <1>2
<1>11. \A i \in 1..m : padded[i] \in Row
  BY <1>7, <1>10
<1>12. \A i \in 1..m : new[i] \in Row /\ new[i].g = padded[i].g /\ (i \notin S => new[i] = padded[i])
  <2> TAKE i \in 1..m
  <2>1. [padded[i] EXCEPT !.contact = c] \in Row /\ [padded[i] EXCEPT !.contact = c].g = padded[i].g
    BY <1>11 DEF Row
  <2> QED BY <2>1, <1>4, <1>10, <1>11
<1>13. new \in Seq(Row) /\ Len(new) = m
  <2>1. DOMAIN new = 1..m /\ new = [i \in 1..m |-> new[i]]
    BY <1>4, <1>10
  <2> QED BY <2>1, <1>12, <1>3
<1>14. \A i \in 1..Len(tab) : i \in 1..m
  BY <1>2, <1>3
<1>15. ASSUME NEW i \in 1..m, i > Len(tab) PROVE new[i].g = NoGroup
  <2>1. i - Len(tab) \in 1..(m - Len(tab)) /\ Len(tab) + (i - Len(tab)) = i
    BY <1>15, <1>2, <1>3
  <2>2. padded[i] = Blank
    BY <2>1, <1>5, <1>6, <1>9
  <2> QED BY <2>2, <1>1, <1>12
<1>16. SameButAt(S, tab, new)
  BY <1>3, <1>8, <1>12, <1>13, <1>14, <1>15 DEF SameButAt
<1> QED BY <1>16 DEF new

LEMMA OtherRowsThanChanged ==
    ASSUME NEW tab \in Seq(Row), NEW new \in Seq(Row), NEW g, g # NoGroup,
           Len(new) >= Len(tab),
           \A i \in 1..Len(tab) : new[i].g = tab[i].g /\ (tab[i].g = g => new[i] = tab[i]),
           \A i \in 1..Len(new) : i > Len(tab) => new[i].g = NoGroup
    PROVE  SameRows(g, tab, new)
<1>1. DOMAIN new = 1..Len(new) /\ DOMAIN tab = 1..Len(tab)
      /\ Len(new) \in Nat /\ Len(tab) \in Nat
  OBVIOUS
<1>2. ASSUME NEW i \in RowNumbers(g, new) PROVE i \in RowNumbers(g, tab)
  <2>1. i \in 1..Len(new) /\ new[i].g = g
    BY <1>1 DEF RowNumbers
  <2>2. i \in 1..Len(tab)
    BY <2>1, <1>1
  <2> QED BY <2>1, <2>2, <1>1 DEF RowNumbers
<1>3. ASSUME NEW i \in RowNumbers(g, tab) PROVE i \in RowNumbers(g, new) /\ tab[i] = new[i]
  <2>1. i \in 1..Len(tab) /\ tab[i].g = g
    BY <1>1 DEF RowNumbers
  <2>2. i \in 1..Len(new) /\ new[i] = tab[i]
    BY <2>1, <1>1
  <2> QED BY <2>1, <2>2, <1>1 DEF RowNumbers
<1> QED BY <1>2, <1>3, RowsInPlace

----------------------------------------------------------------------------
(* The plans.                                                              *)

LEMMA OneAndOne ==
    ASSUME NEW S, NEW a \in S, NEW b \in S
    PROVE  <<a>> \o <<b>> = <<a, b>>
<1> DEFINE s == <<a>> \o <<b>>
<1>0. <<a>> \in Seq(S) /\ <<b>> \in Seq(S) /\ <<a, b>> \in Seq(S)
  OBVIOUS
<1>1. s \in Seq(S) /\ Len(s) = 2
  BY <1>0
<1>2. s[1] = a /\ s[2] = b
  BY <1>0
<1> HIDE DEF s
<1>3. s = <<a, b>>
  BY <1>1, <1>2, <1>0
<1> QED BY <1>3 DEF s

LEMMA OneAndTwo ==
    ASSUME NEW S, NEW a \in S, NEW b \in S, NEW c \in S
    PROVE  <<a>> \o <<b, c>> = <<a, b, c>>
<1> DEFINE s == <<a>> \o <<b, c>>
<1>0. <<a>> \in Seq(S) /\ <<b, c>> \in Seq(S) /\ <<a, b, c>> \in Seq(S)
  OBVIOUS
<1>1. s \in Seq(S) /\ Len(s) = 3
  BY <1>0
<1>2. s[1] = a /\ s[2] = b /\ s[3] = c
  BY <1>0
<1> HIDE DEF s
<1>3. s = <<a, b, c>>
  BY <1>1, <1>2, <1>0
<1> QED BY <1>3 DEF s

LEMMA TwoAndOne ==
    ASSUME NEW S, NEW a \in S, NEW b \in S, NEW c \in S
    PROVE  <<a, b>> \o <<c>> = <<a, b, c>>
<1> DEFINE s == <<a, b>> \o <<c>>
<1>0. <<a, b>> \in Seq(S) /\ <<c>> \in Seq(S) /\ <<a, b, c>> \in Seq(S)
  OBVIOUS
<1>1. s \in Seq(S) /\ Len(s) = 3
  BY <1>0
<1>2. s[1] = a /\ s[2] = b /\ s[3] = c
  BY <1>0
<1> HIDE DEF s
<1>3. s = <<a, b, c>>
  BY <1>1, <1>2, <1>0
<1> QED BY <1>3 DEF s

LEMMA TwoAndTwo ==
    ASSUME NEW S, NEW a \in S, NEW b \in S, NEW c \in S, NEW d \in S
    PROVE  <<a, b>> \o <<c, d>> = <<a, b, c, d>>
<1> DEFINE s == <<a, b>> \o <<c, d>>
<1>0. <<a, b>> \in Seq(S) /\ <<c, d>> \in Seq(S) /\ <<a, b, c, d>> \in Seq(S)
  OBVIOUS
<1>1. s \in Seq(S) /\ Len(s) = 4
  BY <1>0
<1>2. s[1] = a /\ s[2] = b /\ s[3] = c /\ s[4] = d
  BY <1>0
<1> HIDE DEF s
<1>3. s = <<a, b, c, d>>
  BY <1>1, <1>2, <1>0
<1> QED BY <1>3 DEF s

ContactIn(t) == [do |-> "contact", tab |-> t]

LEMMA PlansAre ==
    /\ AppendPending = <<AppendTo("pending")>>
    /\ DeleteLast = <<DeleteIn("pending")>>
    /\ Move = <<AppendTo("paid"), DeleteIn("pending")>>
    /\ RemoveByGroupID = <<DeleteIn("paid"), DeleteIn("pending")>>
    /\ ThenMove = <<DeleteIn("pending"), AppendTo("paid"), DeleteIn("pending")>>
    /\ RemoveThenMove = <<DeleteIn("paid"), DeleteIn("pending"),
                          AppendTo("paid"), DeleteIn("pending")>>
    /\ ThenAppend = <<DeleteIn("pending"), AppendTo("pending")>>
    /\ RemoveThenAppend = <<DeleteIn("paid"), DeleteIn("pending"), AppendTo("pending")>>
    /\ UpdateContactByGroupID = <<ContactIn("paid"), ContactIn("pending")>>
    /\ ContactPending = <<ContactIn("pending")>>
<1>0. /\ AppendTo("paid") \in Step /\ AppendTo("pending") \in Step
      /\ DeleteIn("paid") \in Step /\ DeleteIn("pending") \in Step
  BY DEF Step, AppendTo, DeleteIn, Tab
<1>1. Move = <<AppendTo("paid"), DeleteIn("pending")>>
  BY DEF Move, AppendPaidAndRemovePending
<1>2. ThenMove = <<DeleteIn("pending"), AppendTo("paid"), DeleteIn("pending")>>
  BY <1>0, <1>1, OneAndTwo DEF ThenMove, DeleteLast
<1>3. RemoveThenMove = <<DeleteIn("paid"), DeleteIn("pending"),
                         AppendTo("paid"), DeleteIn("pending")>>
  BY <1>0, <1>1, TwoAndTwo DEF RemoveThenMove, RemoveByGroupID
<1>4. ThenAppend = <<DeleteIn("pending"), AppendTo("pending")>>
  BY <1>0, OneAndOne DEF ThenAppend, DeleteLast, AppendPending
<1>5. RemoveThenAppend = <<DeleteIn("paid"), DeleteIn("pending"), AppendTo("pending")>>
  BY <1>0, TwoAndOne DEF RemoveThenAppend, RemoveByGroupID, AppendPending
<1>6. ContactPending = <<ContactIn("pending")>>
  BY DEF ContactPending, UpdateContactByGroupID, ContactIn
<1> QED BY <1>1, <1>2, <1>3, <1>4, <1>5, <1>6
        DEF AppendPending, DeleteLast, RemoveByGroupID, UpdateContactByGroupID, ContactIn

LEMMA PlansAreSteps ==
    \A T \in {AppendPending, DeleteLast, Move, RemoveByGroupID, ThenMove, RemoveThenMove,
               ThenAppend, RemoveThenAppend, UpdateContactByGroupID, ContactPending} :
        T \in Seq(Step) /\ T # <<>>
<1>1. /\ AppendTo("paid") \in Step /\ AppendTo("pending") \in Step
      /\ DeleteIn("paid") \in Step /\ DeleteIn("pending") \in Step
      /\ ContactIn("paid") \in Step /\ ContactIn("pending") \in Step
  BY DEF Step, AppendTo, DeleteIn, ContactIn, Tab
<1>2. AppendPending \in Seq(Step) /\ Len(AppendPending) = 1 /\ AppendPending # <<>>
  BY <1>1, PlansAre
<1>3. DeleteLast \in Seq(Step) /\ Len(DeleteLast) = 1 /\ DeleteLast # <<>>
  BY <1>1, PlansAre
<1>4. Move \in Seq(Step) /\ Len(Move) = 2 /\ Move # <<>>
  BY <1>1, PlansAre
<1>5. RemoveByGroupID \in Seq(Step) /\ Len(RemoveByGroupID) = 2 /\ RemoveByGroupID # <<>>
  BY <1>1, PlansAre
<1>6. ThenMove \in Seq(Step) /\ Len(ThenMove) = 3 /\ ThenMove # <<>>
  BY <1>1, PlansAre
<1>7. RemoveThenMove \in Seq(Step) /\ Len(RemoveThenMove) = 4 /\ RemoveThenMove # <<>>
  BY <1>1, PlansAre
<1>8. ThenAppend \in Seq(Step) /\ Len(ThenAppend) = 2 /\ ThenAppend # <<>>
  BY <1>1, PlansAre
<1>9. RemoveThenAppend \in Seq(Step) /\ Len(RemoveThenAppend) = 3 /\ RemoveThenAppend # <<>>
  BY <1>1, PlansAre
<1>10. UpdateContactByGroupID \in Seq(Step) /\ Len(UpdateContactByGroupID) = 2 /\ UpdateContactByGroupID # <<>>
  BY <1>1, PlansAre
<1>11. ContactPending \in Seq(Step) /\ Len(ContactPending) = 1 /\ ContactPending # <<>>
  BY <1>1, PlansAre
<1> QED BY <1>2, <1>3, <1>4, <1>5, <1>6, <1>7, <1>8, <1>9, <1>10, <1>11

LEMMA PlanLengths ==
    /\ Len(AppendPending) = 1 /\ Len(DeleteLast) = 1 /\ Len(ContactPending) = 1
    /\ Len(Move) = 2 /\ Len(RemoveByGroupID) = 2 /\ Len(ThenAppend) = 2
    /\ Len(UpdateContactByGroupID) = 2 /\ Len(ThenMove) = 3 /\ Len(RemoveThenAppend) = 3
    /\ Len(RemoveThenMove) = 4
BY PlansAre

LEMMA PlanHeads ==
    /\ Head(AppendPending) = AppendTo("pending") /\ Head(Move) = AppendTo("paid")
    /\ \A T \in {DeleteLast, ThenMove, ThenAppend} : Head(T) = DeleteIn("pending")
    /\ \A T \in {RemoveByGroupID, RemoveThenMove, RemoveThenAppend} : Head(T) = DeleteIn("paid")
    /\ Head(UpdateContactByGroupID) = ContactIn("paid")
    /\ Head(ContactPending) = ContactIn("pending")
BY PlansAre

LEMMA PlanTails ==
    /\ Tail(AppendPending) = <<>> /\ Tail(DeleteLast) = <<>> /\ Tail(ContactPending) = <<>>
    /\ Tail(Move) = DeleteLast /\ Tail(RemoveByGroupID) = DeleteLast
    /\ Tail(ThenAppend) = AppendPending /\ Tail(ThenMove) = Move
    /\ Tail(RemoveThenMove) = ThenMove /\ Tail(RemoveThenAppend) = ThenAppend
    /\ Tail(UpdateContactByGroupID) = ContactPending
<1>1. Tail(AppendPending) = <<>> /\ Tail(DeleteLast) = <<>> /\ Tail(ContactPending) = <<>>
  BY PlansAre
<1>2. Tail(Move) = DeleteLast /\ Tail(RemoveByGroupID) = DeleteLast
  BY PlansAre
<1>3. Tail(ThenAppend) = AppendPending /\ Tail(ThenMove) = Move
  BY PlansAre
<1>4. Tail(RemoveThenMove) = ThenMove /\ Tail(RemoveThenAppend) = ThenAppend
  BY PlansAre
<1> QED BY <1>1, <1>2, <1>3, <1>4 DEF ContactPending

(* The first request or the length tells the plans apart.                  *)
LEMMA PlansDiffer ==
    /\ DeleteLast \notin {AppendPending, Move, ThenMove, ThenAppend, RemoveByGroupID,
                          RemoveThenMove, RemoveThenAppend, UpdateContactByGroupID,
                          ContactPending, <<>>}
    /\ Move \notin {AppendPending, DeleteLast, ThenMove, ThenAppend, RemoveByGroupID,
                    RemoveThenMove, RemoveThenAppend, UpdateContactByGroupID,
                    ContactPending, <<>>}
    /\ AppendPending \notin {Move, DeleteLast, ThenMove, ThenAppend, RemoveByGroupID,
                    RemoveThenMove, RemoveThenAppend, UpdateContactByGroupID,
                    ContactPending, <<>>}
    /\ \A T \in {ThenMove, ThenAppend} :
         T \notin {RemoveByGroupID, RemoveThenMove, RemoveThenAppend, UpdateContactByGroupID,
                   ContactPending, <<>>}
    /\ <<>> \notin {RemoveByGroupID, RemoveThenMove, RemoveThenAppend,
                    UpdateContactByGroupID, ContactPending}
<1>1. /\ \A t, u \in Tab : AppendTo(t) # DeleteIn(u) /\ AppendTo(t) # ContactIn(u)
                           /\ DeleteIn(t) # ContactIn(u)
      /\ AppendTo("paid") # AppendTo("pending") /\ DeleteIn("paid") # DeleteIn("pending")
      /\ ContactIn("paid") # ContactIn("pending") /\ "paid" \in Tab /\ "pending" \in Tab
  BY DEF AppendTo, DeleteIn, ContactIn, Tab
<1>2. \A T \in {AppendPending, Move, ThenMove, ThenAppend, RemoveByGroupID, RemoveThenMove,
                 RemoveThenAppend, UpdateContactByGroupID, ContactPending, DeleteLast} : T # <<>>
  BY PlansAreSteps
<1>3. DeleteLast \notin {AppendPending, Move, ThenMove, ThenAppend, RemoveByGroupID,
                         RemoveThenMove, RemoveThenAppend, UpdateContactByGroupID,
                         ContactPending}
  <2>1. DeleteLast \notin {AppendPending, Move, RemoveByGroupID, RemoveThenMove,
                           RemoveThenAppend, UpdateContactByGroupID, ContactPending}
    BY <1>1, PlanHeads
  <2>2. Len(DeleteLast) # Len(ThenMove) /\ Len(DeleteLast) # Len(ThenAppend)
    BY PlanLengths
  <2>3. DeleteLast # ThenMove /\ DeleteLast # ThenAppend
    BY <2>2
  <2> QED BY <2>1, <2>3
<1>4. Move \notin {AppendPending, DeleteLast, ThenMove, ThenAppend, RemoveByGroupID,
                   RemoveThenMove, RemoveThenAppend, UpdateContactByGroupID, ContactPending}
  BY <1>1, PlanHeads
<1>5. AppendPending \notin {Move, DeleteLast, ThenMove, ThenAppend, RemoveByGroupID,
                   RemoveThenMove, RemoveThenAppend, UpdateContactByGroupID, ContactPending}
  BY <1>1, PlanHeads
<1>6. \A T \in {ThenMove, ThenAppend} :
         T \notin {RemoveByGroupID, RemoveThenMove, RemoveThenAppend, UpdateContactByGroupID,
                   ContactPending}
  BY <1>1, PlanHeads
<1> QED BY <1>2, <1>3, <1>4, <1>5, <1>6

----------------------------------------------------------------------------
(* What becomes of a call after a request.                                 *)

On(call, todo) == [call EXCEPT !.pc = "next", !.todo = todo, !.hits = {}, !.stale = FALSE]
Stamping(call) == [call EXCEPT !.pc = "stamp", !.todo = <<>>, !.hits = {}, !.stale = FALSE]
Longer == {Move, RemoveByGroupID, ThenMove, RemoveThenMove, ThenAppend, RemoveThenAppend,
           UpdateContactByGroupID}

DoneAs(call, new) ==
    \/ new = Idle /\ call.op # "resync"
    \/ /\ call.op = "resync" /\ call.todo \in {AppendPending, DeleteLast}
       /\ new = Stamping(call)
    \/ /\ call.todo \in Longer /\ Tail(call.todo) \in Left(call.op)
       /\ new = On(call, Tail(call.todo))
FailedAs(call, new) ==
    \/ new = Idle
    \/ call.op = "resync" /\ call.todo = DeleteLast /\ new = Stamping(call)
    \/ call.op = "edit" /\ call.todo \in {RemoveThenMove, ThenMove} /\ new = On(call, Move)

LEMMA IdleIsCall == Idle \in CallRow /\ Idle.pc = "idle"
<1>1. AnyContact \in Contact /\ (CHOOSE g \in Group : TRUE) \in Group
  BY SheetAssumption DEF AnyContact
<1>2. <<>> \in Seq(Step) /\ <<>> \in Seq(Row)
  OBVIOUS
<1> QED BY <1>1, <1>2 DEF Idle, CallRow

LEMMA LeftPlans ==
    ASSUME NEW op, op \in {"append", "move", "edit", "resync", "remove", "contact"}
    PROVE  /\ \A T \in Left(op) :
                /\ T \in {AppendPending, DeleteLast, ContactPending} \cup Longer
                /\ T \in Longer => Tail(T) \in Left(op) /\ Tail(T) # <<>>
                /\ T \notin Longer => Tail(T) = <<>>
                /\ T = ContactPending => op = "contact"
           /\ op \in {"edit", "resync"} => Move \in Left(op)
<1>1. CASE op = "append"
  BY <1>1, PlanTails, PlansDiffer, PlansAreSteps DEF Left, Longer
<1>2. CASE op = "move"
  BY <1>2, PlanTails, PlansDiffer, PlansAreSteps DEF Left, Longer
<1>3. CASE op = "remove"
  BY <1>3, PlanTails, PlansDiffer, PlansAreSteps DEF Left, Longer
<1>4. CASE op = "contact"
  <2>0. Len(ContactPending) # Len(UpdateContactByGroupID)
    BY PlanLengths
  <2>1. ContactPending # UpdateContactByGroupID
    BY <2>0
  <2> QED BY <1>4, <2>1, PlanTails, PlansDiffer, PlansAreSteps DEF Left, Longer
<1>5. CASE op = "edit"
  BY <1>5, PlanTails, PlansDiffer, PlansAreSteps DEF Left, Longer
<1>6. CASE op = "resync"
  BY <1>6, PlanTails, PlansDiffer, PlansAreSteps DEF Left, Longer
<1> QED BY <1>1, <1>2, <1>3, <1>4, <1>5, <1>6

LEMMA GoOnFacts ==
    ASSUME NEW call, NEW todo, NEW ok
    PROVE  /\ todo # <<>> => GoOn(call, todo, ok) = On(call, todo)
           /\ todo = <<>> /\ call.op = "resync" /\ ok => GoOn(call, todo, ok) = Stamping(call)
           /\ todo = <<>> /\ ~(call.op = "resync" /\ ok) => GoOn(call, todo, ok) = Idle
BY DEF GoOn, Ended, On, Stamping

LEMMA OutcomeIsCall ==
    ASSUME NEW call \in CallRow
    PROVE  /\ Stamping(call) \in CallRow
           /\ \A todo \in Seq(Step) : On(call, todo) \in CallRow
<1>1. <<>> \in Seq(Step) /\ {} \in SUBSET Nat
  OBVIOUS
<1> QED BY <1>1 DEF Stamping, On, CallRow

LEMMA DoneFacts ==
    ASSUME NEW call \in CallRow, call.todo \in Left(call.op)
    PROVE  DoneAs(call, Done(call)) /\ Done(call) \in CallRow
<1> DEFINE rest == Tail(call.todo)
<1>1. call.op \in {"append", "move", "edit", "resync", "remove", "contact"}
      /\ call.todo \in Seq(Step)
  BY DEF CallRow
<1>2. PICK ok : ok = TRUE
  OBVIOUS
<1>3. Done(call) = GoOn(call, rest, ok)
  BY <1>2 DEF Done
<1>4. CASE call.todo \in Longer
  <2>1. rest \in Left(call.op) /\ rest # <<>> /\ rest \in Seq(Step)
    BY <1>1, <1>4, LeftPlans, PlansAreSteps, PlanTails DEF Longer
  <2>2. Done(call) = On(call, rest)
    BY <1>3, <2>1, GoOnFacts
  <2> QED BY <1>4, <2>1, <2>2, OutcomeIsCall DEF DoneAs
<1>5. CASE call.todo \notin Longer
  <2>1. rest = <<>> /\ call.todo \in {AppendPending, DeleteLast, ContactPending}
        /\ (call.todo = ContactPending => call.op = "contact")
    BY <1>1, <1>5, LeftPlans
  <2>2. CASE call.op = "resync"
    <3>1. Done(call) = Stamping(call) /\ call.todo \in {AppendPending, DeleteLast}
      BY <1>2, <1>3, <2>1, <2>2, GoOnFacts
    <3> QED BY <2>2, <3>1, OutcomeIsCall DEF DoneAs
  <2>3. CASE call.op # "resync"
    BY <1>3, <2>1, <2>3, GoOnFacts, IdleIsCall DEF DoneAs
  <2> QED BY <2>2, <2>3
<1> QED BY <1>4, <1>5

LEMMA FailedFacts ==
    ASSUME NEW call \in CallRow, call.todo \in Left(call.op)
    PROVE  FailedAs(call, Failed(call)) /\ Failed(call) \in CallRow
<1> DEFINE todo == AfterError(call)
           ok == call.op = "resync" /\ Len(call.todo) = 1 /\ Head(call.todo).do = "delete"
<1>1. call.op \in {"append", "move", "edit", "resync", "remove", "contact"}
  BY DEF CallRow
<1>2. Failed(call) = GoOn(call, todo, ok)
  BY DEF Failed
<1>3. Len(AppendPaidAndRemovePending) = 2
  BY PlanLengths DEF Move
<1>4. CASE call.op = "edit" /\ Len(call.todo) > 2
  <2>1. todo = Move
    BY <1>3, <1>4 DEF AfterError, Move
  <2>2. call.todo \in {RemoveThenMove, ThenMove}
    <3>1. call.todo \in {RemoveThenMove, ThenMove, Move, DeleteLast}
      BY <1>4 DEF Left
    <3> DEFINE n == Len(call.todo)
    <3>0. n \in Nat /\ n > 2
      BY <1>4 DEF CallRow
    <3> HIDE DEF n
    <3>2. n # 1 /\ n # 2
      BY <3>0
    <3>3. call.todo # Move /\ call.todo # DeleteLast
      BY <3>2, PlanLengths DEF n
    <3> QED BY <3>1, <3>3
  <2>3. Failed(call) = On(call, Move)
    <3> HIDE DEF todo, ok
    <3> QED BY <1>2, <2>1, PlansAreSteps, GoOnFacts
  <2> QED BY <1>4, <2>2, <2>3, PlansAreSteps, OutcomeIsCall DEF FailedAs
<1>5. CASE ~(call.op = "edit" /\ Len(call.todo) > 2)
  <2>1. todo = <<>>
    BY <1>3, <1>5 DEF AfterError
  <2>2. CASE call.op = "resync" /\ ok
    <3>1. call.todo = DeleteLast
      <4>1. call.todo \in {RemoveThenMove, ThenMove, Move, DeleteLast,
                           RemoveThenAppend, ThenAppend, AppendPending}
        BY <2>2 DEF Left
      <4>2. AppendTo("pending").do = "append"
        BY DEF AppendTo
      <4>3. call.todo # Move /\ call.todo # AppendPending
        BY <4>2, <2>2, PlanHeads, PlanLengths
      <4>4. /\ call.todo # RemoveThenMove /\ call.todo # ThenMove
            /\ call.todo # RemoveThenAppend /\ call.todo # ThenAppend
        BY <2>2, PlanLengths
      <4> QED BY <4>1, <4>3, <4>4
    <3>2. Failed(call) = Stamping(call)
      <4> HIDE DEF todo, ok
      <4> QED BY <1>2, <2>1, <2>2, GoOnFacts
    <3> QED BY <2>2, <3>1, <3>2, OutcomeIsCall DEF FailedAs
  <2>3. CASE ~(call.op = "resync" /\ ok)
    <3>1. Failed(call) = Idle
      <4> HIDE DEF todo, ok
      <4> QED BY <1>2, <2>1, <2>3, GoOnFacts
    <3> QED BY <3>1, IdleIsCall DEF FailedAs
  <2> QED BY <2>2, <2>3
<1> QED BY <1>4, <1>5

----------------------------------------------------------------------------
(* What a step does to the calls.                                          *)

(* p becomes new, but for writes by outdated row numbers meanwhile.        *)
Becomes(p, new) ==
    /\ calls'[p].pc = new.pc /\ calls'[p].op = new.op /\ calls'[p].g = new.g
    /\ calls'[p].todo = new.todo /\ calls'[p].rows = new.rows /\ calls'[p].hits = new.hits
    /\ new.stale => calls'[p].stale
    /\ calls'[p].alone => new.alone
Rests(p) == \A q \in Call \ {p} : Becomes(q, calls[q])

(* How a call starts.                                                      *)
Starts(call) ==
    /\ call \in CallRow /\ call.hits = {}
    /\ \A i \in DOMAIN call.rows : call.rows[i].g = call.g
    /\ \/ call.pc = "next" /\ call.op = "append" /\ call.todo = AppendPending
       \/ call.pc \in {"next", "load"} /\ call.op = "move" /\ call.todo = Move
       \/ call.pc = "load" /\ call.op = "edit" /\ call.todo = RemoveThenMove
       \/ call.pc = "next" /\ call.op = "contact" /\ call.todo = UpdateContactByGroupID
       \/ call.pc = "next" /\ call.op = "remove" /\ call.todo = RemoveByGroupID
       \/ call.pc = "next" /\ call.op = "resync" /\ call.todo \in {RemoveThenMove, RemoveThenAppend}

LEMMA SetOneCall ==
    ASSUME TypeOK, NEW p \in Call, NEW new \in CallRow, calls' = [calls EXCEPT ![p] = new]
    PROVE  calls' \in [Call -> CallRow] /\ Becomes(p, new) /\ Rests(p)
           /\ calls'[p] = new /\ \A q \in Call \ {p} : calls'[q] = calls[q]
<1>1. calls \in [Call -> CallRow]
  BY DEF TypeOK
<1>2. calls'[p] = new /\ \A q \in Call \ {p} : calls'[q] = calls[q]
  BY <1>1
<1> QED BY <1>1, <1>2 DEF Becomes, Rests

LEMMA WroteFacts ==
    ASSUME TypeOK, NEW p \in Call, NEW t, NEW new \in CallRow, NEW deletes \in BOOLEAN,
           calls' = Wrote(p, t, deletes, new)
    PROVE  /\ calls' \in [Call -> CallRow] /\ Becomes(p, new) /\ Rests(p)
           /\ calls[p].stale => \A q \in Call : Live(q)' => ~calls'[q].alone
           /\ deletes => \A q \in Call \ {p} : Counting(q, t) => calls'[q].stale
<1>1. calls \in [Call -> CallRow]
  BY DEF TypeOK
<1> DEFINE now(q) == IF q = p THEN new ELSE calls[q]
           stale(q) == now(q).stale \/ (q # p /\ deletes /\ Counting(q, t))
           alone(q) == now(q).alone /\ ~calls[p].stale
           then(q) == [now(q) EXCEPT !.stale = stale(q), !.alone = alone(q)]
<1>2. \A q \in Call : calls'[q] = IF now(q) = Idle THEN now(q) ELSE then(q)
  BY DEF Wrote
<1>3. \A q \in Call : now(q) \in CallRow
  BY <1>1
<1>4. \A q \in Call : stale(q) \in BOOLEAN /\ alone(q) \in BOOLEAN
  <2> TAKE q \in Call
  <2>1. now(q).stale \in BOOLEAN /\ now(q).alone \in BOOLEAN /\ calls[p].stale \in BOOLEAN
    BY <1>1, <1>3 DEF CallRow
  <2>2. (q # p /\ deletes /\ Counting(q, t)) \in BOOLEAN
    OBVIOUS
  <2> QED BY <2>1, <2>2
<1> HIDE DEF now, stale, alone
<1>5. \A q \in Call :
        /\ then(q) \in CallRow /\ then(q).pc = now(q).pc /\ then(q).op = now(q).op
        /\ then(q).g = now(q).g /\ then(q).todo = now(q).todo /\ then(q).rows = now(q).rows
        /\ then(q).hits = now(q).hits /\ then(q).stale = stale(q) /\ then(q).alone = alone(q)
  BY <1>3, <1>4 DEF CallRow
<1> HIDE DEF then
<1>6. calls' \in [Call -> CallRow]
  <2>1. \A q \in Call : calls'[q] \in CallRow
    BY <1>2, <1>3, <1>5
  <2>2. calls' = [q \in Call |-> calls'[q]]
    BY DEF Wrote
  <2> QED BY <2>1, <2>2
<1>7. \A q \in Call : Becomes(q, now(q))
  <2> TAKE q \in Call
  <2>1. CASE now(q) = Idle
    BY <2>1, <1>2 DEF Becomes
  <2>2. CASE now(q) # Idle
    <3>1. (now(q).stale => stale(q)) /\ (alone(q) => now(q).alone)
      BY DEF stale, alone
    <3> QED BY <2>2, <3>1, <1>2, <1>5 DEF Becomes
  <2> QED BY <2>1, <2>2
<1>8. Becomes(p, new) /\ Rests(p)
  BY <1>7 DEF Rests, now
<1>9. ASSUME calls[p].stale, NEW q \in Call, Live(q)' PROVE ~calls'[q].alone
  <2>1. calls'[q].pc # "idle"
    BY <1>9 DEF Live
  <2>2. now(q) # Idle
    BY <2>1, <1>2, IdleIsCall
  <2> QED BY <1>9, <2>2, <1>2, <1>5 DEF alone
<1>10. ASSUME deletes, NEW q \in Call \ {p}, Counting(q, t) PROVE calls'[q].stale
  <2>1. calls[q].pc = "write"
    BY <1>10 DEF Counting
  <2>2. now(q) # Idle
    BY <2>1, <1>10, IdleIsCall DEF now
  <2> QED BY <1>10, <2>2, <1>2, <1>5 DEF stale
<1> QED BY <1>6, <1>8, <1>9, <1>10

(* A write that took effect: the call goes on, or thinks it failed.        *)
Outcome(p) ==
    \E new \in CallRow : Becomes(p, new) /\ (DoneAs(calls[p], new) \/ FailedAs(calls[p], new))

LEMMA LandsFacts ==
    ASSUME TypeOK, NEW p \in Call, NEW t, NEW deletes \in BOOLEAN,
           calls[p].todo \in Left(calls[p].op), Lands(p, t, deletes)
    PROVE  /\ calls' \in [Call -> CallRow] /\ Outcome(p) /\ Rests(p)
           /\ calls[p].stale => \A q \in Call : Live(q)' => ~calls'[q].alone
           /\ deletes => \A q \in Call \ {p} : Counting(q, t) => calls'[q].stale
           /\ faults' \in 0..MaxFaults
<1>1. calls[p] \in CallRow /\ faults \in 0..MaxFaults /\ MaxFaults \in Nat
  BY SheetAssumption DEF TypeOK
<1>2. CASE calls' = Wrote(p, t, deletes, Done(calls[p])) /\ UNCHANGED faults
  <2>1. DoneAs(calls[p], Done(calls[p])) /\ Done(calls[p]) \in CallRow
    BY <1>1, DoneFacts
  <2> QED BY <1>1, <1>2, <2>1, WroteFacts DEF Outcome
<1>3. CASE calls' = Wrote(p, t, deletes, Failed(calls[p])) /\ Fault
  <2>1. FailedAs(calls[p], Failed(calls[p])) /\ Failed(calls[p]) \in CallRow
    BY <1>1, FailedFacts
  <2>2. faults' \in 0..MaxFaults
    BY <1>1, <1>3 DEF Fault
  <2> QED BY <1>1, <1>3, <2>1, <2>2, WroteFacts DEF Outcome
<1> QED BY <1>2, <1>3 DEF Lands

LEMMA FailsFacts ==
    ASSUME TypeOK, NEW p \in Call, calls[p].todo \in Left(calls[p].op), Fails(p)
    PROVE  /\ calls' \in [Call -> CallRow] /\ Rests(p) /\ faults' \in 0..MaxFaults
           /\ \E new \in CallRow : Becomes(p, new) /\ FailedAs(calls[p], new)
           /\ Outcome(p)
<1>1. calls[p] \in CallRow /\ faults \in 0..MaxFaults /\ MaxFaults \in Nat
  BY SheetAssumption DEF TypeOK
<1>2. FailedAs(calls[p], Failed(calls[p])) /\ Failed(calls[p]) \in CallRow
  BY <1>1, FailedFacts
<1>3. faults' \in 0..MaxFaults
  BY <1>1 DEF Fails, Fault
<1>4. calls' = [calls EXCEPT ![p] = Failed(calls[p])]
  BY DEF Fails
<1> QED BY <1>2, <1>3, <1>4, SetOneCall DEF Outcome

----------------------------------------------------------------------------
(* How calls begin.                                                        *)

LEMMA BeginFacts ==
    ASSUME TypeOK, NEW p \in Call, NEW call \in CallRow, call.g \in Group, Begin(p, call)
    PROVE  /\ calls' \in [Call -> CallRow] /\ ~Live(p)
           /\ calls'[p] = [call EXCEPT !.alone = calls'[p].alone]
           /\ calls'[p].alone => \A q \in Call \ {p} : Live(q) => calls[q].g # call.g
           /\ \A q \in Call \ {p} :
                /\ calls'[q] = [calls[q] EXCEPT !.alone = calls'[q].alone]
                /\ calls'[q].alone => calls[q].alone
                /\ Live(q) /\ calls'[q].alone => calls[q].g # call.g
           /\ listed' \subseteq listed
           /\ call.g \in listed' => /\ call.op \in {"append", "move", "contact"}
                                    /\ \A q \in Call \ {p} : Live(q) => calls[q].g # call.g
           /\ commits' \in 0..MaxCommits
           /\ UNCHANGED <<tabs, once, faults, headless>>
<1> DEFINE rivals == Sharing(p, call.g)
<1>1. calls \in [Call -> CallRow] /\ commits \in 0..MaxCommits /\ MaxCommits \in Nat
  BY SheetAssumption DEF TypeOK
<1>2. \A q \in Call : q \in rivals <=> q # p /\ Live(q) /\ calls[q].g = call.g
  BY DEF Sharing, Live
<1>3. calls' = [q \in Call |->
            IF q = p THEN [call EXCEPT !.alone = (rivals = {})]
            ELSE IF q \in rivals THEN [calls[q] EXCEPT !.alone = FALSE] ELSE calls[q]]
  BY DEF Begin
<1>4. listed' = IF rivals = {} /\ call.op \in {"append", "move", "contact"} THEN listed
                ELSE listed \ {call.g}
  BY DEF Begin
<1>5. ~Live(p) /\ commits' \in 0..MaxCommits /\ UNCHANGED <<tabs, once, faults, headless>>
  BY <1>1 DEF Begin, Commits, Live
<1>6. rivals = {} <=> \A q \in Call \ {p} : Live(q) => calls[q].g # call.g
  <2>1. rivals \subseteq Call
    BY DEF Sharing
  <2> QED BY <1>2, <2>1
<1> HIDE DEF rivals
<1>7. [call EXCEPT !.alone = (rivals = {})] \in CallRow
      /\ [call EXCEPT !.alone = (rivals = {})].alone = (rivals = {})
  BY DEF CallRow
<1>8. calls'[p] = [call EXCEPT !.alone = (rivals = {})]
  BY <1>3
<1>9. \A q \in Call \ {p} : [calls[q] EXCEPT !.alone = FALSE] \in CallRow
                            /\ ~[calls[q] EXCEPT !.alone = FALSE].alone
                            /\ calls[q] = [calls[q] EXCEPT !.alone = calls[q].alone]
  BY <1>1 DEF CallRow
<1>10. ASSUME NEW q \in Call \ {p}
       PROVE  /\ calls'[q] \in CallRow
              /\ calls'[q] = [calls[q] EXCEPT !.alone = calls'[q].alone]
              /\ calls'[q].alone => calls[q].alone
              /\ Live(q) /\ calls'[q].alone => calls[q].g # call.g
  <2>1. CASE q \in rivals
    <3>1. calls'[q] = [calls[q] EXCEPT !.alone = FALSE]
      BY <2>1, <1>3
    <3>2. ~calls'[q].alone
      BY <3>1, <1>9
    <3>3. calls[q] \in CallRow
      BY <1>1
    <3>4. calls'[q] = [calls[q] EXCEPT !.alone = calls'[q].alone]
      BY <3>1, <3>3 DEF CallRow
    <3> QED BY <3>1, <3>2, <3>4, <1>9
  <2>2. CASE q \notin rivals
    <3>1. calls'[q] = calls[q]
      BY <2>2, <1>3
    <3> QED BY <3>1, <2>2, <1>1, <1>2, <1>9
  <2> QED BY <2>1, <2>2
<1>11. calls' \in [Call -> CallRow]
  <2>1. \A q \in Call : calls'[q] \in CallRow
    BY <1>7, <1>8, <1>10
  <2>2. calls' = [q \in Call |-> calls'[q]]
    BY <1>3
  <2> QED BY <2>1, <2>2
<1>12. calls'[p].alone = (rivals = {})
       /\ calls'[p] = [call EXCEPT !.alone = calls'[p].alone]
  BY <1>7, <1>8
<1> QED BY <1>4, <1>5, <1>6, <1>10, <1>11, <1>12

LEMMA SyncedFacts ==
    ASSUME NEW g \in Group, NEW op \in {"append", "move", "edit", "resync", "remove", "contact"},
           NEW pc \in {"next", "load"}, NEW todo \in Seq(Step)
    PROVE  LET call == Synced(g, op, pc, todo)
           IN /\ call \in CallRow /\ call.pc = pc /\ call.op = op /\ call.g = g
              /\ call.todo = todo /\ call.rows = <<>> /\ call.hits = {}
              /\ DOMAIN call.rows = {}
              /\ \A rows \in Seq(Row) :
                   LET full == [call EXCEPT !.rows = rows]
                   IN /\ full \in CallRow /\ full.pc = pc /\ full.op = op /\ full.g = g
                      /\ full.todo = todo /\ full.rows = rows /\ full.hits = {}
              /\ \A c \in Contact :
                   LET full == [call EXCEPT !.contact = c]
                   IN /\ full \in CallRow /\ full.pc = pc /\ full.op = op /\ full.g = g
                      /\ full.todo = todo /\ full.rows = <<>> /\ full.hits = {}
<1>1. Idle \in CallRow /\ Idle.rows = <<>> /\ Idle.hits = {}
  BY IdleIsCall DEF Idle
<1> DEFINE call == Synced(g, op, pc, todo)
<1>2. call = [Idle EXCEPT !.pc = pc, !.op = op, !.g = g, !.todo = todo]
  BY DEF Synced
<1> HIDE DEF call
<1>3. /\ call \in CallRow /\ call.pc = pc /\ call.op = op /\ call.g = g
      /\ call.todo = todo /\ call.rows = <<>> /\ call.hits = {}
  BY <1>1, <1>2 DEF CallRow
<1>4. ASSUME NEW rows \in Seq(Row)
      PROVE  LET full == [call EXCEPT !.rows = rows]
             IN /\ full \in CallRow /\ full.pc = pc /\ full.op = op /\ full.g = g
                /\ full.todo = todo /\ full.rows = rows /\ full.hits = {}
  BY <1>3 DEF CallRow
<1>5. ASSUME NEW c \in Contact
      PROVE  LET full == [call EXCEPT !.contact = c]
             IN /\ full \in CallRow /\ full.pc = pc /\ full.op = op /\ full.g = g
                /\ full.todo = todo /\ full.rows = <<>> /\ full.hits = {}
  BY <1>3 DEF CallRow
<1>6. DOMAIN call.rows = {}
  BY <1>3
<1> QED BY <1>3, <1>4, <1>5, <1>6 DEF call

(* A caller commits a change of one group, and may begin a call of it.     *)
Commit(g) ==
    /\ db' \in [Group -> Registered]
    /\ \A h \in Group \ {g} : db'[h] = db[h]
    /\ DbInv => (Registers(g)' => db'[g].roster # {})

Calls(p, g, call) ==
    /\ Begin(p, call) /\ Starts(call) /\ call.g = g
    /\ call.op # "remove" => Registers(g)'
    /\ Registers(g) => call.op # "append" /\ (call.op = "move" => call.pc = "load")

NoCall(g) ==
    /\ Registers(g) => Registers(g)'
    /\ Commits /\ UNCHANGED <<tabs, once, calls, faults, listed, headless>>

LEMMA SubmitFacts ==
    ASSUME TypeOK, NEW p \in Call, NEW g \in Group, Submit(p, g)
    PROVE  Commit(g) /\ \E call : Calls(p, g, call)
<1>1. db \in [Group -> Registered] /\ db[g].contact \in Contact /\ ~Registers(g)
  BY DEF TypeOK, Registered, Submit, Registers
<1>2. PICK roster \in (SUBSET Camper) \ {{}}, settled \in BOOLEAN :
        LET rows == RowsForGroup(g, roster, db[g].contact) IN
         /\ db' = [db EXCEPT ![g].st = IF settled THEN "paid" ELSE "pending",
                             ![g].roster = roster]
         /\ Begin(p, [(IF settled THEN Synced(g, "move", "next", AppendPaidAndRemovePending)
                                  ELSE Synced(g, "append", "next", AppendPending))
                      EXCEPT !.rows = rows])
  BY DEF Submit
<1> DEFINE rows == RowsForGroup(g, roster, db[g].contact)
           base == IF settled THEN Synced(g, "move", "next", Move)
                   ELSE Synced(g, "append", "next", AppendPending)
           call == [base EXCEPT !.rows = rows]
<1>3. Begin(p, call)
  BY <1>2 DEF Move
<1>4. rows \in Seq(Row) /\ \A i \in DOMAIN rows : rows[i].g = g
  BY <1>1, <1>2, RowsForGroupFacts
<1>5. /\ call \in CallRow /\ call.pc = "next" /\ call.g = g /\ call.rows = rows /\ call.hits = {}
      /\ \/ call.op = "append" /\ call.todo = AppendPending
         \/ call.op = "move" /\ call.todo = Move
  <2>1. Move \in Seq(Step) /\ AppendPending \in Seq(Step)
    BY PlansAreSteps
  <2> HIDE DEF rows
  <2>2. CASE settled
    <3>1. call = [Synced(g, "move", "next", Move) EXCEPT !.rows = rows]
      BY <2>2
    <3> QED BY <3>1, <2>1, <1>4, SyncedFacts
  <2>3. CASE ~settled
    <3>1. call = [Synced(g, "append", "next", AppendPending) EXCEPT !.rows = rows]
      BY <2>3
    <3> QED BY <3>1, <2>1, <1>4, SyncedFacts
  <2> QED BY <2>2, <2>3
<1> HIDE DEF rows, base, call
<1>6. Starts(call)
  BY <1>4, <1>5 DEF Starts
<1>7. /\ db' \in [Group -> Registered] /\ \A h \in Group \ {g} : db'[h] = db[h]
      /\ db'[g].roster = roster /\ db'[g].st \in {"paid", "pending"}
  <2> DEFINE st == IF settled THEN "paid" ELSE "pending"
  <2>1. st \in {"paid", "pending"} /\ db' = [db EXCEPT ![g] = [db[g] EXCEPT !.st = st, !.roster = roster]]
    BY <1>1, <1>2
  <2> HIDE DEF st
  <2>2. [db[g] EXCEPT !.st = st, !.roster = roster] \in Registered
    BY <2>1, <1>1, <1>2 DEF Registered
  <2>3. [db[g] EXCEPT !.st = st, !.roster = roster].roster = roster
        /\ [db[g] EXCEPT !.st = st, !.roster = roster].st = st
    BY <1>1 DEF Registered
  <2> QED BY <2>1, <2>2, <2>3, <1>1
<1>8. Registers(g)' /\ Commit(g)
  <2>0. roster # {}
    OBVIOUS
  <2>1. db'[g].st \notin {"none", "deleted"} /\ roster # {}
    BY <1>7, <2>0
  <2> QED BY <2>1, <1>7 DEF Registers, Commit
<1>9. Calls(p, g, call)
  BY <1>1, <1>3, <1>5, <1>6, <1>8 DEF Calls
<1> QED BY <1>8, <1>9

LEMMA CheckoutFacts ==
    ASSUME TypeOK, NEW p \in Call, NEW g \in Group, HandleCheckoutCompleted(p, g)
    PROVE  Commit(g) /\ \E call : Calls(p, g, call)
<1> DEFINE base == Synced(g, "move", "load", Move)
           call == [base EXCEPT !.contact = db[g].contact]
<1>1. db \in [Group -> Registered] /\ db[g] \in Registered /\ db[g].contact \in Contact
      /\ db[g].st = "pending" /\ db' = [db EXCEPT ![g].st = "paid"]
  BY DEF TypeOK, Registered, HandleCheckoutCompleted
<1>2. Begin(p, call)
  BY DEF HandleCheckoutCompleted, Move
<1>3. /\ call \in CallRow /\ call.pc = "load" /\ call.op = "move" /\ call.g = g
      /\ call.todo = Move /\ call.rows = <<>> /\ call.hits = {}
  BY <1>1, PlansAreSteps, SyncedFacts
<1> HIDE DEF base, call
<1>4. Starts(call)
  BY <1>3 DEF Starts
<1>5. [db[g] EXCEPT !.st = "paid"] \in Registered
      /\ [db[g] EXCEPT !.st = "paid"].st = "paid"
      /\ [db[g] EXCEPT !.st = "paid"].roster = db[g].roster
  BY <1>1 DEF Registered
<1>6. db' = [db EXCEPT ![g] = [db[g] EXCEPT !.st = "paid"]]
  BY <1>1
<1>7. /\ db' \in [Group -> Registered] /\ \A h \in Group \ {g} : db'[h] = db[h]
      /\ db'[g].roster = db[g].roster /\ db'[g].st = "paid"
  BY <1>1, <1>5, <1>6
<1>8. Registers(g) /\ Registers(g)' /\ Commit(g)
  BY <1>1, <1>7 DEF Registers, Commit, DbInv
<1> QED BY <1>2, <1>3, <1>4, <1>8 DEF Calls

LEMMA EditFacts ==
    ASSUME TypeOK, NEW p \in Call, NEW g \in Group, EditCampers(p, g)
    PROVE  Commit(g) /\ (NoCall(g) \/ \E call : Calls(p, g, call))
<1>1. db \in [Group -> Registered] /\ db[g] \in Registered /\ Registers(g)
  BY DEF TypeOK, EditCampers, Registers
<1>2. PICK roster \in (SUBSET Camper) \ {{}} : db' = [db EXCEPT ![g].roster = roster]
  BY DEF EditCampers
<1>3. [db[g] EXCEPT !.roster = roster] \in Registered
      /\ [db[g] EXCEPT !.roster = roster].st = db[g].st
      /\ [db[g] EXCEPT !.roster = roster].roster = roster
  BY <1>1, <1>2 DEF Registered
<1>4. db' = [db EXCEPT ![g] = [db[g] EXCEPT !.roster = roster]]
  BY <1>2
<1>5. /\ db' \in [Group -> Registered] /\ \A h \in Group \ {g} : db'[h] = db[h]
      /\ db'[g].roster = roster /\ db'[g].st = db[g].st
  BY <1>1, <1>3, <1>4
<1>6. Registers(g)' /\ Commit(g)
  <2>0. roster # {}
    OBVIOUS
  <2>1. db'[g].st \notin {"none", "deleted"} /\ roster # {}
    BY <1>1, <1>5, <2>0 DEF Registers
  <2> QED BY <2>1, <1>5 DEF Registers, Commit
<1>7. CASE Begin(p, Synced(g, "edit", "load", RemoveByGroupID \o AppendPaidAndRemovePending))
  <2> DEFINE call == Synced(g, "edit", "load", RemoveThenMove)
  <2>1. Begin(p, call)
    BY <1>7 DEF RemoveThenMove, Move
  <2>2. /\ call \in CallRow /\ call.pc = "load" /\ call.op = "edit" /\ call.g = g
        /\ call.todo = RemoveThenMove /\ call.rows = <<>> /\ call.hits = {}
    BY PlansAreSteps, SyncedFacts
  <2> HIDE DEF call
  <2>3. Starts(call)
    BY <2>2 DEF Starts
  <2>4. Calls(p, g, call)
    BY <1>1, <1>6, <2>1, <2>2, <2>3 DEF Calls
  <2> QED BY <1>6, <2>4
<1>8. CASE Commits /\ UNCHANGED <<tabs, once, calls, faults, listed, headless>>
  BY <1>6, <1>8 DEF NoCall
<1> QED BY <1>7, <1>8 DEF EditCampers

LEMMA ContactFacts ==
    ASSUME TypeOK, NEW p \in Call, NEW g \in Group, UpdateGroupContact(p, g)
    PROVE  Commit(g) /\ \E call : Calls(p, g, call)
<1>1. db \in [Group -> Registered] /\ db[g] \in Registered /\ Registers(g)
  BY DEF TypeOK, UpdateGroupContact, Registers
<1>2. PICK c \in Contact :
         /\ db' = [db EXCEPT ![g].contact = c]
         /\ Begin(p, [Synced(g, "contact", "next", UpdateContactByGroupID) EXCEPT !.contact = c])
  BY DEF UpdateGroupContact
<1> DEFINE base == Synced(g, "contact", "next", UpdateContactByGroupID)
           call == [base EXCEPT !.contact = c]
<1>3. /\ call \in CallRow /\ call.pc = "next" /\ call.op = "contact" /\ call.g = g
      /\ call.todo = UpdateContactByGroupID /\ call.rows = <<>> /\ call.hits = {}
  BY <1>2, PlansAreSteps, SyncedFacts
<1>4. Begin(p, call)
  BY <1>2
<1> HIDE DEF base, call
<1>5. Starts(call)
  BY <1>3 DEF Starts
<1>6. [db[g] EXCEPT !.contact = c] \in Registered
      /\ [db[g] EXCEPT !.contact = c].st = db[g].st
      /\ [db[g] EXCEPT !.contact = c].roster = db[g].roster
  BY <1>1, <1>2 DEF Registered
<1>7. db' = [db EXCEPT ![g] = [db[g] EXCEPT !.contact = c]]
  BY <1>2
<1>8. /\ db' \in [Group -> Registered] /\ \A h \in Group \ {g} : db'[h] = db[h]
      /\ db'[g].roster = db[g].roster /\ db'[g].st = db[g].st
  BY <1>1, <1>6, <1>7
<1>9. Registers(g)' /\ Commit(g)
  BY <1>1, <1>8 DEF Registers, Commit, DbInv
<1> QED BY <1>1, <1>3, <1>4, <1>5, <1>9 DEF Calls

LEMMA DeleteFacts ==
    ASSUME TypeOK, NEW p \in Call, NEW g \in Group, DeleteRegistration(p, g)
    PROVE  Commit(g) /\ \E call : Calls(p, g, call)
<1> DEFINE call == Synced(g, "remove", "next", RemoveByGroupID)
<1>1. db \in [Group -> Registered] /\ db[g] \in Registered /\ Begin(p, call)
      /\ db' = [db EXCEPT ![g].st = "deleted", ![g].roster = {}]
  BY DEF TypeOK, DeleteRegistration
<1>2. /\ call \in CallRow /\ call.pc = "next" /\ call.op = "remove" /\ call.g = g
      /\ call.todo = RemoveByGroupID /\ call.rows = <<>> /\ call.hits = {}
  BY PlansAreSteps, SyncedFacts
<1> HIDE DEF call
<1>3. Starts(call)
  BY <1>2 DEF Starts
<1>4. [db[g] EXCEPT !.st = "deleted", !.roster = {}] \in Registered
      /\ [db[g] EXCEPT !.st = "deleted", !.roster = {}].st = "deleted"
  BY <1>1 DEF Registered
<1>5. db' = [db EXCEPT ![g] = [db[g] EXCEPT !.st = "deleted", !.roster = {}]]
  BY <1>1
<1>6. /\ db' \in [Group -> Registered] /\ \A h \in Group \ {g} : db'[h] = db[h]
      /\ db'[g].st = "deleted"
  BY <1>1, <1>4, <1>5
<1>7. Commit(g)
  BY <1>6 DEF Commit, Registers
<1> QED BY <1>1, <1>2, <1>3, <1>7 DEF Calls

LEMMA ResyncFacts ==
    ASSUME TypeOK, NEW p \in Call, NEW g \in Group, ResyncSheet(p, g)
    PROVE  Commit(g) /\ \E call : Calls(p, g, call)
<1>1. db \in [Group -> Registered] /\ db[g] \in Registered /\ Registers(g) /\ db' = db
      /\ db[g].roster \in SUBSET Camper /\ db[g].contact \in Contact
  BY DEF TypeOK, ResyncSheet, Registers, Registered
<1> DEFINE rows == RowsForGroup(g, db[g].roster, db[g].contact)
           todo == IF db[g].st = "paid" THEN RemoveThenMove ELSE RemoveThenAppend
           base == Synced(g, "resync", "next", todo)
           call == [base EXCEPT !.rows = rows]
<1>2. todo = RemoveByGroupID \o (IF db[g].st = "paid" THEN AppendPaidAndRemovePending
                                 ELSE AppendPending)
  BY DEF RemoveThenMove, RemoveThenAppend, Move
<1>3. Begin(p, call)
  BY <1>2 DEF ResyncSheet
<1>4. rows \in Seq(Row) /\ \A i \in DOMAIN rows : rows[i].g = g
  BY <1>1, RowsForGroupFacts
<1>5. todo \in {RemoveThenMove, RemoveThenAppend} /\ todo \in Seq(Step)
  BY PlansAreSteps
<1> HIDE DEF todo, rows
<1>6. /\ call \in CallRow /\ call.pc = "next" /\ call.op = "resync" /\ call.g = g
      /\ call.todo = todo /\ call.rows = rows /\ call.hits = {}
  BY <1>4, <1>5, SyncedFacts
<1> HIDE DEF base, call
<1>7. Starts(call)
  BY <1>4, <1>5, <1>6 DEF Starts
<1>8. Registers(g)' /\ Commit(g)
  BY <1>1 DEF Registers, Commit, DbInv
<1> QED BY <1>3, <1>6, <1>7, <1>8 DEF Calls

LEMMA CallerFacts ==
    ASSUME TypeOK, NEW p \in Call, NEW g \in Group, Caller(p, g)
    PROVE  Commit(g) /\ (NoCall(g) \/ \E call : Calls(p, g, call))
BY SubmitFacts, CheckoutFacts, EditFacts, ContactFacts, DeleteFacts, ResyncFacts DEF Caller

LEMMA StatusFacts ==
    ASSUME TypeOK, NEW g \in Group, NEW st \in {"pending", "paid", "cancelled"},
           SetPaymentStatus(g, st)
    PROVE  Commit(g) /\ NoCall(g)
<1>1. db \in [Group -> Registered] /\ db[g] \in Registered /\ Registers(g)
      /\ db' = [db EXCEPT ![g].st = st]
  BY DEF TypeOK, SetPaymentStatus, Registers
<1>2. [db[g] EXCEPT !.st = st] \in Registered /\ [db[g] EXCEPT !.st = st].st = st
      /\ [db[g] EXCEPT !.st = st].roster = db[g].roster
  BY <1>1 DEF Registered
<1>3. db' = [db EXCEPT ![g] = [db[g] EXCEPT !.st = st]]
  BY <1>1
<1>4. /\ db' \in [Group -> Registered] /\ \A h \in Group \ {g} : db'[h] = db[h]
      /\ db'[g].roster = db[g].roster /\ db'[g].st = st
  BY <1>1, <1>2, <1>3
<1>5. Registers(g)' /\ Commit(g)
  BY <1>1, <1>4 DEF Registers, Commit, DbInv
<1> QED BY <1>5 DEF NoCall, SetPaymentStatus

----------------------------------------------------------------------------
(* What a step of one call leaves to the others.                           *)

(* The call goes on as the same call.                                      *)
Same(p) == /\ Live(p) /\ calls'[p].op = calls[p].op /\ calls'[p].g = calls[p].g
           /\ calls'[p].alone => calls[p].alone
Goes(p) == Same(p) /\ calls'[p].rows = calls[p].rows /\ calls'[p].hits = {}
Stamps(p) == Goes(p) /\ calls'[p].pc = "stamp" /\ calls'[p].todo = <<>> /\ calls[p].op = "resync"
Advances(p) ==
    /\ Goes(p) /\ calls'[p].pc = "next" /\ calls[p].todo \in Longer
    /\ calls'[p].todo = Tail(calls[p].todo) /\ calls'[p].todo \in Left(calls[p].op)
Insists(p) ==
    /\ Goes(p) /\ calls'[p].pc = "next" /\ calls'[p].todo = Move
    /\ calls[p].op = "edit" /\ calls[p].todo \in {RemoveThenMove, ThenMove}

DoneSo(p) == Live(p)' => \/ Advances(p)
                         \/ Stamps(p) /\ calls[p].todo \in {AppendPending, DeleteLast}
FailedSo(p) == Live(p)' => Insists(p) \/ (Stamps(p) /\ calls[p].todo = DeleteLast)

LEMMA OutcomeFacts ==
    ASSUME NEW p \in Call, Live(p), NEW new \in CallRow, Becomes(p, new)
    PROVE  /\ DoneAs(calls[p], new) => DoneSo(p)
           /\ FailedAs(calls[p], new) => FailedSo(p)
<1> SUFFICES ASSUME Live(p)', DoneAs(calls[p], new) \/ FailedAs(calls[p], new)
             PROVE  /\ DoneAs(calls[p], new) => DoneSo(p)
                    /\ FailedAs(calls[p], new) => FailedSo(p)
  BY DEF DoneSo, FailedSo
<1>1. new.pc # "idle" /\ new # Idle
  BY IdleIsCall DEF Becomes, Live
<1>2. calls'[p].pc = new.pc /\ calls'[p].op = new.op /\ calls'[p].g = new.g
      /\ calls'[p].todo = new.todo /\ calls'[p].rows = new.rows /\ calls'[p].hits = new.hits
      /\ (calls'[p].alone => new.alone)
  BY DEF Becomes
<1>3. ASSUME new = Stamping(calls[p]), calls[p].op = "resync" PROVE Stamps(p)
  <2>1. /\ new.pc = "stamp" /\ new.op = calls[p].op /\ new.g = calls[p].g /\ new.todo = <<>>
        /\ new.rows = calls[p].rows /\ new.hits = {} /\ new.alone = calls[p].alone
    BY <1>3 DEF Stamping, CallRow
  <2> QED BY <1>2, <1>3, <2>1 DEF Stamps, Goes, Same
<1>4. ASSUME NEW T, new = On(calls[p], T)
      PROVE  Goes(p) /\ calls'[p].pc = "next" /\ calls'[p].todo = T
  <2>1. /\ new.pc = "next" /\ new.op = calls[p].op /\ new.g = calls[p].g /\ new.todo = T
        /\ new.rows = calls[p].rows /\ new.hits = {} /\ new.alone = calls[p].alone
    BY <1>4 DEF On, CallRow
  <2> QED BY <1>2, <2>1 DEF Goes, Same
<1>5. ASSUME DoneAs(calls[p], new) PROVE DoneSo(p)
  <2>1. CASE /\ calls[p].todo \in Longer /\ Tail(calls[p].todo) \in Left(calls[p].op)
             /\ new = On(calls[p], Tail(calls[p].todo))
    BY <1>4, <2>1 DEF DoneSo, Advances
  <2>2. CASE /\ calls[p].op = "resync" /\ calls[p].todo \in {AppendPending, DeleteLast}
             /\ new = Stamping(calls[p])
    BY <1>3, <2>2 DEF DoneSo
  <2> QED BY <1>1, <1>5, <2>1, <2>2 DEF DoneAs
<1>6. ASSUME FailedAs(calls[p], new) PROVE FailedSo(p)
  <2>1. CASE /\ calls[p].op = "edit" /\ calls[p].todo \in {RemoveThenMove, ThenMove}
             /\ new = On(calls[p], Move)
    BY <1>4, <2>1 DEF FailedSo, Insists
  <2>2. CASE calls[p].op = "resync" /\ calls[p].todo = DeleteLast /\ new = Stamping(calls[p])
    BY <1>3, <2>2 DEF FailedSo
  <2> QED BY <1>1, <1>6, <2>1, <2>2 DEF FailedAs
<1> QED BY <1>5, <1>6

(* Calls that only go on keep to their plans.                              *)
LEMMA StillPlanned ==
    ASSUME TypeOK, NEW p \in Call, Planned(p), Live(p), DoneSo(p) \/ FailedSo(p), Live(p)'
    PROVE  /\ Planned(p)' /\ Goes(p) /\ calls'[p].pc \in {"next", "stamp"}
           /\ calls'[p].hits = {}
<1>1. calls[p].op \in {"append", "move", "edit", "resync", "remove", "contact"}
      /\ calls[p] \in CallRow
  BY DEF TypeOK, CallRow
<1>2. Goes(p) /\ calls'[p].pc \in {"next", "stamp"}
      /\ (calls'[p].pc = "next" => calls'[p].todo \in Left(calls[p].op))
      /\ (calls'[p].pc = "stamp" => calls'[p].todo = <<>> /\ calls[p].op = "resync")
  BY <1>1, LeftPlans DEF DoneSo, FailedSo, Advances, Insists, Stamps
<1>3. IsFiniteSet({})
  BY FS_EmptySet
<1> QED BY <1>2, <1>3 DEF Planned, Goes, Same

(* The other calls keep to theirs.                                         *)
LEMMA OthersPlanned ==
    ASSUME PlanInv, NEW p \in Call, Rests(p), Live(p)' => Planned(p)',
           \A q \in Call \ {p} : calls[q].pc = "header" =>
              /\ once'[HeadTab(q)] = "running"
              /\ calls'[p].pc = "header" => HeadTab(p)' # HeadTab(q)
    PROVE  PlanInv'
<1>1. ASSUME NEW q \in Call \ {p}, Live(q)' PROVE Planned(q)'
  <2>1. Becomes(q, calls[q]) /\ Live(q) /\ Planned(q)
    BY <1>1 DEF Rests, Becomes, Live, PlanInv
  <2>2. \A r \in Call \ {p} : calls'[r].pc = "header" => calls[r].pc = "header" /\ HeadTab(r)' = HeadTab(r)
    BY DEF Rests, Becomes, HeadTab
  <2>3. HeadTab(q)' = HeadTab(q)
    BY <2>1 DEF Becomes, HeadTab
  <2>4. calls'[q].pc = "header" =>
          /\ Head(calls'[q].todo).do = "append" /\ once'[HeadTab(q)'] = "running"
          /\ \A r \in Call : calls'[r].pc = "header" /\ HeadTab(r)' = HeadTab(q)' => r = q
    BY <2>1, <2>2, <2>3 DEF Planned, Becomes
  <2> QED BY <2>1, <2>4 DEF Planned, Becomes
<1> QED BY <1>1 DEF PlanInv

(* Nobody's row numbers are outdated without a mark when a tab keeps its   *)
(* length and who its rows name, but for headers.                          *)
LEMMA OthersCounted ==
    ASSUME HitsInv, NEW p \in Call, Rests(p),
           calls'[p].pc = "write" /\ ~calls'[p].stale => Counted(p)',
           \A q \in Call \ {p} : calls[q].pc = "write" /\ ~calls'[q].stale =>
              \A i \in DOMAIN tabs[HeadTab(q)] :
                 /\ i \in DOMAIN tabs'[HeadTab(q)]
                 /\ tabs'[HeadTab(q)][i].g \in {tabs[HeadTab(q)][i].g, Header}
    PROVE  HitsInv'
<1>1. ASSUME NEW q \in Call \ {p}, calls'[q].pc = "write", ~calls'[q].stale
      PROVE  Counted(q)'
  <2>1. calls[q].pc = "write" /\ ~calls[q].stale /\ HeadTab(q)' = HeadTab(q)
        /\ calls'[q].hits = calls[q].hits /\ calls'[q].g = calls[q].g
    BY <1>1 DEF Rests, Becomes, HeadTab
  <2>2. Counted(q)
    BY <2>1 DEF HitsInv
  <2> QED BY <1>1, <2>1, <2>2 DEF Counted
<1> QED BY <1>1 DEF HitsInv

LEMMA OthersAlone ==
    ASSUME AloneInv, NEW p \in Call, Rests(p), UNCHANGED db, Live(p)' => Same(p),
           \A q \in Call \ {p} :
              Live(q) /\ calls'[q].alone /\ calls[q].pc = "write" /\ ~calls'[q].stale =>
                 RowNumbers(calls[q].g, tabs'[HeadTab(q)])
                    \subseteq RowNumbers(calls[q].g, tabs[HeadTab(q)]),
           calls'[p].pc = "write" /\ ~calls'[p].stale /\ calls'[p].alone =>
              RowNumbers(calls'[p].g, tabs'[HeadTab(p)']) \subseteq calls'[p].hits
    PROVE  AloneInv'
<1>1. \A q \in Call : Live(q)' => Live(q) /\ calls'[q].g = calls[q].g
                                  /\ calls'[q].op = calls[q].op
                                  /\ (calls'[q].alone => calls[q].alone)
  BY DEF Same, Rests, Becomes, Live
<1>3. ASSUME NEW q \in Call, Live(q)', calls'[q].alone PROVE Alone(q)'
  <2>1. Alone(q)
    BY <1>1, <1>3 DEF AloneInv
  <2>2. \A r \in Call \ {q} : Live(r)' => calls'[r].g # calls'[q].g
    BY <1>1, <1>3, <2>1 DEF Alone
  <2>3. calls'[q].op # "remove" => db'[calls'[q].g].st \notin {"none", "deleted"}
    BY <1>1, <1>3, <2>1 DEF Alone, Registers
  <2>4. calls'[q].pc = "write" /\ ~calls'[q].stale =>
          RowNumbers(calls'[q].g, tabs'[HeadTab(q)']) \subseteq calls'[q].hits
    <3>1. CASE q = p
      BY <1>3, <3>1
    <3>2. CASE q # p
      <4>1. Becomes(q, calls[q]) /\ HeadTab(q)' = HeadTab(q)
        BY <3>2 DEF Rests, Becomes, HeadTab
      <4> QED BY <1>3, <2>1, <3>2, <4>1 DEF Becomes, Alone, Live
    <3> QED BY <3>1, <3>2
  <2> QED BY <2>2, <2>3, <2>4 DEF Alone, Registers, RowNumbers
<1> QED BY <1>3 DEF AloneInv

LEMMA RowsStay ==
    ASSUME TypeOK, TypeOK', NEW g, NEW u \in Tab, SameRows(g, tabs[u], tabs'[u])
    PROVE  RowsOf(g, u)' = RowsOf(g, u) /\ (Has(g, u)' <=> Has(g, u))
<1>1. tabs[u] \in Seq(Row) /\ tabs'[u] \in Seq(Row)
  BY DEF TypeOK
<1>2. RowsOf(g, u)' = Picked(tabs'[u], RowNumbers(g, tabs'[u]))
      /\ RowsOf(g, u) = Picked(tabs[u], RowNumbers(g, tabs[u]))
      /\ (Has(g, u)' <=> RowNumbers(g, tabs'[u]) # {})
      /\ (Has(g, u) <=> RowNumbers(g, tabs[u]) # {})
  BY DEF RowsOf, Has, RowNumbers, Picked
<1> QED BY <1>1, <1>2, SameRowsSame DEF SameRows

(* A tab keeps the rows of g, unless its header is still being written;    *)
(* then it may lose them, but none comes.                                  *)
Keeps(g) ==
    \A u \in Tab : /\ once[u] = "done" => once'[u] = "done" /\ SameRows(g, tabs[u], tabs'[u])
                   /\ RowNumbers(g, tabs[u]) = {} => RowNumbers(g, tabs'[u]) = {}

LEMMA SameRowsKept ==
    ASSUME TypeOK, TypeOK', NEW g, \A u \in Tab : SameRows(g, tabs[u], tabs'[u]),
           \A u \in Tab : once[u] = "done" => once'[u] = "done"
    PROVE  Keeps(g)
<1>1. \A u \in Tab : tabs[u] \in Seq(Row) /\ tabs'[u] \in Seq(Row)
  BY DEF TypeOK
<1> QED BY <1>1, SameRowsSame DEF Keeps

LEMMA OthersResynced ==
    ASSUME TypeOK, TypeOK', ResyncInv, NEW p \in Call, Rests(p),
           \A q \in Call \ {p} : Live(q) /\ calls[q].alone /\ calls'[q].alone =>
              Keeps(calls[q].g),
           Live(p)' /\ calls'[p].op = "resync" /\ calls'[p].alone => Resynced(p)'
    PROVE  ResyncInv'
<1>1. ASSUME NEW q \in Call \ {p}, Live(q)', calls'[q].op = "resync", calls'[q].alone
      PROVE  Resynced(q)'
  <2>1. Becomes(q, calls[q]) /\ Live(q) /\ calls[q].op = "resync" /\ calls[q].alone
    BY <1>1 DEF Rests, Becomes, Live
  <2>2. PICK g : g = calls[q].g
    OBVIOUS
  <2>3. Resynced(q) /\ calls'[q].g = g /\ calls'[q].todo = calls[q].todo
        /\ calls'[q].rows = calls[q].rows /\ calls'[q].pc = calls[q].pc
    BY <2>1, <2>2 DEF ResyncInv, Becomes
  <2>4. Keeps(g)
    BY <1>1, <2>1, <2>2
  <2>5. \A u \in Tab : ~Has(g, u) => ~Has(g, u)'
    BY <2>4 DEF Keeps, Has
  <2>6. \A u \in Tab : Written(q, u) => Written(q, u)'
    <3>1. \A u \in Tab : once[u] = "done" => once'[u] = "done" /\ RowsOf(g, u)' = RowsOf(g, u)
      BY <2>4, RowsStay DEF Keeps
    <3> QED BY <2>2, <2>3, <3>1 DEF Written, RowsOf
  <2> QED BY <2>2, <2>3, <2>5, <2>6 DEF Resynced, Has, Tab
<1> QED BY <1>1 DEF ResyncInv

LEMMA OthersListed ==
    ASSUME NEW p \in Call, Rests(p), UNCHANGED db, Live(p)' => Same(p), NEW g, Kept(g),
           \E u \in Tab : Safe(g, u)',
           \A q \in Call \ {p} : Live(q) /\ calls[q].g = g /\ Safe(g, "paid") => Safe(g, "paid")',
           Live(p)' /\ calls[p].g = g => Sparing(p)'
    PROVE  Kept(g)'
<1>1. \A q \in Call : Live(q)' => Live(q) /\ calls'[q].g = calls[q].g
  BY DEF Same, Rests, Becomes, Live
<1>2. Registers(g)'
  BY DEF Kept, Registers
<1>3. ASSUME NEW q \in Call, Live(q)', calls'[q].g = g
      PROVE  Sparing(q)' /\ \A r \in Call : Live(r)' /\ calls'[r].g = g => r = q
  <2>1. Sparing(q) /\ \A r \in Call : Live(r) /\ calls[r].g = g => r = q
    BY <1>1, <1>3 DEF Kept
  <2>2. Sparing(q)'
    <3>1. CASE q = p
      BY <1>1, <1>3, <3>1
    <3>2. CASE q # p
      <4>1. Becomes(q, calls[q])
        BY <3>2 DEF Rests
      <4>2. Safe(g, "paid") => Safe(g, "paid")'
        BY <1>1, <1>3, <3>2
      <4> QED BY <1>1, <1>3, <2>1, <4>1, <4>2 DEF Sparing, Becomes, Safe, Has, Disturbed
    <3> QED BY <3>1, <3>2
  <2> QED BY <1>1, <2>1, <2>2
<1> QED BY <1>2, <1>3 DEF Kept, Safe, Has, Disturbed

----------------------------------------------------------------------------
(* The callers.                                                            *)

LEMMA BeginRests ==
    ASSUME TypeOK, NEW p \in Call, NEW call \in CallRow, call.g \in Group, Begin(p, call)
    PROVE  /\ Rests(p) /\ calls'[p].pc = call.pc /\ calls'[p].op = call.op
           /\ calls'[p].g = call.g /\ calls'[p].todo = call.todo
           /\ calls'[p].rows = call.rows /\ calls'[p].hits = call.hits
<1>1. calls \in [Call -> CallRow]
  BY DEF TypeOK
<1>2. ASSUME NEW new \in CallRow, NEW x, NEW then, then = [new EXCEPT !.alone = x]
      PROVE  /\ then.pc = new.pc /\ then.op = new.op /\ then.g = new.g /\ then.todo = new.todo
             /\ then.rows = new.rows /\ then.hits = new.hits /\ then.stale = new.stale
  BY <1>2 DEF CallRow
<1>3. calls'[p] = [call EXCEPT !.alone = calls'[p].alone]
      /\ \A q \in Call \ {p} : calls'[q] = [calls[q] EXCEPT !.alone = calls'[q].alone]
                              /\ (calls'[q].alone => calls[q].alone)
  BY BeginFacts
<1>4. ASSUME NEW q \in Call \ {p} PROVE Becomes(q, calls[q])
  <2>1. calls[q] \in CallRow /\ calls'[q] = [calls[q] EXCEPT !.alone = calls'[q].alone]
        /\ (calls'[q].alone => calls[q].alone)
    BY <1>1, <1>3
  <2>2. PICK x : x = calls'[q].alone
    OBVIOUS
  <2>3. calls'[q] = [calls[q] EXCEPT !.alone = x]
    BY <2>1, <2>2
  <2>4. /\ calls'[q].pc = calls[q].pc /\ calls'[q].op = calls[q].op /\ calls'[q].g = calls[q].g
        /\ calls'[q].todo = calls[q].todo /\ calls'[q].rows = calls[q].rows
        /\ calls'[q].hits = calls[q].hits /\ calls'[q].stale = calls[q].stale
    BY <1>2, <2>1, <2>3
  <2> QED BY <2>1, <2>4 DEF Becomes
<1>5. /\ calls'[p].pc = call.pc /\ calls'[p].op = call.op
      /\ calls'[p].g = call.g /\ calls'[p].todo = call.todo
      /\ calls'[p].rows = call.rows /\ calls'[p].hits = call.hits
  <2>1. PICK x : x = calls'[p].alone
    OBVIOUS
  <2>2. calls'[p] = [call EXCEPT !.alone = x]
    BY <1>3, <2>1
  <2> QED BY <1>2, <2>2
<1> QED BY <1>4, <1>5 DEF Rests

LEMMA BeginStep ==
    ASSUME IInv, NEW p \in Call, NEW g \in Group, Commit(g), NEW call, Calls(p, g, call)
    PROVE  IInv'
<1>1. /\ TypeOK /\ call \in CallRow /\ call.g = g /\ Begin(p, call) /\ Starts(call)
      /\ call.pc \in {"next", "load"}
      /\ \A i \in DOMAIN call.rows : call.rows[i].g = g
  BY DEF IInv, Calls, Starts
<1>2. /\ Rests(p) /\ calls'[p].pc = call.pc /\ calls'[p].op = call.op
      /\ calls'[p].g = g /\ calls'[p].todo = call.todo
      /\ calls'[p].rows = call.rows /\ calls'[p].hits = call.hits
  BY <1>1, BeginRests
<1>3. /\ calls' \in [Call -> CallRow] /\ ~Live(p)
      /\ calls'[p].alone => \A q \in Call \ {p} : Live(q) => calls[q].g # g
      /\ \A q \in Call \ {p} :
            /\ calls'[q].alone => calls[q].alone
            /\ Live(q) /\ calls'[q].alone => calls[q].g # g
      /\ listed' \subseteq listed
      /\ g \in listed' => /\ call.op \in {"append", "move", "contact"}
                          /\ \A q \in Call \ {p} : Live(q) => calls[q].g # g
      /\ commits' \in 0..MaxCommits
      /\ UNCHANGED <<tabs, once, faults, headless>>
  BY <1>1, BeginFacts
<1>4. TypeOK'
  BY <1>1, <1>3 DEF TypeOK, Commit
<1>5. PlanInv'
  <2>1. call.todo \in Left(call.op) /\ IsFiniteSet({})
    BY <1>1, FS_EmptySet DEF Starts, Left
  <2>2. Planned(p)'
    BY <1>1, <1>2, <2>1 DEF Planned, Starts
  <2>3. \A q \in Call \ {p} : calls[q].pc = "header" => once'[HeadTab(q)] = "running"
    BY <1>3 DEF IInv, PlanInv, Planned, Live
  <2> QED BY <1>1, <1>2, <2>2, <2>3, OthersPlanned DEF IInv
<1>6. HitsInv'
  BY <1>1, <1>2, <1>3, OthersCounted DEF IInv, HitsInv, Counted
<1>7. HeaderInv'
  <2>1. \A q \in Call : calls'[q].pc = "write" =>
          calls[q].pc = "write" /\ HeadTab(q)' = HeadTab(q) /\ calls'[q].hits = calls[q].hits
    BY <1>1, <1>2 DEF Rests, Becomes, HeadTab
  <2> QED BY <1>3, <2>1 DEF IInv, HeaderInv, Headed
<1>8. BodyInv'
  BY <1>3 DEF IInv, BodyInv
<1>9. DbInv'
  <2>1. \A h \in Group \ {g} : (Registers(h)' <=> Registers(h)) /\ db'[h] = db[h]
    BY DEF Commit, Registers
  <2> QED BY <2>1 DEF IInv, DbInv, Commit
<1>10. AloneInv'
  <2>1. ASSUME NEW q \in Call \ {p}, Live(q)', calls'[q].alone PROVE Alone(q)'
    <3>1. Becomes(q, calls[q]) /\ Live(q) /\ calls[q].alone /\ calls[q].g # g /\ Alone(q)
          /\ calls[q] \in CallRow
      BY <1>2, <1>3, <2>1 DEF Rests, Becomes, Live, IInv, AloneInv, TypeOK
    <3>2. \A r \in Call \ {q} : Live(r)' => calls'[r].g # calls'[q].g
      <4> TAKE r \in Call \ {q}
      <4>1. CASE r = p
        BY <1>2, <3>1, <4>1 DEF Becomes
      <4>2. CASE r # p
        <5>1. Becomes(r, calls[r])
          BY <1>2, <4>2 DEF Rests
        <5> QED BY <3>1, <5>1 DEF Becomes, Alone, Live
      <4> QED BY <4>1, <4>2
    <3>3. calls[q].g \in Group /\ db'[calls[q].g] = db[calls[q].g]
      BY <3>1 DEF CallRow, Commit
    <3>4. calls'[q].op # "remove" => db'[calls'[q].g].st \notin {"none", "deleted"}
      BY <3>1, <3>3 DEF Alone, Registers, Becomes
    <3>5. calls'[q].pc = "write" /\ ~calls'[q].stale =>
            RowNumbers(calls'[q].g, tabs'[HeadTab(q)']) \subseteq calls'[q].hits
      BY <1>3, <3>1 DEF Alone, Becomes, HeadTab
    <3> QED BY <3>2, <3>4, <3>5 DEF Alone, Registers, RowNumbers
  <2>2. ASSUME calls'[p].alone PROVE Alone(p)'
    <3>1. \A r \in Call \ {p} : Live(r)' => calls'[r].g # calls'[p].g
      BY <1>2, <1>3, <2>2 DEF Rests, Becomes, Live
    <3>2. calls'[p].op # "remove" => db'[calls'[p].g].st \notin {"none", "deleted"}
      BY <1>2 DEF Calls, Registers
    <3> QED BY <1>1, <1>2, <3>1, <3>2 DEF Alone, Registers
  <2> QED BY <2>1, <2>2 DEF AloneInv
<1>11. ResyncInv'
  <2>1. \A h : \A u \in Tab : SameRows(h, tabs[u], tabs'[u])
    BY <1>3 DEF SameRows
  <2>2. \A q \in Call : Keeps(calls[q].g)
    BY <1>1, <1>3, <1>4, <2>1, SameRowsKept
  <2>3. ASSUME calls'[p].op = "resync" PROVE Resynced(p)'
    <3>1. call.todo \in {RemoveThenMove, RemoveThenAppend} /\ call.pc # "stamp"
      BY <1>1, <1>2, <2>3 DEF Starts
    <3>2. calls'[p].todo \notin {ThenMove, ThenAppend, Move, AppendPending, DeleteLast}
      BY <1>2, <3>1, PlansDiffer
    <3> QED BY <1>2, <3>1, <3>2 DEF Resynced
  <2> QED BY <1>1, <1>2, <1>4, <2>2, <2>3, OthersResynced DEF IInv
<1>12. ListedInv'
  <2> SUFFICES ASSUME NEW h \in listed' PROVE Kept(h)'
    BY DEF ListedInv
  <2>1. Kept(h) /\ h \in Group
    BY <1>1, <1>3 DEF IInv, ListedInv, TypeOK
  <2>2. \A u \in Tab : Safe(h, u)' <=> Safe(h, u)
    BY <1>3 DEF Safe, Has, Disturbed
  <2>3. CASE h # g
    <3>1. \A q \in Call : Live(q)' /\ calls'[q].g = h => q # p /\ Live(q) /\ calls[q].g = h
      BY <1>2, <2>3 DEF Rests, Becomes, Live
    <3>2. Registers(h)'
      BY <2>1, <2>3 DEF Kept, Registers, Commit
    <3>3. ASSUME NEW q \in Call, Live(q)', calls'[q].g = h PROVE Sparing(q)'
      <4>1. Sparing(q) /\ Becomes(q, calls[q])
        BY <1>2, <2>1, <3>1, <3>3 DEF Kept, Rests
      <4>2. Safe(h, "paid") => Safe(h, "paid")'
        BY <2>2 DEF Tab
      <4>3. calls[q].g = h
        BY <3>1, <3>3
      <4> QED BY <3>3, <4>1, <4>2, <4>3 DEF Sparing, Becomes, Safe, Has, Disturbed
    <3> QED BY <2>1, <2>2, <3>1, <3>2, <3>3 DEF Kept
  <2>4. CASE h = g
    <3>1. /\ call.op \in {"append", "move", "contact"} /\ Registers(g)
          /\ \A q \in Call \ {p} : Live(q) => calls[q].g # g
      BY <1>3, <2>1, <2>4 DEF Kept
    <3>2. \A q \in Call : Live(q)' /\ calls'[q].g = g => q = p
      BY <1>2, <3>1 DEF Rests, Becomes, Live
    <3>3. Registers(g)' /\ call.op # "append" /\ (call.op = "move" => call.pc = "load")
      BY <3>1 DEF Calls
    <3>4. call.todo \in {Move, UpdateContactByGroupID}
      BY <1>1, <3>1, <3>3 DEF Starts
    <3>5. Sparing(p)'
      BY <1>2, <3>1, <3>3, <3>4, PlansDiffer DEF Sparing
    <3> QED BY <2>1, <2>2, <2>4, <3>2, <3>3, <3>5 DEF Kept
  <2> QED BY <2>3, <2>4
<1> QED BY <1>4, <1>5, <1>6, <1>7, <1>8, <1>9, <1>10, <1>11, <1>12 DEF IInv

LEMMA NoCallStep ==
    ASSUME IInv, NEW g \in Group, Commit(g), NoCall(g)
    PROVE  IInv'
<1>1. UNCHANGED <<tabs, once, calls, faults, listed, headless>> /\ commits' \in 0..MaxCommits
  <2>1. commits \in 0..MaxCommits /\ MaxCommits \in Nat
    BY SheetAssumption DEF IInv, TypeOK
  <2> QED BY <2>1 DEF NoCall, Commits
<1>2. TypeOK'
  BY <1>1 DEF IInv, TypeOK, Commit
<1>3. \A h \in Group : Registers(h) => db'[h].st \notin {"none", "deleted"}
  BY DEF Commit, NoCall, Registers
<1>4. PlanInv' /\ HitsInv' /\ HeaderInv' /\ BodyInv'
  BY <1>1 DEF IInv, PlanInv, Planned, Live, HeadTab, HitsInv, Counted, HeaderInv, Headed, BodyInv
<1>5. DbInv'
  <2>1. \A h \in Group \ {g} : (Registers(h)' <=> Registers(h)) /\ db'[h] = db[h]
    BY DEF Commit, Registers
  <2> QED BY <2>1 DEF IInv, DbInv, Commit
<1>6. AloneInv'
  <2>1. ASSUME NEW q \in Call, Live(q), calls[q].alone, Alone(q) PROVE Alone(q)'
    <3>1. calls[q].g \in Group
      BY DEF IInv, TypeOK, CallRow
    <3>2. calls[q].op # "remove" => db'[calls[q].g].st \notin {"none", "deleted"}
      BY <1>3, <2>1, <3>1 DEF Alone
    <3> QED BY <1>1, <2>1, <3>2 DEF Alone, Live, Registers, RowNumbers, HeadTab
  <2> QED BY <1>1, <2>1 DEF IInv, AloneInv, Live
<1>7. ResyncInv'
  BY <1>1 DEF IInv, ResyncInv, Resynced, Written, RowsOf, Has, Live
<1>8. ListedInv'
  <2>1. ASSUME NEW h \in listed, Kept(h) PROVE Kept(h)'
    <3>1. Registers(h)'
      <4>1. h \in Group /\ Registers(h)
        BY <2>1 DEF IInv, TypeOK, Kept
      <4> QED BY <4>1, <1>3 DEF Registers
    <3>2. \A q \in Call : Live(q) => (Sparing(q)' <=> Sparing(q))
      BY <1>1 DEF Sparing, Safe, Has, Disturbed
    <3> QED BY <1>1, <2>1, <3>1, <3>2 DEF Kept, Safe, Has, Disturbed, Live
  <2> QED BY <1>1, <2>1 DEF IInv, ListedInv
<1> QED BY <1>2, <1>4, <1>5, <1>6, <1>7, <1>8 DEF IInv
----------------------------------------------------------------------------
(* Steps that change neither tab.                                          *)

(* Which plans a request belongs to.                                       *)
LEMMA RequestOf ==
    ASSUME NEW op \in {"append", "move", "edit", "resync", "remove", "contact"},
           NEW todo \in Left(op), NEW do, NEW t, Head(todo) = [do |-> do, tab |-> t]
    PROVE  /\ t \in Tab /\ do \in {"append", "delete", "contact"}
           /\ do = "append" => \/ t = "paid" /\ todo = Move
                               \/ t = "pending" /\ todo = AppendPending
           /\ do = "delete" => \/ t = "pending" /\ todo \in {DeleteLast, ThenMove, ThenAppend}
                               \/ t = "paid" /\ todo \in {RemoveByGroupID, RemoveThenMove,
                                                          RemoveThenAppend}
           /\ do = "contact" => op = "contact"
<1>1. \/ todo \in {AppendPending, DeleteLast, Move, RemoveByGroupID, ThenMove, RemoveThenMove,
                   ThenAppend, RemoveThenAppend}
      \/ op = "contact" /\ todo \in {UpdateContactByGroupID, ContactPending}
  BY DEF Left
<1>2. [do |-> do, tab |-> t].do = do /\ [do |-> do, tab |-> t].tab = t
  OBVIOUS
<1>3. CASE todo = AppendPending
  BY <1>2, <1>3, PlanHeads DEF AppendTo, Tab
<1>4. CASE todo = Move
  BY <1>2, <1>4, PlanHeads DEF AppendTo, Tab
<1>5. CASE todo \in {DeleteLast, ThenMove, ThenAppend}
  BY <1>2, <1>5, PlanHeads DEF DeleteIn, Tab
<1>6. CASE todo \in {RemoveByGroupID, RemoveThenMove, RemoveThenAppend}
  BY <1>2, <1>6, PlanHeads DEF DeleteIn, Tab
<1>7. CASE op = "contact" /\ todo \in {UpdateContactByGroupID, ContactPending}
  BY <1>2, <1>7, PlanHeads DEF ContactIn, Tab
<1> QED BY <1>1, <1>3, <1>4, <1>5, <1>6, <1>7

LEMMA DoingFacts ==
    ASSUME TypeOK, PlanInv, NEW p \in Call, NEW pc \in {"next", "header", "write"}, NEW do, NEW t,
           Doing(p, pc, do, t)
    PROVE  /\ Live(p) /\ Planned(p) /\ calls[p].pc = pc /\ calls[p] \in CallRow
           /\ calls[p].todo \in Left(calls[p].op) /\ HeadTab(p) = t
           /\ calls[p].op \in {"append", "move", "edit", "resync", "remove", "contact"}
           /\ t \in Tab /\ do \in {"append", "delete", "contact"}
           /\ do = "append" => \/ t = "paid" /\ calls[p].todo = Move
                               \/ t = "pending" /\ calls[p].todo = AppendPending
           /\ do = "delete" =>
                \/ t = "pending" /\ calls[p].todo \in {DeleteLast, ThenMove, ThenAppend}
                \/ t = "paid" /\ calls[p].todo \in {RemoveByGroupID, RemoveThenMove,
                                                    RemoveThenAppend}
           /\ do = "contact" => calls[p].op = "contact"
<1>1. calls[p].pc = pc /\ Head(calls[p].todo) = [do |-> do, tab |-> t]
  BY DEF Doing
<1>2. Live(p) /\ calls[p] \in CallRow
  BY <1>1 DEF Live, TypeOK
<1>3. Planned(p) /\ calls[p].todo \in Left(calls[p].op)
      /\ calls[p].op \in {"append", "move", "edit", "resync", "remove", "contact"}
  BY <1>1, <1>2 DEF PlanInv, Planned, CallRow
<1>4. HeadTab(p) = t
  BY <1>1 DEF HeadTab
<1> QED BY <1>1, <1>2, <1>3, <1>4, RequestOf

LEMMA QuietStep ==
    ASSUME IInv, NEW p \in Call, Rests(p), calls' \in [Call -> CallRow],
           UNCHANGED <<db, tabs, once, listed, headless>>,
           commits' \in 0..MaxCommits, faults' \in 0..MaxFaults,
           Live(p)' => Same(p) /\ Planned(p)' /\ calls'[p].pc # "header",
           calls'[p].pc = "write" =>
              /\ calls'[p].hits = RowNumbers(calls'[p].g, tabs[HeadTab(p)'])
              /\ calls'[p].hits # {} /\ HeadTab(p)' \in Tab /\ calls'[p].g \in Group,
           Live(p)' /\ calls'[p].op = "resync" /\ calls'[p].alone => Resynced(p)',
           Live(p)' /\ calls[p].g \in listed => Sparing(p)'
    PROVE  IInv'
<1>1. TypeOK'
  BY DEF IInv, TypeOK
<1>2. PlanInv'
  <2>1. \A q \in Call \ {p} : calls[q].pc = "header" => once'[HeadTab(q)] = "running"
    BY DEF IInv, PlanInv, Planned, Live
  <2>2. calls'[p].pc # "header"
    BY DEF Live
  <2> QED BY <2>1, <2>2, OthersPlanned DEF IInv
<1>3. calls'[p].pc = "write" => tabs[HeadTab(p)'] \in Seq(Row)
  BY DEF IInv, TypeOK
<1>4. HitsInv'
  <2>1. calls'[p].pc = "write" => Counted(p)'
    BY <1>3 DEF Counted, RowNumbers
  <2> QED BY <2>1, OthersCounted DEF IInv, HitsInv, Counted
<1>5. HeaderInv'
  <2> SUFFICES ASSUME NEW t \in Tab \ headless PROVE Headed(t)'
    BY DEF HeaderInv
  <2>1. Headed(t) /\ Header \notin Group /\ HeaderRow.g = Header
    BY SheetAssumption DEF IInv, HeaderInv, HeaderRow, Blank
  <2>2. ASSUME NEW q \in Call, calls'[q].pc = "write", HeadTab(q)' = t
        PROVE  tabs[t] # <<>> /\ 1 \notin calls'[q].hits
    <3>1. CASE q = p
      <4>1. calls'[p].hits = RowNumbers(calls'[p].g, tabs[t]) /\ calls'[p].g \in Group
        BY <2>2, <3>1
      <4>2. PICK i \in DOMAIN tabs[t] : tabs[t][i].g = calls'[p].g
        BY <2>2, <3>1, <4>1 DEF RowNumbers
      <4>3. tabs[t] # <<>>
        BY <4>2
      <4>4. tabs[t][1].g # calls'[p].g
        BY <2>1, <4>1, <4>3 DEF Headed
      <4> QED BY <3>1, <4>1, <4>3, <4>4 DEF RowNumbers
    <3>2. CASE q # p
      BY <2>1, <2>2, <3>2 DEF Rests, Becomes, HeadTab, Headed
    <3> QED BY <3>1, <3>2
  <2> QED BY <2>1, <2>2 DEF Headed
<1>6. BodyInv' /\ DbInv'
  BY DEF IInv, BodyInv, DbInv, Registers
<1>7. AloneInv'
  BY OthersAlone DEF IInv, RowNumbers, Live, Same
<1>8. ResyncInv'
  <2>1. \A h : \A u \in Tab : SameRows(h, tabs[u], tabs'[u])
    BY DEF SameRows
  <2>2. \A q \in Call : Keeps(calls[q].g)
    BY <1>1, <2>1, SameRowsKept DEF IInv
  <2> QED BY <1>1, <2>2, OthersResynced DEF IInv
<1>9. ListedInv'
  <2> SUFFICES ASSUME NEW h \in listed, Kept(h) PROVE Kept(h)'
    BY DEF IInv, ListedInv
  <2>1. \A u \in Tab : Safe(h, u)' <=> Safe(h, u)
    BY DEF Safe, Has, Disturbed
  <2>2. \E u \in Tab : Safe(h, u)'
    BY <2>1 DEF Kept
  <2>3. \A q \in Call \ {p} : Live(q) /\ calls[q].g = h /\ Safe(h, "paid") => Safe(h, "paid")'
    BY <2>1 DEF Tab
  <2> QED BY <2>2, <2>3, OthersListed
<1> QED BY <1>1, <1>2, <1>4, <1>5, <1>6, <1>7, <1>8, <1>9 DEF IInv

LEMMA ResyncEnds ==
    ASSUME NEW p \in Call, NEW t \in Tab, calls'[p].todo = <<>>, Written(p, t)',
           \A u \in Tab \ {t} : RowNumbers(calls'[p].g, tabs'[u]) = {}
    PROVE  Resynced(p)'
<1>1. <<>> \notin {ThenMove, ThenAppend, Move, AppendPending, DeleteLast}
  BY PlansDiffer
<1> QED BY <1>1 DEF Resynced, Has

(* The call fails, and the tabs stay.                                      *)
LEMMA FailStep ==
    ASSUME IInv, NEW p \in Call, Live(p), Rests(p), calls' \in [Call -> CallRow],
           UNCHANGED <<db, tabs, once, commits, listed, headless>>, faults' \in 0..MaxFaults,
           FailedSo(p)
    PROVE  IInv'
<1>1. Planned(p)
  BY DEF IInv, PlanInv
<1>2. ASSUME Live(p)' PROVE Same(p) /\ Planned(p)' /\ calls'[p].pc \in {"next", "stamp"}
  BY <1>1, <1>2, StillPlanned DEF IInv, Goes
<1>3. calls'[p].pc \notin {"header", "write"}
  BY <1>2 DEF Live
<1>4. ASSUME Live(p)', calls'[p].op = "resync", calls'[p].alone PROVE Resynced(p)'
  <2>1. Stamps(p) /\ calls[p].todo = DeleteLast /\ Goes(p) /\ Same(p) /\ calls[p].alone
        /\ calls[p].op = "resync" /\ Live(p)
    BY <1>2, <1>4 DEF FailedSo, Insists, Stamps, Goes, Same
  <2>2. Resynced(p)
    BY <2>1 DEF IInv, ResyncInv
  <2>3. Written(p, "paid") /\ ~Has(calls[p].g, "pending")
    BY <2>1, <2>2 DEF Resynced
  <2>4. calls'[p].todo = <<>> /\ calls'[p].g = calls[p].g /\ calls'[p].rows = calls[p].rows
    BY <2>1 DEF Stamps, Goes, Same
  <2>5. Written(p, "paid")' /\ RowNumbers(calls'[p].g, tabs'["pending"]) = {}
    BY <2>3, <2>4 DEF Written, RowsOf, Has
  <2> QED BY <2>4, <2>5, ResyncEnds DEF Tab
<1>5. ASSUME Live(p)', calls[p].g \in listed PROVE Sparing(p)'
  <2>1. Sparing(p)
    BY <1>5 DEF IInv, ListedInv, Kept
  <2>2. calls[p].op = "edit" => calls[p].todo \in {<<>>, DeleteLast}
    BY <2>1 DEF Sparing
  <2>3. ~Insists(p)
    BY <2>2, PlansDiffer DEF Insists
  <2>4. Stamps(p)
    BY <1>5, <2>3 DEF FailedSo
  <2>5. calls'[p].op = "resync" /\ calls'[p].todo = <<>>
    BY <2>4 DEF Stamps, Goes, Same
  <2> QED BY <2>5, PlansDiffer DEF Sparing
<1> QED BY <1>2, <1>3, <1>4, <1>5, QuietStep DEF IInv, TypeOK

(* A request that fails without effect, or a call that ends.               *)
LEMMA FailedStep ==
    ASSUME IInv, NEW p \in Call, Live(p), calls[p].todo \in Left(calls[p].op), Fails(p),
           UNCHANGED <<db, tabs, once, commits, listed, headless>>
    PROVE  IInv'
<1>1. /\ calls' \in [Call -> CallRow] /\ Rests(p) /\ faults' \in 0..MaxFaults
      /\ \E new \in CallRow : Becomes(p, new) /\ FailedAs(calls[p], new)
  BY FailsFacts DEF IInv
<1>2. FailedSo(p)
  BY <1>1, OutcomeFacts
<1> QED BY <1>1, <1>2, FailStep

LEMMA EndStep ==
    ASSUME IInv, NEW p \in Call, Live(p), calls' = [calls EXCEPT ![p] = Idle],
           UNCHANGED <<db, tabs, once, commits, faults, listed, headless>>
    PROVE  IInv'
<1>1. /\ calls' \in [Call -> CallRow] /\ Rests(p) /\ ~Live(p)'
  BY IdleIsCall, SetOneCall DEF IInv, Live
<1> QED BY <1>1, FailStep DEF FailedSo, IInv, TypeOK

LEMMA StampStep == ASSUME IInv, NEW p \in Call, StampOnly(p) PROVE IInv'
BY EndStep DEF StampOnly, Live

LEMMA LoadStep == ASSUME IInv, NEW p \in Call, LoadRows(p) PROVE IInv'
<1> DEFINE roster == db[calls[p].g].roster
           contact == IF calls[p].op = "edit" THEN db[calls[p].g].contact ELSE calls[p].contact
           rows == RowsForGroup(calls[p].g, roster, contact)
           new == [calls[p] EXCEPT !.pc = "next", !.rows = rows]
<1>1. calls[p].pc = "load" /\ Live(p) /\ Planned(p) /\ calls[p] \in CallRow
      /\ calls[p].g \in Group /\ calls[p].contact \in Contact
      /\ UNCHANGED <<db, tabs, once, commits, faults, listed, headless>>
  BY DEF LoadRows, Live, IInv, TypeOK, PlanInv, CallRow
<1>2. CASE calls' = [calls EXCEPT ![p] = Idle]
  BY <1>1, <1>2, EndStep
<1>3. CASE calls' = [calls EXCEPT ![p] = new]
  <2>1. roster \in SUBSET Camper /\ contact \in Contact
    <3>1. db[calls[p].g] \in Registered
      BY <1>1 DEF IInv, TypeOK
    <3> QED BY <1>1, <3>1 DEF Registered
  <2>2. rows \in Seq(Row) /\ (\A i \in DOMAIN rows : rows[i].g = calls[p].g)
        /\ (roster # {} => rows # <<>>)
    <3> HIDE DEF roster, contact
    <3> QED BY <1>1, <2>1, RowsForGroupFacts
  <2> HIDE DEF rows
  <2>3. /\ new \in CallRow /\ new.pc = "next" /\ new.op = calls[p].op /\ new.g = calls[p].g
        /\ new.todo = calls[p].todo /\ new.rows = rows /\ new.hits = calls[p].hits
        /\ new.alone = calls[p].alone
    BY <1>1, <2>2 DEF CallRow
  <2> HIDE DEF new
  <2>4. calls' \in [Call -> CallRow] /\ Rests(p) /\ calls'[p] = new
    BY <1>3, <2>3, SetOneCall DEF IInv
  <2>5. Same(p)
    BY <1>1, <2>3, <2>4 DEF Same
  <2>6. Planned(p)'
    BY <1>1, <2>2, <2>3, <2>4 DEF Planned
  <2>7. \/ calls[p].op = "move" /\ calls[p].todo = Move
        \/ calls[p].op = "edit" /\ calls[p].todo = RemoveThenMove
    BY <1>1 DEF Planned
  <2>8. ASSUME calls[p].g \in listed PROVE Sparing(p)'
    <3>1. Kept(calls[p].g) /\ Sparing(p)
      BY <1>1, <2>8 DEF IInv, ListedInv, Kept
    <3>2. calls[p].op = "move" /\ calls[p].todo = Move
      BY <2>7, <3>1, PlansDiffer DEF Sparing
    <3>3. roster # {}
      BY <1>1, <3>1 DEF IInv, DbInv, Kept
    <3> QED BY <2>2, <2>3, <2>4, <3>2, <3>3, PlansDiffer DEF Sparing
  <2> QED BY <1>1, <2>3, <2>4, <2>5, <2>6, <2>7, <2>8, QuietStep DEF IInv, TypeOK
<1> QED BY <1>2, <1>3 DEF LoadRows
(* After a delete, or when there is nothing to delete, a resync has cleared *)
(* one more tab.                                                           *)
LEMMA ResyncCleared ==
    ASSUME NEW p \in Call, NEW t \in Tab, Live(p), Live(p)', calls[p].op = "resync",
           \/ t = "pending" /\ calls[p].todo \in {DeleteLast, ThenMove, ThenAppend}
           \/ t = "paid" /\ calls[p].todo \in {RemoveByGroupID, RemoveThenMove, RemoveThenAppend},
           calls[p].todo # RemoveByGroupID,
           DoneSo(p) \/ FailedSo(p), Resynced(p),
           RowNumbers(calls[p].g, tabs'[t]) = {},
           \A u \in Tab \ {t} : tabs'[u] = tabs[u], UNCHANGED once
    PROVE  Resynced(p)'
<1>1. ASSUME NEW u \in Tab \ {t}
      PROVE  ~Has(calls[p].g, u) => RowNumbers(calls[p].g, tabs'[u]) = {}
  BY <1>1 DEF Has
<1>2. Goes(p) /\ calls'[p].g = calls[p].g /\ calls'[p].rows = calls[p].rows
  BY DEF DoneSo, FailedSo, Advances, Stamps, Insists, Goes, Same
<1>3. CASE calls[p].todo = DeleteLast
  <2>1. t = "pending" /\ Written(p, "paid")
    BY <1>3, PlansDiffer DEF Resynced
  <2>2. Written(p, "paid")'
    BY <1>2, <2>1 DEF Written, RowsOf, Tab
  <2>3. calls'[p].todo = <<>>
    BY <1>3, PlansDiffer, PlanTails DEF DoneSo, FailedSo, Advances, Insists, Stamps, Longer
  <2> QED BY <1>2, <2>1, <2>2, <2>3, ResyncEnds DEF Tab
<1>4. CASE calls[p].todo # DeleteLast
  <2>1. Advances(p)
    BY <1>4, PlansDiffer DEF DoneSo, FailedSo, Insists, Stamps
  <2>2. calls'[p].pc = "next" /\ calls'[p].todo = Tail(calls[p].todo)
    BY <2>1 DEF Advances
  <2>3. CASE calls[p].todo \in {ThenMove, ThenAppend}
    <3>1. t = "pending" /\ ~Has(calls[p].g, "paid")
      BY <2>3, PlansDiffer DEF Resynced
    <3>2. calls'[p].todo \in {Move, AppendPending}
      BY <2>2, <2>3, PlanTails
    <3>3. \A u \in Tab : RowNumbers(calls[p].g, tabs'[u]) = {}
      BY <1>1, <3>1 DEF Tab
    <3>4. calls'[p].todo # DeleteLast
      BY <3>2, PlansDiffer
    <3> QED BY <1>2, <2>2, <3>3, <3>4 DEF Resynced, Has, Tab
  <2>4. CASE calls[p].todo \in {RemoveThenMove, RemoveThenAppend}
    <3>1. t = "paid"
      BY <2>4, PlansDiffer
    <3>2. calls'[p].todo \in {ThenMove, ThenAppend}
      BY <2>2, <2>4, PlanTails
    <3>3. calls'[p].todo \notin {DeleteLast, Move, AppendPending}
      BY <3>2, PlansDiffer
    <3> QED BY <1>2, <2>2, <3>1, <3>3 DEF Resynced, Has
  <2> QED BY <1>4, <2>3, <2>4
<1> QED BY <1>3, <1>4

(* A resync has a plan of its own, longer than RemoveByGroupID.            *)
LEMMA NotInResync ==
    ASSUME NEW p \in Call, calls[p].op = "resync", calls[p].todo \in Left(calls[p].op)
    PROVE  calls[p].todo # RemoveByGroupID
<1>1. Len(RemoveByGroupID) = 2 /\ Len(RemoveThenMove) = 4 /\ Len(RemoveThenAppend) = 3
  BY PlanLengths
<1>2. RemoveByGroupID \notin {RemoveThenMove, RemoveThenAppend}
  BY <1>1
<1>3. RemoveByGroupID \notin {ThenMove, ThenAppend, Move, DeleteLast, AppendPending}
  BY PlansDiffer
<1> QED BY <1>2, <1>3 DEF Left

(* A listed group loses rows to a delete only when the other tab has some. *)
LEMMA SparingDeletes ==
    ASSUME TypeOK, NEW p \in Call, Planned(p), Live(p), calls[p].pc # "load", Sparing(p),
           calls[p].todo \in {DeleteLast, ThenMove, ThenAppend, RemoveByGroupID, RemoveThenMove,
                              RemoveThenAppend}
    PROVE  calls[p].todo = DeleteLast /\ calls[p].op \in {"move", "edit", "resync"}
<1>1. calls[p].op \in {"append", "move", "edit", "resync", "contact"}
      /\ (calls[p].op \in {"edit", "resync"} => calls[p].todo \in {<<>>, DeleteLast})
  BY DEF Sparing, TypeOK, CallRow
<1>2. calls[p].pc # "stamp" => calls[p].todo \in Left(calls[p].op)
  BY DEF Planned
<1>3. calls[p].pc # "stamp" /\ calls[p].todo # <<>>
  BY PlansDiffer DEF Planned
<1>4. calls[p].op = "append" => calls[p].todo = AppendPending
  BY <1>2, <1>3 DEF Left
<1>5. calls[p].op = "contact" => calls[p].todo \in {UpdateContactByGroupID, ContactPending}
  BY <1>2, <1>3 DEF Left
<1>6. calls[p].op = "move" => calls[p].todo \in {Move, DeleteLast}
  BY <1>2, <1>3 DEF Left
<1>7. calls[p].op # "append"
  BY <1>4, PlansDiffer
<1>8. calls[p].op # "contact"
  BY <1>5, PlanHeads DEF ContactIn, DeleteIn
<1>9. calls[p].op = "move" => calls[p].todo = DeleteLast
  BY <1>6, PlansDiffer
<1> QED BY <1>1, <1>3, <1>7, <1>8, <1>9

(* What becomes of a listed group's call after its last delete.            *)
LEMMA SparingGoesOn ==
    ASSUME NEW p \in Call, Live(p), Live(p)', calls[p].op # "remove",
           \/ calls[p].todo = DeleteLast
           \/ calls[p].op = "contact" /\ calls[p].todo \in {UpdateContactByGroupID, ContactPending},
           DoneSo(p) \/ FailedSo(p)
    PROVE  Sparing(p)'
<1>1. calls[p].todo = DeleteLast => calls[p].todo \notin Longer
  BY PlansDiffer DEF Longer
<1>2. calls[p].todo \notin {ThenMove, RemoveThenMove}
  <2>1. calls[p].todo \in {UpdateContactByGroupID, ContactPending} =>
          Head(calls[p].todo).do = "contact"
    BY PlanHeads DEF ContactIn
  <2>2. \A T \in {ThenMove, RemoveThenMove} : Head(T).do = "delete"
    BY PlanHeads DEF DeleteIn
  <2> QED BY <2>1, <2>2, PlansDiffer
<1>3. ~Insists(p)
  BY <1>2 DEF Insists
<1>4. CASE Stamps(p)
  <2>1. calls'[p].op = "resync" /\ calls'[p].todo = <<>>
    BY <1>4 DEF Stamps, Goes, Same
  <2> QED BY <2>1, PlansDiffer DEF Sparing
<1>5. CASE Advances(p)
  <2>1. calls[p].op = "contact" /\ calls[p].todo \in Longer /\ calls'[p].op = "contact"
        /\ calls'[p].todo \in Left("contact")
    BY <1>1, <1>5 DEF Advances, Goes, Same
  <2>2. calls'[p].todo # DeleteLast
    BY <2>1, PlansDiffer DEF Left
  <2> QED BY <2>1, <2>2 DEF Sparing
<1> QED BY <1>3, <1>4, <1>5 DEF DoneSo, FailedSo

LEMMA ReadStep ==
    ASSUME IInv, NEW p \in Call, NEW t \in Tab, ReadColumnA(p, t)
    PROVE  IInv'
<1> DEFINE hits == RowNumbers(calls[p].g, tabs[t])
           new == [calls[p] EXCEPT !.pc = "write", !.hits = hits]
<1>1. PICK do \in {"delete", "contact"} : Doing(p, "next", do, t)
  BY DEF ReadColumnA
<1>2. /\ Live(p) /\ Planned(p) /\ calls[p].pc = "next" /\ calls[p] \in CallRow
      /\ calls[p].todo \in Left(calls[p].op) /\ HeadTab(p) = t
      /\ do = "delete" =>
                \/ t = "pending" /\ calls[p].todo \in {DeleteLast, ThenMove, ThenAppend}
                \/ t = "paid" /\ calls[p].todo \in {RemoveByGroupID, RemoveThenMove,
                                                    RemoveThenAppend}
      /\ do = "contact" => calls[p].op = "contact"
      /\ Head(calls[p].todo).do = do
  BY <1>1, DoingFacts DEF IInv, Doing
<1>3. UNCHANGED <<db, tabs, once, commits, listed, headless>>
  BY DEF ReadColumnA
<1>4. CASE Fails(p)
  BY <1>2, <1>3, <1>4, FailedStep
<1>5. CASE hits = {} /\ calls' = [calls EXCEPT ![p] = Done(calls[p])] /\ UNCHANGED faults
  <2>1. DoneAs(calls[p], Done(calls[p])) /\ Done(calls[p]) \in CallRow
    BY <1>2, DoneFacts
  <2>2. calls' \in [Call -> CallRow] /\ Rests(p) /\ DoneSo(p)
    BY <1>2, <1>5, <2>1, SetOneCall, OutcomeFacts DEF IInv
  <2>3. ASSUME Live(p)' PROVE Same(p) /\ Planned(p)' /\ calls'[p].pc \in {"next", "stamp"}
    BY <1>2, <2>2, <2>3, StillPlanned DEF IInv, Goes
  <2>4. ASSUME Live(p)', calls'[p].op = "resync", calls'[p].alone PROVE Resynced(p)'
    <3>1. calls[p].op = "resync" /\ calls[p].alone
      BY <2>3, <2>4 DEF Same
    <3>2. Resynced(p) /\ do = "delete"
      BY <1>2, <3>1 DEF IInv, ResyncInv
    <3>3. calls[p].todo # RemoveByGroupID
      BY <1>2, <3>1, NotInResync
    <3> QED BY <1>2, <1>3, <1>5, <2>2, <2>4, <3>1, <3>2, <3>3, ResyncCleared
  <2>5. ASSUME Live(p)', calls[p].g \in listed PROVE Sparing(p)'
    <3>1. Sparing(p)
      BY <1>2, <2>5 DEF IInv, ListedInv, Kept
    <3>2. do = "delete" => calls[p].todo = DeleteLast
      BY <1>2, <3>1, SparingDeletes DEF IInv
    <3>3. calls[p].op = "contact" => calls[p].todo \in {UpdateContactByGroupID, ContactPending}
      BY <1>2 DEF Left
    <3> QED BY <1>2, <2>2, <2>5, <3>1, <3>2, <3>3, SparingGoesOn DEF Sparing
  <2>6. calls'[p].pc \notin {"header", "write"}
    BY <2>3 DEF Live
  <2> QED BY <1>3, <1>5, <2>2, <2>3, <2>4, <2>5, <2>6, QuietStep DEF IInv, TypeOK
<1>6. CASE hits # {} /\ calls' = [calls EXCEPT ![p] = new] /\ UNCHANGED faults
  <2>1. hits \subseteq Nat /\ IsFiniteSet(hits)
    BY NumbersOfRows DEF IInv, TypeOK
  <2> HIDE DEF hits
  <2>2. /\ new \in CallRow /\ new.pc = "write" /\ new.op = calls[p].op /\ new.g = calls[p].g
        /\ new.todo = calls[p].todo /\ new.rows = calls[p].rows /\ new.hits = hits
        /\ new.alone = calls[p].alone
    BY <1>2, <2>1 DEF CallRow
  <2> HIDE DEF new
  <2>3. calls' \in [Call -> CallRow] /\ Rests(p) /\ calls'[p] = new
    BY <1>6, <2>2, SetOneCall DEF IInv
  <2>4. Same(p) /\ HeadTab(p)' = t
    BY <1>2, <2>2, <2>3 DEF Same, HeadTab
  <2>5. Planned(p)'
    BY <1>2, <2>1, <2>2, <2>3 DEF Planned
  <2>6. ASSUME calls'[p].op = "resync", calls'[p].alone PROVE Resynced(p)'
    <3>1. Resynced(p)
      BY <1>2, <2>2, <2>3, <2>6 DEF IInv, ResyncInv
    <3> QED BY <1>2, <1>3, <2>2, <2>3, <3>1 DEF Resynced, Written, RowsOf, Has
  <2>7. ASSUME calls[p].g \in listed PROVE Sparing(p)'
    <3>1. Sparing(p)
      BY <1>2, <2>7 DEF IInv, ListedInv, Kept
    <3> QED BY <1>2, <1>3, <2>2, <2>3, <3>1 DEF Sparing, Safe, Has, Disturbed
  <2>8. calls'[p].hits = RowNumbers(calls'[p].g, tabs[HeadTab(p)']) /\ calls'[p].hits # {}
        /\ HeadTab(p)' \in Tab /\ calls'[p].g \in Group
    BY <1>2, <1>6, <2>2, <2>3, <2>4 DEF hits, CallRow
  <2>9. calls'[p].pc # "header" /\ commits' \in 0..MaxCommits /\ faults' \in 0..MaxFaults
    BY <1>3, <1>6, <2>2, <2>3 DEF IInv, TypeOK
  <2> QED BY <1>3, <2>3, <2>4, <2>5, <2>6, <2>7, <2>8, <2>9, QuietStep
<1> QED BY <1>4, <1>5, <1>6 DEF ReadColumnA
----------------------------------------------------------------------------
(* The header.                                                             *)

(* A call that appends ends when its request fails.                        *)
LEMMA AppendFails ==
    ASSUME TypeOK, NEW p \in Call, Live(p), calls[p].todo \in Left(calls[p].op), Fails(p),
           calls[p].todo \in {Move, AppendPending}
    PROVE  /\ calls' \in [Call -> CallRow] /\ Rests(p) /\ faults' \in 0..MaxFaults
           /\ ~Live(p)'
<1>1. /\ calls' \in [Call -> CallRow] /\ Rests(p) /\ faults' \in 0..MaxFaults
      /\ \E new \in CallRow : Becomes(p, new) /\ FailedAs(calls[p], new)
  BY FailsFacts
<1>2. FailedSo(p)
  BY <1>1, OutcomeFacts
<1> QED BY <1>1, <1>2, PlansDiffer DEF FailedSo, Insists, Stamps

LEMMA HeadTabIsTab ==
    ASSUME TypeOK, PlanInv, NEW q \in Call, calls[q].pc \in {"header", "write"}
    PROVE  Planned(q) /\ HeadTab(q) \in Tab
<1>1. Planned(q) /\ calls[q].todo \in Left(calls[q].op)
      /\ calls[q].op \in {"append", "move", "edit", "resync", "remove", "contact"}
  BY DEF PlanInv, Planned, Live, TypeOK, CallRow
<1>2. calls[q].todo \in {AppendPending, DeleteLast, Move, RemoveByGroupID, ThenMove,
                         RemoveThenMove, ThenAppend, RemoveThenAppend,
                         UpdateContactByGroupID, ContactPending}
  BY <1>1 DEF Left
<1> QED BY <1>1, <1>2, PlanHeads DEF HeadTab, Tab, AppendTo, DeleteIn, ContactIn

(* The call goes on as it was.                                             *)
Stays(p) == /\ Same(p) /\ calls'[p].todo = calls[p].todo
            /\ calls'[p].rows = calls[p].rows /\ calls'[p].hits = calls[p].hits

(* Steps of ensureHeaders that leave the rows.                             *)
LEMMA OnceStep ==
    ASSUME IInv, NEW p \in Call, NEW t \in Tab, NEW v \in {"running", "done"},
           once[t] = "new", once' = [once EXCEPT ![t] = v],
           UNCHANGED <<db, tabs, commits, listed>>, faults' \in 0..MaxFaults,
           calls' \in [Call -> CallRow], Rests(p),
           headless' \subseteq Tab, headless \subseteq headless',
           Live(p), calls[p].todo \in {Move, AppendPending}, HeadTab(p) = t,
           calls[p].pc = "next", Head(calls[p].todo).do = "append",
           Live(p)' => /\ Stays(p)
                       /\ \/ calls'[p].pc = "next"
                          \/ calls'[p].pc = "header" /\ v = "running",
           v = "done" /\ t \notin headless' => tabs[t] # <<>>,
           v = "running" => tabs[t] = <<>> \/ tabs[t][1].g = NoGroup
    PROVE  IInv'
<1>1. once \in [Tab -> {"new", "running", "done"}]
  BY DEF IInv, TypeOK
<1>2. once'[t] = v /\ \A u \in Tab \ {t} : once'[u] = once[u]
  BY <1>1
<1>3. TypeOK'
  BY DEF IInv, TypeOK
<1>4. \A q \in Call : calls[q].pc = "header" =>
         HeadTab(q) \in Tab \ {t} /\ once'[HeadTab(q)] = "running"
  <2> SUFFICES ASSUME NEW q \in Call, calls[q].pc = "header"
               PROVE  HeadTab(q) \in Tab \ {t} /\ once'[HeadTab(q)] = "running"
    OBVIOUS
  <2>1. Planned(q) /\ HeadTab(q) \in Tab
    BY HeadTabIsTab DEF IInv
  <2>2. once[HeadTab(q)] = "running"
    BY <2>1 DEF Planned
  <2> QED BY <1>2, <2>1, <2>2
<1>5. HeadTab(p)' = t \/ ~Live(p)'
  BY DEF HeadTab, Stays
<1>6. PlanInv'
  <2>1. ASSUME Live(p)' PROVE Planned(p)'
    <3>1. Planned(p) /\ calls'[p].g = calls[p].g /\ calls'[p].op = calls[p].op
          /\ calls'[p].rows = calls[p].rows /\ calls'[p].hits = calls[p].hits
      BY <2>1 DEF IInv, PlanInv, Stays, Same
    <3>2. ASSUME calls'[p].pc = "header"
          PROVE  \A q \in Call : calls'[q].pc = "header" /\ HeadTab(q)' = HeadTab(p)' => q = p
      BY <1>4, <1>5, <2>1, <3>2 DEF Rests, Becomes, HeadTab
    <3>3. calls'[p].pc \in {"next", "header"} /\ calls'[p].todo = calls[p].todo
          /\ (calls'[p].pc = "header" => once'[t] = "running")
      BY <1>2, <2>1 DEF Stays
    <3> QED BY <1>5, <2>1, <3>1, <3>2, <3>3 DEF Planned
  <2>2. \A q \in Call \ {p} : calls[q].pc = "header" =>
              /\ once'[HeadTab(q)] = "running"
              /\ calls'[p].pc = "header" => HeadTab(p)' # HeadTab(q)
    BY <1>4, <1>5 DEF Live
  <2> QED BY <2>1, <2>2, OthersPlanned DEF IInv
<1>7. calls'[p].pc # "write"
  BY DEF Live
<1>8. HitsInv'
  BY <1>7, OthersCounted DEF IInv, HitsInv, Counted
<1>9. HeaderInv'
  <2>1. \A q \in Call : calls'[q].pc = "write" =>
          calls[q].pc = "write" /\ HeadTab(q)' = HeadTab(q) /\ calls'[q].hits = calls[q].hits
    BY <1>7 DEF Rests, Becomes, HeadTab
  <2>2. ASSUME NEW u \in Tab \ headless' PROVE Headed(u)'
    <3>1. Headed(u)
      BY DEF IInv, HeaderInv
    <3>2. once'[u] = "done" => tabs[u] # <<>>
      BY <1>2, <3>1 DEF Headed
    <3> QED BY <2>1, <3>1, <3>2 DEF Headed
  <2> QED BY <2>2 DEF HeaderInv
<1>10. BodyInv' /\ DbInv'
  BY DEF IInv, BodyInv, DbInv, Registers
<1>11. AloneInv'
  BY <1>7, OthersAlone DEF IInv, RowNumbers, Live, Same, Stays
<1>12. \A u \in Tab : once[u] = "done" => once'[u] = "done"
  BY <1>2
<1>13. ResyncInv'
  <2>1. \A h : \A u \in Tab : SameRows(h, tabs[u], tabs'[u])
    BY DEF SameRows
  <2>2. \A q \in Call : Keeps(calls[q].g)
    BY <1>3, <1>12, <2>1, SameRowsKept DEF IInv
  <2>3. ASSUME Live(p)', calls'[p].op = "resync", calls'[p].alone PROVE Resynced(p)'
    <3>1. Resynced(p) /\ calls'[p].g = calls[p].g /\ calls'[p].todo = calls[p].todo
          /\ calls'[p].pc # "stamp"
      BY <2>3 DEF IInv, ResyncInv, Stays, Same
    <3>2. calls'[p].todo # DeleteLast
      BY <3>1, PlansDiffer
    <3> QED BY <3>1, <3>2 DEF Resynced, Has
  <2> QED BY <1>3, <2>2, <2>3, OthersResynced DEF IInv
<1>14. ListedInv'
  <2> SUFFICES ASSUME NEW h \in listed, Kept(h) PROVE Kept(h)'
    BY DEF IInv, ListedInv
  <2>1. \A u \in Tab : Safe(h, u) => Safe(h, u)'
    BY <1>2 DEF Safe, Has, Disturbed
  <2>2. \E u \in Tab : Safe(h, u)'
    BY <2>1 DEF Kept
  <2>3. \A q \in Call \ {p} : Live(q) /\ calls[q].g = h /\ Safe(h, "paid") => Safe(h, "paid")'
    BY <2>1 DEF Tab
  <2>4. ASSUME Live(p)', calls[p].g = h PROVE Sparing(p)'
    <3>1. Sparing(p)
      BY <2>4 DEF Kept
    <3>2. calls'[p].todo = calls[p].todo /\ calls'[p].op = calls[p].op
          /\ calls'[p].rows = calls[p].rows
      BY <2>4 DEF Stays, Same
    <3>3. calls'[p].todo # DeleteLast
      BY <3>2, PlansDiffer
    <3> QED BY <3>1, <3>2, <3>3 DEF Sparing
  <2>5. Live(p)' => Same(p)
    BY DEF Stays
  <2> QED BY <2>2, <2>3, <2>4, <2>5, OthersListed
<1> QED BY <1>3, <1>6, <1>8, <1>9, <1>10, <1>11, <1>13, <1>14 DEF IInv

LEMMA ReadA1Step ==
    ASSUME IInv, NEW p \in Call, NEW t \in Tab, ReadA1(p, t)
    PROVE  IInv'
<1> DEFINE filled == tabs[t] # <<>> /\ tabs[t][1].g # NoGroup
<1>1. /\ Live(p) /\ Planned(p) /\ calls[p].pc = "next" /\ calls[p] \in CallRow
      /\ calls[p].todo \in Left(calls[p].op) /\ HeadTab(p) = t
      /\ calls[p].todo \in {Move, AppendPending} /\ Head(calls[p].todo).do = "append"
  <2>1. Doing(p, "next", "append", t)
    BY DEF ReadA1
  <2> QED BY <2>1, DoingFacts DEF IInv, Doing
<1>2. once[t] = "new" /\ UNCHANGED <<db, tabs, commits, listed>> /\ headless \subseteq Tab
      /\ calls \in [Call -> CallRow] /\ faults \in 0..MaxFaults
  BY DEF ReadA1, IInv, TypeOK
<1>3. CASE /\ Fails(p) /\ once' = [once EXCEPT ![t] = "done"]
           /\ headless' = IF filled THEN headless ELSE headless \cup {t}
  <2>1. /\ calls' \in [Call -> CallRow] /\ Rests(p) /\ faults' \in 0..MaxFaults /\ ~Live(p)'
    BY <1>1, <1>3, AppendFails DEF IInv
  <2> QED BY <1>1, <1>2, <1>3, <2>1, OnceStep
<1>4. CASE /\ filled /\ once' = [once EXCEPT ![t] = "done"]
           /\ calls' = [calls EXCEPT ![p].pc = "next"] /\ UNCHANGED <<faults, headless>>
  <2>1. calls' = calls
    BY <1>1, <1>2, <1>4 DEF CallRow
  <2>2. Rests(p) /\ Live(p)' /\ calls'[p].todo = calls[p].todo /\ calls'[p].pc = "next"
    BY <1>1, <2>1 DEF Rests, Becomes, Live
  <2>3. Stays(p)
    BY <1>1, <2>1 DEF Stays, Same, IInv
  <2> QED BY <1>1, <1>2, <1>4, <2>1, <2>2, <2>3, OnceStep
<1>5. CASE /\ ~filled /\ once' = [once EXCEPT ![t] = "running"]
           /\ calls' = [calls EXCEPT ![p].pc = "header"] /\ UNCHANGED <<faults, headless>>
  <2> DEFINE new == [calls[p] EXCEPT !.pc = "header"]
  <2>1. /\ new \in CallRow /\ new.pc = "header" /\ new.op = calls[p].op /\ new.g = calls[p].g
        /\ new.todo = calls[p].todo /\ new.rows = calls[p].rows /\ new.hits = calls[p].hits
        /\ new.alone = calls[p].alone
    BY <1>1 DEF CallRow
  <2>2. calls' = [calls EXCEPT ![p] = new]
    BY <1>5
  <2> HIDE DEF new
  <2>3. calls' \in [Call -> CallRow] /\ Rests(p) /\ calls'[p] = new
    BY <2>1, <2>2, SetOneCall DEF IInv
  <2>4. Stays(p)
    BY <1>1, <2>1, <2>3 DEF Stays, Same, IInv
  <2> QED BY <1>1, <1>2, <1>5, <2>1, <2>3, <2>4, OnceStep
<1> QED BY <1>3, <1>4, <1>5 DEF ReadA1
(* Once the header is there, or Google failed.                             *)
LEMMA HeaderStep ==
    ASSUME IInv, NEW p \in Call, NEW t \in Tab, WriteHeader(p, t)
    PROVE  IInv'
<1> DEFINE new == <<HeaderRow>> \o (IF tabs[t] = <<>> THEN tabs[t] ELSE Tail(tabs[t]))
<1>1. /\ Live(p) /\ Planned(p) /\ calls[p].pc = "header" /\ calls[p] \in CallRow
      /\ calls[p].todo \in Left(calls[p].op) /\ HeadTab(p) = t
      /\ calls[p].todo \in {Move, AppendPending} /\ Head(calls[p].todo).do = "append"
  <2>1. Doing(p, "header", "append", t)
    BY DEF WriteHeader
  <2> QED BY <2>1, DoingFacts DEF IInv, Doing
<1>2. /\ tabs[t] \in Seq(Row) /\ tabs \in [Tab -> Seq(Row)] /\ once[t] = "running"
      /\ once \in [Tab -> {"new", "running", "done"}] /\ once' = [once EXCEPT ![t] = "done"]
      /\ UNCHANGED <<db, commits, listed>>
  BY <1>1 DEF WriteHeader, IInv, TypeOK, Planned
<1>3. once'[t] = "done" /\ \A u \in Tab \ {t} : once'[u] = once[u]
  BY <1>2
<1>4. /\ calls' \in [Call -> CallRow] /\ Rests(p) /\ faults' \in 0..MaxFaults
      /\ Live(p)' => Stays(p) /\ calls'[p].pc = "next"
  <2>1. CASE Fails(p)
    BY <1>1, <2>1, AppendFails DEF IInv
  <2>2. CASE calls' = [calls EXCEPT ![p].pc = "next"] /\ UNCHANGED faults
    <3> DEFINE then == [calls[p] EXCEPT !.pc = "next"]
    <3>1. /\ then \in CallRow /\ then.pc = "next" /\ then.op = calls[p].op /\ then.g = calls[p].g
          /\ then.todo = calls[p].todo /\ then.rows = calls[p].rows /\ then.hits = calls[p].hits
          /\ then.alone = calls[p].alone
      BY <1>1 DEF CallRow
    <3>2. calls' = [calls EXCEPT ![p] = then]
      BY <2>2
    <3> HIDE DEF then
    <3>3. calls' \in [Call -> CallRow] /\ Rests(p) /\ calls'[p] = then
      BY <3>1, <3>2, SetOneCall DEF IInv
    <3> QED BY <1>1, <2>2, <3>1, <3>3 DEF Stays, Same, IInv, TypeOK
  <2> QED BY <2>1, <2>2 DEF WriteHeader
<1>5. calls'[p].pc \notin {"write", "header", "stamp"}
  BY <1>4 DEF Live
<1>6. \/ tabs' = [tabs EXCEPT ![t] = new] /\ headless' = headless
      \/ tabs' = tabs /\ headless' = headless \cup {t}
  BY DEF WriteHeader
<1>7. /\ new \in Seq(Row) /\ Len(new) >= 1 /\ Len(new) >= Len(tabs[t])
      /\ new # <<>> /\ new[1] = HeaderRow /\ new[1].g = Header
      /\ \A i \in 1..Len(new) : i > 1 => i \in 1..Len(tabs[t]) /\ new[i] = tabs[t][i]
      /\ \A i \in 1..Len(tabs[t]) : i > 1 => new[i] = tabs[t][i]
  BY <1>2, HeaderWritten
<1> HIDE DEF new
<1>8. /\ \A u \in Tab \ {t} : tabs'[u] = tabs[u]
      /\ \/ tabs'[t] = new /\ headless' = headless
         \/ tabs'[t] = tabs[t] /\ headless' = headless \cup {t}
  BY <1>2, <1>6
<1>9. TypeOK'
  BY <1>2, <1>4, <1>6, <1>7 DEF IInv, TypeOK
<1>10. PlanInv'
  <2>1. \A q \in Call \ {p} : calls[q].pc = "header" => once'[HeadTab(q)] = "running"
    <3> SUFFICES ASSUME NEW q \in Call \ {p}, calls[q].pc = "header"
                 PROVE  once'[HeadTab(q)] = "running"
      OBVIOUS
    <3>1. Planned(q) /\ HeadTab(q) \in Tab
      BY HeadTabIsTab DEF IInv
    <3>2. once[HeadTab(q)] = "running" /\ HeadTab(q) # t
      BY <1>1, <3>1 DEF Planned
    <3> QED BY <1>3, <3>1, <3>2
  <2>2. ASSUME Live(p)' PROVE Planned(p)'
    BY <1>1, <1>4, <2>2 DEF Planned, Stays, Same
  <2> QED BY <1>4, <1>5, <2>1, <2>2, OthersPlanned DEF IInv
<1>11. HitsInv'
  <2>1. ASSUME NEW q \in Call \ {p}, calls[q].pc = "write", ~calls'[q].stale,
               NEW i \in DOMAIN tabs[HeadTab(q)]
        PROVE  /\ i \in DOMAIN tabs'[HeadTab(q)]
               /\ tabs'[HeadTab(q)][i].g \in {tabs[HeadTab(q)][i].g, Header}
    <3>2. HeadTab(q) \in Tab
      BY <2>1, HeadTabIsTab DEF IInv
    <3>3. CASE HeadTab(q) = t /\ tabs'[t] = new
      <4>1. i \in 1..Len(tabs[t]) /\ i \in 1..Len(new)
        BY <1>2, <1>7, <2>1, <3>3
      <4>2. new[i].g \in {tabs[t][i].g, Header}
        BY <1>7, <4>1
      <4> QED BY <1>7, <3>3, <4>1, <4>2
    <3> QED BY <1>8, <2>1, <3>2, <3>3
  <2> QED BY <1>4, <1>5, <2>1, OthersCounted DEF IInv
<1>12. HeaderInv'
  <2>1. \A q \in Call : calls'[q].pc = "write" =>
          calls[q].pc = "write" /\ HeadTab(q)' = HeadTab(q) /\ calls'[q].hits = calls[q].hits
    BY <1>4, <1>5 DEF Rests, Becomes, HeadTab
  <2>2. ASSUME NEW u \in Tab \ headless' PROVE Headed(u)'
    <3>1. u \in Tab \ headless /\ Headed(u)
      BY <1>6 DEF IInv, HeaderInv
    <3>2. CASE u # t
      BY <1>3, <1>8, <2>1, <3>1, <3>2 DEF Headed
    <3>3. CASE u = t
      <4>1. tabs'[t] = new
        BY <1>8, <3>3
      <4> QED BY <1>7, <2>1, <3>1, <3>3, <4>1 DEF Headed
    <3> QED BY <3>2, <3>3
  <2> QED BY <2>2 DEF HeaderInv
<1>13. BodyInv'
  <2>1. ASSUME NEW u \in Tab, NEW i \in DOMAIN tabs'[u], i > 1 PROVE tabs'[u][i].g # Header
    <3>1. CASE u = t /\ tabs'[t] = new
      <4>1. i \in 1..Len(tabs[t]) /\ new[i] = tabs[t][i]
        BY <1>7, <2>1, <3>1
      <4>2. i \in DOMAIN tabs[t]
        BY <1>2, <4>1
      <4> QED BY <2>1, <3>1, <4>1, <4>2 DEF IInv, BodyInv
    <3>2. CASE tabs'[u] = tabs[u]
      BY <2>1, <3>2 DEF IInv, BodyInv
    <3> QED BY <1>8, <3>1, <3>2
  <2> QED BY <2>1 DEF BodyInv
<1>14. DbInv'
  BY <1>2 DEF IInv, DbInv, Registers
<1>15. ASSUME NEW h \in Group, NEW u \in Tab
       PROVE  RowNumbers(h, tabs'[u]) \subseteq RowNumbers(h, tabs[u])
  <2>1. CASE u = t /\ tabs'[t] = new
    <3>1. h # Header
      BY SheetAssumption
    <3>2. ASSUME NEW i \in RowNumbers(h, new) PROVE i \in RowNumbers(h, tabs[t])
      <4>1. i \in 1..Len(new) /\ new[i].g = h
        BY <1>7, <3>2 DEF RowNumbers
      <4>2. i # 1
        BY <1>7, <3>1, <4>1
      <4>3. i \in 1..Len(tabs[t]) /\ new[i] = tabs[t][i]
        BY <1>7, <4>1, <4>2
      <4> QED BY <1>2, <4>1, <4>3 DEF RowNumbers
    <3> QED BY <2>1, <3>2
  <2>2. CASE tabs'[u] = tabs[u]
    BY <2>2
  <2> QED BY <1>8, <2>1, <2>2
<1>16. \A q \in Call : Live(q) => calls[q].g \in Group
  BY DEF IInv, TypeOK, CallRow
<1>17. AloneInv'
  <2>1. ASSUME NEW q \in Call \ {p}, Live(q), calls'[q].alone, calls[q].pc = "write", ~calls'[q].stale
        PROVE  RowNumbers(calls[q].g, tabs'[HeadTab(q)])
                    \subseteq RowNumbers(calls[q].g, tabs[HeadTab(q)])
    <3>2. HeadTab(q) \in Tab
      BY <2>1, HeadTabIsTab DEF IInv
    <3> QED BY <1>15, <1>16, <2>1, <3>2
  <2>2. Live(p)' => Same(p)
    BY <1>4 DEF Stays
  <2> QED BY <1>2, <1>4, <1>5, <2>1, <2>2, OthersAlone DEF IInv
<1>18. ResyncInv'
  <2>1. ASSUME NEW h \in Group PROVE Keeps(h)
    <3>1. ASSUME NEW u \in Tab, once[u] = "done"
          PROVE  once'[u] = "done" /\ SameRows(h, tabs[u], tabs'[u])
      BY <1>2, <1>3, <1>8, <3>1 DEF SameRows
    <3> QED BY <1>15, <3>1 DEF Keeps
  <2>2. ASSUME Live(p)', calls'[p].op = "resync", calls'[p].alone PROVE Resynced(p)'
    <3>1. Resynced(p) /\ calls'[p].g = calls[p].g /\ calls'[p].todo = calls[p].todo
          /\ calls'[p].pc = "next"
      BY <1>4, <2>2 DEF IInv, ResyncInv, Stays, Same
    <3>2. calls'[p].todo \in {Move, AppendPending}
      BY <1>1, <3>1
    <3>3. \A u \in Tab : RowNumbers(calls[p].g, tabs[u]) = {}
      BY <3>1, <3>2 DEF Resynced, Has, Tab
    <3>4. \A u \in Tab : RowNumbers(calls[p].g, tabs'[u]) = {}
      BY <1>1, <1>15, <1>16, <3>3
    <3>5. calls'[p].todo # DeleteLast
      BY <3>2, PlansDiffer
    <3> QED BY <3>1, <3>4, <3>5 DEF Resynced, Has, Tab
  <2>3. \A q \in Call \ {p} : Live(q) /\ calls[q].alone /\ calls'[q].alone => Keeps(calls[q].g)
    BY <1>16, <2>1
  <2> QED BY <1>4, <1>9, <2>2, <2>3, OthersResynced DEF IInv
<1>19. ListedInv'
  <2> SUFFICES ASSUME NEW h \in listed, Kept(h), h \in Group PROVE Kept(h)'
    BY <1>2 DEF IInv, ListedInv, TypeOK
  <2>1. ASSUME NEW u \in Tab, Safe(h, u) PROVE Safe(h, u)'
    <3>1. CASE u # t
      BY <1>3, <1>8, <2>1, <3>1 DEF Safe, Has, Disturbed
    <3>2. CASE u = t
      <4>1. PICK i \in RowNumbers(h, tabs[t]) : TRUE
        BY <2>1, <3>2 DEF Safe, Has
      <4>2. i \in 1..Len(tabs[t]) /\ tabs[t][i].g = h /\ tabs[t] # <<>>
        BY <1>2, <4>1 DEF RowNumbers
      <4>3. tabs[t][1].g = NoGroup /\ NoGroup \notin Group
        BY <1>2, <2>1, <3>2, <4>2, SheetAssumption DEF Safe, Disturbed
      <4>4. i # 1
        BY <4>2, <4>3
      <4>5. i \in 1..Len(new) /\ new[i] = tabs[t][i]
        BY <1>2, <1>7, <4>2, <4>4
      <4>6. i \in RowNumbers(h, tabs'[t])
        BY <1>2, <1>7, <1>8, <4>2, <4>5 DEF RowNumbers
      <4> QED BY <1>3, <3>2, <4>6 DEF Safe, Has, Disturbed
    <3> QED BY <3>1, <3>2
  <2>2. \E u \in Tab : Safe(h, u)'
    BY <2>1 DEF Kept
  <2>3. \A q \in Call \ {p} : Live(q) /\ calls[q].g = h /\ Safe(h, "paid") => Safe(h, "paid")'
    BY <2>1 DEF Tab
  <2>4. ASSUME Live(p)', calls[p].g = h PROVE Sparing(p)'
    <3>1. Sparing(p)
      BY <1>1, <2>4 DEF Kept
    <3>2. calls'[p].todo = calls[p].todo /\ calls'[p].op = calls[p].op
          /\ calls'[p].rows = calls[p].rows
      BY <1>4, <2>4 DEF Stays, Same
    <3>3. calls'[p].todo # DeleteLast
      BY <1>1, <3>2, PlansDiffer
    <3> QED BY <1>1, <3>1, <3>2, <3>3 DEF Sparing
  <2>5. Live(p)' => Same(p)
    BY <1>4 DEF Stays
  <2> QED BY <1>2, <1>4, <2>2, <2>3, <2>4, <2>5, OthersListed
<1> QED BY <1>9, <1>10, <1>11, <1>12, <1>13, <1>14, <1>17, <1>18, <1>19 DEF IInv
----------------------------------------------------------------------------
(* Writes that take effect.                                                *)

(* The call of a write that took effect.                                   *)
LEMMA LandedCall ==
    ASSUME TypeOK, PlanInv, NEW p \in Call, NEW t, NEW deletes \in BOOLEAN, Live(p),
           calls[p].todo \in Left(calls[p].op), Lands(p, t, deletes)
    PROVE  /\ calls' \in [Call -> CallRow] /\ Rests(p) /\ faults' \in 0..MaxFaults
           /\ DoneSo(p) \/ FailedSo(p)
           /\ Live(p)' => Same(p) /\ Planned(p)' /\ Goes(p)
           /\ calls'[p].pc \notin {"header", "write"}
           /\ calls[p].stale => \A q \in Call : Live(q)' => ~calls'[q].alone
           /\ deletes => \A q \in Call \ {p} : Counting(q, t) => calls'[q].stale
<1>1. /\ calls' \in [Call -> CallRow] /\ Outcome(p) /\ Rests(p) /\ faults' \in 0..MaxFaults
      /\ calls[p].stale => \A q \in Call : Live(q)' => ~calls'[q].alone
      /\ deletes => \A q \in Call \ {p} : Counting(q, t) => calls'[q].stale
  BY LandsFacts
<1>2. DoneSo(p) \/ FailedSo(p)
  BY <1>1, OutcomeFacts DEF Outcome
<1>3. ASSUME Live(p)' PROVE Same(p) /\ Planned(p)' /\ Goes(p) /\ calls'[p].pc \in {"next", "stamp"}
  <2>1. Planned(p)
    BY DEF PlanInv
  <2> QED BY <1>2, <1>3, <2>1, StillPlanned DEF Goes
<1>4. calls'[p].pc \notin {"header", "write"}
  BY <1>3 DEF Live
<1> QED BY <1>1, <1>2, <1>3, <1>4

LEMMA LandedPlans ==
    ASSUME TypeOK, PlanInv, NEW p \in Call, Rests(p), Live(p)' => Planned(p)',
           calls'[p].pc # "header", UNCHANGED once
    PROVE  PlanInv'
<1>1. \A q \in Call \ {p} : calls[q].pc = "header" => once'[HeadTab(q)] = "running"
  BY DEF PlanInv, Planned, Live
<1> QED BY <1>1, OthersPlanned

(* What becomes of a listed group's call after its append.                 *)
LEMMA MoveIsMoved ==
    ASSUME NEW op \in {"append", "move", "edit", "resync", "remove", "contact"}, Move \in Left(op)
    PROVE  op \in {"move", "edit", "resync"}
<1>1. op = "append" => Left(op) = {AppendPending}
  BY DEF Left
<1>2. op = "remove" => Left(op) = {RemoveByGroupID, DeleteLast}
  BY DEF Left
<1>3. op = "contact" => Left(op) = {UpdateContactByGroupID, ContactPending}
  BY DEF Left
<1> QED BY <1>1, <1>2, <1>3, PlansDiffer

LEMMA SparingAppends ==
    ASSUME NEW p \in Call, NEW t, NEW g, g = calls[p].g, Live(p)', calls[p].op # "remove",
           \/ t = "paid" /\ calls[p].todo = Move
           \/ t = "pending" /\ calls[p].todo = AppendPending,
           DoneSo(p) \/ FailedSo(p),
           calls[p].op = "move" => calls[p].rows # <<>>,
           t = "paid" => Safe(g, "paid")'
    PROVE  Sparing(p)'
<1>1. calls[p].todo # DeleteLast /\ ~Insists(p)
  BY PlansDiffer DEF Insists
<1>2. CASE Stamps(p)
  <2>1. calls'[p].op = "resync" /\ calls'[p].todo = <<>>
    BY <1>2 DEF Stamps, Goes, Same
  <2> QED BY <2>1, PlansDiffer DEF Sparing
<1>3. CASE Advances(p)
  <2>1. calls[p].todo = Move /\ t = "paid"
    BY <1>3, PlansDiffer DEF Advances, Longer
  <2>2. calls'[p].todo = DeleteLast /\ calls'[p].op = calls[p].op /\ calls'[p].g = g
        /\ calls'[p].rows = calls[p].rows
    BY <1>3, <2>1, PlanTails DEF Advances, Goes, Same
  <2> QED BY <2>1, <2>2 DEF Sparing, Safe, Has, Disturbed
<1> QED BY <1>1, <1>2, <1>3 DEF DoneSo, FailedSo

LEMMA AppendStep ==
    ASSUME IInv, NEW p \in Call, NEW t \in Tab, AppendRows(p, t)
    PROVE  IInv'
<1> DEFINE g == calls[p].g
           rows == calls[p].rows
           new == tabs[t] \o rows
<1>1. /\ Live(p) /\ Planned(p) /\ calls[p].pc = "next" /\ calls[p] \in CallRow
      /\ calls[p].todo \in Left(calls[p].op) /\ HeadTab(p) = t
      /\ calls[p].op \in {"append", "move", "edit", "resync", "remove", "contact"}
      /\ \/ t = "paid" /\ calls[p].todo = Move
         \/ t = "pending" /\ calls[p].todo = AppendPending
  <2>1. Doing(p, "next", "append", t)
    BY DEF AppendRows
  <2> QED BY <2>1, DoingFacts DEF IInv
<1>2. /\ tabs[t] \in Seq(Row) /\ tabs \in [Tab -> Seq(Row)] /\ once[t] = "done"
      /\ UNCHANGED <<db, once, commits, headless>> /\ rows \in Seq(Row) /\ g \in Group
      /\ listed \subseteq Group
  BY <1>1 DEF AppendRows, OnceDone, IInv, TypeOK, CallRow
<1>3. CASE Fails(p) /\ UNCHANGED <<tabs, listed>>
  BY <1>1, <1>2, <1>3, FailedStep
<1>4. CASE /\ tabs' = [tabs EXCEPT ![t] = new]
           /\ listed' = IF calls[p].alone /\ rows # <<>> THEN listed \cup {g} ELSE listed
           /\ Lands(p, t, FALSE)
  <2>1. /\ calls' \in [Call -> CallRow] /\ Rests(p) /\ faults' \in 0..MaxFaults
        /\ DoneSo(p) \/ FailedSo(p)
        /\ Live(p)' => Same(p) /\ Planned(p)' /\ Goes(p)
        /\ calls'[p].pc \notin {"header", "write"}
    <3>1. PICK no \in BOOLEAN : no = FALSE
      OBVIOUS
    <3>2. Lands(p, t, no)
      BY <1>4, <3>1
    <3> QED BY <1>1, <3>2, LandedCall DEF IInv
  <2>2. /\ new \in Seq(Row) /\ Len(new) = Len(tabs[t]) + Len(rows)
        /\ \A i \in 1..Len(tabs[t]) : new[i] = tabs[t][i]
        /\ \A i \in 1..Len(new) : i > Len(tabs[t]) => new[i].g = g
        /\ \A h : h # g => RowNumbers(h, new) = RowNumbers(h, tabs[t]) /\ SameRows(h, tabs[t], new)
        /\ RowNumbers(g, tabs[t]) = {} => Picked(new, RowNumbers(g, new)) = rows
        /\ RowNumbers(g, tabs[t]) # {} \/ rows # <<>> => RowNumbers(g, new) # {}
    <3>1. \A i \in DOMAIN rows : rows[i].g = g
      BY <1>1 DEF Planned
    <3> HIDE DEF g, rows
    <3> QED BY <1>2, <3>1, AppendedRows
  <2>3. PICK w : w = new
    OBVIOUS
  <2>4. tabs'[t] = w /\ \A u \in Tab \ {t} : tabs'[u] = tabs[u]
    BY <1>2, <1>4, <2>3
  <2> HIDE DEF new
  <2>5. TypeOK'
    BY <1>2, <1>4, <2>1, <2>2 DEF IInv, TypeOK
  <2>6. PlanInv'
    BY <1>2, <2>1, LandedPlans DEF IInv
  <2>7. HitsInv'
    <3>1. ASSUME NEW q \in Call \ {p}, calls[q].pc = "write", ~calls'[q].stale,
                 NEW i \in DOMAIN tabs[HeadTab(q)]
          PROVE  /\ i \in DOMAIN tabs'[HeadTab(q)]
                 /\ tabs'[HeadTab(q)][i].g \in {tabs[HeadTab(q)][i].g, Header}
      <4>1. HeadTab(q) \in Tab
        BY <3>1, HeadTabIsTab DEF IInv
      <4>2. CASE HeadTab(q) = t
        <5>1. i \in 1..Len(tabs[t]) /\ i \in 1..Len(w)
          BY <1>2, <2>2, <2>3, <3>1, <4>2
        <5>2. w \in Seq(Row) /\ \A j \in 1..Len(tabs[t]) : w[j] = tabs[t][j]
          BY <2>2, <2>3
        <5>3. i \in DOMAIN w /\ w[i] = tabs[t][i]
          BY <5>1, <5>2
        <5> QED BY <2>4, <4>2, <5>3
      <4> QED BY <2>4, <3>1, <4>1, <4>2
    <3> QED BY <2>1, <3>1, OthersCounted DEF IInv
  <2>8. HeaderInv'
    <3>1. \A q \in Call : calls'[q].pc = "write" =>
            calls[q].pc = "write" /\ HeadTab(q)' = HeadTab(q) /\ calls'[q].hits = calls[q].hits
      BY <2>1 DEF Rests, Becomes, HeadTab
    <3>2. ASSUME NEW u \in Tab \ headless PROVE Headed(u)'
      <4>1. Headed(u)
        BY <3>2 DEF IInv, HeaderInv
      <4>2. CASE u # t
        BY <1>2, <2>4, <3>1, <4>1, <4>2 DEF Headed
      <4>3. CASE u = t
        <5>1. tabs[t] # <<>> /\ tabs[t][1] = HeaderRow
          BY <1>2, <4>1, <4>3 DEF Headed
        <5>2. w # <<>> /\ w[1] = HeaderRow
          BY <1>2, <2>2, <2>3, <5>1
        <5> QED BY <2>4, <3>1, <4>1, <4>3, <5>2 DEF Headed
      <4> QED BY <4>2, <4>3
    <3> QED BY <1>2, <3>2 DEF HeaderInv
  <2>9. BodyInv'
    <3>1. ASSUME NEW u \in Tab, NEW i \in DOMAIN tabs'[u], i > 1 PROVE tabs'[u][i].g # Header
      <4>1. CASE u = t
        <5>1. i \in 1..Len(w) /\ g # Header
          BY <1>2, <2>2, <2>3, <2>4, <3>1, <4>1, SheetAssumption
        <5>2. CASE i \in 1..Len(tabs[t])
          BY <1>2, <2>2, <2>3, <2>4, <3>1, <4>1, <5>2 DEF IInv, BodyInv
        <5>3. CASE i > Len(tabs[t])
          BY <2>2, <2>3, <2>4, <4>1, <5>1, <5>3
        <5>4. Len(tabs[t]) \in Nat
          BY <1>2
        <5> QED BY <5>1, <5>2, <5>3, <5>4
      <4>2. CASE u # t
        BY <2>4, <3>1, <4>2 DEF IInv, BodyInv
      <4> QED BY <4>1, <4>2
    <3> QED BY <3>1 DEF BodyInv
  <2>10. DbInv'
    BY <1>2 DEF IInv, DbInv, Registers
  <2>11. \A h : h # g => \A u \in Tab : RowNumbers(h, tabs'[u]) = RowNumbers(h, tabs[u])
                                        /\ SameRows(h, tabs[u], tabs'[u])
    BY <2>2, <2>3, <2>4 DEF SameRows
  <2>12. ASSUME NEW q \in Call \ {p}, Live(q), calls[q].alone PROVE calls[q].g # g
    BY <1>1, <2>12 DEF IInv, AloneInv, Alone
  <2>13. \A q \in Call \ {p} : Live(q) /\ calls'[q].alone => calls[q].alone
    BY <2>1 DEF Rests, Becomes
  <2>14. AloneInv'
    <3>1. ASSUME NEW q \in Call \ {p}, Live(q), calls'[q].alone, calls[q].pc = "write", ~calls'[q].stale
          PROVE  RowNumbers(calls[q].g, tabs'[HeadTab(q)])
                      \subseteq RowNumbers(calls[q].g, tabs[HeadTab(q)])
      <4>1. HeadTab(q) \in Tab
        BY <3>1, HeadTabIsTab DEF IInv
      <4> QED BY <2>11, <2>12, <2>13, <3>1, <4>1
    <3> QED BY <1>2, <2>1, <3>1, OthersAlone DEF IInv
  <2>15. ResyncInv'
    <3>1. ASSUME NEW q \in Call \ {p}, Live(q), calls[q].alone PROVE Keeps(calls[q].g)
      BY <1>2, <2>5, <2>11, <2>12, <3>1, SameRowsKept DEF IInv
    <3>2. ASSUME Live(p)', calls'[p].op = "resync", calls'[p].alone PROVE Resynced(p)'
      <4>1. Goes(p) /\ calls'[p].g = g /\ calls'[p].rows = rows /\ calls[p].op = "resync"
            /\ calls[p].alone
        BY <2>1, <3>2 DEF Goes, Same
      <4>2. \A u \in Tab : RowNumbers(g, tabs[u]) = {}
        BY <1>1, <4>1 DEF IInv, ResyncInv, Resynced, Has, Tab
      <4>3. Written(p, t)'
        <5>1. Picked(tabs'[t], RowNumbers(g, tabs'[t])) = rows
          BY <2>2, <2>3, <2>4, <4>2
        <5> QED BY <1>2, <4>1, <5>1 DEF Written, RowsOf
      <4>4. \A u \in Tab \ {t} : RowNumbers(g, tabs'[u]) = {}
        BY <2>4, <4>2
      <4>5. ~Insists(p) /\ calls[p].todo # DeleteLast
        BY <1>1, PlansDiffer DEF Insists
      <4>6. CASE Stamps(p)
        <5>1. calls'[p].todo = <<>>
          BY <4>6 DEF Stamps
        <5> QED BY <4>1, <4>3, <4>4, <5>1, ResyncEnds
      <4>7. CASE Advances(p)
        <5>1. calls[p].todo = Move /\ t = "paid"
          BY <1>1, <4>7, PlansDiffer DEF Advances, Longer
        <5>2. calls'[p].todo = DeleteLast /\ calls'[p].pc = "next"
          BY <4>7, <5>1, PlanTails DEF Advances
        <5>3. DeleteLast \notin {ThenMove, ThenAppend, Move, AppendPending}
          BY PlansDiffer
        <5> QED BY <4>1, <4>3, <4>4, <5>1, <5>2, <5>3 DEF Resynced, Has, Tab
      <4> QED BY <2>1, <3>2, <4>5, <4>6, <4>7 DEF DoneSo, FailedSo
    <3> QED BY <2>1, <2>5, <2>13, <3>1, <3>2, OthersResynced DEF IInv
  <2>16. ASSUME NEW h, NEW u \in Tab, Has(h, u) PROVE Has(h, u)'
    <3>1. CASE h # g
      BY <2>11, <2>16, <3>1 DEF Has
    <3>2. CASE h = g
      BY <2>2, <2>3, <2>4, <2>16, <3>2 DEF Has
    <3> QED BY <3>1, <3>2
  <2>17. \A h : \A u \in Tab : Safe(h, u) => Safe(h, u)'
    <3>1. ASSUME NEW u \in Tab, ~Disturbed(u) PROVE ~Disturbed(u)'
      BY <1>2, <2>4, <3>1 DEF Disturbed
    <3> QED BY <2>16, <3>1 DEF Safe
  <2>18. ASSUME rows # <<>>, NEW h, h = g PROVE Safe(h, t)'
    <3>1. RowNumbers(h, tabs'[t]) # {}
      BY <2>2, <2>3, <2>4, <2>18
    <3>2. once'[t] = "done"
      BY <1>2
    <3> QED BY <3>1, <3>2 DEF Safe, Has, Disturbed
  <2>19. calls[p].op # "remove"
    BY <1>1, PlansDiffer DEF Left
  <2>20. ASSUME NEW h \in listed PROVE Kept(h)'
    <3>1. Kept(h)
      BY <2>20 DEF IInv, ListedInv
    <3>2. \E u \in Tab : Safe(h, u)'
      BY <2>17, <3>1 DEF Kept
    <3>3. ASSUME Live(p)', g = h PROVE Sparing(p)'
      <4>1. Sparing(p)
        BY <1>1, <3>1, <3>3 DEF Kept
      <4>2. calls[p].op \notin {"edit", "resync"} /\ (calls[p].op = "move" => rows # <<>>)
        BY <1>1, <4>1, PlansDiffer DEF Sparing
      <4>3. t = "paid" => calls[p].op = "move"
        BY <1>1, <4>2, PlansDiffer, MoveIsMoved
      <4>4. t = "paid" => Safe(h, "paid")'
        BY <2>18, <3>3, <4>2, <4>3
      <4> QED BY <1>1, <2>1, <2>19, <3>3, <4>2, <4>4, SparingAppends
    <3>4. \A q \in Call \ {p} : Live(q) /\ calls[q].g = h /\ Safe(h, "paid") => Safe(h, "paid")'
      BY <2>17 DEF Tab
    <3>5. Live(p)' => Same(p)
      BY <2>1
    <3> QED BY <1>2, <2>1, <3>1, <3>2, <3>3, <3>4, <3>5, OthersListed
  <2>21. ASSUME calls[p].alone, rows # <<>>, NEW h, h = g PROVE Kept(h)'
    <3>1. Alone(p)
      BY <1>1, <2>21 DEF IInv, AloneInv
    <3>2. Registers(h)'
      BY <1>2, <2>19, <2>21, <3>1 DEF Alone, Registers
    <3>3. Safe(h, t)'
      BY <2>18, <2>21
    <3>4. ASSUME NEW q \in Call, Live(q)', calls'[q].g = h PROVE q = p
      BY <2>1, <2>21, <3>1, <3>4 DEF Rests, Becomes, Live, Alone
    <3>5. ASSUME Live(p)' PROVE Sparing(p)'
      BY <1>1, <2>1, <2>19, <2>21, <3>3, <3>5, SparingAppends
    <3> QED BY <3>2, <3>3, <3>4, <3>5 DEF Kept
  <2>22. ListedInv'
    <3> SUFFICES ASSUME NEW h \in listed' PROVE Kept(h)'
      BY DEF ListedInv
    <3>1. CASE h \in listed
      BY <2>20, <3>1
    <3>2. CASE h \notin listed
      <4>1. calls[p].alone /\ rows # <<>> /\ h = g
        BY <1>4, <3>2
      <4> QED BY <2>21, <4>1
    <3> QED BY <3>1, <3>2
  <2> QED BY <2>5, <2>6, <2>7, <2>8, <2>9, <2>10, <2>14, <2>15, <2>22 DEF IInv
<1> QED BY <1>3, <1>4 DEF AppendRows
(* Row numbers that no deletion has outdated spare the other groups.       *)
LEMMA DeleteSpares ==
    ASSUME IInv, NEW p \in Call, NEW t \in Tab, DeleteByGroupID(p, t), ~calls[p].stale,
           NEW h \in Group, h # calls[p].g, NEW u \in Tab
    PROVE  SameRows(h, tabs[u], tabs'[u])
<1>1. calls[p].pc = "write" /\ Planned(p) /\ calls[p] \in CallRow /\ HeadTab(p) = t
  <2>1. Doing(p, "write", "delete", t)
    BY DEF DeleteByGroupID
  <2> QED BY <2>1, DoingFacts DEF IInv
<1>2. tabs \in [Tab -> Seq(Row)] /\ tabs[t] \in Seq(Row)
      /\ calls[p].hits \subseteq Nat /\ IsFiniteSet(calls[p].hits)
  BY <1>1 DEF IInv, TypeOK, CallRow, Planned
<1>3. CASE tabs'[u] = tabs[u]
  BY <1>3 DEF SameRows
<1>4. CASE u = t /\ tabs' = [tabs EXCEPT ![t] = DeleteRows(tabs[t], calls[p].hits)]
  <2>1. \A i \in calls[p].hits : i \in 1..Len(tabs[t]) => tabs[t][i].g # h
    <3>1. h # Header
      BY SheetAssumption
    <3> QED BY <1>1, <3>1 DEF IInv, HitsInv, Counted
  <2>2. SameRows(h, tabs[t], DeleteRows(tabs[t], calls[p].hits))
    BY <1>2, <2>1, OtherRowsThanDeleted
  <2> QED BY <1>2, <1>4, <2>2
<1> QED BY <1>2, <1>3, <1>4 DEF DeleteByGroupID

LEMMA DeleteStep ==
    ASSUME IInv, NEW p \in Call, NEW t \in Tab, DeleteByGroupID(p, t)
    PROVE  IInv'
<1> DEFINE g == calls[p].g
           hits == calls[p].hits
           new == DeleteRows(tabs[t], hits)
<1>1. /\ Live(p) /\ Planned(p) /\ calls[p].pc = "write" /\ calls[p] \in CallRow
      /\ calls[p].todo \in Left(calls[p].op) /\ HeadTab(p) = t
      /\ \/ t = "pending" /\ calls[p].todo \in {DeleteLast, ThenMove, ThenAppend}
         \/ t = "paid" /\ calls[p].todo \in {RemoveByGroupID, RemoveThenMove, RemoveThenAppend}
  <2>1. Doing(p, "write", "delete", t)
    BY DEF DeleteByGroupID
  <2> QED BY <2>1, DoingFacts DEF IInv
<1>2. /\ tabs[t] \in Seq(Row) /\ tabs \in [Tab -> Seq(Row)]
      /\ UNCHANGED <<db, once, commits, headless>> /\ g \in Group
      /\ listed \subseteq Group /\ hits \subseteq Nat /\ IsFiniteSet(hits)
  BY <1>1 DEF DeleteByGroupID, IInv, TypeOK, CallRow, Planned
<1>3. CASE Fails(p) /\ UNCHANGED <<tabs, listed>>
  BY <1>1, <1>2, <1>3, FailedStep
<1>4. CASE /\ tabs' = [tabs EXCEPT ![t] = new]
           /\ listed' = IF calls[p].stale THEN {} ELSE listed
           /\ Lands(p, t, TRUE)
  <2>1. /\ calls' \in [Call -> CallRow] /\ Rests(p) /\ faults' \in 0..MaxFaults
        /\ DoneSo(p) \/ FailedSo(p)
        /\ Live(p)' => Same(p) /\ Planned(p)' /\ Goes(p)
        /\ calls'[p].pc \notin {"header", "write"}
        /\ calls[p].stale => \A q \in Call : Live(q)' => ~calls'[q].alone
        /\ \A q \in Call \ {p} : Counting(q, t) => calls'[q].stale
    <3>1. PICK yes \in BOOLEAN : yes = TRUE
      OBVIOUS
    <3>2. Lands(p, t, yes)
      BY <1>4, <3>1
    <3> QED BY <1>1, <3>1, <3>2, LandedCall DEF IInv
  <2>2. /\ new \in Seq(Row)
        /\ \A j \in 1..Len(new) : \E i \in (1..Len(tabs[t])) \ hits :
                    new[j] = tabs[t][i] /\ (j > 1 => i > 1)
        /\ tabs[t] # <<>> /\ 1 \notin hits => new # <<>> /\ new[1] = tabs[t][1]
        /\ \A h : RowNumbers(h, tabs[t]) \subseteq hits => RowNumbers(h, new) = {}
    BY <1>2, RowsAfterDelete
  <2>4. PICK w : w = new
    OBVIOUS
  <2>5. tabs'[t] = w /\ \A u \in Tab \ {t} : tabs'[u] = tabs[u]
    BY <1>2, <1>4, <2>4
  <2> HIDE DEF new
  <2>6. TypeOK'
    BY <1>2, <1>4, <2>1, <2>2 DEF IInv, TypeOK
  <2>7. PlanInv'
    BY <1>2, <2>1, LandedPlans DEF IInv
  <2>8. ASSUME NEW q \in Call \ {p}, calls[q].pc = "write", ~calls'[q].stale
        PROVE  HeadTab(q) \in Tab /\ tabs'[HeadTab(q)] = tabs[HeadTab(q)]
    <3>1. HeadTab(q) \in Tab
      BY <2>8, HeadTabIsTab DEF IInv
    <3>2. HeadTab(q) # t
      BY <2>1, <2>8 DEF Counting, HeadTab
    <3> QED BY <2>5, <3>1, <3>2
  <2>9. HitsInv'
    BY <2>1, <2>8, OthersCounted DEF IInv
  <2>10. HeaderInv'
    <3>1. \A q \in Call : calls'[q].pc = "write" =>
            calls[q].pc = "write" /\ HeadTab(q)' = HeadTab(q) /\ calls'[q].hits = calls[q].hits
      BY <2>1 DEF Rests, Becomes, HeadTab
    <3>2. ASSUME NEW u \in Tab \ headless PROVE Headed(u)'
      <4>1. Headed(u)
        BY <3>2 DEF IInv, HeaderInv
      <4>2. CASE u # t
        BY <1>2, <2>5, <3>1, <4>1, <4>2 DEF Headed
      <4>3. CASE u = t
        <5>1. tabs[t] # <<>> /\ tabs[t][1] = HeaderRow /\ 1 \notin hits
          BY <1>1, <4>1, <4>3 DEF Headed
        <5>2. w # <<>> /\ w[1] = HeaderRow
          BY <2>2, <2>4, <5>1
        <5> QED BY <2>5, <3>1, <4>1, <4>3, <5>2 DEF Headed
      <4> QED BY <4>2, <4>3
    <3> QED BY <1>2, <3>2 DEF HeaderInv
  <2>11. BodyInv'
    <3>1. ASSUME NEW u \in Tab, NEW i \in DOMAIN tabs'[u], i > 1 PROVE tabs'[u][i].g # Header
      <4>1. CASE u = t
        <5>1. i \in 1..Len(w)
          BY <2>2, <2>4, <2>5, <3>1, <4>1
        <5>2. PICK k \in (1..Len(tabs[t])) \ hits : w[i] = tabs[t][k] /\ k > 1
          BY <2>2, <2>4, <3>1, <5>1
        <5>3. k \in DOMAIN tabs[t]
          BY <1>2
        <5> QED BY <2>5, <4>1, <5>2, <5>3 DEF IInv, BodyInv
      <4>2. CASE u # t
        BY <2>5, <3>1, <4>2 DEF IInv, BodyInv
      <4> QED BY <4>1, <4>2
    <3> QED BY <3>1 DEF BodyInv
  <2>12. DbInv'
    BY <1>2 DEF IInv, DbInv, Registers
  <2>13. AloneInv'
    BY <1>2, <2>1, <2>8, OthersAlone DEF IInv
  <2>14. ASSUME ~calls[p].stale, NEW i \in hits
         PROVE  i \in DOMAIN tabs[t] /\ i \in 1..Len(tabs[t]) /\ tabs[t][i].g \in {g, Header}
    BY <1>1, <1>2, <2>14 DEF IInv, HitsInv, Counted
  <2>15. ASSUME ~calls[p].stale, NEW h \in Group, h # g, NEW u \in Tab
         PROVE  SameRows(h, tabs[u], tabs'[u])
    BY <2>15, DeleteSpares
  <2>16. ResyncInv'
    <3>1. CASE calls[p].stale
      BY <2>1, <3>1 DEF ResyncInv
    <3>2. CASE ~calls[p].stale
      <4>1. ASSUME NEW q \in Call \ {p}, Live(q), calls[q].alone PROVE Keeps(calls[q].g)
        <5>1. calls[q].g \in Group /\ calls[q].g # g
          BY <1>1, <4>1 DEF IInv, AloneInv, Alone, TypeOK, CallRow
        <5>2. \A u \in Tab : SameRows(calls[q].g, tabs[u], tabs'[u])
          BY <2>15, <3>2, <5>1
        <5> QED BY <1>2, <2>6, <5>2, SameRowsKept DEF IInv
      <4>2. ASSUME Live(p)', calls'[p].op = "resync", calls'[p].alone PROVE Resynced(p)'
        <5>1. calls[p].op = "resync" /\ calls[p].alone
          BY <2>1, <4>2 DEF Same
        <5>2. Resynced(p) /\ Alone(p)
          BY <1>1, <5>1 DEF IInv, ResyncInv, AloneInv
        <5>3. calls[p].todo # RemoveByGroupID
          BY <1>1, <5>1, NotInResync
        <5>4. RowNumbers(g, tabs[t]) \subseteq hits
          BY <1>1, <3>2, <5>2 DEF Alone
        <5>5. RowNumbers(g, tabs'[t]) = {}
          BY <2>2, <2>4, <2>5, <5>4
        <5> QED BY <1>1, <1>2, <2>1, <2>5, <4>2, <5>1, <5>2, <5>3, <5>5, ResyncCleared
      <4>3. \A q \in Call \ {p} : Live(q) /\ calls'[q].alone => calls[q].alone
        BY <2>1 DEF Rests, Becomes
      <4> QED BY <2>1, <2>6, <4>1, <4>2, <4>3, OthersResynced DEF IInv
    <3> QED BY <3>1, <3>2
  <2>17. ASSUME ~calls[p].stale, NEW h \in Group, h # g, NEW u \in Tab, Safe(h, u)
         PROVE  Safe(h, u)'
    <3>1. Has(h, u)'
      <4>1. SameRows(h, tabs[u], tabs'[u])
        BY <2>15, <2>17
      <4> QED BY <2>6, <2>17, <4>1, RowsStay DEF IInv, Safe
    <3>2. ~Disturbed(u)'
      <4>1. CASE u # t
        BY <1>2, <2>5, <2>17, <4>1 DEF Safe, Disturbed
      <4>2. CASE u = t /\ once[t] # "running"
        BY <1>2, <4>2 DEF Disturbed
      <4>3. CASE u = t /\ once[t] = "running"
        <5>1. tabs[t] # <<>>
          BY <2>17, <4>3 DEF Safe, Has, RowNumbers
        <5>2. tabs[t][1].g = NoGroup
          BY <2>17, <4>3, <5>1 DEF Safe, Disturbed
        <5>3. 1 \notin hits
          BY <1>2, <2>14, <2>17, <5>2, SheetAssumption
        <5>4. w # <<>> /\ w[1].g = NoGroup
          BY <2>2, <2>4, <5>1, <5>2, <5>3
        <5> QED BY <2>5, <4>3, <5>4 DEF Disturbed
      <4> QED BY <4>1, <4>2, <4>3
    <3> QED BY <3>1, <3>2 DEF Safe
  <2>18. ListedInv'
    <3> SUFFICES ASSUME NEW h \in listed' PROVE Kept(h)'
      BY DEF ListedInv
    <3>1. ~calls[p].stale /\ h \in listed /\ h \in Group
      BY <1>2, <1>4
    <3>2. Kept(h)
      BY <3>1 DEF IInv, ListedInv
    <3>3. CASE h # g
      <4>1. \A u \in Tab : Safe(h, u) => Safe(h, u)'
        BY <2>17, <3>1, <3>3
      <4>2. \E u \in Tab : Safe(h, u)'
        BY <3>2, <4>1 DEF Kept
      <4>3. Live(p)' => Same(p)
        BY <2>1
      <4> QED BY <1>2, <2>1, <3>2, <3>3, <4>1, <4>2, <4>3, OthersListed DEF Tab
    <3>4. CASE h = g
      <4>1. Sparing(p)
        BY <1>1, <3>2, <3>4 DEF Kept
      <4>2. calls[p].todo = DeleteLast /\ t = "pending"
        <5>1. calls[p].todo = DeleteLast
          BY <1>1, <4>1, SparingDeletes DEF IInv
        <5> QED BY <1>1, <5>1, PlansDiffer
      <4>3. Safe(h, "paid")
        BY <3>4, <4>1, <4>2 DEF Sparing
      <4>4. Safe(h, "paid")'
        BY <1>2, <2>5, <4>2, <4>3 DEF Safe, Has, Disturbed, Tab
      <4>5. Live(p)' => Sparing(p)'
        BY <1>1, <2>1, <4>1, <4>2, SparingGoesOn DEF Sparing
      <4>6. \E u \in Tab : Safe(h, u)'
        BY <4>4 DEF Tab
      <4>7. Live(p)' => Same(p)
        BY <2>1
      <4> QED BY <1>2, <2>1, <3>2, <4>4, <4>5, <4>6, <4>7, OthersListed
    <3> QED BY <3>3, <3>4
  <2> QED BY <2>6, <2>7, <2>9, <2>10, <2>11, <2>12, <2>13, <2>16, <2>18 DEF IInv
<1> QED BY <1>3, <1>4 DEF DeleteByGroupID
LEMMA ContactSpares ==
    ASSUME IInv, NEW p \in Call, NEW t \in Tab, UpdateContactInTab(p, t), ~calls[p].stale,
           NEW h \in Group, h # calls[p].g, NEW u \in Tab
    PROVE  SameRows(h, tabs[u], tabs'[u])
<1> DEFINE hits == calls[p].hits
           new == SetContactOfRows(tabs[t], hits, calls[p].contact)
<1>1. calls[p].pc = "write" /\ Planned(p) /\ calls[p] \in CallRow /\ HeadTab(p) = t
  <2>1. Doing(p, "write", "contact", t)
    BY DEF UpdateContactInTab
  <2> QED BY <2>1, DoingFacts DEF IInv
<1>2. tabs \in [Tab -> Seq(Row)] /\ tabs[t] \in Seq(Row) /\ calls[p].contact \in Contact
      /\ hits \subseteq Nat /\ IsFiniteSet(hits)
  BY <1>1 DEF IInv, TypeOK, CallRow, Planned
<1>3. CASE tabs'[u] = tabs[u]
  BY <1>3 DEF SameRows
<1>4. CASE u = t /\ tabs' = [tabs EXCEPT ![t] = new]
  <2> HIDE DEF new
  <2>1. SameButAt(hits, tabs[t], new)
    <3> HIDE DEF hits
    <3> QED BY <1>2, ContactsChanged DEF new
  <2>2. \A i \in hits : i \in 1..Len(tabs[t]) /\ tabs[t][i].g \in {calls[p].g, Header}
    BY <1>1, <1>2 DEF IInv, HitsInv, Counted
  <2>3. h # NoGroup /\ h # Header
    BY SheetAssumption
  <2>4. \A i \in 1..Len(tabs[t]) :
           new[i].g = tabs[t][i].g /\ (tabs[t][i].g = h => new[i] = tabs[t][i])
    BY <2>1, <2>2, <2>3 DEF SameButAt
  <2>5. SameRows(h, tabs[t], new)
    BY <1>2, <2>1, <2>3, <2>4, OtherRowsThanChanged DEF SameButAt
  <2> QED BY <1>2, <1>4, <2>5
<1> QED BY <1>2, <1>3, <1>4 DEF UpdateContactInTab

LEMMA ContactStep ==
    ASSUME IInv, NEW p \in Call, NEW t \in Tab, UpdateContactInTab(p, t)
    PROVE  IInv'
<1> DEFINE g == calls[p].g
           hits == calls[p].hits
           new == SetContactOfRows(tabs[t], hits, calls[p].contact)
<1>1. /\ Live(p) /\ Planned(p) /\ calls[p].pc = "write" /\ calls[p] \in CallRow
      /\ calls[p].todo \in Left(calls[p].op) /\ HeadTab(p) = t
      /\ calls[p].op = "contact"
  <2>1. Doing(p, "write", "contact", t)
    BY DEF UpdateContactInTab
  <2> QED BY <2>1, DoingFacts DEF IInv
<1>2. /\ tabs[t] \in Seq(Row) /\ tabs \in [Tab -> Seq(Row)]
      /\ UNCHANGED <<db, once, commits, listed, headless>> /\ g \in Group
      /\ listed \subseteq Group /\ hits \subseteq Nat /\ IsFiniteSet(hits)
      /\ calls[p].contact \in Contact
  BY <1>1 DEF UpdateContactInTab, IInv, TypeOK, CallRow, Planned
<1>3. CASE Fails(p) /\ UNCHANGED tabs
  BY <1>1, <1>2, <1>3, FailedStep
<1>4. CASE tabs' = [tabs EXCEPT ![t] = new] /\ Lands(p, t, FALSE)
  <2>1. /\ calls' \in [Call -> CallRow] /\ Rests(p) /\ faults' \in 0..MaxFaults
        /\ DoneSo(p) \/ FailedSo(p)
        /\ Live(p)' => Same(p) /\ Planned(p)' /\ Goes(p)
        /\ calls'[p].pc \notin {"header", "write"}
        /\ calls[p].stale => \A q \in Call : Live(q)' => ~calls'[q].alone
    <3>1. PICK no \in BOOLEAN : no = FALSE
      OBVIOUS
    <3>2. Lands(p, t, no)
      BY <1>4, <3>1
    <3> QED BY <1>1, <3>2, LandedCall DEF IInv
  <2>2. /\ new \in Seq(Row) /\ Len(new) >= Len(tabs[t])
        /\ \A i \in 1..Len(tabs[t]) : new[i].g = tabs[t][i].g /\ (i \notin hits => new[i] = tabs[t][i])
        /\ \A i \in 1..Len(new) : i > Len(tabs[t]) => new[i].g = NoGroup
    <3> HIDE DEF hits, new
    <3>1. SameButAt(hits, tabs[t], new)
      BY <1>2, ContactsChanged DEF new
    <3> QED BY <3>1 DEF SameButAt
  <2>3. PICK w : w = new
    OBVIOUS
  <2>4. tabs'[t] = w /\ \A u \in Tab \ {t} : tabs'[u] = tabs[u]
    BY <1>2, <1>4, <2>3
  <2> HIDE DEF new
  <2>5. /\ w \in Seq(Row) /\ Len(w) \in Nat /\ Len(tabs[t]) \in Nat /\ Len(w) >= Len(tabs[t])
        /\ DOMAIN w = 1..Len(w) /\ DOMAIN tabs[t] = 1..Len(tabs[t])
        /\ \A i \in 1..Len(tabs[t]) : w[i].g = tabs[t][i].g /\ (i \notin hits => w[i] = tabs[t][i])
        /\ \A i \in 1..Len(w) : i > Len(tabs[t]) => w[i].g = NoGroup
    <3>1. w \in Seq(Row)
      BY <2>2, <2>3
    <3> QED BY <1>2, <2>2, <2>3, <3>1
  <2>6. TypeOK'
    BY <1>2, <1>4, <2>1, <2>2 DEF IInv, TypeOK
  <2>7. PlanInv'
    BY <1>2, <2>1, LandedPlans DEF IInv
  <2>8. ASSUME NEW u \in Tab, NEW i \in DOMAIN tabs[u]
        PROVE  i \in DOMAIN tabs'[u] /\ tabs'[u][i].g = tabs[u][i].g
    <3>1. CASE u = t
      BY <2>4, <2>5, <2>8, <3>1
    <3>2. CASE u # t
      BY <2>4, <3>2
    <3> QED BY <3>1, <3>2
  <2>9. ASSUME NEW u \in Tab, NEW i \in DOMAIN tabs'[u], i \notin DOMAIN tabs[u]
        PROVE  tabs'[u][i].g = NoGroup
    <3>1. u = t
      BY <2>4, <2>9
    <3>2. i \in 1..Len(w) /\ i > Len(tabs[t])
      BY <2>4, <2>5, <2>9, <3>1
    <3> QED BY <2>4, <2>5, <3>1, <3>2
  <2>10. HitsInv'
    <3>1. \A q \in Call : calls[q].pc = "write" => HeadTab(q) \in Tab
      BY HeadTabIsTab DEF IInv
    <3> QED BY <2>1, <2>8, <3>1, OthersCounted DEF IInv
  <2>11. HeaderInv'
    <3>1. \A q \in Call : calls'[q].pc = "write" =>
            calls[q].pc = "write" /\ HeadTab(q)' = HeadTab(q) /\ calls'[q].hits = calls[q].hits
      BY <2>1 DEF Rests, Becomes, HeadTab
    <3>2. ASSUME NEW u \in Tab \ headless PROVE Headed(u)'
      <4>1. Headed(u)
        BY <3>2 DEF IInv, HeaderInv
      <4>2. CASE u # t
        BY <1>2, <2>4, <3>1, <4>1, <4>2 DEF Headed
      <4>3. CASE u = t
        <5>1. tabs[t] # <<>> /\ tabs[t][1] = HeaderRow /\ 1 \notin hits
          BY <1>1, <4>1, <4>3 DEF Headed
        <5>2. 1 \in 1..Len(tabs[t])
          BY <1>2, <5>1
        <5>3. w # <<>> /\ w[1] = HeaderRow
          BY <2>5, <5>1, <5>2
        <5> QED BY <2>4, <3>1, <4>1, <4>3, <5>3 DEF Headed
      <4> QED BY <4>2, <4>3
    <3> QED BY <1>2, <3>2 DEF HeaderInv
  <2>12. BodyInv'
    <3>1. ASSUME NEW u \in Tab, NEW i \in DOMAIN tabs'[u], i > 1 PROVE tabs'[u][i].g # Header
      <4>1. CASE i \in DOMAIN tabs[u]
        BY <2>8, <3>1, <4>1 DEF IInv, BodyInv
      <4>2. CASE i \notin DOMAIN tabs[u]
        BY <2>9, <3>1, <4>2, SheetAssumption
      <4> QED BY <4>1, <4>2
    <3> QED BY <3>1 DEF BodyInv
  <2>13. DbInv'
    BY <1>2 DEF IInv, DbInv, Registers
  <2>14. ASSUME NEW h \in Group, NEW u \in Tab
         PROVE  RowNumbers(h, tabs'[u]) = RowNumbers(h, tabs[u])
    <3>1. h # NoGroup
      BY SheetAssumption
    <3> QED BY <2>8, <2>9, <3>1 DEF RowNumbers
  <2>15. \A q \in Call : calls[q].g \in Group
    BY DEF IInv, TypeOK, CallRow
  <2>16. AloneInv'
    <3>1. \A q \in Call : calls[q].pc = "write" => HeadTab(q) \in Tab
      BY HeadTabIsTab DEF IInv
    <3> QED BY <1>2, <2>1, <2>14, <2>15, <3>1, OthersAlone DEF IInv
  <2>17. ASSUME ~calls[p].stale, NEW h \in Group, h # g, NEW u \in Tab
         PROVE  SameRows(h, tabs[u], tabs'[u])
    BY <2>17, ContactSpares
  <2>18. ResyncInv'
    <3>1. CASE calls[p].stale
      BY <2>1, <3>1 DEF ResyncInv
    <3>2. CASE ~calls[p].stale
      <4>1. ASSUME NEW q \in Call \ {p}, Live(q), calls[q].alone PROVE Keeps(calls[q].g)
        <5>1. calls[q].g # g
          BY <1>1, <4>1 DEF IInv, AloneInv, Alone
        <5>2. \A u \in Tab : SameRows(calls[q].g, tabs[u], tabs'[u])
          BY <2>15, <2>17, <3>2, <5>1
        <5> QED BY <1>2, <2>6, <5>2, SameRowsKept DEF IInv
      <4>2. Live(p)' => calls'[p].op # "resync"
        BY <1>1, <2>1 DEF Same
      <4>3. \A q \in Call \ {p} : Live(q) /\ calls'[q].alone => calls[q].alone
        BY <2>1 DEF Rests, Becomes
      <4> QED BY <2>1, <2>6, <4>1, <4>2, <4>3, OthersResynced DEF IInv
    <3> QED BY <3>1, <3>2
  <2>19. ASSUME NEW h \in Group, NEW u \in Tab, Safe(h, u) PROVE Safe(h, u)'
    <3>1. Has(h, u)' /\ tabs[u] # <<>>
      BY <2>14, <2>19 DEF Safe, Has, RowNumbers
    <3>2. 1 \in DOMAIN tabs[u]
      <4>1. tabs[u] \in Seq(Row)
        BY <1>2
      <4> QED BY <3>1, <4>1
    <3>3. tabs'[u][1].g = tabs[u][1].g
      BY <2>8, <3>2
    <3> QED BY <1>2, <2>19, <3>1, <3>3 DEF Safe, Disturbed
  <2>20. ListedInv'
    <3> SUFFICES ASSUME NEW h \in listed, Kept(h), h \in Group PROVE Kept(h)'
      BY <1>2 DEF IInv, ListedInv
    <3>1. \A u \in Tab : Safe(h, u) => Safe(h, u)'
      BY <2>19
    <3>2. \E u \in Tab : Safe(h, u)'
      BY <3>1 DEF Kept
    <3>3. Live(p)' => Sparing(p)'
      <4>1. calls[p].todo \in {UpdateContactByGroupID, ContactPending}
        BY <1>1 DEF Left
      <4> QED BY <1>1, <2>1, <4>1, SparingGoesOn
    <3>4. Live(p)' => Same(p)
      BY <2>1
    <3> QED BY <1>2, <2>1, <3>1, <3>2, <3>3, <3>4, OthersListed DEF Tab
  <2> QED BY <2>6, <2>7, <2>10, <2>11, <2>12, <2>13, <2>16, <2>18, <2>20 DEF IInv
<1> QED BY <1>3, <1>4 DEF UpdateContactInTab

LEMMA RestartStep == ASSUME IInv, Restart PROVE IInv'
<1>1. /\ once' = [t \in Tab |-> "new"] /\ calls' = [p \in Call |-> Idle]
      /\ UNCHANGED <<db, tabs, commits, listed, headless>> /\ faults' \in 0..MaxFaults
  BY SheetAssumption DEF Restart, Fault, IInv, TypeOK
<1>2. \A p \in Call : ~Live(p)' /\ calls'[p].pc = "idle"
  BY <1>1, IdleIsCall DEF Live
<1>3. TypeOK'
  BY <1>1, IdleIsCall DEF IInv, TypeOK
<1>4. PlanInv' /\ HitsInv' /\ AloneInv' /\ ResyncInv'
  BY <1>2 DEF PlanInv, HitsInv, AloneInv, ResyncInv
<1>5. HeaderInv' /\ BodyInv' /\ DbInv'
  BY <1>1, <1>2 DEF IInv, HeaderInv, Headed, BodyInv, DbInv, Registers
<1>6. ListedInv'
  <2> SUFFICES ASSUME NEW h \in listed, Kept(h) PROVE Kept(h)'
    BY <1>1 DEF IInv, ListedInv
  <2>1. \E u \in Tab : Safe(h, u)'
    BY <1>1 DEF Kept, Safe, Has, Disturbed
  <2> QED BY <1>1, <1>2, <2>1 DEF Kept, Registers
<1> QED BY <1>3, <1>4, <1>5, <1>6 DEF IInv
----------------------------------------------------------------------------
(* The invariant, and what it says.                                        *)

LEMMA InitIInv == Init => IInv
<1> SUFFICES ASSUME Init PROVE IInv
  OBVIOUS
<1>1. /\ calls = [p \in Call |-> Idle] /\ tabs = [t \in Tab |-> <<>>]
      /\ once = [t \in Tab |-> "new"] /\ listed = {} /\ headless = {}
      /\ db = [g \in Group |-> [st |-> "none", roster |-> {}, contact |-> AnyContact]]
      /\ commits = 0 /\ faults = 0 /\ MaxCommits \in Nat /\ MaxFaults \in Nat
  BY SheetAssumption DEF Init
<1>2. \A p \in Call : ~Live(p) /\ calls[p].pc = "idle"
  BY <1>1, IdleIsCall DEF Live
<1>3. TypeOK
  <2>1. AnyContact \in Contact
    BY SheetAssumption DEF AnyContact
  <2> QED BY <1>1, <2>1, IdleIsCall DEF TypeOK, Registered
<1>4. PlanInv /\ HitsInv /\ AloneInv /\ ResyncInv /\ ListedInv
  BY <1>1, <1>2 DEF PlanInv, HitsInv, AloneInv, ResyncInv, ListedInv
<1>5. HeaderInv /\ BodyInv /\ DbInv
  BY <1>1, <1>2 DEF HeaderInv, Headed, BodyInv, DbInv, Registers
<1> QED BY <1>3, <1>4, <1>5 DEF IInv

LEMMA NextIInv == IInv /\ [Next]_vars => IInv'
<1> SUFFICES ASSUME IInv, [Next]_vars PROVE IInv'
  OBVIOUS
<1>1. ASSUME NEW p \in Call, NEW g \in Group, Caller(p, g) PROVE IInv'
  BY <1>1, CallerFacts, BeginStep, NoCallStep DEF IInv
<1>2. ASSUME NEW p \in Call, LoadRows(p) \/ StampOnly(p) PROVE IInv'
  BY <1>2, LoadStep, StampStep
<1>3. ASSUME NEW p \in Call, NEW t \in Tab, Request(p, t) PROVE IInv'
  BY <1>3, ReadA1Step, HeaderStep, AppendStep, ReadStep, DeleteStep, ContactStep DEF Request
<1>4. ASSUME NEW g \in Group, NEW st \in {"pending", "paid", "cancelled"}, SetPaymentStatus(g, st)
      PROVE  IInv'
  BY <1>4, StatusFacts, NoCallStep DEF IInv
<1>5. CASE Restart
  BY <1>5, RestartStep
<1>6. CASE UNCHANGED vars
  <2>1. UNCHANGED <<db, tabs, once, calls, commits, faults, listed, headless>>
    BY <1>6 DEF vars
  <2>2. TypeOK' /\ PlanInv' /\ HitsInv'
    BY <2>1 DEF IInv, TypeOK, PlanInv, Planned, Live, HeadTab, HitsInv, Counted
  <2>3. HeaderInv' /\ BodyInv' /\ DbInv'
    BY <2>1 DEF IInv, HeaderInv, Headed, HeadTab, BodyInv, DbInv, Registers
  <2>4. AloneInv'
    BY <2>1 DEF IInv, AloneInv, Alone, Live, HeadTab, Registers
  <2>5. ResyncInv'
    BY <2>1 DEF IInv, ResyncInv, Resynced, Written, Has, RowsOf, Live
  <2>6. ASSUME NEW h \in listed, Kept(h) PROVE Kept(h)'
    <3>1. \A q \in Call : Live(q) => (Sparing(q)' <=> Sparing(q))
      BY <2>1 DEF Sparing, Safe, Has, Disturbed
    <3> QED BY <2>1, <2>6, <3>1 DEF Kept, Safe, Has, Disturbed, Live, Registers
  <2>7. ListedInv'
    BY <2>1, <2>6 DEF IInv, ListedInv
  <2> QED BY <2>2, <2>3, <2>4, <2>5, <2>7 DEF IInv
<1> QED BY <1>1, <1>2, <1>3, <1>4, <1>5, <1>6 DEF Next

(* The invariant holds in every state.                                     *)
THEOREM SheetInvariance == Spec => []IInv
BY InitIInv, NextIInv, PTL DEF Spec

(* Every variable keeps its type, with the commits and the failures within *)
(* their bounds.                                                           *)
THEOREM SheetTypeCorrect == Spec => []TypeOK
<1>1. IInv => TypeOK
  BY DEF IInv
<1> QED BY <1>1, SheetInvariance, PTL

(* A tab with rows has its header on top, and only there, also under       *)
(* overlapping first appends, deletions by outdated row numbers and        *)
(* restarts, unless Google once failed when the header was due.            *)
THEOREM HeaderStaysOnTop == Spec => []HeaderOnTop
<1>1. IInv => HeaderOnTop
  BY DEF IInv, HeaderInv, Headed, BodyInv, HeaderOnTop
<1> QED BY <1>1, SheetInvariance, PTL

LEMMA RowsOfNone ==
    ASSUME TypeOK, NEW g, NEW t \in Tab
    PROVE  RowsOf(g, t) = <<>> <=> ~Has(g, t)
<1>1. tabs[t] \in Seq(Row)
  BY DEF TypeOK
<1> QED BY <1>1, NumbersOfRows, NonePicked DEF RowsOf, Has

(* Whatever went wrong before, a resync that runs through by itself leaves *)
(* the group's rows as the database had them, once, in one tab, and none   *)
(* in the other.                                                           *)
THEOREM ResyncIsExact == Spec => []ResyncExact
<1>1. ASSUME IInv PROVE ResyncExact
  <2> SUFFICES ASSUME NEW p \in Call, calls[p].pc = "stamp", calls[p].alone
               PROVE  \E t \in Tab :
                         /\ RowsOf(calls[p].g, t) = calls[p].rows
                         /\ \A u \in Tab \ {t} : RowsOf(calls[p].g, u) = <<>>
    BY DEF ResyncExact
  <2>1. Planned(p) /\ Live(p)
    BY <1>1 DEF IInv, PlanInv, Live
  <2>2. calls[p].op = "resync"
    BY <2>1 DEF Planned
  <2>3. Resynced(p)
    BY <1>1, <2>1, <2>2 DEF IInv, ResyncInv
  <2>4. PICK t \in Tab : Written(p, t) /\ \A u \in Tab \ {t} : ~Has(calls[p].g, u)
    BY <2>3 DEF Resynced
  <2> QED BY <1>1, <2>4, RowsOfNone DEF IInv, Written
<1> QED BY <1>1, SheetInvariance, PTL

(* A group that was appended is in the sheet until a call removes it: no   *)
(* failed or half-done call loses it, only two calls of the group at once  *)
(* or a write by outdated row numbers.                                     *)
THEOREM LostByOverlapOnly == Spec => []LostOnlyByOverlap
<1>1. ASSUME IInv PROVE LostOnlyByOverlap
  <2> SUFFICES ASSUME NEW g \in listed PROVE \E t \in Tab : RowsOf(g, t) # <<>>
    BY DEF LostOnlyByOverlap
  <2>1. PICK t \in Tab : Has(g, t)
    BY <1>1 DEF IInv, ListedInv, Kept, Safe
  <2> QED BY <1>1, <2>1, RowsOfNone DEF IInv
<1> QED BY <1>1, SheetInvariance, PTL

(* Only the call itself leaves its second request.                         *)
LEMMA LeavesWrite ==
    ASSUME IInv, Next, NEW p \in Call, NEW t \in Tab, calls[p].pc = "write",
           calls'[p].pc # "write", tabs'[t] # tabs[t]
    PROVE  \E u \in Tab : DeleteByGroupID(p, u) \/ UpdateContactInTab(p, u)
<1>1. ASSUME NEW q \in Call, Rests(q) PROVE q = p
  BY <1>1 DEF Rests, Becomes
<1>2. ASSUME NEW q \in Call, NEW u \in Tab, Request(q, u)
      PROVE  \E v \in Tab : DeleteByGroupID(p, v) \/ UpdateContactInTab(p, v)
  <2>1. CASE ReadA1(q, u) \/ ReadColumnA(q, u)
    BY <2>1 DEF ReadA1, ReadColumnA
  <2>2. CASE WriteHeader(q, u)
    <3>1. calls[q].pc = "header" /\ calls \in [Call -> CallRow]
      BY <2>2 DEF WriteHeader, Doing, IInv, TypeOK
    <3>2. calls'[p] = calls[p]
      BY <2>2, <3>1 DEF WriteHeader, Fails
    <3> QED BY <3>2
  <2>3. CASE AppendRows(q, u)
    <3>1. Doing(q, "next", "append", u)
      BY <2>3 DEF AppendRows
    <3>2. PICK no \in BOOLEAN : no = FALSE
      OBVIOUS
    <3>3. Lands(q, u, no)
      BY <2>3, <3>2 DEF AppendRows
    <3>4. calls[q].pc = "next" /\ calls[q].todo \in Left(calls[q].op)
      BY <3>1, DoingFacts DEF IInv
    <3>5. Rests(q)
      BY <3>3, <3>4, LandsFacts DEF IInv
    <3> QED BY <1>1, <3>4, <3>5
  <2>4. CASE DeleteByGroupID(q, u)
    <3>1. Doing(q, "write", "delete", u)
      BY <2>4 DEF DeleteByGroupID
    <3>2. PICK yes \in BOOLEAN : yes = TRUE
      OBVIOUS
    <3>3. Lands(q, u, yes)
      BY <2>4, <3>2 DEF DeleteByGroupID
    <3>4. calls[q].todo \in Left(calls[q].op)
      BY <3>1, DoingFacts DEF IInv
    <3>5. Rests(q)
      BY <3>3, <3>4, LandsFacts DEF IInv
    <3> QED BY <1>1, <2>4, <3>5
  <2>5. CASE UpdateContactInTab(q, u)
    <3>1. Doing(q, "write", "contact", u)
      BY <2>5 DEF UpdateContactInTab
    <3>2. PICK no \in BOOLEAN : no = FALSE
      OBVIOUS
    <3>3. Lands(q, u, no)
      BY <2>5, <3>2 DEF UpdateContactInTab
    <3>4. calls[q].todo \in Left(calls[q].op)
      BY <3>1, DoingFacts DEF IInv
    <3>5. Rests(q)
      BY <3>3, <3>4, LandsFacts DEF IInv
    <3> QED BY <1>1, <2>5, <3>5
  <2> QED BY <1>2, <2>1, <2>2, <2>3, <2>4, <2>5 DEF Request
<1>3. ASSUME NEW q \in Call, NEW g \in Group, Caller(q, g) PROVE UNCHANGED tabs
  BY <1>3, CallerFacts DEF IInv, NoCall, Calls, Begin
<1>4. ASSUME NEW q \in Call, LoadRows(q) \/ StampOnly(q) PROVE UNCHANGED tabs
  BY <1>4 DEF LoadRows, StampOnly
<1>5. ASSUME NEW g \in Group, NEW st \in {"pending", "paid", "cancelled"}, SetPaymentStatus(g, st)
      PROVE  UNCHANGED tabs
  BY <1>5 DEF SetPaymentStatus
<1>6. ASSUME Restart PROVE UNCHANGED tabs
  BY <1>6 DEF Restart
<1> QED BY <1>2, <1>3, <1>4, <1>5, <1>6 DEF Next

(* A write by row numbers that were still right touches the rows of its    *)
(* own group and no others, whatever else is in flight.                    *)
THEOREM WritesOwnRows == Spec => OwnRowsOnly
<1> DEFINE Own ==
      \A p \in Call, t \in Tab :
        (/\ calls[p].pc = "write" /\ ~calls[p].stale
         /\ calls'[p].pc # "write" /\ tabs'[t] # tabs[t])
          => \A g \in Group \ {calls[p].g} : RowsOf(g, t)' = RowsOf(g, t)
<1>1. ASSUME IInv, IInv', [Next]_vars PROVE [Own]_vars
  <2> SUFFICES ASSUME Next, NEW p \in Call, NEW t \in Tab, calls[p].pc = "write", ~calls[p].stale,
                      calls'[p].pc # "write", tabs'[t] # tabs[t], NEW g \in Group, g # calls[p].g
               PROVE  RowsOf(g, t)' = RowsOf(g, t)
    BY <1>1
  <2>1. PICK u \in Tab : DeleteByGroupID(p, u) \/ UpdateContactInTab(p, u)
    BY <1>1, LeavesWrite
  <2>2. SameRows(g, tabs[t], tabs'[t])
    BY <1>1, <2>1, DeleteSpares, ContactSpares
  <2> QED BY <1>1, <2>2, RowsStay DEF IInv
<1> QED BY <1>1, SheetInvariance, PTL DEF Spec, OwnRowsOnly
=============================================================================
