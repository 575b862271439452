-------------------------- MODULE PlanComboProofs --------------------------
(***************************************************************************)
(* Theorems about PlanCombo for any rows, costs, budgets and precision of  *)
(* money.                                                                  *)
(*                                                                         *)
(* A subtotal is at most half a cent from the price (Rounding), so that    *)
(* buying what fits leaves less than a unit and half a cent, and more than *)
(* minus half a cent.  Nothing is ever put back, so this stays true of     *)
(* every candidate that has been passed (FillInv), and of the categories   *)
(* that phase 1 could not afford (DiversifyInv).                           *)
(*                                                                         *)
(* What was spent is the sum of the subtotals (LedgerInv): a fact about    *)
(* finite sums, which come first.  They are taken over a recursion whose   *)
(* order is unspecified; the order the candidates are taken in is not, and *)
(* is shown to be unique (OrderDetermined).                                *)
(***************************************************************************)
EXTENDS PlanCombo, FiniteSetTheorems, TLAPS

(***************************************************************************)
(* Sums over finite sets.  Induction is put as its contrapositive: of the  *)
(* sets, or numbers, that a claim fails for, take a smallest one.          *)
(***************************************************************************)

\* A set of naturals that is not empty has a least element.
LEMMA LeastNatural ==
  ASSUME NEW T \in SUBSET Nat, T # {}
  PROVE  \E n \in T : \A m \in T : n <= m
<1>1. PICK n \in T : \A m \in T : ~ (<<m, n>> \in OpToRel(<, Nat))
  BY NatLessThanWellFounded, WFMin
<1>2. \A m \in T : ~ (m < n)
  BY <1>1 DEF OpToRel
<1> QED
  BY <1>2

\* Of some subsets of a finite set, one has none of the others below it.
LEMMA SmallestSubset ==
  ASSUME NEW S, IsFiniteSet(S), NEW T, T \subseteq SUBSET S, T # {}
  PROVE  \E s \in T : \A u \in T : u \subseteq s => u = s
<1>1. IsWellFoundedOn(StrictSubsetOrdering(S), SUBSET S)
  BY FS_StrictSubsetOrderingWellFounded, FS_FiniteSubsetsOfFinite
<1>2. PICK s \in T : \A u \in T : ~ (<<u, s>> \in StrictSubsetOrdering(S))
  BY <1>1, WFMin
<1> QED
  BY <1>2 DEF StrictSubsetOrdering

\* The element that SumFunctionOnSet takes next, and its recursive definition.
Pick(s) == CHOOSE x \in s : TRUE

Summing(fun, S, f) ==
    f = [s \in SUBSET S |-> IF s = {} THEN 0 ELSE fun[Pick(s)] + f[s \ {Pick(s)}]]

LEMMA SumUnfolds ==
  ASSUME NEW S, NEW fun
  PROVE  SumFunctionOnSet(fun, S) = (CHOOSE f : Summing(fun, S, f))[S]
BY DEF SumFunctionOnSet, FoldFunctionOnSet, MapThenFoldSet, Summing, Pick

\* The definition has a solution: one for the subsets of up to n elements gives one
\* for those of up to n + 1.
LEMMA SummingExists ==
  ASSUME NEW S, IsFiniteSet(S), NEW fun \in [S -> Int]
  PROVE  \E f : Summing(fun, S, f)
<1> DEFINE Small(n) == {s \in SUBSET S : Cardinality(s) <= n}
           Solves(f, n) == \A s \in Small(n) :
                              /\ f[s] \in Int
                              /\ f[s] = IF s = {} THEN 0 ELSE fun[Pick(s)] + f[s \ {Pick(s)}]
           Bad == {n \in Nat : ~ \E f : Solves(f, n)}
<1>1. \A s \in SUBSET S : IsFiniteSet(s) /\ Cardinality(s) \in Nat /\ (Cardinality(s) = 0 <=> s = {})
  BY FS_Subset, FS_CardinalityType, FS_EmptySet
<1>2. Bad = {}
  <2> SUFFICES ASSUME Bad # {}
               PROVE  FALSE
    OBVIOUS
  <2>1. PICK n \in Bad : \A m \in Bad : n <= m
    BY LeastNatural
  <2>2. CASE n = 0
    <3>1. \A s \in Small(0) : s = {}
      BY <1>1
    <3>2. Solves([s \in {{}} |-> 0], 0)
      BY <3>1
    <3> QED
      BY <2>1, <2>2, <3>2
  <2>3. CASE n # 0
    <3>1. n - 1 \in Nat /\ n - 1 \notin Bad
      <4>1. n \in Nat
        OBVIOUS
      <4> HIDE DEF Bad
      <4> QED
        BY <2>1, <2>3, <4>1
    <3>2. PICK f : Solves(f, n - 1)
      BY <3>1
    <3> DEFINE g == [s \in SUBSET S |-> IF s = {} THEN 0 ELSE fun[Pick(s)] + f[s \ {Pick(s)}]]
    <3>3. \A s \in Small(n) : s # {} => Pick(s) \in S /\ s \ {Pick(s)} \in Small(n - 1)
      <4> SUFFICES ASSUME NEW s \in Small(n), s # {}
                   PROVE  Pick(s) \in S /\ s \ {Pick(s)} \in Small(n - 1)
        OBVIOUS
      <4>1. Pick(s) \in s
        BY DEF Pick
      <4>2. Cardinality(s \ {Pick(s)}) = Cardinality(s) - 1
        BY <1>1, <4>1, FS_RemoveElement
      <4> QED
        BY <1>1, <2>1, <4>1, <4>2
    <3>4. \A s \in Small(n - 1) : s \in SUBSET S /\ g[s] = f[s] /\ f[s] \in Int
      BY <3>2
    <3>5. Solves(g, n)
      <4> SUFFICES ASSUME NEW s \in Small(n)
                   PROVE  /\ g[s] \in Int
                          /\ g[s] = IF s = {} THEN 0 ELSE fun[Pick(s)] + g[s \ {Pick(s)}]
        OBVIOUS
      <4>1. CASE s = {}
        BY <4>1
      <4>2. CASE s # {}
        <5>1. /\ Pick(s) \in S /\ fun[Pick(s)] \in Int
              /\ g[s \ {Pick(s)}] = f[s \ {Pick(s)}] /\ f[s \ {Pick(s)}] \in Int
          BY <3>3, <3>4, <4>2
        <5>2. g[s] = fun[Pick(s)] + f[s \ {Pick(s)}]
          BY <4>2
        <5> HIDE DEF g
        <5> QED
          BY <4>2, <5>1, <5>2
      <4> QED
        BY <4>1, <4>2
    <3> HIDE DEF g
    <3> QED
      BY <2>1, <3>5
  <2> QED
    BY <2>2, <2>3
<1>3. PICK f : Solves(f, Cardinality(S))
  BY <1>1, <1>2
<1>4. \A s \in SUBSET S : s \in Small(Cardinality(S))
  BY FS_Subset
<1> DEFINE g == [s \in SUBSET S |-> f[s]]
<1>5. \A s \in SUBSET S : g[s] = IF s = {} THEN 0 ELSE fun[Pick(s)] + g[s \ {Pick(s)}]
  <2> SUFFICES ASSUME NEW s \in SUBSET S
               PROVE  g[s] = IF s = {} THEN 0 ELSE fun[Pick(s)] + g[s \ {Pick(s)}]
    OBVIOUS
  <2>1. s \ {Pick(s)} \in SUBSET S
    OBVIOUS
  <2> QED
    BY <1>3, <1>4, <2>1
<1>6. Summing(fun, S, g)
  BY <1>5 DEF Summing
<1> QED
  BY <1>6

\* The empty sum is 0; any other is one of the values and the sum of the rest.
Sums(fun, S, f) ==
    /\ f \in [SUBSET S -> Int]
    /\ f[S] = SumFunctionOnSet(fun, S)
    /\ f[{}] = 0
    /\ \A s \in SUBSET S : s # {} => \E x \in s : f[s] = fun[x] + f[s \ {x}]

LEMMA SumsExist ==
  ASSUME NEW S, IsFiniteSet(S), NEW fun \in [S -> Int]
  PROVE  \E f : Sums(fun, S, f) /\ Summing(fun, S, f)
<1> DEFINE f == CHOOSE g : Summing(fun, S, g)
<1>1. Summing(fun, S, f)
  BY SummingExists
<1>2. f[S] = SumFunctionOnSet(fun, S)
  BY SumUnfolds
<1> HIDE DEF f
<1>3. \A s \in SUBSET S : f[s] = IF s = {} THEN 0 ELSE fun[Pick(s)] + f[s \ {Pick(s)}]
  <2> DEFINE g == [s \in SUBSET S |-> IF s = {} THEN 0 ELSE fun[Pick(s)] + f[s \ {Pick(s)}]]
  <2>1. f = g
    BY <1>1 DEF Summing
  <2>2. \A s \in SUBSET S : g[s] = IF s = {} THEN 0 ELSE fun[Pick(s)] + f[s \ {Pick(s)}]
    OBVIOUS
  <2> HIDE DEF g
  <2> QED
    BY <2>1, <2>2
<1>4. \A s \in SUBSET S : s # {} => Pick(s) \in s
  BY DEF Pick
<1>8. f[{}] = 0
  BY <1>3
<1>5. \A s \in SUBSET S : f[s] \in Int
  <2> DEFINE Bad == {s \in SUBSET S : f[s] \notin Int}
  <2> SUFFICES ASSUME Bad # {}
               PROVE  FALSE
    OBVIOUS
  <2>1. PICK s \in Bad : \A u \in Bad : u \subseteq s => u = s
    <3>1. Bad \subseteq SUBSET S
      OBVIOUS
    <3> HIDE DEF Bad
    <3> QED
      BY <3>1, SmallestSubset
  <2>2. s # {}
    BY <1>8
  <2>3. Pick(s) \in s /\ fun[Pick(s)] \in Int /\ f[s] = fun[Pick(s)] + f[s \ {Pick(s)}]
    BY <1>3, <1>4, <2>2
  <2>4. f[s \ {Pick(s)}] \in Int
    BY <2>1, <2>3
  <2> QED
    BY <2>1, <2>3, <2>4
<1>6. DOMAIN f = SUBSET S /\ f = [s \in SUBSET S |-> f[s]]
  BY <1>1 DEF Summing
<1>7. f \in [SUBSET S -> Int]
  BY <1>5, <1>6
<1>9. \A s \in SUBSET S : s # {} => \E x \in s : f[s] = fun[x] + f[s \ {x}]
  BY <1>3, <1>4
<1> QED
  BY <1>1, <1>2, <1>7, <1>8, <1>9 DEF Sums

LEMMA SumIsInt ==
  ASSUME NEW S, IsFiniteSet(S), NEW fun \in [S -> Int]
  PROVE  SumFunction(fun) \in Int
<1>1. PICK f : Sums(fun, S, f)
  BY SumsExist
<1> QED
  BY <1>1 DEF Sums, SumFunction

\* Changing one value changes the sum by as much.
LEMMA SumOfOneChange ==
  ASSUME NEW S, IsFiniteSet(S), NEW fun \in [S -> Int], NEW a \in S,
         NEW gun \in [S -> Int], \A x \in S \ {a} : gun[x] = fun[x]
  PROVE  SumFunction(gun) = SumFunction(fun) + (gun[a] - fun[a])
<1> DEFINE d == gun[a] - fun[a]
<1>1. d \in Int /\ gun[a] = fun[a] + d /\ \A x \in S : x # a => gun[x] = fun[x]
  OBVIOUS
<1> HIDE DEF d
<1>2. PICK f : Sums(fun, S, f) /\ Summing(fun, S, f)
  BY SumsExist
<1>3. PICK g : Sums(gun, S, g) /\ Summing(gun, S, g)
  BY <1>1, SumsExist
<1> DEFINE Differ(s) == g[s] # f[s] + IF a \in s THEN d ELSE 0
<1>4. \A s \in SUBSET S : s # {} =>
         /\ Pick(s) \in s
         /\ f[s] = fun[Pick(s)] + f[s \ {Pick(s)}]
         /\ g[s] = gun[Pick(s)] + g[s \ {Pick(s)}]
  BY <1>2, <1>3 DEF Summing, Pick
<1>5. \A s \in SUBSET S : ~ Differ(s)
  <2> DEFINE Bad == {s \in SUBSET S : Differ(s)}
  <2> SUFFICES ASSUME Bad # {}
               PROVE  FALSE
    OBVIOUS
  <2>1. PICK s \in Bad : \A u \in Bad : u \subseteq s => u = s
    <3>1. Bad \subseteq SUBSET S
      OBVIOUS
    <3> HIDE DEF Bad
    <3> QED
      BY <3>1, SmallestSubset
  <2>2. s # {}
    <3>1. f[{}] = 0 /\ g[{}] = 0
      BY <1>2, <1>3 DEF Sums
    <3> QED
      BY <1>1, <3>1
  <2> DEFINE x == Pick(s)
             t == s \ {x}
  <2>3. /\ x \in s /\ t \in SUBSET S /\ t # s
        /\ f[s] = fun[x] + f[t] /\ g[s] = gun[x] + g[t]
    BY <1>4, <2>2
  <2>4. /\ fun[x] \in Int /\ gun[x] \in Int /\ f[t] \in Int /\ g[t] \in Int
        /\ gun[x] = fun[x] + IF x = a THEN d ELSE 0
    BY <1>1, <1>2, <1>3, <2>3 DEF Sums
  <2>5. g[t] = f[t] + IF a \in t THEN d ELSE 0
    BY <2>1, <2>3
  <2>6. a \in s <=> (a \in t \/ x = a) /\ ~ (x = a /\ a \in t)
    BY <2>3
  <2> HIDE DEF x, t
  <2>7. CASE x = a
    BY <1>1, <2>1, <2>3, <2>4, <2>5, <2>6, <2>7
  <2>8. CASE x # a
    BY <1>1, <2>1, <2>3, <2>4, <2>5, <2>6, <2>8
  <2> QED
    BY <2>7, <2>8
<1>6. g[S] = f[S] + d
  BY <1>5
<1>7. SumFunction(fun) = f[S] /\ SumFunction(gun) = g[S]
  BY <1>2, <1>3 DEF Sums, SumFunction
<1> QED
  BY <1>6, <1>7 DEF d

\* A sum of zeros is 0.
LEMMA SumOfZeros ==
  ASSUME NEW S, IsFiniteSet(S)
  PROVE  SumFunction([x \in S |-> 0]) = 0
<1> DEFINE fun == [x \in S |-> 0]
<1>1. fun \in [S -> Int] /\ \A x \in S : fun[x] = 0
  OBVIOUS
<1> HIDE DEF fun
<1>2. PICK f : Sums(fun, S, f)
  BY <1>1, SumsExist
<1>3. \A s \in SUBSET S : f[s] = 0
  <2> DEFINE Bad == {s \in SUBSET S : f[s] # 0}
  <2> SUFFICES ASSUME Bad # {}
               PROVE  FALSE
    OBVIOUS
  <2>1. PICK s \in Bad : \A u \in Bad : u \subseteq s => u = s
    <3>1. Bad \subseteq SUBSET S
      OBVIOUS
    <3> HIDE DEF Bad
    <3> QED
      BY <3>1, SmallestSubset
  <2>2. s # {}
    BY <1>2, <2>1 DEF Sums
  <2>3. PICK x \in s : f[s] = fun[x] + f[s \ {x}]
    BY <1>2, <2>2 DEF Sums
  <2>4. s \ {x} \in SUBSET S /\ s \ {x} \subseteq s /\ s \ {x} # s /\ fun[x] = 0
    BY <1>1, <2>3
  <2>5. f[s \ {x}] = 0
    BY <2>1, <2>4
  <2> QED
    BY <2>1, <2>3, <2>4, <2>5
<1>4. SumFunction(fun) = f[S]
  BY <1>1, <1>2 DEF Sums, SumFunction
<1> QED
  BY <1>3, <1>4 DEF fun

\* The same of the subtotals.
LEMMA SubtotalChange ==
  ASSUME subtotal \in [Asins -> Int], subtotal' \in [Asins -> Int], NEW a \in Asins,
         \A b \in Asins \ {a} : subtotal'[b] = subtotal[b]
  PROVE  SumFunction(subtotal') = SumFunction(subtotal) + (subtotal'[a] - subtotal[a])
<1>1. IsFiniteSet(Asins)
  BY PlanAssumption
<1> QED
  BY <1>1, SumOfOneChange
-----------------------------------------------------------------------------

-----------------------------------------------------------------------------
(***************************************************************************)
(* The order of the candidates.                                            *)
(***************************************************************************)

\* The sort key puts any two ASINs in one order, whatever their ROI.
LEMMA BeforeIsStrictOrder ==
  /\ \A a \in Asins : ~ Before(a, a)
  /\ \A a, b \in Asins : Before(a, b) => ~ Before(b, a)
  /\ \A a, b \in Asins : a # b => Before(a, b) \/ Before(b, a)
  /\ \A a, b, c \in Asins : Before(a, b) /\ Before(b, c) => Before(a, c)
<1>1. None \notin Int /\ \A a \in Asins : a \in Nat /\ (Roi[a] = None \/ Roi[a] \in Int)
  BY PlanAssumption
<1> QED
  BY <1>1 DEF Before

\* Of some sets of ASINs, one has none of the others below it.
LEMMA SmallestSetOfAsins ==
  ASSUME NEW T, T \subseteq SUBSET Asins, T # {}
  PROVE  \E s \in T : \A u \in T : u \subseteq s => u = s
<1>1. IsFiniteSet(Asins)
  BY PlanAssumption
<1> QED
  BY <1>1, SmallestSubset

LEMMA AsinsAreFinite ==
  ASSUME NEW S \in SUBSET Asins
  PROVE  IsFiniteSet(S) /\ Cardinality(S) \in Nat
BY PlanAssumption, FS_Subset, FS_CardinalityType

\* A set that is not empty has a last element.
LEMMA LastExists ==
  ASSUME NEW S \in SUBSET Asins, S # {}
  PROVE  \E m \in S : \A a \in S \ {m} : Before(a, m)
<1> DEFINE After(a) == {b \in S : Before(a, b)}
           T == {After(a) : a \in S}
<1>1. \A a \in S : After(a) \in SUBSET Asins
  OBVIOUS
<1>2. \E s \in T : \A u \in T : u \subseteq s => u = s
  <2> HIDE DEF After
  <2>1. T \subseteq SUBSET Asins /\ T # {}
    BY <1>1
  <2> HIDE DEF T
  <2> QED
    BY <2>1, SmallestSetOfAsins
<1>3. PICK m \in S : \A a \in S : After(a) \subseteq After(m) => After(a) = After(m)
  <2> HIDE DEF After
  <2>1. \A a \in S : After(a) \in T
    OBVIOUS
  <2>2. \A u \in T : \E a \in S : u = After(a)
    OBVIOUS
  <2> HIDE DEF T
  <2> QED
    BY <1>2, <2>1, <2>2
<1>4. \A b \in S : ~ Before(m, b)
  <2> SUFFICES ASSUME NEW b \in S, Before(m, b)
               PROVE  FALSE
    OBVIOUS
  <2>1. After(b) \subseteq After(m)
    BY BeforeIsStrictOrder
  <2>2. b \in After(m) /\ b \notin After(b)
    BY BeforeIsStrictOrder
  <2> QED
    BY <1>3, <2>1, <2>2
<1> QED
  BY <1>4, BeforeIsStrictOrder

LEMMA OrderingExists ==
  ASSUME NEW S \in SUBSET Asins
  PROVE  Orderings(S) # {}
<1> DEFINE Bad == {s \in SUBSET Asins : Orderings(s) = {}}
<1> SUFFICES ASSUME Bad # {}
             PROVE  FALSE
  OBVIOUS
<1>1. PICK s \in Bad : \A u \in Bad : u \subseteq s => u = s
  <2>1. Bad \subseteq SUBSET Asins
    OBVIOUS
  <2> HIDE DEF Bad
  <2> QED
    BY <2>1, SmallestSetOfAsins
<1>2. IsFiniteSet(s) /\ Cardinality(s) \in Nat
  BY AsinsAreFinite
<1>3. s # {}
  <2>1. Cardinality({}) = 0
    BY FS_EmptySet
  <2>2. [j \in {} |-> j] \in Orderings({})
    BY <2>1 DEF Orderings
  <2> QED
    BY <2>2
<1>4. PICK m \in s : \A a \in s \ {m} : Before(a, m)
  BY <1>3, LastExists
<1> DEFINE n == Cardinality(s)
           r == s \ {m}
<1>5. n \in Nat /\ n > 0 /\ Cardinality(r) = n - 1
  BY <1>2, <1>4, FS_RemoveElement, FS_EmptySet
<1>6. PICK q : q \in Orderings(r)
  BY <1>1
<1>7. /\ q \in [1 .. n - 1 -> r]
      /\ \A j, k \in 1 .. n - 1 : j < k => Before(q[j], q[k])
  BY <1>5, <1>6 DEF Orderings
<1> DEFINE t == [j \in 1 .. n |-> IF j = n THEN m ELSE q[j]]
<1>8. t[n] = m /\ \A j \in 1 .. n : j # n => j \in 1 .. n - 1 /\ t[j] = q[j] /\ q[j] \in r
  BY <1>5, <1>7
<1>9. t \in [1 .. n -> s]
  BY <1>7, <1>8
<1>10. \A j, k \in 1 .. n : j < k => Before(t[j], t[k])
  <2> SUFFICES ASSUME NEW j \in 1 .. n, NEW k \in 1 .. n, j < k
               PROVE  Before(t[j], t[k])
    OBVIOUS
  <2> HIDE DEF t, n
  <2>1. j # n /\ j \in 1 .. n - 1 /\ t[j] = q[j] /\ q[j] \in r
    BY <1>5, <1>8
  <2>2. CASE k = n
    BY <1>4, <1>8, <2>1, <2>2
  <2>3. CASE k # n
    BY <1>7, <1>8, <2>1, <2>3
  <2> QED
    BY <2>2, <2>3
<1>11. t \in Orderings(s)
  BY <1>9, <1>10 DEF Orderings
<1> QED
  BY <1>11

LEMMA OrderingHitsAll ==
  ASSUME NEW S \in SUBSET Asins, NEW s \in Orderings(S), NEW a \in S
  PROVE  \E j \in 1 .. Cardinality(S) : s[j] = a
<1> DEFINE n == Cardinality(S)
           D == 1 .. n
<1>1. IsFiniteSet(S) /\ n \in Nat
  BY AsinsAreFinite
<1>2. s \in [D -> S] /\ \A j, k \in D : j < k => Before(s[j], s[k])
  BY DEF Orderings
<1>3. IsFiniteSet(D) /\ Cardinality(D) = n
  BY <1>1, FS_Interval
<1>4. \A j, k \in D : s[j] = s[k] => j = k
  <2> SUFFICES ASSUME NEW j \in D, NEW k \in D, s[j] = s[k], j < k \/ k < j
               PROVE  FALSE
    BY <1>1
  <2>1. Before(s[j], s[j]) /\ s[j] \in Asins
    BY <1>2
  <2> QED
    BY <2>1, BeforeIsStrictOrder
<1>5. s \in Injection(D, S)
  BY <1>2, <1>4 DEF Injection, IsInjective
<1>6. s \in Surjection(D, S)
  BY <1>1, <1>3, <1>5, FS_Injection
<1> QED
  BY <1>6 DEF Surjection

LEMMA OrderingUnique ==
  ASSUME NEW S \in SUBSET Asins, NEW s \in Orderings(S), NEW t \in Orderings(S)
  PROVE  s = t
<1> DEFINE n == Cardinality(S)
           Bad == {j \in 1 .. n : s[j] # t[j]}
<1>1. n \in Nat
  BY AsinsAreFinite
<1>2. /\ s \in [1 .. n -> S] /\ \A j, k \in 1 .. n : j < k => Before(s[j], s[k])
      /\ t \in [1 .. n -> S] /\ \A j, k \in 1 .. n : j < k => Before(t[j], t[k])
  BY DEF Orderings
<1> SUFFICES ASSUME Bad # {}
             PROVE  FALSE
  <2>1. CASE \A j \in 1 .. n : s[j] = t[j]
    <3>1. /\ s \in [1 .. n -> S] /\ t \in [1 .. n -> S]
      BY <1>2
    <3>2. s = [j \in 1 .. n |-> s[j]] /\ t = [j \in 1 .. n |-> t[j]]
      BY <3>1
    <3>3. [j \in 1 .. n |-> s[j]] = [j \in 1 .. n |-> t[j]]
      BY <2>1
    <3> QED
      BY <3>2, <3>3
  <2>2. CASE \E j \in 1 .. n : s[j] # t[j]
    BY <2>2
  <2> QED
    BY <2>1, <2>2
<1>3. PICK j \in Bad : \A k \in Bad : j <= k
  <2>1. Bad \subseteq Nat
    BY <1>1
  <2> HIDE DEF Bad
  <2> QED
    BY <2>1, LeastNatural
<1>4. j \in 1 .. n /\ s[j] \in S /\ t[j] \in S /\ s[j] # t[j]
  BY <1>2
<1>5. \A k \in 1 .. n : k < j => s[k] = t[k]
  BY <1>1, <1>3
<1>6. PICK k \in 1 .. n : t[k] = s[j]
  BY <1>4, OrderingHitsAll
<1>7. PICK l \in 1 .. n : s[l] = t[j]
  BY <1>4, OrderingHitsAll
<1> HIDE DEF Bad, n
<1>8. ~ (k < j) /\ ~ (l < j)
  <2>1. k < j => s[k] = s[j] /\ Before(s[k], s[j])
    BY <1>2, <1>4, <1>5, <1>6
  <2>2. l < j => t[l] = t[j] /\ Before(t[l], t[j])
    BY <1>2, <1>4, <1>5, <1>7
  <2> QED
    BY <1>4, <2>1, <2>2, BeforeIsStrictOrder
<1>9. j < k /\ j < l
  BY <1>1, <1>4, <1>6, <1>7, <1>8
<1>10. Before(t[j], s[j]) /\ Before(s[j], t[j])
  BY <1>2, <1>4, <1>6, <1>7, <1>9
<1> QED
  BY <1>4, <1>10, BeforeIsStrictOrder

\* The planner promises the same plan for the same inputs, in whatever order the
\* database returns the rows: there is exactly one order to consider them in.
THEOREM OrderDetermined ==
  ASSUME NEW costs, NEW out
  PROVE  \E s : Orderings(Candidates(costs, out)) = {s}
<1>1. Candidates(costs, out) \in SUBSET Asins
  BY PlanAssumption DEF Candidates
<1>2. PICK s : s \in Orderings(Candidates(costs, out))
  BY <1>1, OrderingExists
<1> DEFINE C == Orderings(Candidates(costs, out))
<1>3. \A t \in C : t = s
  BY <1>1, <1>2, OrderingUnique
<1>4. s \in C
  BY <1>2
<1>5. C = {s}
  <2> HIDE DEF C
  <2> QED
    BY <1>3, <1>4
<1> QED
  BY <1>5

-----------------------------------------------------------------------------
USE DEF Unseen, Affordable, Fitting
USE PlanAssumption

\* Division leaves less than the divisor.
LEMMA Division ==
  ASSUME NEW x \in Int, NEW d \in Nat \ {0}
  PROVE  /\ x \div d \in Int
         /\ x % d \in Int /\ 0 <= x % d /\ x % d < d
         /\ x = d * (x \div d) + (x % d)
OBVIOUS

\* A price is rounded to whole cents, by half a cent at most.
LEMMA Rounding ==
  ASSUME NEW x \in Int
  PROVE  /\ Quantize(x) \in Int
         /\ 2 * Quantize(x) <= 2 * x + Cent
         /\ 2 * x <= 2 * Quantize(x) + Cent
         /\ x >= 0 => Quantize(x) >= 0
<1> DEFINE down == x \div Cent
           rest == x % Cent
           up == 2 * rest > Cent \/ (2 * rest = Cent /\ down % 2 = 1)
<1>1. /\ down \in Int /\ rest \in Int /\ 0 <= rest /\ rest < Cent
      /\ x = Cent * down + rest
  BY Division
<1>2. Quantize(x) = Cent * IF up THEN down + 1 ELSE down
  BY DEF Quantize
<1>3. x >= 0 => Cent * down >= 0
  <2>1. x >= 0 => down >= 0
    OBVIOUS
  <2> HIDE DEF down
  <2> QED
    BY <1>1, <2>1
<1> HIDE DEF down, rest
<1>4. Cent * down \in Int /\ Cent * (down + 1) = Cent * down + Cent
  BY <1>1
<1>5. CASE up
  BY <1>1, <1>2, <1>3, <1>4, <1>5
<1>6. CASE ~ up
  BY <1>1, <1>2, <1>3, <1>4, <1>6
<1> QED
  BY <1>5, <1>6

-----------------------------------------------------------------------------
Passed == 1 .. i - 1

Wanted == {a \in Eligible \ excluded : cost[a] > 0}

TypeInv ==
    /\ cost \in [Asins -> Costs]
    /\ category \in [Asins -> Categories]
    /\ budget \in Budgets /\ diversify \in BOOLEAN
    /\ candidates \in Seq(Wanted)
    /\ phase \in {"diversify", "fill", "done"}
    /\ i \in 1 .. Len(candidates) + 1
    /\ phase = "done" => i = Len(candidates) + 1
    /\ remaining \in Int
    /\ qty \in [Asins -> Nat]
    /\ subtotal \in [Asins -> Int]
    /\ seen \subseteq Categories

\* What has been passed in phase 2 cannot be bought again, but for rounding.
FillInv ==
    phase # "diversify" =>
        \A j \in Passed : 2 * remaining <= 2 * cost[candidates[j]] + Cent

\* The whole of phase 1, up to the first step of phase 2.
DiversifyInv ==
    phase = "diversify" \/ (phase = "fill" /\ i = 1 /\ diversify) =>
        /\ \A a \in Asins : qty[a] > 0 => qty[a] = 1 /\ category[a] \in seen
        /\ \A a, b \in Asins : qty[a] > 0 /\ qty[b] > 0 /\ category[a] = category[b] => a = b
        /\ \A j \in DOMAIN candidates :
             j < i \/ phase = "fill" =>
                category[candidates[j]] \in seen \/ cost[candidates[j]] > remaining

Overdraft == 2 * remaining + Cent >= 0

\* A candidate has a price above 0.
LEMMA CandidateFacts ==
  ASSUME TypeInv, NEW j \in DOMAIN candidates
  PROVE  /\ candidates[j] \in Asins /\ cost[candidates[j]] \in Int
         /\ cost[candidates[j]] > 0 /\ category[candidates[j]] \in Categories
<1>1. candidates[j] \in Wanted
  BY DEF TypeInv
<1>2. candidates[j] \in Asins /\ cost[candidates[j]] > 0
  BY <1>1 DEF Wanted
<1> QED
  BY <1>2 DEF TypeInv

\* What it means to buy n units of a for no more than remains.
LEMMA AddFacts ==
  ASSUME TypeInv, NEW a \in Asins, NEW n \in Nat, cost[a] > 0, cost[a] * n <= remaining, Add(a, n)
  PROVE  /\ remaining' \in Int /\ remaining' <= remaining
         /\ 2 * remaining' + Cent >= 0
         /\ 2 * remaining' <= 2 * (remaining - cost[a] * n) + Cent
         /\ qty' = [qty EXCEPT ![a] = @ + n] /\ qty' \in [Asins -> Nat]
         /\ subtotal' \in [Asins -> Int]
<1> DEFINE x == cost[a] * n
           sub == Quantize(x)
<1>1. cost[a] \in Int
  BY DEF TypeInv
<1>2. x \in Int /\ x >= 0 /\ x <= remaining
  BY <1>1
<1>3. /\ qty' = [qty EXCEPT ![a] = @ + n]
      /\ subtotal' = [subtotal EXCEPT ![a] = @ + sub]
      /\ remaining' = remaining - sub
  BY DEF Add
<1> HIDE DEF x
<1>4. /\ sub \in Int /\ 2 * sub <= 2 * x + Cent /\ 2 * x <= 2 * sub + Cent /\ sub >= 0
  BY <1>2, Rounding
<1> HIDE DEF sub
<1>5. remaining \in Int /\ qty \in [Asins -> Nat] /\ subtotal \in [Asins -> Int]
  BY DEF TypeInv
<1>6. 2 * remaining' <= 2 * (remaining - x) + Cent
  BY <1>2, <1>3, <1>4, <1>5
<1> QED
  BY <1>2, <1>3, <1>4, <1>5, <1>6 DEF x

\* What fits costs no more than what is left, and leaves less than a unit.
LEMMA FittingFacts ==
  ASSUME TypeInv, NEW a \in Asins, cost[a] \in Int, cost[a] > 0, cost[a] <= remaining
  PROVE  /\ Fitting(a) \in Nat
         /\ cost[a] * Fitting(a) <= remaining
         /\ remaining - cost[a] * Fitting(a) < cost[a]
<1> DEFINE r == remaining
           c == cost[a]
           q == r \div c
<1>1. r \in Int /\ r >= 0 /\ c \in Nat \ {0}
  BY DEF TypeInv
<1>2. q \in Int /\ r % c \in Int /\ 0 <= r % c /\ r % c < c /\ r = c * q + (r % c)
  <2> HIDE DEF r, c
  <2> QED
    BY <1>1, Division
<1>3. q >= 0
  <2> HIDE DEF r, c
  <2> QED
    BY <1>1
<1>4. c * q \in Int
  <2> HIDE DEF c, q
  <2> QED
    BY <1>1, <1>2
<1>5. c * q <= r /\ r - c * q < c
  <2> HIDE DEF c, q, r
  <2> QED
    BY <1>1, <1>2, <1>4
<1> QED
  BY <1>2, <1>3, <1>5

-----------------------------------------------------------------------------
PlanInv == TypeInv /\ FillInv /\ DiversifyInv /\ Overdraft

LEMMA PlanInit == Init => PlanInv
<1> SUFFICES ASSUME Init
             PROVE  PlanInv
  OBVIOUS
<1>1. candidates \in Seq(Wanted) /\ 1 \in 1 .. Len(candidates) + 1
  <2> DEFINE C == Candidates(cost, excluded)
  <2>1. candidates \in Orderings(C)
    BY DEF Init
  <2>2. candidates \in [1 .. Cardinality(C) -> C] /\ C = Wanted
    BY <2>1, Zenon DEF Orderings, Candidates, Wanted
  <2>3. Cardinality(C) \in Nat
    <3>1. C \subseteq Asins
      BY DEF Candidates
    <3> QED
      BY <3>1, FS_Subset, FS_CardinalityType
  <2> QED
    BY <2>2, <2>3
<1>2. TypeInv
  BY <1>1 DEF Init, TypeInv
<1>3. Passed = {} /\ \A a \in Asins : ~ (qty[a] > 0)
  BY DEF Init, Passed
<1>4. phase = "fill" => ~ diversify
  BY DEF Init
<1>5. i = 1 /\ \A j \in DOMAIN candidates : ~ (j < i)
  BY <1>2 DEF Init, TypeInv
<1>6. Overdraft
  BY <1>2 DEF Init, TypeInv, Overdraft
<1>7. FillInv /\ DiversifyInv
  BY <1>3, <1>4, <1>5 DEF Init, FillInv, DiversifyInv
<1> QED
  BY <1>2, <1>6, <1>7 DEF PlanInv

\* Phase 1 takes a unit of an unseen category, or passes.
LEMMA DiversifyNext == PlanInv /\ DiversifyStep => PlanInv'
<1> SUFFICES ASSUME PlanInv, DiversifyStep
             PROVE  PlanInv'
  OBVIOUS
<1> USE DEF PlanInv
<1> DEFINE a == candidates[i]
<1>1. /\ phase = "diversify" /\ phase' = "diversify"
      /\ i \in DOMAIN candidates /\ i' = i + 1 /\ UNCHANGED inputs
  BY DEF DiversifyStep
<1>2. /\ a \in Asins /\ cost[a] \in Int /\ cost[a] > 0 /\ category[a] \in Categories
  BY <1>1, CandidateFacts
<1>3. UNCHANGED <<cost, category, excluded, budget, diversify, candidates>>
  BY <1>1 DEF inputs
<1>4. i \in Nat /\ i' \in 1 .. Len(candidates) + 1 /\ \A j \in DOMAIN candidates : j < i' => j < i \/ j = i
  BY <1>1 DEF TypeInv
<1>5. CASE UNCHANGED <<remaining, qty, subtotal, seen>> /\ ~ (Unseen(a) /\ Affordable(a))
  <2>1. TypeInv'
    BY <1>1, <1>3, <1>4, <1>5 DEF TypeInv, Wanted
  <2>2. category[a] \in seen \/ cost[a] > remaining
    BY <1>2, <1>5 DEF TypeInv
  <2>3. DiversifyInv'
    BY <1>1, <1>3, <1>4, <1>5, <2>2 DEF DiversifyInv
  <2> QED
    BY <1>1, <1>5, <2>1, <2>3 DEF FillInv, Overdraft
<1>6. CASE Unseen(a) /\ Affordable(a) /\ Add(a, 1) /\ seen' = seen \cup {category[a]}
  <2> HIDE DEF a
  <2>1. cost[a] * 1 <= remaining
    BY <1>2, <1>6
  <2>2. /\ remaining' \in Int /\ remaining' <= remaining
        /\ 2 * remaining' + Cent >= 0
        /\ qty' = [qty EXCEPT ![a] = @ + 1] /\ qty' \in [Asins -> Nat]
        /\ subtotal' \in [Asins -> Int]
    BY <1>2, <1>6, <2>1, AddFacts
  <2>3. TypeInv'
    BY <1>1, <1>2, <1>3, <1>4, <1>6, <2>2 DEF TypeInv, Wanted
  <2>4. qty[a] = 0 /\ qty'[a] = 1 /\ \A b \in Asins : b # a => qty'[b] = qty[b]
    <3>1. qty[a] = 0
      BY <1>1, <1>2, <1>6 DEF DiversifyInv, TypeInv
    <3> QED
      BY <1>2, <2>2, <3>1 DEF TypeInv
  <2>5. \A b \in Asins : qty[b] > 0 => category[b] # category[a]
    BY <1>1, <1>6 DEF DiversifyInv
  <2>6. /\ \A b \in Asins : qty'[b] > 0 => qty'[b] = 1 /\ category[b] \in seen'
        /\ \A b, c \in Asins : qty'[b] > 0 /\ qty'[c] > 0 /\ category[b] = category[c] => b = c
    BY <1>1, <1>6, <2>4, <2>5 DEF DiversifyInv
  <2>7. \A j \in DOMAIN candidates :
           j < i' => category[candidates[j]] \in seen' \/ cost[candidates[j]] > remaining'
    <3> SUFFICES ASSUME NEW j \in DOMAIN candidates, j < i'
                 PROVE  category[candidates[j]] \in seen' \/ cost[candidates[j]] > remaining'
      OBVIOUS
    <3>1. CASE j = i
      BY <1>6, <3>1 DEF a
    <3>2. CASE j < i
      <4>1. category[candidates[j]] \in seen \/ cost[candidates[j]] > remaining
        BY <1>1, <3>2 DEF DiversifyInv
      <4>2. cost[candidates[j]] \in Int
        BY CandidateFacts
      <4> QED
        BY <1>6, <2>2, <4>1, <4>2 DEF TypeInv
    <3> QED
      BY <1>4, <3>1, <3>2
  <2>8. DiversifyInv'
    BY <1>1, <1>3, <2>6, <2>7 DEF DiversifyInv
  <2> QED
    BY <1>1, <2>2, <2>3, <2>8 DEF FillInv, Overdraft
<1> QED
  BY <1>5, <1>6 DEF DiversifyStep

\* Phase 2 buys what fits.
LEMMA FillNext == PlanInv /\ FillStep => PlanInv'
<1> SUFFICES ASSUME PlanInv, FillStep
             PROVE  PlanInv'
  OBVIOUS
<1> USE DEF PlanInv
<1> DEFINE a == candidates[i]
<1>1. /\ phase = "fill" /\ phase' = "fill" /\ seen' = seen
      /\ i \in DOMAIN candidates /\ i' = i + 1 /\ UNCHANGED inputs
  BY DEF FillStep
<1>2. /\ a \in Asins /\ cost[a] \in Int /\ cost[a] > 0
  BY <1>1, CandidateFacts
<1>3. UNCHANGED <<cost, category, excluded, budget, diversify, candidates>>
  BY <1>1 DEF inputs
<1>4. /\ i \in Nat /\ i \in DOMAIN candidates /\ i' # 1 /\ i' \in 1 .. Len(candidates) + 1
      /\ \A j \in Passed' : j \in DOMAIN candidates /\ (j \in Passed \/ j = i)
  BY <1>1 DEF TypeInv, Passed
<1>5. DiversifyInv'
  BY <1>1, <1>4 DEF DiversifyInv
<1>6. /\ remaining' \in Int /\ remaining' <= remaining
      /\ 2 * remaining' + Cent >= 0
      /\ qty' \in [Asins -> Nat] /\ subtotal' \in [Asins -> Int]
      /\ 2 * remaining' <= 2 * cost[a] + Cent
  <2>1. CASE ~ Affordable(a) /\ UNCHANGED <<remaining, qty, subtotal>>
    BY <1>2, <2>1 DEF TypeInv, Overdraft
  <2>2. CASE Affordable(a) /\ Add(a, Fitting(a))
    <3> DEFINE n == Fitting(a)
    <3>1. n \in Nat /\ cost[a] * n <= remaining /\ remaining - cost[a] * n < cost[a]
      BY <1>2, <2>2, FittingFacts
    <3> HIDE DEF n, a
    <3>2. /\ remaining' \in Int /\ remaining' <= remaining
          /\ 2 * remaining' + Cent >= 0
          /\ 2 * remaining' <= 2 * (remaining - cost[a] * n) + Cent
          /\ qty' \in [Asins -> Nat] /\ subtotal' \in [Asins -> Int]
      BY <1>2, <2>2, <3>1, AddFacts DEF n
    <3>3. cost[a] * n \in Int /\ remaining \in Int
      BY <1>2, <3>1 DEF TypeInv
    <3>4. 2 * remaining' <= 2 * cost[a] + Cent
      BY <1>2, <3>1, <3>2, <3>3
    <3> QED
      BY <3>2, <3>4
  <2> QED
    BY <2>1, <2>2 DEF FillStep
<1>7. TypeInv'
  BY <1>1, <1>3, <1>4, <1>6 DEF TypeInv, Wanted
<1>8. FillInv'
  <2> SUFFICES ASSUME NEW j \in Passed'
               PROVE  2 * remaining' <= 2 * cost[candidates[j]] + Cent
    BY <1>3 DEF FillInv
  <2>1. CASE j = i
    BY <1>6, <2>1
  <2>2. CASE j \in Passed
    <3>1. 2 * remaining <= 2 * cost[candidates[j]] + Cent
      BY <1>1, <2>2 DEF FillInv
    <3>2. cost[candidates[j]] \in Int /\ remaining \in Int
      BY <1>4, CandidateFacts DEF TypeInv
    <3> QED
      BY <1>6, <3>1, <3>2
  <2> QED
    BY <1>4, <2>1, <2>2
<1> QED
  BY <1>5, <1>6, <1>7, <1>8 DEF Overdraft

LEMMA PlanNext == PlanInv /\ [Next]_vars => PlanInv'
<1> SUFFICES ASSUME PlanInv, [Next]_vars
             PROVE  PlanInv'
  OBVIOUS
<1>1. CASE UNCHANGED vars
  BY <1>1 DEF vars, inputs, PlanInv, TypeInv, FillInv, DiversifyInv, Overdraft, Wanted, Passed
<1>2. CASE EndDiversify
  <2>1. /\ phase = "diversify" /\ phase' = "fill" /\ i' = 1 /\ i \notin DOMAIN candidates
        /\ UNCHANGED <<cost, category, excluded, budget, diversify, candidates,
                       remaining, qty, subtotal, seen>>
    BY <1>2 DEF EndDiversify, inputs
  <2>2. TypeInv'
    BY <2>1 DEF PlanInv, TypeInv, Wanted
  <2>3. Passed' = {}
    BY <2>1 DEF Passed
  <2>4. \A j \in DOMAIN candidates : j < i
    BY <2>1 DEF PlanInv, TypeInv
  <2>5. DiversifyInv'
    BY <2>1, <2>4 DEF PlanInv, DiversifyInv
  <2> QED
    BY <2>1, <2>2, <2>3, <2>5 DEF PlanInv, FillInv, Overdraft
<1>3. CASE Finish
  <2>1. /\ phase = "fill" /\ phase' = "done" /\ i \notin DOMAIN candidates
        /\ UNCHANGED <<cost, category, excluded, budget, diversify, candidates,
                       i, remaining, qty, subtotal, seen>>
    BY <1>3 DEF Finish, inputs
  <2>2. i = Len(candidates) + 1
    BY <2>1 DEF PlanInv, TypeInv
  <2>3. TypeInv'
    BY <2>1, <2>2 DEF PlanInv, TypeInv, Wanted
  <2> QED
    BY <2>1, <2>3 DEF PlanInv, FillInv, DiversifyInv, Overdraft, Passed
<1> QED
  BY <1>1, <1>2, <1>3, DiversifyNext, FillNext DEF Next

LEMMA PlanInvariant == Spec => []PlanInv
BY PlanInit, PlanNext, PTL DEF Spec

-----------------------------------------------------------------------------
\* Every variable of the planner stays in its type.
THEOREM TypeCorrect == Spec => []TypeOK
<1>1. PlanInv => TypeOK
  BY DEF PlanInv, TypeInv, TypeOK, Wanted
<1> QED
  BY <1>1, PlanInvariant, PTL

\* However many subtotals are rounded, the budget is overdrawn by half a cent at most:
\* what is left is never below minus half a cent.
THEOREM OverdraftBounded == Spec => []Overdraft
<1>1. PlanInv => Overdraft
  BY DEF PlanInv
<1> QED
  BY <1>1, PlanInvariant, PTL

\* A finished plan leaves the price of a unit and half a cent of no candidate.
THEOREM NothingLeftToBuy == Spec => []BudgetUsedUp
<1>1. PlanInv => BudgetUsedUp
  <2> SUFFICES ASSUME PlanInv, phase = "done", NEW j \in DOMAIN candidates
               PROVE  2 * remaining <= 2 * cost[candidates[j]] + Cent
    BY DEF BudgetUsedUp
  <2>1. j \in Passed
    BY DEF PlanInv, TypeInv, Passed
  <2> QED
    BY <2>1 DEF PlanInv, FillInv
<1> QED
  BY <1>1, PlanInvariant, PTL

\* After phase 1 a category is covered, once, unless none of its candidates fits.
THEOREM CategoriesCovered == Spec => []EveryCategoryThatFits
<1>1. PlanInv => EveryCategoryThatFits
  BY DEF PlanInv, DiversifyInv, EveryCategoryThatFits
<1> QED
  BY <1>1, PlanInvariant, PTL

-----------------------------------------------------------------------------
\* A whole number of cents has no rest.
LEMMA WholeCents ==
  ASSUME NEW m \in Int
  PROVE  Cent * m \in Int /\ (Cent * m) % Cent = 0
<1> DEFINE x == Cent * m
           q == x \div Cent
           r == x % Cent
<1>1. x \in Int
  OBVIOUS
<1>2. q \in Int /\ r \in Int /\ 0 <= r /\ r < Cent /\ x = Cent * q + r
  <2> HIDE DEF x
  <2> QED
    BY <1>1, Division
<1>3. \A k \in Int : /\ k >= 1 => Cent * k >= Cent
                     /\ k <= 0 => Cent * k <= 0
  OBVIOUS
<1>4. r = Cent * (m - q)
  <2>1. Cent * m = Cent * q + r
    BY <1>2
  <2>2. Cent * (m - q) = Cent * m - Cent * q
    <3> HIDE DEF q
    <3> QED
      BY <1>2
  <2> HIDE DEF q, r
  <2> QED
    BY <1>2, <2>1, <2>2
<1>5. m - q \in Int /\ (m - q >= 1 \/ m - q <= 0)
  <2> HIDE DEF q
  <2> QED
    BY <1>2
<1> HIDE DEF q, r, x
<1>6. r = 0
  BY <1>2, <1>3, <1>4, <1>5
<1> QED
  BY <1>1, <1>6 DEF x, r

\* The subtotals are whole cents, and what was spent is their sum.
LedgerInv ==
    /\ \E k \in Int : SumFunction(subtotal) = Cent * k
    /\ SumFunction(subtotal) + remaining = Purse

LEMMA LedgerInit == Init => LedgerInv
<1> SUFFICES ASSUME Init
             PROVE  LedgerInv
  OBVIOUS
<1>1. SumFunction(subtotal) = 0
  BY SumOfZeros DEF Init
<1>2. 0 = Cent * 0 /\ 0 \in Int /\ Purse \in Int /\ remaining = Purse
  BY DEF Init, Purse
<1>3. \E k \in Int : SumFunction(subtotal) = Cent * k
  BY <1>1, <1>2
<1> QED
  BY <1>1, <1>2, <1>3 DEF LedgerInv

\* What is added to a subtotal is taken from what remains.
LEMMA AddBooks ==
  ASSUME TypeInv, LedgerInv, NEW a \in Asins, NEW n \in Nat, Add(a, n), Purse' = Purse
  PROVE  LedgerInv'
<1> DEFINE sub == Quantize(cost[a] * n)
<1>1. subtotal' = [subtotal EXCEPT ![a] = @ + sub] /\ remaining' = remaining - sub
  BY DEF Add
<1>2. PICK k \in Int : sub = Cent * k
  <2> DEFINE x == cost[a] * n
             down == x \div Cent
             up == 2 * (x % Cent) > Cent \/ (2 * (x % Cent) = Cent /\ down % 2 = 1)
  <2>1. sub = Cent * IF up THEN down + 1 ELSE down
    BY DEF Quantize
  <2>2. x \in Int
    <3>1. cost[a] \in Int
      BY DEF TypeInv
    <3> QED
      BY <3>1
  <2>3. down \in Int
    <3> HIDE DEF x
    <3> QED
      BY <2>2, Division
  <2> HIDE DEF sub, down, up
  <2>4. (IF up THEN down + 1 ELSE down) \in Int
    BY <2>3
  <2> QED
    BY <2>1, <2>4
<1>3. sub \in Int
  <2> HIDE DEF sub
  <2> QED
    BY <1>2
<1> HIDE DEF sub
<1>4. subtotal \in [Asins -> Int] /\ remaining \in Int
  BY DEF TypeInv
<1>5. /\ SumFunction(subtotal) \in Int
      /\ SumFunction(subtotal') = SumFunction(subtotal) + sub
  <2>1. /\ subtotal' \in [Asins -> Int] /\ subtotal'[a] = subtotal[a] + sub
        /\ \A b \in Asins \ {a} : subtotal'[b] = subtotal[b]
    BY <1>1, <1>3, <1>4
  <2>2. IsFiniteSet(Asins)
    OBVIOUS
  <2>3. SumFunction(subtotal') = SumFunction(subtotal) + (subtotal'[a] - subtotal[a])
    BY <1>4, <2>1, SubtotalChange
  <2>4. SumFunction(subtotal) \in Int
    BY <1>4, <2>2, SumIsInt
  <2> QED
    BY <1>3, <1>4, <2>1, <2>3, <2>4
<1>6. PICK l \in Int : SumFunction(subtotal) = Cent * l
  BY DEF LedgerInv
<1>7. SumFunction(subtotal') = Cent * (l + k)
  BY <1>2, <1>5, <1>6
<1>8. SumFunction(subtotal') + remaining' = Purse
  BY <1>1, <1>3, <1>4, <1>5 DEF LedgerInv
<1> QED
  BY <1>7, <1>8 DEF LedgerInv

LEMMA LedgerNext == PlanInv /\ LedgerInv /\ [Next]_vars => LedgerInv'
<1> SUFFICES ASSUME PlanInv, LedgerInv, [Next]_vars
             PROVE  LedgerInv'
  OBVIOUS
<1>1. Purse' = Purse
  BY DEF Next, vars, inputs, DiversifyStep, EndDiversify, FillStep, Finish, Purse
<1>2. CASE UNCHANGED <<remaining, subtotal>>
  BY <1>1, <1>2 DEF LedgerInv
<1>3. ASSUME NEW a \in Asins, NEW n \in Nat, Add(a, n)
      PROVE  LedgerInv'
  BY <1>1, <1>3, AddBooks DEF PlanInv
<1>4. CASE DiversifyStep
  <2>1. candidates[i] \in Asins
    BY <1>4, CandidateFacts DEF DiversifyStep, PlanInv
  <2> QED
    BY <1>2, <1>3, <1>4, <2>1 DEF DiversifyStep
<1>5. CASE FillStep
  <2> DEFINE a == candidates[i]
  <2>1. a \in Asins /\ cost[a] \in Int /\ cost[a] > 0
    BY <1>5, CandidateFacts DEF FillStep, PlanInv
  <2>2. Affordable(a) => Fitting(a) \in Nat
    BY <2>1, FittingFacts DEF PlanInv
  <2>3. \/ Affordable(a) /\ Add(a, Fitting(a))
        \/ UNCHANGED <<remaining, subtotal>>
    BY <1>5 DEF FillStep
  <2> HIDE DEF a
  <2> QED
    BY <1>2, <1>3, <2>1, <2>2, <2>3
<1> QED
  BY <1>2, <1>4, <1>5 DEF Next, EndDiversify, Finish, vars

\* The subtotals of the picks, whole cents each, sum up to what was spent, and
\* overdraw the budget by half a cent at most.
THEOREM StaysWithinBudget == Spec => []WithinBudget
<1>1. PlanInv /\ LedgerInv => WithinBudget
  <2> SUFFICES ASSUME PlanInv, LedgerInv
               PROVE  WithinBudget
    OBVIOUS
  <2> DEFINE total == SumFunction(subtotal)
  <2>1. PICK k \in Int : total = Cent * k
    BY DEF LedgerInv
  <2>2. total \in Int /\ total % Cent = 0
    BY <2>1, WholeCents
  <2>3. total + remaining = Purse /\ remaining \in Int /\ 2 * remaining + Cent >= 0
    BY DEF PlanInv, TypeInv, LedgerInv, Overdraft
  <2> HIDE DEF total
  <2>4. 2 * (total - Purse) <= Cent
    BY <2>2, <2>3
  <2> QED
    BY <2>2, <2>3, <2>4 DEF WithinBudget, total
<1> QED
  BY <1>1, LedgerInit, LedgerNext, PlanInvariant, PTL DEF Spec
=============================================================================
