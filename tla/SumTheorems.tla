---------------------------- MODULE SumTheorems ----------------------------
(***************************************************************************)
(* What SumFunction of the community modules adds up to: the lemmas about  *)
(* sums over finite sets and sequences that the proofs about accounts and  *)
(* positions rest on.  SumFunction takes the elements of the set in an     *)
(* order of CHOOSE's making; the lemmas show that the order does not       *)
(* matter.  With them, induction over numbers and finite sets, greatest    *)
(* elements, what a selection of a sequence holds (Selections), and the    *)
(* order that products and quotients keep.                                 *)
(***************************************************************************)
EXTENDS Integers, Sequences, FiniteSetsExt, Functions, Selections, FiniteSetTheorems, TLAPS

(***************************************************************************)
(* Induction over the numbers and over the subsets of a finite set, with   *)
(* the property given as the set of those that have it: the theorems of    *)
(* the library that take it as an operator cannot be instantiated by the   *)
(* provers, but that a well-founded relation has minimal elements can.     *)
(***************************************************************************)
LEMMA NatSetInduction ==
  ASSUME NEW S, 0 \in S, \A n \in Nat : n \in S => n + 1 \in S
  PROVE  Nat \subseteq S
  <1> DEFINE T == {n \in Nat : n \notin S}
  <1>1. SUFFICES ASSUME T # {} PROVE FALSE
    OBVIOUS
  <1>2. \E x \in T : \A y \in T : ~(y < x)
    <2>1. T \subseteq Nat OBVIOUS
    <2>2. \E x \in T : \A y \in T : ~(<<y, x>> \in OpToRel(<, Nat))
      <3> HIDE DEF T
      <3> QED BY <1>1, <2>1, NatLessThanWellFounded, WFMin, Zenon
    <2> QED BY <2>2, Zenon DEF OpToRel
  <1>3. PICK x \in T : \A y \in T : ~(y < x) BY <1>2
  <1>4. x # 0 /\ x - 1 \in Nat /\ x - 1 \notin T BY <1>3
  <1> QED BY <1>4

LEMMA SubsetInduction ==
  ASSUME NEW S, IsFiniteSet(S), NEW D, {} \in D,
         \A T \in SUBSET S : \A x \in S \ T : T \in D => T \cup {x} \in D
  PROVE  S \in D
  <1> DEFINE B == {T \in SUBSET S : T \notin D}
  <1>1. SUFFICES ASSUME B # {} PROVE FALSE
    OBVIOUS
  <1>2. \E T \in B : \A U \in B : ~(<<U, T>> \in StrictSubsetOrdering(S))
    <2>1. B \subseteq FiniteSubsetsOf(S)
      BY FS_Subset, Zenon DEF FiniteSubsetsOf
    <2> HIDE DEF B
    <2> QED BY <1>1, <2>1, FS_StrictSubsetOrderingWellFounded, WFMin, Zenon
  <1>3. PICK T \in B : \A U \in B : ~(<<U, T>> \in StrictSubsetOrdering(S))
    BY <1>2
  <1>4. PICK x \in T : TRUE BY <1>3
  <1>5. T \ {x} \notin B
    BY <1>3, <1>4 DEF StrictSubsetOrdering
  <1>6. T \ {x} \in D /\ T \ {x} \in SUBSET S /\ x \in S \ (T \ {x})
    BY <1>4, <1>5
  <1>7. (T \ {x}) \cup {x} = T BY <1>4
  <1> QED BY <1>6, <1>7

(* Products in their order, and a quotient times its divisor.             *)
LEMMA DivFloor ==
  ASSUME NEW a \in Int, NEW b \in Nat \ {0}
  PROVE  a \div b \in Int /\ b * (a \div b) <= a /\ a < b * (a \div b) + b
  BY SMT

LEMMA TimesOrdered ==
  ASSUME NEW b \in Nat, NEW x \in Int, NEW y \in Int, x <= y
  PROVE  b * x <= b * y
  BY SMT

LEMMA FactorCancels ==
  ASSUME NEW b \in Nat \ {0}, NEW x \in Int, NEW y \in Int, b * x <= b * y
  PROVE  x <= y
  <1>1. ASSUME y + 1 <= x PROVE FALSE
    <2>1. b * (y + 1) <= b * x BY <1>1, TimesOrdered
    <2>2. b * (y + 1) = b * y + b OBVIOUS
    <2> QED BY <2>1, <2>2
  <1> QED BY <1>1

----------------------------------------------------------------------------
(* The partial sums that SumFunction is defined by: the sum over each      *)
(* subset is that of a chosen element and of the rest.                     *)
Pick(s) == CHOOSE x \in s : TRUE

(* The amounts that are summed, one for each element.                      *)
Amounts(S) == [S -> Int]

SumsOn(f, D, g) ==
  g = [s \in D |-> IF s = {} THEN 0 ELSE f[Pick(s)] + g[s \ {Pick(s)}]]

Sums(f, D) == CHOOSE g : SumsOn(f, D, g)

LEMMA SumIsSums ==
  ASSUME NEW f PROVE SumFunction(f) = Sums(f, SUBSET DOMAIN f)[DOMAIN f]
  BY Zenon DEF SumFunction, SumFunctionOnSet, FoldFunctionOnSet, MapThenFoldSet,
               Sums, SumsOn, Pick

LEMMA PickIn == ASSUME NEW s, s # {} PROVE Pick(s) \in s
  BY DEF Pick

Small(S, n) == {s \in SUBSET S : Cardinality(s) <= n}

LEMMA SmallFacts ==
  ASSUME NEW S, IsFiniteSet(S)
  PROVE  /\ \A s \in SUBSET S : IsFiniteSet(s) /\ Cardinality(s) \in Nat
         /\ \A s \in SUBSET S : s # {} =>
              /\ s \ {Pick(s)} \in SUBSET S
              /\ Cardinality(s \ {Pick(s)}) = Cardinality(s) - 1
         /\ \A s \in SUBSET S : Cardinality(s) <= Cardinality(S)
  <1>1. \A s \in SUBSET S : IsFiniteSet(s) /\ Cardinality(s) \in Nat
          /\ Cardinality(s) <= Cardinality(S)
    BY FS_Subset, FS_CardinalityType
  <1>2. ASSUME NEW s \in SUBSET S, s # {}
        PROVE  Cardinality(s \ {Pick(s)}) = Cardinality(s) - 1
    BY <1>1, <1>2, PickIn, FS_RemoveElement
  <1> QED BY <1>1, <1>2

(* The partial sums exist: they are built up by the size of the subset.    *)
LEMMA SumsExist ==
  ASSUME NEW S, IsFiniteSet(S), NEW f
  PROVE  SumsOn(f, SUBSET S, Sums(f, SUBSET S))
  <1> DEFINE N == {n \in Nat : \E g : SumsOn(f, Small(S, n), g)}
  <1>1. 0 \in N
    <2> DEFINE g == [s \in Small(S, 0) |-> 0]
    <2>1. \A s \in Small(S, 0) : s = {}
      BY SmallFacts, FS_EmptySet DEF Small
    <2>2. SumsOn(f, Small(S, 0), g) BY <2>1 DEF SumsOn
    <2> QED BY <2>2
  <1>2. ASSUME NEW n \in Nat, n \in N PROVE n + 1 \in N
    <2>1. PICK g : SumsOn(f, Small(S, n), g) BY <1>2
    <2> DEFINE h == [s \in Small(S, n + 1) |->
                       IF s = {} THEN 0 ELSE f[Pick(s)] + g[s \ {Pick(s)}]]
    <2>2. Small(S, n) \subseteq Small(S, n + 1)
      BY SmallFacts DEF Small
    <2>3. \A s \in Small(S, n + 1) : s # {} => s \ {Pick(s)} \in Small(S, n)
      BY SmallFacts DEF Small
    <2>4. \A s \in Small(S, n) : h[s] = g[s]
      <3>1. \A s \in Small(S, n) :
              g[s] = IF s = {} THEN 0 ELSE f[Pick(s)] + g[s \ {Pick(s)}]
        BY <2>1, Zenon DEF SumsOn
      <3> QED BY <2>2, <3>1
    <2>5. h = [s \in Small(S, n + 1) |->
                 IF s = {} THEN 0 ELSE f[Pick(s)] + h[s \ {Pick(s)}]]
      <3>1. \A s \in Small(S, n + 1) : s # {} =>
              h[s \ {Pick(s)}] = g[s \ {Pick(s)}]
        BY <2>3, <2>4
      <3> QED BY <3>1
    <2>6. \E k : SumsOn(f, Small(S, n + 1), k)
      BY <2>5, Zenon DEF SumsOn
    <2> QED BY <2>6
  <1>3. Cardinality(S) \in N
    <2>1. Nat \subseteq N
      <3> HIDE DEF N
      <3> QED BY <1>1, <1>2, NatSetInduction
    <2> QED BY <2>1, FS_CardinalityType
  <1>4. Small(S, Cardinality(S)) = SUBSET S
    BY SmallFacts DEF Small
  <1>5. \E g : SumsOn(f, SUBSET S, g) BY <1>3, <1>4
  <1> QED BY <1>5, Zenon DEF Sums

(* The sum of f over s; where f is a function into Int it is an integer.   *)
LEMMA SumsEquation ==
  ASSUME NEW S, IsFiniteSet(S), NEW f \in Amounts(S)
  PROVE  /\ Sums(f, SUBSET S)[{}] = 0
         /\ \A s \in SUBSET S : s # {} =>
              Sums(f, SUBSET S)[s] = f[Pick(s)] + Sums(f, SUBSET S)[s \ {Pick(s)}]
         /\ \A s \in SUBSET S : Sums(f, SUBSET S)[s] \in Int
  <1> DEFINE g == Sums(f, SUBSET S)
  <1>0. g = [s \in SUBSET S |-> IF s = {} THEN 0 ELSE f[Pick(s)] + g[s \ {Pick(s)}]]
    BY SumsExist, Zenon DEF SumsOn
  <1> HIDE DEF g
  <1>1. g[{}] = 0 BY <1>0
  <1>2. \A s \in SUBSET S : s # {} => g[s] = f[Pick(s)] + g[s \ {Pick(s)}]
    BY <1>0
  <1> DEFINE N == {n \in Nat : \A s \in SUBSET S : Cardinality(s) = n => g[s] \in Int}
  <1>3. 0 \in N
    <2>1. \A s \in SUBSET S : Cardinality(s) = 0 => s = {}
      BY SmallFacts, FS_EmptySet
    <2> QED BY <1>1, <2>1
  <1>4. ASSUME NEW n \in Nat, n \in N PROVE n + 1 \in N
    <2>1. ASSUME NEW s \in SUBSET S, Cardinality(s) = n + 1
          PROVE  g[s] \in Int
      <3>1. s # {} BY <2>1, FS_EmptySet
      <3>2. g[s \ {Pick(s)}] \in Int BY <1>4, <2>1, <3>1, SmallFacts
      <3>3. f[Pick(s)] \in Int BY <3>1, PickIn DEF Amounts
      <3> QED BY <1>2, <3>1, <3>2, <3>3
    <2> QED BY <2>1
  <1>5. Nat \subseteq N
    <2> HIDE DEF N
    <2> QED BY <1>3, <1>4, NatSetInduction
  <1>6. \A s \in SUBSET S : g[s] \in Int
    BY <1>5, SmallFacts
  <1> QED BY <1>1, <1>2, <1>6 DEF g

(* The element taken first does not matter.                                *)
LEMMA SumsAnyElement ==
  ASSUME NEW S, IsFiniteSet(S), NEW f \in Amounts(S)
  PROVE  \A s \in SUBSET S : \A x \in s :
           Sums(f, SUBSET S)[s] = f[x] + Sums(f, SUBSET S)[s \ {x}]
  <1> DEFINE g == Sums(f, SUBSET S)
             N == {n \in Nat : \A s \in SUBSET S : \A x \in s :
                     Cardinality(s) = n => g[s] = f[x] + g[s \ {x}]}
  <1>0. /\ \A s \in SUBSET S : s # {} => g[s] = f[Pick(s)] + g[s \ {Pick(s)}]
        /\ \A s \in SUBSET S : g[s] \in Int
    BY SumsEquation
  <1> HIDE DEF g
  <1>1. 0 \in N
    BY SmallFacts, FS_EmptySet
  <1>2. ASSUME NEW n \in Nat, n \in N PROVE n + 1 \in N
    <2>1. ASSUME NEW s \in SUBSET S, NEW x \in s, Cardinality(s) = n + 1
          PROVE  g[s] = f[x] + g[s \ {x}]
      <3> DEFINE c == Pick(s)
                 r == s \ {c, x}
      <3>1. c \in s BY PickIn
      <3>2. g[s] = f[c] + g[s \ {c}] BY <1>0
      <3>3. CASE x = c BY <3>2, <3>3
      <3>4. CASE x # c
        <4>1. /\ Cardinality(s \ {c}) = n /\ Cardinality(s \ {x}) = n
              /\ s \ {c} \in SUBSET S /\ s \ {x} \in SUBSET S
          <5>1. IsFiniteSet(s) BY SmallFacts
          <5>2. /\ Cardinality(s \ {c}) = Cardinality(s) - 1
                /\ Cardinality(s \ {x}) = Cardinality(s) - 1
            BY <3>1, <5>1, FS_RemoveElement
          <5> HIDE DEF c
          <5> QED BY <2>1, <5>2
        <4>2. x \in s \ {c} /\ c \in s \ {x} BY <3>1, <3>4
        <4>3. g[s \ {c}] = f[x] + g[(s \ {c}) \ {x}] BY <1>2, <4>1, <4>2
        <4>4. g[s \ {x}] = f[c] + g[(s \ {x}) \ {c}] BY <1>2, <4>1, <4>2
        <4>5. (s \ {c}) \ {x} = r /\ (s \ {x}) \ {c} = r OBVIOUS
        <4>6. f[c] \in Int /\ f[x] \in Int /\ g[r] \in Int
          BY <1>0, <3>1 DEF Amounts
        <4>7. g[s] = f[c] + (f[x] + g[r]) BY <3>2, <4>3, <4>5
        <4>8. g[s \ {x}] = f[c] + g[r] BY <4>4, <4>5
        <4>9. f[c] + (f[x] + g[r]) = f[x] + (f[c] + g[r])
          <5> HIDE DEF c, r
          <5> QED BY <4>6
        <4> QED BY <4>7, <4>8, <4>9, Zenon
      <3> QED BY <3>3, <3>4
    <2> QED BY <2>1
  <1>3. Nat \subseteq N
    <2> HIDE DEF N
    <2> QED BY <1>1, <1>2, NatSetInduction
  <1>4. ASSUME NEW s \in SUBSET S, NEW x \in s PROVE g[s] = f[x] + g[s \ {x}]
    <2>1. Cardinality(s) \in N BY <1>3, SmallFacts
    <2> QED BY <2>1
  <1> QED BY <1>4 DEF g

(* The sum over s depends on nothing but the values f has there.           *)
LEMMA SumsRestrict ==
  ASSUME NEW S, IsFiniteSet(S), NEW f \in Amounts(S), NEW T \in SUBSET S
  PROVE  /\ Restrict(f, T) \in Amounts(T)
         /\ Sums(f, SUBSET S)[T] = Sums(Restrict(f, T), SUBSET T)[T]
  <1> DEFINE h == Restrict(f, T)
             g == Sums(f, SUBSET S)
             k == Sums(h, SUBSET T)
             D == {t \in SUBSET T : g[t] = k[t]}
  <1>0. h \in Amounts(T) /\ \A x \in T : h[x] = f[x]
    BY DEF Amounts, Restrict
  <1>3. IsFiniteSet(T) BY FS_Subset
  <1>1. g[{}] = 0 /\ k[{}] = 0
    <2> HIDE DEF h
    <2> QED BY <1>0, <1>3, SumsEquation
  <1>2. ASSUME NEW t \in SUBSET T, NEW x \in T \ t, t \in D
        PROVE  t \cup {x} \in D
    <2>a. \A u \in SUBSET S : \A y \in u : g[u] = f[y] + g[u \ {y}]
      BY SumsAnyElement
    <2>b. \A u \in SUBSET T : \A y \in u : k[u] = h[y] + k[u \ {y}]
      <3> HIDE DEF h
      <3> QED BY <1>0, <1>3, SumsAnyElement
    <2>1. (t \cup {x}) \ {x} = t /\ x \in t \cup {x}
          /\ t \cup {x} \in SUBSET S /\ t \cup {x} \in SUBSET T
      OBVIOUS
    <2>2. g[t \cup {x}] = f[x] + g[t] BY <2>1, <2>a, Zenon
    <2>3. k[t \cup {x}] = h[x] + k[t] BY <2>1, <2>b, Zenon
    <2> HIDE DEF g, k, h
    <2> QED BY <1>0, <1>2, <2>1, <2>2, <2>3
  <1>4. T \in D
    <2>1. {} \in D BY <1>1
    <2> HIDE DEF D
    <2> QED BY <1>2, <1>3, <2>1, SubsetInduction
  <1> QED BY <1>0, <1>4

----------------------------------------------------------------------------
(* The facts to cite: a sum of no numbers, the sum when an element leaves, *)
(* and when the value of one element changes.                              *)
LEMMA SumOfAll ==
  ASSUME NEW S, NEW f \in Amounts(S)
  PROVE  SumFunction(f) = Sums(f, SUBSET S)[S]
  <1>1. DOMAIN f = S BY DEF Amounts
  <1> QED BY <1>1, SumIsSums, Zenon

LEMMA SumEmpty ==
  ASSUME NEW f \in Amounts({}) PROVE SumFunction(f) = 0
  BY SumOfAll, SumsEquation, FS_EmptySet

LEMMA SumType ==
  ASSUME NEW S, IsFiniteSet(S), NEW f \in Amounts(S)
  PROVE  SumFunction(f) \in Int
  <1>1. \A s \in SUBSET S : Sums(f, SUBSET S)[s] \in Int BY SumsEquation
  <1>2. S \in SUBSET S OBVIOUS
  <1> QED BY <1>1, <1>2, SumOfAll, Zenon

LEMMA SumRemove ==
  ASSUME NEW S, IsFiniteSet(S), NEW f \in Amounts(S), NEW x \in S
  PROVE  /\ Restrict(f, S \ {x}) \in Amounts(S \ {x})
         /\ SumFunction(f) = f[x] + SumFunction(Restrict(f, S \ {x}))
         /\ f[x] \in Int /\ SumFunction(Restrict(f, S \ {x})) \in Int
  <1> DEFINE R == S \ {x}
             h == Restrict(f, R)
  <1>1. IsFiniteSet(R) /\ R \in SUBSET S BY FS_RemoveElement
  <1>2. Sums(f, SUBSET S)[S] = f[x] + Sums(f, SUBSET S)[R]
    <2>1. \A s \in SUBSET S : \A y \in s :
            Sums(f, SUBSET S)[s] = f[y] + Sums(f, SUBSET S)[s \ {y}]
      BY SumsAnyElement
    <2>2. S \in SUBSET S OBVIOUS
    <2> QED BY <2>1, <2>2, Zenon
  <1>3. h \in Amounts(R) /\ Sums(f, SUBSET S)[R] = Sums(h, SUBSET R)[R]
    <2> HIDE DEF R
    <2> QED BY <1>1, SumsRestrict
  <1> HIDE DEF R, h
  <1>4. SumFunction(h) = Sums(h, SUBSET R)[R] BY <1>3, SumOfAll
  <1>5. SumFunction(h) \in Int BY <1>1, <1>3, SumType
  <1>6. f[x] \in Int BY DEF Amounts
  <1>7. SumFunction(f) = Sums(f, SUBSET S)[S] BY SumOfAll
  <1> QED BY <1>2, <1>3, <1>4, <1>5, <1>6, <1>7, Zenon DEF h, R

LEMMA SumChange ==
  ASSUME NEW S, IsFiniteSet(S), NEW f \in Amounts(S), NEW h \in Amounts(S),
         NEW x \in S, \A y \in S \ {x} : h[y] = f[y]
  PROVE  SumFunction(h) = SumFunction(f) - f[x] + h[x]
  <1>1. Restrict(f, S \ {x}) = Restrict(h, S \ {x})
    BY DEF Restrict
  <1>2. /\ SumFunction(f) = f[x] + SumFunction(Restrict(f, S \ {x}))
        /\ f[x] \in Int /\ SumFunction(Restrict(f, S \ {x})) \in Int
        /\ SumFunction(h) = h[x] + SumFunction(Restrict(h, S \ {x}))
        /\ h[x] \in Int
    BY SumRemove
  <1> QED BY <1>1, <1>2

(* One more element: the sum over part of the set, and over that and x.    *)
LEMMA SumGrow ==
  ASSUME NEW S, IsFiniteSet(S), NEW g \in Amounts(S),
         NEW T \in SUBSET S, NEW x \in S \ T
  PROVE  /\ SumFunction(Restrict(g, T \cup {x})) = g[x] + SumFunction(Restrict(g, T))
         /\ g[x] \in Int /\ SumFunction(Restrict(g, T)) \in Int
  <1> DEFINE U == T \cup {x}
             u == Restrict(g, U)
  <1>1. IsFiniteSet(U) /\ x \in U BY FS_Subset
  <1>2. u \in Amounts(U) /\ u[x] = g[x] BY DEF Amounts, Restrict
  <1>3. Restrict(u, U \ {x}) = Restrict(g, T) BY DEF Restrict
  <1> HIDE DEF U, u
  <1>4. /\ SumFunction(u) = u[x] + SumFunction(Restrict(u, U \ {x}))
        /\ u[x] \in Int /\ SumFunction(Restrict(u, U \ {x})) \in Int
    BY <1>1, <1>2, SumRemove
  <1> QED BY <1>2, <1>3, <1>4 DEF u, U

(* The sum of sums, element by element.                                    *)
LEMMA SumPlus ==
  ASSUME NEW S, IsFiniteSet(S), NEW f \in Amounts(S), NEW h \in Amounts(S),
         NEW k \in Amounts(S), \A x \in S : k[x] = f[x] + h[x]
  PROVE  SumFunction(k) = SumFunction(f) + SumFunction(h)
  <1> DEFINE On(g, T) == SumFunction(Restrict(g, T))
             D == {T \in SUBSET S : On(k, T) = On(f, T) + On(h, T)}
  <1>1. {} \in D
    <2>1. ASSUME NEW g \in Amounts(S) PROVE On(g, {}) = 0
      <3>1. Restrict(g, {}) \in Amounts({}) BY DEF Amounts, Restrict
      <3> QED BY <3>1, SumEmpty
    <2>2. On(k, {}) = 0 /\ On(f, {}) = 0 /\ On(h, {}) = 0 BY <2>1
    <2> QED BY <2>2
  <1>2. ASSUME NEW T \in SUBSET S, NEW x \in S \ T, T \in D
        PROVE  T \cup {x} \in D
    <2>1. ASSUME NEW g \in Amounts(S)
          PROVE  /\ On(g, T \cup {x}) = g[x] + On(g, T)
                 /\ g[x] \in Int /\ On(g, T) \in Int
      BY SumGrow
    <2>2. On(k, T) = On(f, T) + On(h, T) BY <1>2
    <2>3. k[x] = f[x] + h[x] OBVIOUS
    <2> HIDE DEF On
    <2>4. On(k, T \cup {x}) = On(f, T \cup {x}) + On(h, T \cup {x})
      <3>1. /\ On(k, T \cup {x}) = k[x] + On(k, T)
            /\ On(f, T \cup {x}) = f[x] + On(f, T)
            /\ On(h, T \cup {x}) = h[x] + On(h, T)
            /\ f[x] \in Int /\ On(f, T) \in Int /\ h[x] \in Int /\ On(h, T) \in Int
        BY <2>1
      <3> QED BY <2>2, <2>3, <3>1
    <2> QED BY <2>4
  <1>3. S \in D
    <2> HIDE DEF D
    <2> QED BY <1>1, <1>2, SubsetInduction
  <1>4. \A g \in Amounts(S) : Restrict(g, S) = g BY DEF Amounts, Restrict
  <1> QED BY <1>3, <1>4

LEMMA SumOfNone ==
  ASSUME NEW S, NEW g \in Amounts(S)
  PROVE  SumFunction(Restrict(g, {})) = 0 /\ Restrict(g, S) = g
  <1>1. Restrict(g, {}) \in Amounts({}) BY DEF Amounts, Restrict
  <1>2. Restrict(g, S) = g BY DEF Amounts, Restrict
  <1> QED BY <1>1, <1>2, SumEmpty

(* Zeros can be left out.                                                  *)
LEMMA SumSupport ==
  ASSUME NEW S, IsFiniteSet(S), NEW f \in Amounts(S), NEW T \in SUBSET S,
         \A x \in S \ T : f[x] = 0
  PROVE  SumFunction(f) = SumFunction(Restrict(f, T))
  <1> DEFINE On(U) == SumFunction(Restrict(f, U))
             Z == S \ T
             D == {U \in SUBSET Z : On(T \cup U) = On(T)}
  <1>0. ASSUME NEW V \in SUBSET S, NEW y \in S \ V
        PROVE  SumFunction(Restrict(f, V \cup {y})) = f[y] + SumFunction(Restrict(f, V))
               /\ SumFunction(Restrict(f, V)) \in Int
    <2> HIDE DEF Z, D, On
    <2>1. SumFunction(Restrict(f, V \cup {y})) = f[y] + SumFunction(Restrict(f, V))
      BY SumGrow
    <2>2. SumFunction(Restrict(f, V)) \in Int BY SumGrow
    <2> QED BY <2>1, <2>2
  <1>1. {} \in D
    <2>1. T \cup {} = T OBVIOUS
    <2> QED BY <2>1
  <1>2. ASSUME NEW U \in SUBSET Z, NEW x \in Z \ U, U \in D
        PROVE  U \cup {x} \in D
    <2>1. x \in S \ (T \cup U) /\ T \cup U \in SUBSET S OBVIOUS
    <2>2. f[x] = 0 OBVIOUS
    <2>3. T \cup (U \cup {x}) = (T \cup U) \cup {x} OBVIOUS
    <2>4. SumFunction(Restrict(f, (T \cup U) \cup {x}))
            = f[x] + SumFunction(Restrict(f, T \cup U))
          /\ SumFunction(Restrict(f, T \cup U)) \in Int
      BY <1>0, <2>1, Zenon
    <2>5. On((T \cup U) \cup {x}) = On(T \cup U)
      BY <2>2, <2>4
    <2>6. On(T \cup U) = On(T) BY <1>2
    <2>7. U \cup {x} \in SUBSET Z OBVIOUS
    <2> HIDE DEF On
    <2> QED BY <2>3, <2>5, <2>6, <2>7
  <1>3. Z \in D
    <2>1. IsFiniteSet(Z) BY FS_Subset
    <2> HIDE DEF D
    <2> QED BY <1>1, <1>2, <2>1, SubsetInduction
  <1>4. T \cup Z = S OBVIOUS
  <1>5. On(T \cup Z) = On(T) BY <1>3
  <1> QED BY <1>4, <1>5, SumOfNone

(* The elements can be given other names.                                  *)
LEMMA SumRename ==
  ASSUME NEW S, IsFiniteSet(S), NEW h \in Amounts(S),
         NEW T, IsFiniteSet(T), NEW f \in Amounts(T),
         NEW b \in Bijection(S, T), \A i \in S : h[i] = f[b[i]]
  PROVE  SumFunction(h) = SumFunction(f)
  <1> DEFINE Image(U) == {b[i] : i \in U}
             D == {U \in SUBSET S :
                     SumFunction(Restrict(h, U)) = SumFunction(Restrict(f, Image(U)))}
  <1>0. /\ b \in [S -> T] /\ T = {b[i] : i \in S}
        /\ \A i, j \in S : b[i] = b[j] => i = j
    BY DEF Bijection, Injection, Surjection, IsInjective
  <1>1. {} \in D
    <2>1. Image({}) = {} OBVIOUS
    <2> HIDE DEF Image
    <2> QED BY <2>1, SumOfNone
  <1>2. ASSUME NEW U \in SUBSET S, NEW x \in S \ U, U \in D
        PROVE  U \cup {x} \in D
    <2>1. /\ Image(U) \in SUBSET T /\ b[x] \in T \ Image(U)
          /\ Image(U \cup {x}) = Image(U) \cup {b[x]}
      BY <1>0
    <2> HIDE DEF Image
    <2>2. SumFunction(Restrict(f, Image(U) \cup {b[x]}))
            = f[b[x]] + SumFunction(Restrict(f, Image(U)))
      BY <2>1, SumGrow
    <2>3. SumFunction(Restrict(h, U \cup {x})) = h[x] + SumFunction(Restrict(h, U))
      BY SumGrow
    <2>4. h[x] = f[b[x]]
          /\ SumFunction(Restrict(h, U)) = SumFunction(Restrict(f, Image(U)))
      BY <1>2
    <2>5. SumFunction(Restrict(h, U \cup {x}))
            = SumFunction(Restrict(f, Image(U \cup {x})))
      BY <2>1, <2>2, <2>3, <2>4, Zenon
    <2> QED BY <2>5
  <1>3. S \in D
    <2> HIDE DEF D
    <2> QED BY <1>1, <1>2, SubsetInduction
  <1>4. Image(S) = T BY <1>0
  <1>5. SumFunction(Restrict(h, S)) = SumFunction(Restrict(f, T)) BY <1>3, <1>4
  <1> QED BY <1>5, SumOfNone

----------------------------------------------------------------------------
(* Sums over the places of a sequence: when an element is appended, when   *)
(* the head is taken away, and of two sequences one after the other.       *)
LEMMA SumAppend ==
  ASSUME NEW n \in Nat, NEW f \in Amounts(1..n), NEW h \in Amounts(1..(n + 1)),
         \A i \in 1..n : h[i] = f[i]
  PROVE  SumFunction(h) = SumFunction(f) + h[n + 1]
  <1>1. IsFiniteSet(1..(n + 1)) BY FS_Interval
  <1>2. n + 1 \in 1..(n + 1) OBVIOUS
  <1>3. Restrict(h, (1..(n + 1)) \ {n + 1}) = f
    <2>1. (1..(n + 1)) \ {n + 1} = 1..n OBVIOUS
    <2> QED BY <2>1 DEF Restrict, Amounts
  <1>4. /\ SumFunction(h) = h[n + 1] + SumFunction(Restrict(h, (1..(n + 1)) \ {n + 1}))
        /\ h[n + 1] \in Int /\ SumFunction(Restrict(h, (1..(n + 1)) \ {n + 1})) \in Int
    BY <1>1, <1>2, SumRemove
  <1> QED BY <1>3, <1>4

LEMMA SumTail ==
  ASSUME NEW n \in Nat \ {0}, NEW f \in Amounts(1..n), NEW h \in Amounts(1..(n - 1)),
         \A i \in 1..(n - 1) : h[i] = f[i + 1]
  PROVE  SumFunction(h) = SumFunction(f) - f[1]
  <1> DEFINE T == (1..n) \ {1}
             r == Restrict(f, T)
             b == [i \in 1..(n - 1) |-> i + 1]
  <1>1. IsFiniteSet(1..n) /\ IsFiniteSet(T) /\ IsFiniteSet(1..(n - 1))
    <2>1. IsFiniteSet(1..n) /\ IsFiniteSet(1..(n - 1)) BY FS_Interval
    <2> QED BY <2>1, FS_RemoveElement
  <1>2. 1 \in 1..n OBVIOUS
  <1>3. /\ SumFunction(f) = f[1] + SumFunction(r)
        /\ f[1] \in Int /\ SumFunction(r) \in Int /\ r \in Amounts(T)
    BY <1>1, <1>2, SumRemove
  <1>4. SumFunction(h) = SumFunction(r)
    <2>1. b \in Bijection(1..(n - 1), T)
      <3>1. \A t \in T : t - 1 \in 1..(n - 1) /\ b[t - 1] = t OBVIOUS
      <3>2. b \in [1..(n - 1) -> T] /\ \A i, j \in 1..(n - 1) : b[i] = b[j] => i = j
        OBVIOUS
      <3> HIDE DEF b, T
      <3> QED BY <3>1, <3>2 DEF Bijection, Injection, Surjection, IsInjective
    <2>2. \A i \in 1..(n - 1) : h[i] = r[b[i]] BY DEF Restrict
    <2> HIDE DEF T, r, b
    <2> QED BY <1>1, <1>3, <2>1, <2>2, SumRename
  <1> HIDE DEF r
  <1> QED BY <1>3, <1>4

LEMMA SumUpTo ==
  ASSUME NEW n \in Nat, NEW g \in Amounts(1..n), NEW j \in Nat, j < n
  PROVE  /\ SumFunction(Restrict(g, 1..(j + 1)))
              = g[j + 1] + SumFunction(Restrict(g, 1..j))
         /\ g[j + 1] \in Int /\ SumFunction(Restrict(g, 1..j)) \in Int
  <1> DEFINE S == 1..n
             T == 1..j
  <1>1. T \in SUBSET S /\ j + 1 \in S \ T /\ 1..(j + 1) = T \cup {j + 1} OBVIOUS
  <1>2. IsFiniteSet(S) BY FS_Interval
  <1>3. g \in Amounts(S) OBVIOUS
  <1> HIDE DEF S, T
  <1>4. /\ SumFunction(Restrict(g, T \cup {j + 1}))
             = g[j + 1] + SumFunction(Restrict(g, T))
        /\ g[j + 1] \in Int /\ SumFunction(Restrict(g, T)) \in Int
    BY <1>1, <1>2, <1>3, SumGrow
  <1> QED BY <1>1, <1>4 DEF T

LEMMA SumConcat ==
  ASSUME NEW m \in Nat, NEW f \in Amounts(1..m), NEW n \in Nat, NEW h \in Amounts(1..n),
         NEW k \in Amounts(1..(m + n)),
         \A i \in 1..m : k[i] = f[i], \A i \in 1..n : k[m + i] = h[i]
  PROVE  SumFunction(k) = SumFunction(f) + SumFunction(h)
  <1> DEFINE On(g, j) == SumFunction(Restrict(g, 1..j))
             N == {j \in Nat : j <= n => On(k, m + j) = SumFunction(f) + On(h, j)}
  <1>0. IsFiniteSet(1..m) /\ IsFiniteSet(1..n) /\ IsFiniteSet(1..(m + n))
    BY FS_Interval
  <1>f. SumFunction(f) \in Int BY <1>0, SumType
  <1>1. 0 \in N
    <2>1. Restrict(k, 1..(m + 0)) = f BY DEF Restrict, Amounts
    <2>2. 1..0 = {} OBVIOUS
    <2>3. On(h, 0) = 0 BY <2>2, SumOfNone
    <2> QED BY <1>f, <2>1, <2>3
  <1>2. ASSUME NEW j \in Nat, j \in N PROVE j + 1 \in N
    <2>1. SUFFICES ASSUME j + 1 <= n
                   PROVE  On(k, m + (j + 1)) = SumFunction(f) + On(h, j + 1)
      OBVIOUS
    <2>2. On(h, j + 1) = h[j + 1] + On(h, j) /\ h[j + 1] \in Int /\ On(h, j) \in Int
      BY <2>1, SumUpTo
    <2>3. On(k, m + (j + 1)) = k[m + (j + 1)] + On(k, m + j)
      <3> DEFINE l == m + j
      <3>1. l \in Nat /\ l < m + n /\ m + n \in Nat /\ m + (j + 1) = l + 1 BY <2>1
      <3> HIDE DEF l
      <3>2. On(k, l + 1) = k[l + 1] + On(k, l) BY <3>1, SumUpTo
      <3> QED BY <3>1, <3>2 DEF l
    <2>4. k[m + (j + 1)] = h[j + 1] BY <2>1
    <2>5. On(k, m + j) = SumFunction(f) + On(h, j) BY <1>2, <2>1
    <2> HIDE DEF On
    <2> QED BY <1>f, <2>2, <2>3, <2>4, <2>5
  <1>3. n \in N
    <2>1. Nat \subseteq N
      <3> HIDE DEF N
      <3> QED BY <1>1, <1>2, NatSetInduction
    <2> QED BY <2>1
  <1> QED BY <1>3, SumOfNone

(* A sum of equal amounts, and one of amounts none of which is negative.   *)
LEMMA SumConstant ==
  ASSUME NEW n \in Nat, NEW c \in Int, NEW f \in Amounts(1..n),
         \A i \in 1..n : f[i] = c
  PROVE  SumFunction(f) = n * c
  <1> DEFINE On(j) == SumFunction(Restrict(f, 1..j))
             N == {j \in Nat : j <= n => On(j) = j * c}
  <1>1. 0 \in N
    <2>1. 1..0 = {} OBVIOUS
    <2>2. On(0) = 0 BY <2>1, SumOfNone
    <2> HIDE DEF On
    <2> QED BY <2>2
  <1>2. ASSUME NEW j \in Nat, j \in N PROVE j + 1 \in N
    <2>1. SUFFICES ASSUME j + 1 <= n PROVE On(j + 1) = (j + 1) * c
      OBVIOUS
    <2>2. On(j + 1) = f[j + 1] + On(j) /\ f[j + 1] = c
      BY <2>1, SumUpTo
    <2>3. On(j) = j * c BY <1>2, <2>1
    <2> HIDE DEF On
    <2>4. (j + 1) * c = j * c + c OBVIOUS
    <2> QED BY <2>2, <2>3, <2>4
  <1> HIDE DEF N
  <1>3. n \in N BY <1>1, <1>2, NatSetInduction
  <1>4. On(n) = n * c BY <1>3 DEF N
  <1> QED BY <1>4, SumOfNone

LEMMA SumOfNaturals ==
  ASSUME NEW S, IsFiniteSet(S), NEW f \in Amounts(S), \A x \in S : f[x] >= 0
  PROVE  SumFunction(f) >= 0
  <1> DEFINE On(T) == SumFunction(Restrict(f, T))
             D == {T \in SUBSET S : On(T) >= 0}
  <1>1. {} \in D
    <2>1. On({}) = 0 BY SumOfNone
    <2> HIDE DEF On
    <2> QED BY <2>1
  <1>2. ASSUME NEW T \in SUBSET S, NEW x \in S \ T, T \in D
        PROVE  T \cup {x} \in D
    <2>1. On(T \cup {x}) = f[x] + On(T) BY SumGrow
    <2>2. f[x] \in Int BY SumGrow
    <2>3. On(T) \in Int BY SumGrow
    <2>4. f[x] >= 0 /\ On(T) >= 0 BY <1>2
    <2> HIDE DEF On
    <2> QED BY <2>1, <2>2, <2>3, <2>4
  <1> HIDE DEF D
  <1>3. S \in D BY <1>1, <1>2, SubsetInduction
  <1>4. On(S) >= 0 BY <1>3 DEF D
  <1> QED BY <1>4, SumOfNone

LEMMA SumOfNothing ==
  ASSUME NEW S, IsFiniteSet(S), NEW f \in Amounts(S), \A x \in S : f[x] >= 0,
         SumFunction(f) = 0, NEW x \in S
  PROVE  f[x] = 0
  <1> DEFINE r == Restrict(f, S \ {x})
  <1>1. /\ r \in Amounts(S \ {x}) /\ f[x] \in Int /\ SumFunction(r) \in Int
        /\ SumFunction(f) = f[x] + SumFunction(r)
    BY SumRemove
  <1>2. \A y \in S \ {x} : r[y] >= 0 BY DEF Restrict
  <1>3. IsFiniteSet(S \ {x}) BY FS_RemoveElement
  <1> HIDE DEF r
  <1>4. SumFunction(r) >= 0 BY <1>1, <1>2, <1>3, SumOfNaturals
  <1>5. f[x] >= 0 OBVIOUS
  <1> QED BY <1>1, <1>4, <1>5

(* A sum over two parts.                                                   *)
LEMMA SumSplit ==
  ASSUME NEW S, IsFiniteSet(S), NEW f \in Amounts(S), NEW T \in SUBSET S
  PROVE  /\ Restrict(f, T) \in Amounts(T) /\ Restrict(f, S \ T) \in Amounts(S \ T)
         /\ SumFunction(f) = SumFunction(Restrict(f, T)) + SumFunction(Restrict(f, S \ T))
  <1> DEFINE g == [x \in S |-> IF x \in T THEN f[x] ELSE 0]
             h == [x \in S |-> IF x \in T THEN 0 ELSE f[x]]
             U == S \ T
  <1>1. \A x \in S : f[x] \in Int BY DEF Amounts
  <1>2. g \in Amounts(S) /\ h \in Amounts(S) BY <1>1 DEF Amounts
  <1>3. \A x \in S : f[x] = g[x] + h[x] BY <1>1
  <1>4. U \in SUBSET S /\ (\A x \in S \ T : g[x] = 0) /\ (\A x \in S \ U : h[x] = 0) OBVIOUS
  <1>5. Restrict(g, T) = Restrict(f, T) /\ Restrict(h, U) = Restrict(f, U)
    BY DEF Restrict
  <1>6. Restrict(f, T) \in Amounts(T) /\ Restrict(f, U) \in Amounts(U)
    BY <1>1 DEF Restrict, Amounts
  <1> HIDE DEF g, h, U
  <1>7. SumFunction(f) = SumFunction(g) + SumFunction(h) BY <1>2, <1>3, SumPlus
  <1>8. SumFunction(g) = SumFunction(Restrict(g, T)) BY <1>2, <1>4, SumSupport
  <1>9. SumFunction(h) = SumFunction(Restrict(h, U)) BY <1>2, <1>4, SumSupport
  <1> QED BY <1>5, <1>6, <1>7, <1>8, <1>9 DEF U

(* A sum is at least as many times a bound as there are amounts.           *)
LEMMA SumAtLeast ==
  ASSUME NEW n \in Nat, NEW f \in Amounts(1..n), NEW c \in Int,
         \A i \in 1..n : f[i] >= c
  PROVE  SumFunction(f) >= n * c
  <1> DEFINE S == 1..n
             g == [i \in 1..n |-> c]
             h == [i \in 1..n |-> f[i] - c]
  <1>1. IsFiniteSet(S) BY FS_Interval
  <1>2. \A i \in S : f[i] \in Int BY DEF Amounts
  <1>3. f \in Amounts(S) /\ g \in Amounts(S) /\ h \in Amounts(S) BY <1>2 DEF Amounts
  <1>4. \A i \in S : f[i] = g[i] + h[i] /\ h[i] >= 0 /\ g[i] = c BY <1>2
  <1> HIDE DEF g, h
  <1>5. SumFunction(g) = n * c BY <1>3, <1>4, SumConstant
  <1> HIDE DEF S
  <1>6. SumFunction(f) = SumFunction(g) + SumFunction(h) BY <1>1, <1>3, <1>4, SumPlus
  <1>7. SumFunction(h) >= 0 BY <1>1, <1>3, <1>4, SumOfNaturals
  <1>8. SumFunction(h) \in Int BY <1>1, <1>3, SumType
  <1>9. n * c \in Int OBVIOUS
  <1> QED BY <1>5, <1>6, <1>7, <1>8, <1>9

(* A finite set of numbers has a greatest and a least.                     *)
LEMMA GreatestIn ==
  ASSUME NEW S, IsFiniteSet(S), S \subseteq Int, S # {}
  PROVE  Max(S) \in S /\ \A y \in S : Max(S) >= y
  <1> DEFINE D == {T \in SUBSET S : T # {} => \E x \in T : \A y \in T : x >= y}
  <1>1. {} \in D OBVIOUS
  <1>2. ASSUME NEW T \in SUBSET S, NEW x \in S \ T, T \in D PROVE T \cup {x} \in D
    <2> DEFINE V == T \cup {x}
    <2>0. V \subseteq Int OBVIOUS
    <2>1. CASE T = {}
      <3>1. V = {x} /\ x >= x BY <2>1
      <3> QED BY <3>1
    <2>2. CASE T # {}
      <3>1. PICK m \in T : \A y \in T : m >= y BY <1>2, <2>2
      <3>2. CASE m >= x
        <4>1. \A y \in V : m >= y BY <3>1, <3>2
        <4> QED BY <4>1
      <3>3. CASE ~(m >= x)
        <4>1. \A y \in V : x >= y BY <2>0, <3>1, <3>3
        <4> QED BY <4>1
      <3> QED BY <3>2, <3>3
    <2> QED BY <2>1, <2>2
  <1>3. S \in D
    <2> HIDE DEF D
    <2> QED BY <1>1, <1>2, SubsetInduction
  <1>4. \E x \in S : \A y \in S : x >= y BY <1>3
  <1> QED BY <1>4 DEF Max

(* A member of a set of numbers that none exceeds is its greatest, one     *)
(* that exceeds none its least.                                            *)
LEMMA ExtremeIs ==
  ASSUME NEW S, S \subseteq Int, NEW m \in S
  PROVE  /\ (\A y \in S : m >= y) => Max(S) = m
         /\ (\A y \in S : m <= y) => Min(S) = m
<1>1. ASSUME \A y \in S : m >= y PROVE Max(S) = m
  <2> DEFINE x == CHOOSE x \in S : \A y \in S : x >= y
  <2>1. x \in S /\ \A y \in S : x >= y BY <1>1
  <2>2. x >= m /\ m >= x /\ x \in Int /\ m \in Int BY <1>1, <2>1
  <2> HIDE DEF x
  <2>3. x = m BY <2>2
  <2> QED BY <2>3 DEF Max, x
<1>2. ASSUME \A y \in S : m <= y PROVE Min(S) = m
  <2> DEFINE x == CHOOSE x \in S : \A y \in S : x <= y
  <2>1. x \in S /\ \A y \in S : x <= y BY <1>2
  <2>2. x <= m /\ m <= x /\ x \in Int /\ m \in Int BY <1>2, <2>1
  <2> HIDE DEF x
  <2>3. x = m BY <2>2
  <2> QED BY <2>3 DEF Min, x
<1> QED BY <1>1, <1>2

LEMMA GreaterOfTwo ==
  ASSUME NEW x \in Int, NEW y \in Int
  PROVE  Max({x, y}) = IF x >= y THEN x ELSE y
<1>1. {x, y} \subseteq Int /\ x \in {x, y} /\ y \in {x, y} OBVIOUS
<1>2. x >= y => Max({x, y}) = x BY <1>1, ExtremeIs
<1>3. ~(x >= y) => Max({x, y}) = y BY <1>1, ExtremeIs
<1> QED BY <1>2, <1>3

LEMMA LesserOfTwo ==
  ASSUME NEW x \in Int, NEW y \in Int
  PROVE  Min({x, y}) = IF x <= y THEN x ELSE y
<1>1. {x, y} \subseteq Int /\ x \in {x, y} /\ y \in {x, y} OBVIOUS
<1>2. x <= y => Min({x, y}) = x BY <1>1, ExtremeIs
<1>3. ~(x <= y) => Min({x, y}) = y BY <1>1, ExtremeIs
<1> QED BY <1>2, <1>3

LEMMA LeastIn ==
  ASSUME NEW S, IsFiniteSet(S), S \subseteq Int, S # {}
  PROVE  Min(S) \in S /\ \A y \in S : Min(S) <= y
  <1> DEFINE N == {-x : x \in S}
             f == [x \in S |-> -x]
  <1>1. f \in Surjection(S, N) BY DEF Surjection
  <1>2. IsFiniteSet(N)
    <2> HIDE DEF f, N
    <2> QED BY <1>1, FS_Surjection
  <1>3. N \subseteq Int /\ N # {} OBVIOUS
  <1>4. Max(N) \in N /\ \A y \in N : Max(N) >= y
    <2> HIDE DEF N
    <2> QED BY <1>2, <1>3, GreatestIn
  <1>5. PICK m \in S : Max(N) = -m BY <1>4
  <1>6. \A y \in S : m <= y
    <2> SUFFICES ASSUME NEW y \in S PROVE m <= y
      OBVIOUS
    <2>1. -y \in N OBVIOUS
    <2>2. -m >= -y BY <1>4, <1>5, <2>1
    <2> QED BY <2>2
  <1> QED BY <1>6 DEF Min

LEMMA ExtremesIn ==
  ASSUME NEW S, IsFiniteSet(S), S \subseteq Int, S # {}
  PROVE  /\ Max(S) \in S /\ \A y \in S : Max(S) >= y
         /\ Min(S) \in S /\ \A y \in S : Min(S) <= y
<1>1. Max(S) \in S /\ \A y \in S : Max(S) >= y BY GreatestIn
<1>2. Min(S) \in S /\ \A y \in S : Min(S) <= y BY LeastIn
<1> QED BY <1>1, <1>2

(* A fold over a sequence of some length, as FoldLeft of the community     *)
(* modules defines it: by the sets of places, the greatest place last.     *)
LEMMA SmallerSets ==
  ASSUME NEW n \in Nat, NEW s \in SUBSET (1..n)
  PROVE  /\ IsFiniteSet(s) /\ Cardinality(s) \in Nat /\ Cardinality(s) <= n
         /\ Cardinality(s) = 0 <=> s = {}
         /\ s # {} => /\ Max(s) \in s /\ s \ {Max(s)} \in SUBSET (1..n)
                      /\ Cardinality(s \ {Max(s)}) = Cardinality(s) - 1
  <1> DEFINE N == 1..n
  <1>1. IsFiniteSet(N) /\ Cardinality(N) = n BY FS_Interval
  <1>2. s \in SUBSET N /\ s \subseteq Int OBVIOUS
  <1> HIDE DEF N
  <1>3. IsFiniteSet(s) /\ Cardinality(s) <= n BY <1>1, <1>2, FS_Subset
  <1>4. Cardinality(s) \in Nat /\ (Cardinality(s) = 0 <=> s = {})
    BY <1>3, FS_CardinalityType, FS_EmptySet
  <1>5. ASSUME s # {} PROVE Max(s) \in s BY <1>2, <1>3, <1>5, GreatestIn
  <1>6. ASSUME s # {} PROVE Cardinality(s \ {Max(s)}) = Cardinality(s) - 1
    BY <1>3, <1>5, <1>6, FS_RemoveElement
  <1> QED BY <1>2, <1>3, <1>4, <1>5, <1>6 DEF N

IsFold(g, n, base, F) ==
  \A s \in SUBSET (1..n) : g[s] = IF s = {} THEN base ELSE F[Max(s)][g[s \ {Max(s)}]]

LEMMA FoldExists ==
  ASSUME NEW n \in Nat, NEW V, NEW base \in V, NEW F \in [1..n -> [V -> V]]
  PROVE  \E g \in [SUBSET (1..n) -> V] : IsFold(g, n, base, F)
  <1> DEFINE Upto(m) == {s \in SUBSET (1..n) : Cardinality(s) <= m}
             Folds(m, g) == \A s \in Upto(m) :
                              g[s] = IF s = {} THEN base ELSE F[Max(s)][g[s \ {Max(s)}]]
             N == {m \in Nat : \E g \in [Upto(m) -> V] : Folds(m, g)}
  <1>1. 0 \in N
    <2> DEFINE g == [s \in Upto(0) |-> base]
    <2>1. \A s \in Upto(0) : s = {}
      <3> SUFFICES ASSUME NEW s \in SUBSET (1..n), Cardinality(s) <= 0 PROVE s = {}
        OBVIOUS
      <3>1. Cardinality(s) \in Nat /\ (Cardinality(s) = 0 <=> s = {}) BY SmallerSets
      <3> QED BY <3>1
    <2>2. g \in [Upto(0) -> V] /\ Folds(0, g) BY <2>1
    <2> QED BY <2>2
  <1>2. ASSUME NEW m \in Nat, m \in N PROVE m + 1 \in N
    <2>1. PICK g \in [Upto(m) -> V] : Folds(m, g) BY <1>2
    <2> DEFINE U == Upto(m)
               W == Upto(m + 1)
               h == [s \in W |-> IF s = {} THEN base ELSE F[Max(s)][g[s \ {Max(s)}]]]
    <2>2. U \subseteq W
      <3> SUFFICES ASSUME NEW s \in SUBSET (1..n), Cardinality(s) <= m
                   PROVE  Cardinality(s) <= m + 1
        OBVIOUS
      <3>1. Cardinality(s) \in Nat BY SmallerSets
      <3> QED BY <3>1
    <2>3. \A s \in W : s # {} => s \ {Max(s)} \in U /\ Max(s) \in 1..n
      <3> SUFFICES ASSUME NEW s \in SUBSET (1..n), Cardinality(s) <= m + 1, s # {}
                   PROVE  /\ s \ {Max(s)} \in SUBSET (1..n) /\ Cardinality(s \ {Max(s)}) <= m
                          /\ Max(s) \in 1..n
        OBVIOUS
      <3>1. /\ s \ {Max(s)} \in SUBSET (1..n) /\ Cardinality(s) \in Nat
            /\ Cardinality(s \ {Max(s)}) = Cardinality(s) - 1 /\ Max(s) \in s
        BY SmallerSets
      <3>2. Max(s) \in 1..n BY <3>1
      <3>3. Cardinality(s \ {Max(s)}) <= m BY <3>1
      <3> QED BY <3>1, <3>2, <3>3, Zenon
    <2>4. g \in [U -> V] BY <2>1
    <2>5. \A s \in U : g[s] = IF s = {} THEN base ELSE F[Max(s)][g[s \ {Max(s)}]]
      BY <2>1
    <2> HIDE DEF U, W
    <2>6. h \in [W -> V]
      <3> SUFFICES ASSUME NEW s \in W, s # {} PROVE F[Max(s)][g[s \ {Max(s)}]] \in V
        OBVIOUS
      <3>1. g[s \ {Max(s)}] \in V /\ F[Max(s)] \in [V -> V] BY <2>3, <2>4
      <3> QED BY <3>1
    <2>7. \A s \in U : h[s] = g[s] BY <2>2, <2>5
    <2>8. \A s \in W : h[s] = IF s = {} THEN base ELSE F[Max(s)][h[s \ {Max(s)}]]
      BY <2>3, <2>7
    <2> HIDE DEF h
    <2>9. \E k \in [W -> V] : \A s \in W : k[s] = IF s = {} THEN base ELSE F[Max(s)][k[s \ {Max(s)}]]
      BY <2>6, <2>8
    <2>10. \E k \in [Upto(m + 1) -> V] : Folds(m + 1, k) BY <2>9 DEF W
    <2> HIDE DEF Upto, Folds
    <2> QED BY <2>10
  <1>3. n \in N
    <2> HIDE DEF N
    <2> QED BY <1>1, <1>2, NatSetInduction
  <1>4. Upto(n) = SUBSET (1..n)
    <2>1. \A s \in SUBSET (1..n) : Cardinality(s) <= n BY SmallerSets
    <2> QED BY <2>1
  <1>5. PICK g \in [Upto(n) -> V] : Folds(n, g) BY <1>3
  <1> QED BY <1>4, <1>5 DEF IsFold

(* The negated amounts add up to the negated sum.                          *)
LEMMA SumNegated ==
  ASSUME NEW S, IsFiniteSet(S), NEW f \in Amounts(S), NEW g \in Amounts(S),
         \A x \in S : g[x] = -f[x]
  PROVE  SumFunction(g) = -SumFunction(f)
  <1> DEFINE z == [x \in S |-> 0]
  <1>1. \A x \in S : f[x] \in Int /\ g[x] \in Int BY DEF Amounts
  <1>2. z \in Amounts(S) /\ (\A x \in S : z[x] = f[x] + g[x]) /\ \A x \in S \ {} : z[x] = 0
    BY <1>1 DEF Amounts
  <1> HIDE DEF z
  <1>3. SumFunction(z) = SumFunction(f) + SumFunction(g) BY <1>2, SumPlus
  <1>4. SumFunction(z) = SumFunction(Restrict(z, {}))
    <2>1. {} \in SUBSET S OBVIOUS
    <2> QED BY <1>2, <2>1, SumSupport
  <1>5. SumFunction(Restrict(z, {})) = 0 BY <1>2, SumOfNone
  <1>6. SumFunction(f) \in Int /\ SumFunction(g) \in Int BY SumType
  <1> QED BY <1>3, <1>4, <1>5, <1>6

(* A sum over two elements.                                                *)
LEMMA SumOfTwo ==
  ASSUME NEW a, NEW b, a # b, NEW f \in Amounts({a, b})
  PROVE  SumFunction(f) = f[a] + f[b]
  <1> DEFINE S == {a, b}
             g == Restrict(f, S \ {a})
             h == Restrict(g, (S \ {a}) \ {b})
  <1>1. IsFiniteSet(S) /\ IsFiniteSet(S \ {a})
    <2>1. IsFiniteSet({b}) BY FS_Singleton
    <2>2. IsFiniteSet({b} \cup {a}) BY <2>1, FS_AddElement
    <2>3. {b} \cup {a} = S /\ S \ {a} = {b} OBVIOUS
    <2> QED BY <2>1, <2>2, <2>3
  <1>2. a \in S /\ b \in S \ {a} /\ (S \ {a}) \ {b} = {} OBVIOUS
  <1>3. g[b] = f[b] BY <1>2 DEF Restrict
  <1> HIDE DEF S
  <1>4. f \in Amounts(S) BY DEF S
  <1>5. g \in Amounts(S \ {a}) /\ SumFunction(f) = f[a] + SumFunction(g)
        /\ f[a] \in Int /\ SumFunction(g) \in Int
    BY <1>1, <1>2, <1>4, SumRemove
  <1> HIDE DEF g
  <1>6. h \in Amounts((S \ {a}) \ {b}) /\ SumFunction(g) = g[b] + SumFunction(h)
        /\ g[b] \in Int /\ SumFunction(h) \in Int
    BY <1>1, <1>2, <1>5, SumRemove
  <1>7. SumFunction(h) = 0
    <2> HIDE DEF h
    <2> QED BY <1>2, <1>6, SumEmpty
  <1> HIDE DEF h
  <1> QED BY <1>3, <1>5, <1>6, <1>7

(* Greater amounts add up to more.                                         *)
LEMMA SumMonotone ==
  ASSUME NEW S, IsFiniteSet(S), NEW f \in Amounts(S), NEW g \in Amounts(S),
         \A x \in S : f[x] <= g[x]
  PROVE  SumFunction(f) <= SumFunction(g)
  <1> DEFINE h == [x \in S |-> g[x] - f[x]]
  <1>1. \A x \in S : f[x] \in Int /\ g[x] \in Int BY DEF Amounts
  <1>2. h \in Amounts(S) /\ \A x \in S : g[x] = f[x] + h[x] /\ h[x] >= 0
    BY <1>1 DEF Amounts
  <1> HIDE DEF h
  <1>3. SumFunction(g) = SumFunction(f) + SumFunction(h) BY <1>2, SumPlus
  <1>4. SumFunction(h) >= 0 BY <1>2, SumOfNaturals
  <1>5. SumFunction(f) \in Int /\ SumFunction(h) \in Int BY <1>2, SumType
  <1> QED BY <1>3, <1>4, <1>5

(* Amounts that are all multiplied by the same factor.                     *)
LEMMA SumScaled ==
  ASSUME NEW S, IsFiniteSet(S), NEW f \in Amounts(S), NEW c \in Int,
         NEW g \in Amounts(S), \A x \in S : g[x] = c * f[x]
  PROVE  SumFunction(g) = c * SumFunction(f)
  <1> DEFINE On(h, T) == SumFunction(Restrict(h, T))
             D == {T \in SUBSET S : On(g, T) = c * On(f, T)}
  <1>1. {} \in D
    <2>1. On(g, {}) = 0 /\ On(f, {}) = 0 BY SumOfNone
    <2> HIDE DEF On
    <2> QED BY <2>1
  <1>2. ASSUME NEW T \in SUBSET S, NEW x \in S \ T, T \in D
        PROVE  T \cup {x} \in D
    <2>1. On(g, T \cup {x}) = g[x] + On(g, T) BY SumGrow
    <2>2. On(f, T \cup {x}) = f[x] + On(f, T) BY SumGrow
    <2>3. f[x] \in Int /\ On(f, T) \in Int BY SumGrow
    <2>4. g[x] = c * f[x] /\ On(g, T) = c * On(f, T) BY <1>2
    <2> HIDE DEF On
    <2>5. \A p, q \in Int : c * (p + q) = c * p + c * q OBVIOUS
    <2>6. c * (f[x] + On(f, T)) = c * f[x] + c * On(f, T) BY <2>3, <2>5
    <2>7. On(g, T \cup {x}) = c * On(f, T \cup {x}) BY <2>1, <2>2, <2>4, <2>6
    <2> QED BY <2>7
  <1>3. S \in D
    <2> HIDE DEF D
    <2> QED BY <1>1, <1>2, SubsetInduction
  <1>4. On(g, S) = c * On(f, S) BY <1>3
  <1> QED BY <1>4, SumOfNone

(* Amounts none of which is negative, each of which occurs at least once   *)
(* among others: these add up to no less.                                  *)
LEMMA SumDistinct ==
  ASSUME NEW D, IsFiniteSet(D), NEW g \in Amounts(D),
         NEW S, NEW f \in Amounts(S), \A x \in S : f[x] >= 0,
         NEW s \in Surjection(D, S), \A i \in D : g[i] = f[s[i]]
  PROVE  IsFiniteSet(S) /\ SumFunction(f) <= SumFunction(g)
  <1> DEFINE first == [x \in S |-> CHOOSE i \in D : s[i] = x]
             F == {first[x] : x \in S}
  <1>1. IsFiniteSet(S) BY FS_Surjection
  <1>2. \A x \in S : first[x] \in D /\ s[first[x]] = x
    BY DEF Surjection
  <1>3. F \in SUBSET D /\ IsFiniteSet(F) /\ IsFiniteSet(D \ F)
    <2>1. F \in SUBSET D BY <1>2
    <2> HIDE DEF F
    <2>2. IsFiniteSet(F) /\ IsFiniteSet(D \ F) BY <2>1, FS_Subset
    <2> QED BY <2>1, <2>2
  <1>4. first \in Bijection(S, F)
    <2>1. first \in [S -> F] OBVIOUS
    <2>2. \A x, y \in S : first[x] = first[y] => x = y BY <1>2
    <2>3. \A i \in F : \E x \in S : first[x] = i OBVIOUS
    <2> HIDE DEF first, F
    <2> QED BY <2>1, <2>2, <2>3 DEF Bijection, Injection, Surjection, IsInjective
  <1> DEFINE onF == Restrict(g, F)
             rest == Restrict(g, D \ F)
  <1>5. \A x \in S : f[x] = onF[first[x]] BY <1>2 DEF Restrict
  <1>6. \A i \in D : g[i] >= 0 BY DEF Surjection
  <1>7. \A i \in D \ F : rest[i] >= 0 BY <1>6 DEF Restrict
  <1> HIDE DEF first, F
  <1>8. onF \in Amounts(F) BY <1>3, SumSplit
  <1>9. rest \in Amounts(D \ F) BY <1>3, SumSplit
  <1>10. SumFunction(g) = SumFunction(onF) + SumFunction(rest) BY <1>3, SumSplit
  <1> HIDE DEF onF, rest
  <1>11. SumFunction(f) = SumFunction(onF) BY <1>1, <1>3, <1>4, <1>5, <1>8, SumRename
  <1>12. SumFunction(rest) >= 0 BY <1>3, <1>7, <1>9, SumOfNaturals
  <1>13. SumFunction(onF) \in Int /\ SumFunction(rest) \in Int BY <1>3, <1>8, <1>9, SumType
  <1> QED BY <1>1, <1>10, <1>11, <1>12, <1>13

(* The same amount for each element of any finite set.                     *)
LEMMA SumEqual ==
  ASSUME NEW S, IsFiniteSet(S), NEW c \in Int, NEW f \in Amounts(S), \A x \in S : f[x] = c
  PROVE  SumFunction(f) = Cardinality(S) * c
  <1>1. PICK n \in Nat : ExistsBijection(1..n, S) BY FS_NatBijection
  <1>2. Cardinality(S) = n BY <1>1, FS_CountingElements
  <1>3. PICK b \in Bijection(1..n, S) : TRUE BY <1>1 DEF ExistsBijection
  <1> DEFINE D == 1..n
             g == [i \in D |-> c]
  <1>4. IsFiniteSet(D) BY FS_Interval
  <1>5. g \in Amounts(D) /\ g \in Amounts(1..n) /\ (\A i \in 1..n : g[i] = c)
    BY DEF Amounts
  <1>6. \A i \in D : b[i] \in S BY <1>3 DEF Bijection, Injection
  <1>7. \A i \in D : g[i] = f[b[i]] BY <1>6
  <1> HIDE DEF g
  <1>8. SumFunction(g) = n * c BY <1>5, SumConstant
  <1>9. b \in Bijection(D, S) BY <1>3
  <1> HIDE DEF D
  <1>10. SumFunction(g) = SumFunction(f) BY <1>4, <1>5, <1>7, <1>9, SumRename
  <1> QED BY <1>2, <1>8, <1>10

----------------------------------------------------------------------------
(* The products and quotients of natural numbers.                          *)
LEMMA NatTimes ==
  ASSUME NEW x \in Nat, NEW y \in Nat PROVE x * y \in Nat
  BY SMT

LEMMA NatTimesOrdered ==
  ASSUME NEW x \in Nat, NEW y \in Nat, NEW u \in Nat, NEW v \in Nat, x <= u, y <= v
  PROVE  x * y \in Nat /\ u * v \in Nat /\ x * y <= u * v
  <1>1. x * y <= x * v BY TimesOrdered
  <1>2. v * x <= v * u BY TimesOrdered
  <1>3. v * x = x * v /\ v * u = u * v OBVIOUS
  <1>4. x * y \in Nat /\ u * v \in Nat /\ x * v \in Nat BY NatTimes
  <1> QED BY <1>1, <1>2, <1>3, <1>4

LEMMA NatDivOrdered ==
  ASSUME NEW x \in Nat, NEW y \in Nat, x <= y, NEW d \in Nat \ {0}
  PROVE  x \div d \in Nat /\ y \div d \in Nat /\ x \div d <= y \div d
  <1> DEFINE p == x \div d
             q == y \div d
  <1>1. p \in Int /\ d * p <= x /\ x < d * p + d BY DivFloor
  <1>2. q \in Int /\ d * q <= y /\ y < d * q + d BY DivFloor
  <1> HIDE DEF p, q
  <1>3. ASSUME NEW u \in Int, NEW v \in Int, d * u <= y, x < d * v + d, v + 1 <= u, y <= x PROVE FALSE
    <2>1. d * (v + 1) <= d * u BY <1>3, TimesOrdered
    <2>2. d * (v + 1) = d * v + d /\ d * v \in Int /\ d * u \in Int OBVIOUS
    <2> QED BY <2>1, <2>2, <1>3
  <1>4. ASSUME NEW u \in Int, NEW n \in Nat, n < d * u + d, u < 0 PROVE FALSE
    <2>1. d * (u + 1) <= d * 0 BY <1>4, TimesOrdered
    <2>2. d * (u + 1) = d * u + d /\ d * 0 = 0 /\ d * u \in Int OBVIOUS
    <2> QED BY <2>1, <2>2, <1>4
  <1>5. p >= 0 BY <1>1, <1>4
  <1>6. q >= 0 BY <1>2, <1>4
  <1>7. ASSUME q < p PROVE FALSE
    <2>1. d * (q + 1) <= d * p BY <1>1, <1>2, <1>7, TimesOrdered
    <2>2. d * (q + 1) = d * q + d /\ d * q \in Int /\ d * p \in Int BY <1>1, <1>2
    <2> QED BY <2>1, <2>2, <1>1, <1>2
  <1> QED BY <1>1, <1>2, <1>5, <1>6, <1>7 DEF p, q

(* The k-th of a finite set of numbers is there, and is one only.          *)
UpToIn(S, i) == {j \in S : j <= i}

LEMMA NthUnique ==
  ASSUME NEW S \in SUBSET Nat, IsFiniteSet(S), NEW i \in S, NEW k \in S,
         Cardinality(UpToIn(S, i)) = Cardinality(UpToIn(S, k))
  PROVE  i = k
<1>1. ASSUME NEW a \in S, NEW b \in S, a < b
      PROVE  Cardinality(UpToIn(S, a)) < Cardinality(UpToIn(S, b))
  <2>0. a \in Nat /\ b \in Nat /\ \A j \in S : j \in Nat BY <1>1
  <2>1. UpToIn(S, a) \subseteq UpToIn(S, b)
    <3>1. ASSUME NEW j \in S, j <= a PROVE j <= b BY <1>1, <2>0, <3>1
    <3> QED BY <3>1, Zenon DEF UpToIn
  <2>2. b \in UpToIn(S, b) /\ b \notin UpToIn(S, a) BY <1>1 DEF UpToIn
  <2>3. IsFiniteSet(UpToIn(S, b)) /\ IsFiniteSet(UpToIn(S, a)) BY FS_Subset DEF UpToIn
  <2>4. UpToIn(S, a) # UpToIn(S, b) BY <2>2
  <2>5. Cardinality(UpToIn(S, a)) <= Cardinality(UpToIn(S, b))
        /\ (Cardinality(UpToIn(S, a)) = Cardinality(UpToIn(S, b)) => UpToIn(S, a) = UpToIn(S, b))
    BY <2>1, <2>3, FS_Subset
  <2>6. Cardinality(UpToIn(S, a)) \in Nat /\ Cardinality(UpToIn(S, b)) \in Nat
    BY <2>3, FS_CardinalityType
  <2> QED BY <2>4, <2>5, <2>6
<1>2. Cardinality(UpToIn(S, i)) \in Nat
  <2>1. IsFiniteSet(UpToIn(S, i)) BY FS_Subset DEF UpToIn
  <2> QED BY <2>1, FS_CardinalityType
<1>3. ~(i < k) BY <1>1, <1>2
<1>4. ~(k < i) BY <1>1, <1>2
<1> QED BY <1>3, <1>4

LEMMA NthExists ==
  ASSUME NEW S \in SUBSET Nat, IsFiniteSet(S), NEW k \in 1..Cardinality(S)
  PROVE  \E i \in S : Cardinality(UpToIn(S, i)) = k
<1> DEFINE Has(T) == \A q \in 1..Cardinality(T) : \E i \in T : Cardinality(UpToIn(T, i)) = q
           N == {c \in Nat : \A T \in SUBSET S : Cardinality(T) = c => Has(T)}
<1>1. 0 \in N OBVIOUS
<1>2. ASSUME NEW c \in Nat, c \in N PROVE c + 1 \in N
  <2>1. SUFFICES ASSUME NEW T \in SUBSET S, Cardinality(T) = c + 1,
                        NEW q \in 1..c + 1
                 PROVE  \E i \in T : Cardinality(UpToIn(T, i)) = q
    BY <1>2
  <2>2. IsFiniteSet(T) BY FS_Subset
  <2>3. T # {} BY <2>1, <2>2, FS_EmptySet
  <2>4. Max(T) \in T /\ \A y \in T : Max(T) >= y
    <3>1. T \subseteq Int OBVIOUS
    <3> QED BY <2>2, <2>3, <3>1, GreatestIn
  <2> DEFINE g == Max(T)
             R == T \ {g}
  <2>5. UpToIn(T, g) = T BY <2>4 DEF UpToIn
  <2> HIDE DEF g
  <2>6. g \in T /\ \A y \in T : g >= y BY <2>4 DEF g
  <2>7. Cardinality(R) = c
    <3>1. Cardinality(R) = Cardinality(T) - 1 BY <2>2, <2>6, FS_RemoveElement
    <3> QED BY <2>1, <3>1
  <2>8. Has(R) BY <1>2, <2>7
  <2>9. CASE q = c + 1 BY <2>1, <2>5, <2>6, <2>9
  <2>10. CASE q # c + 1
    <3>1. q \in 1..Cardinality(R) BY <2>7, <2>10
    <3>2. PICK i \in R : Cardinality(UpToIn(R, i)) = q BY <2>8, <3>1
    <3>3. i \in T /\ i < g BY <2>6, <3>2
    <3>4. UpToIn(R, i) = UpToIn(T, i) BY <2>6, <3>3 DEF UpToIn
    <3> QED BY <3>2, <3>3, <3>4
  <2> QED BY <2>9, <2>10
<1> HIDE DEF N
<1>3. Nat \subseteq N BY <1>1, <1>2, NatSetInduction
<1>4. Cardinality(S) \in N BY <1>3, FS_CardinalityType
<1>5. Has(S) BY <1>4 DEF N
<1> QED BY <1>5

(* The k-th of a set stays what it is when greater numbers join.           *)
LEMMA NthFacts ==
  ASSUME NEW S \in SUBSET Nat, IsFiniteSet(S), NEW k \in 1..Cardinality(S)
  PROVE  Nth(S, k) \in S /\ Cardinality(UpToIn(S, Nth(S, k))) = k
<1>1. \E i \in S : Cardinality(UpToIn(S, i)) = k BY NthExists
<1>2. \A i \in S : Cardinality({j \in S : j <= i}) = Cardinality(UpToIn(S, i))
  BY DEF UpToIn
<1> QED BY <1>1, <1>2 DEF Nth

LEMMA NthStays ==
  ASSUME NEW S \in SUBSET Nat, NEW T \in SUBSET Nat, IsFiniteSet(T), S \subseteq T,
         \A i \in S : \A j \in T \ S : i < j,
         NEW k \in 1..Cardinality(S)
  PROVE  /\ IsFiniteSet(S) /\ Cardinality(S) \in Nat /\ Cardinality(T) \in Nat
         /\ Cardinality(S) <= Cardinality(T)
         /\ Nth(T, k) = Nth(S, k)
<1>1. /\ IsFiniteSet(S) /\ Cardinality(S) \in Nat /\ Cardinality(T) \in Nat
      /\ Cardinality(S) <= Cardinality(T)
  BY FS_Subset, FS_CardinalityType
<1>2. k \in 1..Cardinality(T) BY <1>1
<1> DEFINE i == Nth(S, k)
           j == Nth(T, k)
<1>3. i \in S /\ Cardinality(UpToIn(S, i)) = k BY <1>1, NthFacts
<1>4. j \in T /\ Cardinality(UpToIn(T, j)) = k BY <1>2, NthFacts
<1> HIDE DEF i, j
<1>5. UpToIn(S, i) = UpToIn(T, i) BY <1>3 DEF UpToIn
<1>6. i = j BY <1>3, <1>4, <1>5, NthUnique
<1> QED BY <1>1, <1>6 DEF i, j

(* What a selection holds, in its order, and that it holds all of it.      *)
LEMMA NthOrdered ==
  ASSUME NEW S \in SUBSET Nat, IsFiniteSet(S)
  PROVE  \A k, l \in 1..Cardinality(S) : k < l => Nth(S, k) < Nth(S, l)
<1>1. TAKE k, l \in 1..Cardinality(S)
<1> DEFINE i == Nth(S, k)
           j == Nth(S, l)
<1>2. i \in S /\ Cardinality(UpToIn(S, i)) = k BY NthFacts
<1>3. j \in S /\ Cardinality(UpToIn(S, j)) = l BY NthFacts
<1> HIDE DEF i, j
<1>4. ASSUME k < l PROVE i < j
  <2>1. SUFFICES ASSUME j <= i PROVE FALSE BY <1>2, <1>3
  <2>2. UpToIn(S, j) \subseteq UpToIn(S, i)
    <3>1. \A x \in S : x <= j => x <= i BY <1>2, <1>3, <2>1
    <3> QED BY <3>1 DEF UpToIn
  <2>3. IsFiniteSet(UpToIn(S, i)) BY FS_Subset DEF UpToIn
  <2>4. Cardinality(UpToIn(S, j)) <= Cardinality(UpToIn(S, i)) BY <2>2, <2>3, FS_Subset
  <2>5. Cardinality(S) \in Nat BY FS_CardinalityType
  <2>6. k \in Int /\ l \in Int BY <1>1, <2>5
  <2> QED BY <1>2, <1>3, <1>4, <2>4, <2>6
<1> QED BY <1>4 DEF i, j

LEMMA NthOnto ==
  ASSUME NEW S \in SUBSET Nat, IsFiniteSet(S), NEW i \in S
  PROVE  \E k \in 1..Cardinality(S) : Nth(S, k) = i
<1>0. PICK k : k = Cardinality(UpToIn(S, i)) OBVIOUS
<1>1. IsFiniteSet(UpToIn(S, i)) /\ UpToIn(S, i) \subseteq S BY FS_Subset DEF UpToIn
<1>2. i \in UpToIn(S, i) BY DEF UpToIn
<1>3. k \in Nat /\ k # 0 BY <1>0, <1>1, <1>2, FS_CardinalityType, FS_EmptySet
<1>4. Cardinality(S) \in Nat /\ k <= Cardinality(S) BY <1>0, <1>1, FS_CardinalityType, FS_Subset
<1>5. k \in 1..Cardinality(S) BY <1>3, <1>4
<1>6. Nth(S, k) \in S /\ Cardinality(UpToIn(S, Nth(S, k))) = k BY <1>5, NthFacts
<1>7. Nth(S, k) = i
  <2>1. PICK j \in S : j = Nth(S, k) BY <1>6
  <2>2. Cardinality(UpToIn(S, j)) = Cardinality(UpToIn(S, i)) BY <1>0, <1>6, <2>1
  <2>3. j = i BY <2>2, NthUnique
  <2> QED BY <2>1, <2>3
<1> QED BY <1>5, <1>7

LEMMA SelectFacts ==
  ASSUME NEW s, NEW keep \in SUBSET Nat, IsFiniteSet(keep)
  PROVE  /\ Cardinality(keep) \in Nat
         /\ DOMAIN Select(s, keep) = 1..Cardinality(keep)
         /\ Select(s, keep) = [k \in 1..Cardinality(keep) |-> s[Nth(keep, k)]]
         /\ \A k \in 1..Cardinality(keep) :
              Nth(keep, k) \in keep /\ Select(s, keep)[k] = s[Nth(keep, k)]
         /\ \A i \in keep : \E k \in 1..Cardinality(keep) : Nth(keep, k) = i
         /\ \A k, l \in 1..Cardinality(keep) : k < l => Nth(keep, k) < Nth(keep, l)
<1>1. Cardinality(keep) \in Nat BY FS_CardinalityType
<1>2. \A k \in 1..Cardinality(keep) : Nth(keep, k) \in keep BY NthFacts
<1>3. \A i \in keep : \E k \in 1..Cardinality(keep) : Nth(keep, k) = i BY NthOnto
<1>4. \A k, l \in 1..Cardinality(keep) : k < l => Nth(keep, k) < Nth(keep, l)
  BY NthOrdered
<1>5. Select(s, keep) = [k \in 1..Cardinality(keep) |-> s[Nth(keep, k)]] BY Zenon DEF Select
<1>6. /\ DOMAIN Select(s, keep) = 1..Cardinality(keep)
      /\ \A k \in 1..Cardinality(keep) : Select(s, keep)[k] = s[Nth(keep, k)]
  BY <1>5
<1> QED BY <1>1, <1>2, <1>3, <1>4, <1>5, <1>6

(* What holds of every element of a sequence that is kept holds of every   *)
(* element of the selection.                                               *)
LEMMA SelectIn ==
  ASSUME NEW s, NEW keep \in SUBSET Nat, IsFiniteSet(keep), NEW S, \A i \in keep : s[i] \in S
  PROVE  Select(s, keep) \in Seq(S) /\ Len(Select(s, keep)) = Cardinality(keep)
<1>1. Cardinality(keep) \in Nat BY SelectFacts
<1>2. \A k \in 1..Cardinality(keep) : s[Nth(keep, k)] \in S BY SelectFacts
<1>3. Select(s, keep) = [k \in 1..Cardinality(keep) |-> s[Nth(keep, k)]] BY SelectFacts
<1> QED BY <1>1, <1>2, <1>3

(***************************************************************************)
(* Sums of combinations and of products, and the extremes of a function.   *)
(***************************************************************************)
LEMMA SumCombined ==
  ASSUME NEW S, IsFiniteSet(S), NEW p \in Amounts(S), NEW q \in Amounts(S), NEW r \in Amounts(S),
         NEW x \in Int, NEW y \in Int, NEW z \in Int, NEW w \in Int,
         NEW f \in Amounts(S), \A i \in S : f[i] = x * p[i] + y * q[i] + z * r[i] + w
  PROVE  SumFunction(f) = x * SumFunction(p) + y * SumFunction(q) + z * SumFunction(r)
                          + Cardinality(S) * w
  <1>0. \A i \in S : p[i] \in Int /\ q[i] \in Int /\ r[i] \in Int BY DEF Amounts
  <1>1. PICK xp : xp = [i \in S |-> x * p[i]] OBVIOUS
  <1>2. PICK yq : yq = [i \in S |-> y * q[i]] OBVIOUS
  <1>3. PICK zr : zr = [i \in S |-> z * r[i]] OBVIOUS
  <1>4. PICK ww : ww = [i \in S |-> w] OBVIOUS
  <1>5. PICK s : s = [i \in S |-> xp[i] + yq[i]] OBVIOUS
  <1>6. PICK t : t = [i \in S |-> zr[i] + ww[i]] OBVIOUS
  <1>7. xp \in Amounts(S) /\ yq \in Amounts(S) /\ zr \in Amounts(S) /\ ww \in Amounts(S)
    BY <1>0, <1>1, <1>2, <1>3, <1>4 DEF Amounts
  <1>8. s \in Amounts(S) /\ t \in Amounts(S)
    BY <1>5, <1>6, <1>7 DEF Amounts
  <1>9. SumFunction(xp) = x * SumFunction(p) BY <1>1, <1>7, SumScaled
  <1>10. SumFunction(yq) = y * SumFunction(q) BY <1>2, <1>7, SumScaled
  <1>11. SumFunction(zr) = z * SumFunction(r) BY <1>3, <1>7, SumScaled
  <1>12. SumFunction(ww) = Cardinality(S) * w BY <1>4, <1>7, SumEqual
  <1>13. SumFunction(s) = SumFunction(xp) + SumFunction(yq) BY <1>5, <1>7, <1>8, SumPlus
  <1>14. SumFunction(t) = SumFunction(zr) + SumFunction(ww) BY <1>6, <1>7, <1>8, SumPlus
  <1>15. \A i \in S : f[i] = s[i] + t[i]
    <2> TAKE i \in S
    <2>1. s[i] = x * p[i] + y * q[i] /\ t[i] = z * r[i] + w
      BY <1>1, <1>2, <1>3, <1>4, <1>5, <1>6
    <2>2. x * p[i] \in Int /\ y * q[i] \in Int /\ z * r[i] \in Int BY <1>0
    <2> QED BY <2>1, <2>2
  <1>16. SumFunction(f) = SumFunction(s) + SumFunction(t) BY <1>8, <1>15, SumPlus
  <1>17. /\ SumFunction(xp) \in Int /\ SumFunction(yq) \in Int /\ SumFunction(zr) \in Int
         /\ SumFunction(ww) \in Int
    BY <1>7, SumType
  <1>18. SumFunction(f) = SumFunction(xp) + SumFunction(yq) + SumFunction(zr) + SumFunction(ww)
    BY <1>13, <1>14, <1>16, <1>17
  <1> QED BY <1>9, <1>10, <1>11, <1>12, <1>18, Zenon

LEMMA ProductOfDifferences ==
  ASSUME NEW x \in Int, NEW y \in Int, NEW u \in Int, NEW v \in Int
  PROVE  (x - y) * (u - v) = (-x) * v + (-u) * y + 1 * (y * v) + x * u
  BY SMT

(* Chebyshev's inequality for sums.                                        *)
Concordant(S, a, b) == \A i, j \in S : (a[i] - a[j]) * (b[i] - b[j]) >= 0

LEMMA Chebyshev ==
  ASSUME NEW S, IsFiniteSet(S), NEW a \in Amounts(S), NEW b \in Amounts(S),
         NEW ab \in Amounts(S), \A i \in S : ab[i] = a[i] * b[i], Concordant(S, a, b)
  PROVE  /\ Cardinality(S) * SumFunction(ab) >= SumFunction(a) * SumFunction(b)
         /\ (\E i, j \in S : (a[i] - a[j]) * (b[i] - b[j]) > 0) =>
              Cardinality(S) * SumFunction(ab) > SumFunction(a) * SumFunction(b)
  <1>1. \A i \in S : a[i] \in Int /\ b[i] \in Int BY DEF Amounts
  <1>2. PICK A : A = SumFunction(a) OBVIOUS
  <1>3. PICK B : B = SumFunction(b) OBVIOUS
  <1>4. PICK C : C = SumFunction(ab) OBVIOUS
  <1>5. PICK n : n = Cardinality(S) OBVIOUS
  <1>6. A \in Int /\ B \in Int /\ C \in Int BY <1>2, <1>3, <1>4, SumType
  <1>7. n \in Nat BY <1>5, FS_CardinalityType
  <1>8. PICK row : row = [i \in S |-> [j \in S |-> (a[i] - a[j]) * (b[i] - b[j])]] OBVIOUS
  <1>9. PICK R : R = [i \in S |-> SumFunction(row[i])] OBVIOUS
  <1>10. ASSUME NEW i \in S
         PROVE  /\ row[i] \in Amounts(S) /\ \A j \in S : row[i][j] = (a[i] - a[j]) * (b[i] - b[j])
    BY <1>1, <1>8 DEF Amounts
  <1>11. ASSUME NEW i \in S
         PROVE  R[i] = n * ab[i] + (-B) * a[i] + (-A) * b[i] + C
    <2>1. PICK x : x = a[i] OBVIOUS
    <2>2. PICK u : u = b[i] OBVIOUS
    <2>3. x \in Int /\ u \in Int /\ -x \in Int /\ -u \in Int /\ x * u \in Int BY <1>1, <2>1, <2>2
    <2>4. \A j \in S : row[i][j] = (-x) * b[j] + (-u) * a[j] + 1 * ab[j] + x * u
      <3> TAKE j \in S
      <3>1. a[j] \in Int /\ b[j] \in Int BY <1>1
      <3>2. row[i][j] = (x - a[j]) * (u - b[j]) BY <1>10, <2>1, <2>2
      <3>3. (x - a[j]) * (u - b[j]) = (-x) * b[j] + (-u) * a[j] + 1 * (a[j] * b[j]) + x * u
        BY <2>3, <3>1, ProductOfDifferences
      <3> QED BY <3>2, <3>3
    <2>5. row[i] \in Amounts(S) BY <1>10
    <2>6. SumFunction(row[i]) = (-x) * B + (-u) * A + 1 * C + n * (x * u)
      BY <1>2, <1>3, <1>4, <1>5, <2>3, <2>4, <2>5, SumCombined
    <2>7. R[i] = SumFunction(row[i]) BY <1>9
    <2>8. ab[i] = x * u BY <2>1, <2>2
    <2>9. (-x) * B + (-u) * A + 1 * C + n * (x * u) = n * (x * u) + (-B) * x + (-A) * u + C
      BY <1>6, <1>7, <2>3
    <2> QED BY <2>1, <2>2, <2>6, <2>7, <2>8, <2>9
  <1>12. R \in Amounts(S)
    <2>1. \A i \in S : SumFunction(row[i]) \in Int BY <1>10, SumType
    <2> QED BY <1>9, <2>1 DEF Amounts
  <1>13. SumFunction(R) = n * C + (-B) * A + (-A) * B + n * C
    <2>1. -B \in Int /\ -A \in Int /\ n \in Int BY <1>6, <1>7
    <2>2. \A i \in S : R[i] = n * ab[i] + (-B) * a[i] + (-A) * b[i] + C BY <1>11
    <2> QED BY <1>2, <1>3, <1>4, <1>5, <1>6, <1>12, <2>1, <2>2, SumCombined
  <1>14. SumFunction(R) = 2 * (n * C - A * B) BY <1>6, <1>7, <1>13
  <1>15. \A i \in S : R[i] >= 0
    <2> TAKE i \in S
    <2>1. \A j \in S : row[i][j] >= 0 BY <1>10 DEF Concordant
    <2>2. row[i] \in Amounts(S) BY <1>10
    <2> QED BY <1>9, <2>1, <2>2, SumOfNaturals
  <1>16. SumFunction(R) >= 0 BY <1>12, <1>15, SumOfNaturals
  <1>17. n * C \in Int /\ A * B \in Int BY <1>6, <1>7
  <1>18. n * C >= A * B BY <1>14, <1>16, <1>17
  <1>19. ASSUME \E i, j \in S : (a[i] - a[j]) * (b[i] - b[j]) > 0
         PROVE  n * C > A * B
    <2>1. PICK i \in S, j \in S : (a[i] - a[j]) * (b[i] - b[j]) > 0 BY <1>19
    <2>2. row[i] \in Amounts(S) /\ row[i][j] > 0 BY <1>10, <2>1
    <2>3. \A k \in S : row[i][k] >= 0 BY <1>10 DEF Concordant
    <2>4. SumFunction(row[i]) # 0
      <3>1. ASSUME SumFunction(row[i]) = 0 PROVE FALSE
        <4>1. row[i][j] = 0 BY <2>2, <2>3, <3>1, SumOfNothing
        <4> QED BY <2>2, <4>1
      <3> QED BY <3>1
    <2>5. R[i] # 0 BY <1>9, <2>4
    <2>6. SumFunction(R) # 0
      <3>1. ASSUME SumFunction(R) = 0 PROVE FALSE
        <4>1. R[i] = 0 BY <1>12, <1>15, <3>1, SumOfNothing
        <4> QED BY <2>5, <4>1
      <3> QED BY <3>1
    <2> QED BY <1>14, <1>16, <1>17, <2>6
  <1> QED BY <1>2, <1>3, <1>4, <1>5, <1>18, <1>19

(* The greatest and the least value of a function.                         *)
LEMMA ValuesExtremes ==
  ASSUME NEW S, IsFiniteSet(S), S # {}, NEW f \in [S -> Int]
  PROVE  /\ Max({f[x] : x \in S}) \in {f[x] : x \in S} /\ Max({f[x] : x \in S}) \in Int
         /\ \A x \in S : Max({f[y] : y \in S}) >= f[x]
         /\ Min({f[x] : x \in S}) \in {f[x] : x \in S} /\ Min({f[x] : x \in S}) \in Int
         /\ \A x \in S : Min({f[y] : y \in S}) <= f[x]
  <1>1. PICK V : V = {f[x] : x \in S} OBVIOUS
  <1>2. f \in Surjection(S, V) BY <1>1 DEF Surjection
  <1>3. IsFiniteSet(V) BY <1>2, FS_Surjection
  <1>4. V \subseteq Int /\ V # {} BY <1>1
  <1>5. /\ Max(V) \in V /\ \A y \in V : Max(V) >= y
        /\ Min(V) \in V /\ \A y \in V : Min(V) <= y
    BY <1>3, <1>4, ExtremesIn
  <1>6. \A x \in S : f[x] \in V BY <1>1
  <1> QED BY <1>1, <1>4, <1>5, <1>6

LEMMA SumMasked ==
  ASSUME NEW S, IsFiniteSet(S), NEW f \in Amounts(S), NEW T \in SUBSET S
  PROVE  /\ [x \in S |-> IF x \in T THEN f[x] ELSE 0] \in Amounts(S)
         /\ SumFunction([x \in S |-> IF x \in T THEN f[x] ELSE 0]) = SumFunction(Restrict(f, T))
  <1>1. PICK h : h = [x \in S |-> IF x \in T THEN f[x] ELSE 0] OBVIOUS
  <1>2. h \in Amounts(S) BY <1>1 DEF Amounts
  <1>3. \A x \in S \ T : h[x] = 0 BY <1>1
  <1>4. SumFunction(h) = SumFunction(Restrict(h, T)) BY <1>2, <1>3, SumSupport
  <1>5. Restrict(h, T) = Restrict(f, T) BY <1>1 DEF Restrict, Amounts
  <1> QED BY <1>1, <1>2, <1>4, <1>5

----------------------------------------------------------------------------

(* More of a sum adds no less than everything negative in it.              *)
LEMMA SumOfMore ==
  ASSUME NEW S, IsFiniteSet(S), NEW f \in Amounts(S), NEW U \in SUBSET S, NEW T \in SUBSET U
  PROVE  /\ SumFunction(Restrict(f, U)) \in Int /\ SumFunction(Restrict(f, T)) \in Int
         /\ SumFunction([x \in S |-> IF f[x] < 0 THEN f[x] ELSE 0]) \in Int
         /\ SumFunction(Restrict(f, U)) - SumFunction(Restrict(f, T))
              >= SumFunction([x \in S |-> IF f[x] < 0 THEN f[x] ELSE 0])
  <1>1. \A x \in S : f[x] \in Int BY DEF Amounts
  <1>2. PICK a : a = [x \in S |-> IF x \in U THEN f[x] ELSE 0] OBVIOUS
  <1>3. PICK b : b = [x \in S |-> IF x \in T THEN f[x] ELSE 0] OBVIOUS
  <1>4. PICK d : d = [x \in S |-> IF x \in U /\ x \notin T THEN f[x] ELSE 0] OBVIOUS
  <1>5. PICK h : h = [x \in S |-> IF f[x] < 0 THEN f[x] ELSE 0] OBVIOUS
  <1>6. a \in Amounts(S) /\ SumFunction(a) = SumFunction(Restrict(f, U)) BY <1>2, SumMasked
  <1>7. b \in Amounts(S) /\ SumFunction(b) = SumFunction(Restrict(f, T)) BY <1>3, SumMasked
  <1>8. d \in Amounts(S) /\ h \in Amounts(S) BY <1>1, <1>4, <1>5 DEF Amounts
  <1>9. \A x \in S : a[x] = b[x] + d[x] BY <1>1, <1>2, <1>3, <1>4
  <1>10. SumFunction(a) = SumFunction(b) + SumFunction(d) BY <1>6, <1>7, <1>8, <1>9, SumPlus
  <1>11. \A x \in S : h[x] <= d[x] BY <1>1, <1>4, <1>5
  <1>12. SumFunction(h) <= SumFunction(d) BY <1>8, <1>11, SumMonotone
  <1>13. /\ SumFunction(a) \in Int /\ SumFunction(b) \in Int /\ SumFunction(d) \in Int
         /\ SumFunction(h) \in Int
    BY <1>6, <1>7, <1>8, SumType
  <1> QED BY <1>5, <1>6, <1>7, <1>10, <1>12, <1>13

(* A sum is between as many times its bounds as there are amounts.         *)
LEMMA SumBetween ==
  ASSUME NEW S, IsFiniteSet(S), NEW f \in Amounts(S), NEW a \in Int, NEW b \in Int,
         \A x \in S : a <= f[x] /\ f[x] <= b
  PROVE  Cardinality(S) * a <= SumFunction(f) /\ SumFunction(f) <= Cardinality(S) * b
  <1>1. PICK g : g = [x \in S |-> a] OBVIOUS
  <1>2. PICK h : h = [x \in S |-> b] OBVIOUS
  <1>3. g \in Amounts(S) /\ h \in Amounts(S) BY <1>1, <1>2 DEF Amounts
  <1>4. SumFunction(g) = Cardinality(S) * a
    <2>1. \A x \in S : g[x] = a BY <1>1
    <2> QED BY <1>3, <2>1, SumEqual
  <1>5. SumFunction(h) = Cardinality(S) * b
    <2>1. \A x \in S : h[x] = b BY <1>2
    <2> QED BY <1>3, <2>1, SumEqual
  <1>6. SumFunction(g) <= SumFunction(f)
    <2>1. \A x \in S : g[x] <= f[x] BY <1>1
    <2> QED BY <1>3, <2>1, SumMonotone
  <1>7. SumFunction(f) <= SumFunction(h)
    <2>1. \A x \in S : f[x] <= h[x] BY <1>2
    <2> QED BY <1>3, <2>1, SumMonotone
  <1> QED BY <1>4, <1>5, <1>6, <1>7

(* So is an average between them, rounded down.                            *)
LEMMA QuotientBetween ==
  ASSUME NEW n \in Nat \ {0}, NEW s \in Int, NEW a \in Int, NEW b \in Int, n * a <= s, s <= n * b
  PROVE  a <= s \div n /\ s \div n <= b /\ s \div n \in Int
  <1>1. PICK q : q = s \div n OBVIOUS
  <1>2. q \in Int /\ n * q <= s /\ s < n * q + n BY <1>1, DivFloor
  <1>3. q <= b
    <2>1. n * q <= n * b BY <1>2
    <2> QED BY <1>2, <2>1, FactorCancels
  <1>4. a <= q
    <2>1. SUFFICES ASSUME a > q PROVE FALSE BY <1>2
    <2>2. q + 1 <= a BY <1>2, <2>1
    <2>3. n * (q + 1) <= n * a BY <1>2, <2>2, TimesOrdered
    <2>4. n * (q + 1) = n * q + n BY <1>2
    <2>5. n * q \in Int /\ n * a \in Int BY <1>2
    <2> QED BY <1>2, <2>3, <2>4, <2>5
  <1> QED BY <1>1, <1>2, <1>3, <1>4

(* Two differences of the same direction.                                  *)
LEMMA ProductSign ==
  ASSUME NEW a \in Int, NEW b \in Int, NEW c \in Int, NEW d \in Int,
         a < b => c <= d, b < a => d <= c
  PROVE  (a - b) * (c - d) >= 0
  <1>1. PICK x \in Int : x = a - b OBVIOUS
  <1>2. PICK y \in Int : y = c - d OBVIOUS
  <1>3. CASE x = 0 BY <1>1, <1>2, <1>3
  <1>4. CASE x > 0
    <2>1. y >= 0 BY <1>1, <1>2, <1>4
    <2>2. x * y >= 0 BY <1>4, <2>1
    <2> QED BY <1>1, <1>2, <2>2
  <1>5. CASE x < 0
    <2>1. y <= 0 BY <1>1, <1>2, <1>5
    <2>2. x * y >= 0 BY <1>5, <2>1
    <2> QED BY <1>1, <1>2, <2>2
  <1> QED BY <1>3, <1>4, <1>5

(* The first of the places with the greatest value.                        *)
LEMMA FirstGreatest ==
  ASSUME NEW n \in Nat \ {0}, NEW count \in [1..n -> Int]
  PROVE  \E k \in 1..n : (\A j \in 1..n : count[j] <= count[k]) /\ (\A j \in 1..k - 1 : count[j] < count[k])
  <1>0. PICK S : S = 1..n OBVIOUS
  <1>e. S # {} BY <1>0
  <1>s. S \subseteq Int BY <1>0
  <1>f. IsFiniteSet(S) BY <1>0, FS_Interval
  <1>c. count \in [S -> Int] BY <1>0
  <1>3. PICK M : M = Max({count[j] : j \in S}) OBVIOUS
  <1>4. \E j \in S : count[j] = M
    <2>1. M \in {count[j] : j \in S} BY <1>f, <1>c, <1>e, <1>3, ValuesExtremes
    <2> QED BY <2>1
  <1>a. M \in Int BY <1>f, <1>c, <1>e, <1>3, ValuesExtremes
  <1>b. \A j \in S : M >= count[j] BY <1>f, <1>c, <1>e, <1>3, ValuesExtremes
  <1>5. PICK T : T = {j \in S : count[j] = M} OBVIOUS
  <1>6. T # {} /\ T \subseteq S /\ T \subseteq Int BY <1>s, <1>4, <1>5
  <1>7. IsFiniteSet(T) BY <1>f, <1>6, FS_Subset
  <1>8. PICK k : k = Min(T) OBVIOUS
  <1>9. k \in T /\ \A j \in T : k <= j BY <1>6, <1>7, <1>8, LeastIn
  <1>10. k \in S /\ count[k] = M BY <1>5, <1>9
  <1>11. \A j \in S : count[j] <= count[k]
    <2> TAKE j \in S
    <2>1. M >= count[j] /\ count[j] \in Int BY <1>c, <1>b
    <2> QED BY <1>a, <1>10, <2>1
  <1>12. ASSUME NEW j \in 1..k - 1 PROVE count[j] < count[k]
    <2>1. j \in S /\ j < k BY <1>0, <1>10
    <2>2. j \notin T BY <1>0, <1>9, <1>10, <2>1
    <2>3. count[j] # M BY <1>5, <2>1, <2>2
    <2>4. M >= count[j] /\ count[j] \in Int BY <1>c, <1>b, <2>1
    <2> QED BY <1>a, <1>10, <2>3, <2>4
  <1> QED BY <1>0, <1>10, <1>11, <1>12

(* A value that none is more frequent than makes up its share.             *)
CountsEach(n, value, count) ==
  count = [k \in 1..n |-> Cardinality({j \in 1..n : value[j] = value[k]})]

LEMMA MostFrequent ==
  ASSUME NEW n \in Nat \ {0}, NEW value, NEW count, CountsEach(n, value, count)
  PROVE  /\ \E k \in 1..n : (\A j \in 1..n : count[j] <= count[k]) /\ (\A j \in 1..k - 1 : count[j] < count[k])
         /\ \A k \in 1..n : (\A j \in 1..n : count[j] <= count[k]) =>
              count[k] * Cardinality({value[j] : j \in 1..n}) >= n
  <1>1. PICK S : S = 1..n OBVIOUS
  <1>2. IsFiniteSet(S) /\ Cardinality(S) = n
    <2>1. IsFiniteSet(1..n) /\ Cardinality(1..n) = IF 1 > n THEN 0 ELSE n - 1 + 1 BY FS_Interval
    <2> QED BY <1>1, <2>1
  <1>s. S \subseteq Nat /\ S \subseteq Int BY <1>1
  <1>3. PICK class : class = [k \in S |-> {j \in S : value[j] = value[k]}] OBVIOUS
  <1>4. ASSUME NEW k \in S
        PROVE  /\ class[k] \in SUBSET S /\ k \in class[k] /\ IsFiniteSet(class[k])
               /\ count[k] = Cardinality(class[k]) /\ count[k] \in Nat
               /\ \A j \in S : j \in class[k] <=> value[j] = value[k]
    <2>1. class[k] \in SUBSET S /\ k \in class[k] /\ \A j \in S : j \in class[k] <=> value[j] = value[k]
      BY <1>3
    <2>2. IsFiniteSet(class[k]) BY <1>2, <2>1, FS_Subset
    <2>3. count[k] = Cardinality(class[k]) BY <1>1, <1>3 DEF CountsEach
    <2>4. count[k] \in Nat BY <2>2, <2>3, FS_CardinalityType
    <2> QED BY <2>1, <2>2, <2>3, <2>4
  <1>5. \E k \in S : (\A j \in S : count[j] <= count[k]) /\ (\A j \in 1..k - 1 : count[j] < count[k])
    <2>1. \A k \in S : count[k] \in Int BY <1>4
    <2>3. PICK c : c = [k \in S |-> count[k]] OBVIOUS
    <2>4. c \in [S -> Int] /\ \A k \in S : c[k] = count[k] BY <2>1, <2>3
    <2>5. PICK k \in 1..n : (\A j \in 1..n : c[j] <= c[k]) /\ (\A j \in 1..k - 1 : c[j] < c[k])
      BY <1>1, <2>4, FirstGreatest
    <2>6. \A j \in 1..k - 1 : j \in 1..n OBVIOUS
    <2> QED BY <1>1, <2>4, <2>5, <2>6
  <1>6. ASSUME NEW k \in S, \A j \in S : count[j] <= count[k]
        PROVE  count[k] * Cardinality({value[j] : j \in S}) >= n
    <2>1. PICK V : V = {value[j] : j \in S} OBVIOUS
    <2>2. PICK C : C = 1..count[k] OBVIOUS
    <2>3. PICK rank : rank = [j \in S |-> <<value[j], Cardinality(UpToIn(class[j], j))>>] OBVIOUS
    <2>4. IsFiniteSet(V)
      <3>1. PICK f : f = [j \in S |-> value[j]] OBVIOUS
      <3>2. f \in Surjection(S, V) BY <2>1, <3>1 DEF Surjection
      <3> QED BY <1>2, <3>2, FS_Surjection
    <2>5. IsFiniteSet(C) /\ Cardinality(C) = count[k]
      <3>1. PICK c \in Nat : c = count[k] BY <1>4
      <3>2. IsFiniteSet(1..c) /\ Cardinality(1..c) = IF 1 > c THEN 0 ELSE c - 1 + 1 BY FS_Interval
      <3> QED BY <2>2, <3>1, <3>2
    <2>6. ASSUME NEW j \in S PROVE rank[j] \in V \X C
      <3>1. PICK U : U = UpToIn(class[j], j) OBVIOUS
      <3>a. PICK T : T = class[j] OBVIOUS
      <3>b. T \subseteq S /\ j \in T /\ j \in Int BY <1>4, <1>s, <3>a
      <3>c. U = {i \in T : i <= j} BY <3>1, <3>a DEF UpToIn
      <3>2. U \subseteq class[j] /\ j \in U BY <3>a, <3>b, <3>c
      <3>3. IsFiniteSet(U) /\ Cardinality(U) <= Cardinality(class[j]) BY <1>4, <3>2, FS_Subset
      <3>4. Cardinality(U) \in Nat /\ Cardinality(U) # 0 BY <3>2, <3>3, FS_CardinalityType, FS_EmptySet
      <3>5. count[j] = Cardinality(class[j]) /\ count[j] \in Nat /\ count[j] <= count[k] /\ count[k] \in Nat
        BY <1>4, <1>6
      <3>6. Cardinality(U) \in C BY <2>2, <3>3, <3>4, <3>5
      <3>7. value[j] \in V BY <2>1
      <3>8. rank[j] = <<value[j], Cardinality(U)>> BY <2>3, <3>1
      <3> QED BY <3>6, <3>7, <3>8
    <2>7. ASSUME NEW i \in S, NEW j \in S, rank[i] = rank[j] PROVE i = j
      <3>1. value[i] = value[j] /\ Cardinality(UpToIn(class[i], i)) = Cardinality(UpToIn(class[j], j))
        BY <2>3, <2>7
      <3>2. class[i] = class[j] BY <1>3, <3>1
      <3>3. PICK T : T = class[j] OBVIOUS
      <3>4. i \in T /\ j \in T BY <1>4, <3>2, <3>3
      <3>5. T \in SUBSET Nat /\ IsFiniteSet(T) BY <1>s, <1>4, <3>3
      <3>6. Cardinality(UpToIn(T, i)) = Cardinality(UpToIn(T, j)) BY <3>1, <3>2, <3>3
      <3> QED BY <3>4, <3>5, <3>6, NthUnique
    <2>8. rank \in Injection(S, V \X C)
      <3>1. rank \in [S -> V \X C] BY <2>3, <2>6
      <3> QED BY <2>7, <3>1 DEF Injection, IsInjective
    <2>9. IsFiniteSet(V \X C) /\ Cardinality(V \X C) = Cardinality(V) * Cardinality(C)
      BY <2>4, <2>5, FS_Product
    <2>10. Cardinality(S) <= Cardinality(V \X C) BY <2>8, <2>9, FS_Injection
    <2>11. Cardinality(V) \in Nat /\ count[k] \in Nat BY <1>4, <2>4, FS_CardinalityType
    <2>12. Cardinality(V) * count[k] = count[k] * Cardinality(V) BY <2>11
    <2> QED BY <1>2, <2>1, <2>5, <2>9, <2>10, <2>12
  <1> QED BY <1>1, <1>5, <1>6

(* The first numbers of a length, and the greatest of them.                *)
LEMMA FirstPlaces ==
  ASSUME NEW n \in Nat, NEW m \in Nat, m + 1 <= n
  PROVE  /\ 1..(m + 1) \in SUBSET (1..n) /\ 1..(m + 1) # {}
         /\ Max(1..(m + 1)) = m + 1 /\ (1..(m + 1)) \ {m + 1} = 1..m
  <1>1. PICK S : S = 1..(m + 1) OBVIOUS
  <1>2. S \subseteq Int /\ m + 1 \in S /\ \A y \in S : m + 1 >= y BY <1>1
  <1>3. Max(S) = m + 1 BY <1>2, ExtremeIs
  <1> QED BY <1>1, <1>3

(* Ranks by a key: no two alike, and all of them taken.                    *)
EarlierIn(key, i) == {j \in DOMAIN key : key[j] < key[i] \/ (key[j] = key[i] /\ j < i)}

LEMMA RankByFacts ==
  ASSUME NEW n \in Nat, NEW key \in [1..n -> Int]
  PROVE  /\ \A i \in 1..n : RankBy(key, i) \in 1..n
         /\ \A i, j \in 1..n : i \in EarlierIn(key, j) => RankBy(key, i) < RankBy(key, j)
         /\ \A i, j \in 1..n : RankBy(key, i) = RankBy(key, j) => i = j
  <1>1. DOMAIN key = 1..n /\ \A i \in 1..n : key[i] \in Int OBVIOUS
  <1>2. PICK S : S = 1..n OBVIOUS
  <1>3. IsFiniteSet(S) /\ Cardinality(S) = n
    <2>1. IsFiniteSet(1..n) /\ Cardinality(1..n) = IF 1 > n THEN 0 ELSE n - 1 + 1 BY FS_Interval
    <2> QED BY <1>2, <2>1
  <1>4. \A i \in S : RankBy(key, i) = Cardinality(EarlierIn(key, i)) + 1 BY DEF RankBy, EarlierIn
  <1>5. ASSUME NEW i \in S
        PROVE  /\ IsFiniteSet(EarlierIn(key, i)) /\ EarlierIn(key, i) \subseteq S \ {i}
               /\ Cardinality(EarlierIn(key, i)) \in Nat /\ Cardinality(EarlierIn(key, i)) <= n - 1
    <2>1. EarlierIn(key, i) \subseteq S \ {i} BY <1>1, <1>2 DEF EarlierIn
    <2>2. IsFiniteSet(S \ {i}) /\ Cardinality(S \ {i}) = n - 1 BY <1>3, FS_RemoveElement
    <2>3. IsFiniteSet(EarlierIn(key, i)) /\ Cardinality(EarlierIn(key, i)) <= n - 1
      BY <2>1, <2>2, FS_Subset
    <2> QED BY <2>1, <2>3, FS_CardinalityType
  <1>6. \A i \in S : RankBy(key, i) \in 1..n BY <1>4, <1>5
  <1>7. ASSUME NEW i \in S, NEW j \in S, i \in EarlierIn(key, j) PROVE RankBy(key, i) < RankBy(key, j)
    <2>1. PICK A : A = EarlierIn(key, i) OBVIOUS
    <2>2. PICK B : B = EarlierIn(key, j) OBVIOUS
    <2>3. A \subseteq B BY <1>1, <1>2, <1>7, <2>1, <2>2 DEF EarlierIn
    <2>4. i \in B /\ i \notin A BY <1>5, <1>7, <2>1, <2>2
    <2>5. IsFiniteSet(B) /\ Cardinality(A) \in Nat /\ Cardinality(B) \in Nat BY <1>5, <2>1, <2>2
    <2>6. Cardinality(A) <= Cardinality(B) /\ (Cardinality(A) = Cardinality(B) => A = B)
      BY <2>3, <2>5, FS_Subset
    <2>7. Cardinality(A) < Cardinality(B) BY <2>4, <2>5, <2>6
    <2>8. RankBy(key, i) = Cardinality(A) + 1 /\ RankBy(key, j) = Cardinality(B) + 1 BY <1>4, <2>1, <2>2
    <2> QED BY <2>5, <2>7, <2>8
  <1>8. ASSUME NEW i \in S, NEW j \in S, RankBy(key, i) = RankBy(key, j) PROVE i = j
    <2>1. i \notin EarlierIn(key, j) /\ j \notin EarlierIn(key, i) BY <1>6, <1>7, <1>8
    <2> QED BY <1>1, <1>2, <2>1 DEF EarlierIn
  <1> QED BY <1>2, <1>6, <1>7, <1>8

LEMMA OrderedFacts ==
  ASSUME NEW n \in Nat, NEW key \in [1..n -> Int]
  PROVE  /\ \A k \in 1..n : Ordered(key, k) \in 1..n
         /\ \A k, l \in 1..n : k < l => key[Ordered(key, k)] <= key[Ordered(key, l)]
         /\ [k \in 1..n |-> Ordered(key, k)] \in Bijection(1..n, 1..n)
  <1>1. DOMAIN key = 1..n /\ \A i \in 1..n : key[i] \in Int OBVIOUS
  <1>2. PICK S : S = 1..n OBVIOUS
  <1>3. IsFiniteSet(S) BY <1>2, FS_Interval
  <1>4. PICK f : f = [i \in S |-> RankBy(key, i)] OBVIOUS
  <1>5. f \in Injection(S, S) BY <1>2, <1>4, RankByFacts DEF Injection, IsInjective
  <1>6. f \in Surjection(S, S) BY <1>3, <1>5, FS_Injection
  <1>7. \A k \in S : \E i \in S : RankBy(key, i) = k BY <1>4, <1>6 DEF Surjection
  <1>8. \A k \in S : Ordered(key, k) \in S /\ RankBy(key, Ordered(key, k)) = k
    <2> TAKE k \in S
    <2>1. \E i \in DOMAIN key : RankBy(key, i) = k BY <1>1, <1>2, <1>7
    <2>2. Ordered(key, k) \in DOMAIN key /\ RankBy(key, Ordered(key, k)) = k BY <2>1 DEF Ordered
    <2> QED BY <1>1, <1>2, <2>2
  <1>9. ASSUME NEW k \in S, NEW l \in S, k < l PROVE key[Ordered(key, k)] <= key[Ordered(key, l)]
    <2>1. PICK i \in S : i = Ordered(key, k) /\ RankBy(key, i) = k BY <1>8
    <2>2. PICK j \in S : j = Ordered(key, l) /\ RankBy(key, j) = l BY <1>8
    <2>3. j \notin EarlierIn(key, i)
      <3>1. j \in EarlierIn(key, i) => l < k BY <1>2, <2>1, <2>2, RankByFacts
      <3> QED BY <1>2, <1>9, <3>1
    <2>4. key[i] <= key[j] BY <1>1, <1>2, <2>3 DEF EarlierIn
    <2> QED BY <2>1, <2>2, <2>4
  <1>10. PICK g : g = [k \in S |-> Ordered(key, k)] OBVIOUS
  <1>11. g \in Injection(S, S)
    <2>1. g \in [S -> S] BY <1>8, <1>10
    <2>2. \A k, l \in S : g[k] = g[l] => k = l BY <1>8, <1>10
    <2> QED BY <2>1, <2>2 DEF Injection, IsInjective
  <1>12. g \in Surjection(S, S) BY <1>3, <1>11, FS_Injection
  <1>13. g \in Bijection(S, S) BY <1>11, <1>12 DEF Bijection
  <1> QED BY <1>2, <1>8, <1>9, <1>10, <1>13

(* Arithmetic of opposites.                                                *)
LEMMA NegativeIs ==
  ASSUME NEW x \in Int, NEW y \in Int
  PROVE  y = -x <=> x + y = 0
  OBVIOUS

(* A quotient and that of its complement miss the whole by at most one.    *)
LEMMA QuotientOpposed ==
  ASSUME NEW d \in Nat \ {0}, NEW k \in Int, NEW x \in Int, NEW y \in Int, y = k * d - x
  PROVE  (x \div d) + (y \div d) - k \in -1..0 /\ x \div d \in Int /\ y \div d \in Int
  <1>1. PICK q \in Int : q = x \div d BY DivFloor
  <1>2. PICK r \in Int : r = y \div d BY DivFloor
  <1>3. d * q <= x /\ x < d * q + d /\ d * r <= y /\ y < d * r + d BY <1>1, <1>2, DivFloor
  <1>4. PICK s \in Int : s = q + r OBVIOUS
  <1>5. d * q + d * r = d * s BY <1>4
  <1>6. d * q \in Int /\ d * r \in Int /\ d * s \in Int /\ k * d \in Int /\ d * k = k * d OBVIOUS
  <1>7. d * s <= d * k BY <1>3, <1>5, <1>6
  <1>8. d * k < d * s + d + d BY <1>3, <1>5, <1>6
  <1>9. s <= k BY <1>7, FactorCancels
  <1>10. k < s + 2
    <2>1. d * (s + 2) = d * s + d + d OBVIOUS
    <2>2. SUFFICES ASSUME s + 2 <= k PROVE FALSE OBVIOUS
    <2>3. d * (s + 2) <= d * k BY <2>2, TimesOrdered
    <2> QED BY <1>6, <1>8, <2>1, <2>3
  <1>11. s - k \in -1..0 BY <1>9, <1>10
  <1> QED BY <1>1, <1>2, <1>4, <1>11

(* A mean of two prices, each weighed, lies between them and leans to the  *)
(* one of the greater weight.                                              *)
LEMMA WeighedBetween ==
  ASSUME NEW b \in Int, NEW a \in Int, NEW m \in Int, b <= a, a + b = 2 * m,
         NEW v \in Nat, NEW w \in Nat, NEW d \in Int, d = v + w,
         NEW k \in Int, k = b * w + a * v
  PROVE  /\ d * b <= k /\ k <= d * a
         /\ v >= w => d * m <= k
         /\ v <= w => k <= d * m
  <1>1. PICK g \in Nat : a = b + g
    <2>1. a - b \in Nat /\ a = b + (a - b) OBVIOUS
    <2> QED BY <2>1
  <1>2. d * b = b * v + b * w /\ b * v \in Int /\ b * w \in Int OBVIOUS
  <1>3. a * v = b * v + g * v /\ g * v \in Int /\ g * v >= 0 BY <1>1
  <1>4. k = d * b + g * v BY <1>2, <1>3
  <1>5. a * w = b * w + g * w /\ g * w \in Int /\ g * w >= 0 BY <1>1
  <1>6. d * a = a * v + a * w /\ a * v \in Int /\ a * w \in Int OBVIOUS
  <1>7. d * a = k + g * w BY <1>5, <1>6
  <1>8. d * b <= k /\ k <= d * a
    <2>1. d * b \in Int /\ d * a \in Int OBVIOUS
    <2> QED BY <1>3, <1>4, <1>5, <1>7, <2>1
  <1>9. 2 * (d * m) = d * a + d * b
    <2>1. 2 * (d * m) = d * (2 * m) OBVIOUS
    <2>2. d * (a + b) = d * a + d * b OBVIOUS
    <2> QED BY <2>1, <2>2
  <1>10. 2 * (d * m) = 2 * k + g * w - g * v
    <2>1. d * a \in Int /\ d * b \in Int OBVIOUS
    <2> QED BY <1>3, <1>4, <1>5, <1>7, <1>9, <2>1
  <1>11. d * m \in Int OBVIOUS
  <1>12. v >= w => g * w <= g * v BY TimesOrdered
  <1>13. v <= w => g * v <= g * w BY TimesOrdered
  <1> QED BY <1>3, <1>5, <1>8, <1>10, <1>11, <1>12, <1>13

(* A part of amounts none of which is negative sums to no more.            *)
LEMMA SumOfPart ==
  ASSUME NEW S, IsFiniteSet(S), NEW f \in Amounts(S), \A x \in S : f[x] >= 0,
         NEW T \in SUBSET S, NEW U \in SUBSET T
  PROVE  /\ SumFunction(Restrict(f, U)) <= SumFunction(Restrict(f, T))
         /\ SumFunction(Restrict(f, T)) <= SumFunction(f)
         /\ SumFunction(Restrict(f, U)) \in Int
  <1>1. PICK g : g = [x \in S |-> IF x \in T THEN f[x] ELSE 0] OBVIOUS
  <1>2. PICK h : h = [x \in S |-> IF x \in U THEN f[x] ELSE 0] OBVIOUS
  <1>3. g \in Amounts(S) /\ SumFunction(g) = SumFunction(Restrict(f, T)) BY <1>1, SumMasked
  <1>4. h \in Amounts(S) /\ SumFunction(h) = SumFunction(Restrict(f, U))
    <2>1. U \in SUBSET S OBVIOUS
    <2> QED BY <1>2, <2>1, SumMasked
  <1>5. \A x \in S : f[x] \in Int BY DEF Amounts
  <1>6. \A x \in S : h[x] <= g[x] BY <1>1, <1>2, <1>5
  <1>7. \A x \in S : g[x] <= f[x] BY <1>1, <1>5
  <1>8. SumFunction(h) <= SumFunction(g) BY <1>3, <1>4, <1>6, SumMonotone
  <1>9. SumFunction(g) <= SumFunction(f) BY <1>3, <1>7, SumMonotone
  <1>10. SumFunction(h) \in Int BY <1>4, SumType
  <1> QED BY <1>3, <1>4, <1>8, <1>9, <1>10

----------------------------------------------------------------------------
(* Elements, groups and numberings of a set.                               *)

(* No element is more than the sum, where none is below 0.                *)
LEMMA ElementOfSum ==
  ASSUME NEW S, IsFiniteSet(S), NEW f \in Amounts(S), \A x \in S : f[x] >= 0, NEW y \in S
  PROVE  f[y] <= SumFunction(f) /\ f[y] \in Int /\ SumFunction(f) \in Int
  <1>1. PICK h : h = Restrict(f, S \ {y}) OBVIOUS
  <1>2. /\ h \in Amounts(S \ {y}) /\ SumFunction(f) = f[y] + SumFunction(h)
        /\ f[y] \in Int /\ SumFunction(h) \in Int
    BY <1>1, SumRemove
  <1>3. IsFiniteSet(S \ {y}) BY FS_RemoveElement
  <1>4. \A x \in S \ {y} : h[x] >= 0 BY <1>1 DEF Restrict
  <1>5. SumFunction(h) >= 0 BY <1>2, <1>3, <1>4, SumOfNaturals
  <1> QED BY <1>2, <1>5

Fibre(S, g, t) == {x \in S : g[x] = t}

(* What the groups of a set sum to is what the set sums to.                *)
LEMMA SumOfGroups ==
  ASSUME NEW S, IsFiniteSet(S), NEW f \in Amounts(S), NEW T, IsFiniteSet(T), NEW g \in [S -> T],
         NEW h \in Amounts(T), \A t \in T : h[t] = SumFunction(Restrict(f, Fibre(S, g, t)))
  PROVE  SumFunction(h) = SumFunction(f)
  <1> DEFINE In(U) == {x \in S : g[x] \in U}
             D == {U \in SUBSET T : SumFunction(Restrict(h, U)) = SumFunction(Restrict(f, In(U)))}
  <1>1. {} \in D
    <2>1. In({}) = {} OBVIOUS
    <2>2. SumFunction(Restrict(h, {})) = 0 /\ SumFunction(Restrict(f, {})) = 0 BY SumOfNone
    <2> QED BY <2>1, <2>2
  <1>2. \A U \in SUBSET T : \A t \in T \ U : U \in D => U \cup {t} \in D
    <2> SUFFICES ASSUME NEW U \in SUBSET T, NEW t \in T \ U, U \in D PROVE U \cup {t} \in D
      OBVIOUS
    <2>1. SumFunction(Restrict(h, U \cup {t})) = h[t] + SumFunction(Restrict(h, U)) BY SumGrow
    <2>2. PICK V : V = In(U \cup {t}) OBVIOUS
    <2>3. PICK W : W = In(U) OBVIOUS
    <2>4. PICK X : X = {x \in S : g[x] = t} /\ X = Fibre(S, g, t) BY DEF Fibre
    <2>5. V \subseteq S /\ W \in SUBSET V /\ V \ W = X BY <2>2, <2>3, <2>4
    <2>6. IsFiniteSet(V) BY <2>5, FS_Subset
    <2>7. PICK F : F = Restrict(f, V) OBVIOUS
    <2>8. F \in Amounts(V) BY <2>5, <2>7, SumSplit
    <2>9. SumFunction(F) = SumFunction(Restrict(F, W)) + SumFunction(Restrict(F, V \ W))
      BY <2>5, <2>6, <2>8, SumSplit
    <2>10. Restrict(F, W) = Restrict(f, W) /\ Restrict(F, V \ W) = Restrict(f, X)
      BY <2>5, <2>7 DEF Restrict
    <2>11. h[t] = SumFunction(Restrict(f, X)) BY <2>4
    <2>12. SumFunction(Restrict(f, W)) = SumFunction(Restrict(h, U)) BY <2>3
    <2>13. Restrict(h, U) \in Amounts(U) /\ IsFiniteSet(U) BY SumSplit, FS_Subset
    <2>14. SumFunction(Restrict(h, U)) \in Int /\ h[t] \in Int BY <2>13, SumType DEF Amounts
    <2>15. SumFunction(Restrict(h, U \cup {t})) = SumFunction(F)
      BY <2>1, <2>9, <2>10, <2>11, <2>12, <2>14
    <2> QED BY <2>2, <2>7, <2>15
  <1>3. T \in D
    <2> HIDE DEF D
    <2> QED BY <1>1, <1>2, SubsetInduction
  <1>4. In(T) = S OBVIOUS
  <1>5. Restrict(h, T) = h /\ Restrict(f, S) = f BY SumOfNone
  <1> QED BY <1>3, <1>4, <1>5

LEMMA CountOfGroups ==
  ASSUME NEW S, IsFiniteSet(S), NEW T, IsFiniteSet(T), NEW g \in [S -> T],
         NEW h \in Amounts(T), \A t \in T : h[t] = Cardinality(Fibre(S, g, t))
  PROVE  SumFunction(h) = Cardinality(S)
  <1>1. PICK f : f = [x \in S |-> 1] OBVIOUS
  <1>2. f \in Amounts(S) BY <1>1 DEF Amounts
  <1>3. ASSUME NEW t \in T PROVE h[t] = SumFunction(Restrict(f, Fibre(S, g, t)))
    <2>1. PICK X : X = Fibre(S, g, t) OBVIOUS
    <2>2. X \in SUBSET S /\ IsFiniteSet(X) BY <2>1, FS_Subset DEF Fibre
    <2>3. Restrict(f, X) \in Amounts(X) BY <1>2, <2>2, SumSplit
    <2>4. \A x \in X : Restrict(f, X)[x] = 1 BY <1>1, <2>2 DEF Restrict
    <2>5. SumFunction(Restrict(f, X)) = Cardinality(X) * 1 BY <2>2, <2>3, <2>4, SumEqual
    <2>6. Cardinality(X) \in Nat BY <2>2, FS_CardinalityType
    <2>7. h[t] = Cardinality(X) BY <2>1
    <2>8. h[t] = SumFunction(Restrict(f, X)) BY <2>5, <2>6, <2>7
    <2> QED BY <2>1, <2>8
  <1>4. \A t \in T : h[t] = SumFunction(Restrict(f, Fibre(S, g, t))) BY <1>3
  <1>5. SumFunction(h) = SumFunction(f) BY <1>2, <1>4, SumOfGroups
  <1>6. SumFunction(f) = Cardinality(S) * 1 BY <1>1, <1>2, SumEqual
  <1>7. Cardinality(S) \in Nat BY FS_CardinalityType
  <1> QED BY <1>6, <1>7, <1>5

(* A one-to-one numbering counts what it numbers.                          *)
LEMMA NumberedCount ==
  ASSUME NEW S, IsFiniteSet(S), NEW T, NEW b \in [S -> T],
         \A x, y \in S : b[x] = b[y] => x = y, \A t \in T : \E x \in S : b[x] = t
  PROVE  Cardinality(S) = Cardinality(T)
  <1>1. b \in Bijection(S, T) BY DEF Bijection, Injection, Surjection, IsInjective
  <1>2. ExistsBijection(S, T) BY <1>1 DEF ExistsBijection
  <1> QED BY <1>2, FS_Bijection
=============================================================================
