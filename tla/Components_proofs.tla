-------------------------- MODULE Components_proofs --------------------------
(***************************************************************************)
(* Components that share nothing with one another, and are checked side by *)
(* side: the folds of a walk-forward study are separate, and each takes    *)
(* the best of all it was to search, for any bars, periods, modes and      *)
(* spaces of parameters; no hypothesis of the research lab stays in        *)
(* TESTING but by a crash of its own experiment; no more capital is given  *)
(* out than there is, however alphas are deployed; the chain of limits on  *)
(* a portfolio's weights keeps every one of them; a lasting loss of an     *)
(* alpha's predictive power is noticed; a bar is labelled with its regime  *)
(* as the report of the whole series labels it; alphas are scored on what  *)
(* they trade and blended into no more than they say; no indicator,        *)
(* volatility or feature changes at a bar when later ones come, and what   *)
(* is computed on a buffer is what was computed on the whole series; and a *)
(* file is loaded in order, with prices that are none of the future's.     *)
(***************************************************************************)
EXTENDS WalkForward, Hypotheses, Regimes, Alphas, AlphaMonitor, Causality, Capital,
        Loading, SumTheorems, FunctionTheorems, SequenceTheorems

(* A study that can be asked for: finitely many symbols with finitely many *)
(* days, and periods of at least one bar or day.                           *)
StudyIsPosed ==
  /\ IsFiniteSet(DOMAIN Times)
  /\ \A symbol \in DOMAIN Times : Times[symbol] \subseteq Int /\ IsFiniteSet(Times[symbol])
  /\ \A p \in Periods : p.n \in Nat \ {0}
  /\ FoldLimits \subseteq Nat

----------------------------------------------------------------------------
(* The common index: bars and days correspond, in their order.             *)
Rank(day) == Cardinality({d \in Days : d <= day})

LEMMA DaysFinite ==
  ASSUME StudyIsPosed
  PROVE  IsFiniteSet(Days) /\ Days \subseteq Int /\ Bars \in Nat
  <1> DEFINE T == {Times[symbol] : symbol \in DOMAIN Times}
             f == [symbol \in DOMAIN Times |-> Times[symbol]]
  <1>1. f \in Surjection(DOMAIN Times, T) BY DEF Surjection
  <1>2. IsFiniteSet(T)
    <2> HIDE DEF f, T
    <2> QED BY <1>1, FS_Surjection DEF StudyIsPosed
  <1>3. \A t \in T : IsFiniteSet(t) /\ t \subseteq Int BY DEF StudyIsPosed
  <1> HIDE DEF T
  <1>4. IsFiniteSet(UNION T) BY <1>2, <1>3, FS_UNION
  <1>5. UNION T \subseteq Int BY <1>3
  <1>6. Days = UNION T BY DEF Days, T
  <1> QED BY <1>4, <1>5, <1>6, FS_CardinalityType DEF Bars

LEMMA RankFacts ==
  ASSUME StudyIsPosed
  PROVE  /\ \A a \in Days : Rank(a) \in 1..Bars
         /\ \A a, b \in Days : a < b => Rank(a) < Rank(b)
  <1> DEFINE Upto(a) == {d \in Days : d <= a}
  <1>1. IsFiniteSet(Days) /\ Days \subseteq Int /\ Bars \in Nat BY DaysFinite
  <1>2. ASSUME NEW a \in Days PROVE IsFiniteSet(Upto(a)) /\ Rank(a) \in Nat /\ Rank(a) <= Bars
    <2>1. Upto(a) \in SUBSET Days OBVIOUS
    <2> HIDE DEF Upto
    <2>2. IsFiniteSet(Upto(a)) /\ Cardinality(Upto(a)) <= Cardinality(Days)
      BY <1>1, <2>1, FS_Subset
    <2>3. Cardinality(Upto(a)) \in Nat BY <2>2, FS_CardinalityType
    <2>4. Rank(a) = Cardinality(Upto(a)) BY DEF Rank, Upto
    <2> QED BY <2>2, <2>3, <2>4 DEF Bars
  <1>3. ASSUME NEW a \in Days PROVE Rank(a) # 0
    <2>1. a \in Upto(a) BY <1>1
    <2> HIDE DEF Upto
    <2>2. Cardinality(Upto(a)) # 0 BY <1>2, <2>1, FS_EmptySet
    <2> QED BY <2>2 DEF Rank, Upto
  <1>4. ASSUME NEW a \in Days, NEW b \in Days, a < b PROVE Rank(a) < Rank(b)
    <2>0. a \in Int /\ b \in Int /\ \A d \in Days : d \in Int BY <1>1
    <2>6. \A d \in Days : d <= a => d <= b BY <1>4, <2>0
    <2>7. b <= b /\ ~(b <= a) BY <1>4, <2>0
    <2>1. Upto(a) \in SUBSET Upto(b) /\ b \in Upto(b) /\ b \notin Upto(a)
      BY <2>6, <2>7
    <2>2. Rank(a) = Cardinality(Upto(a)) /\ Rank(b) = Cardinality(Upto(b)) BY DEF Rank
    <2>3. IsFiniteSet(Upto(b)) /\ Rank(a) \in Nat /\ Rank(b) \in Nat BY <1>2
    <2> HIDE DEF Upto
    <2>4. Cardinality(Upto(a)) <= Cardinality(Upto(b)) BY <2>1, <2>3, FS_Subset
    <2>5. Cardinality(Upto(a)) # Cardinality(Upto(b)) BY <2>1, <2>3, FS_Subset
    <2> QED BY <2>2, <2>3, <2>4, <2>5
  <1>5. ASSUME NEW a \in Days PROVE Rank(a) \in 1..Bars
    <2>1. Rank(a) \in Nat /\ Rank(a) <= Bars /\ Rank(a) # 0 BY <1>2, <1>3
    <2> QED BY <1>1, <2>1
  <1> QED BY <1>4, <1>5

LEMMA IndexFacts ==
  ASSUME StudyIsPosed
  PROVE  /\ \A i \in 1..Bars : Index[i] \in Days /\ Index[i] \in Int /\ Rank(Index[i]) = i
         /\ \A i, j \in 1..Bars : Index[i] <= Index[j] <=> i <= j
         /\ \A day \in Days : Index[Rank(day)] = day
  <1> DEFINE r == [day \in Days |-> Rank(day)]
  <1>1. IsFiniteSet(Days) /\ Days \subseteq Int /\ Bars \in Nat BY DaysFinite
  <1>2. /\ \A a \in Days : Rank(a) \in 1..Bars
        /\ \A a, b \in Days : a < b => Rank(a) < Rank(b)
    BY RankFacts
  <1>3. \A a, b \in Days : Rank(a) = Rank(b) => a = b
    <2> SUFFICES ASSUME NEW a \in Days, NEW b \in Days, Rank(a) = Rank(b), a # b
                 PROVE  FALSE
      OBVIOUS
    <2>1. a < b \/ b < a BY <1>1
    <2>2. Rank(a) \in Int /\ Rank(b) \in Int BY <1>2
    <2> QED BY <1>2, <2>1, <2>2
  <1>4. r \in Injection(Days, 1..Bars)
    BY <1>2, <1>3 DEF Injection, IsInjective
  <1>5. r \in Surjection(Days, 1..Bars)
    <2>1. IsFiniteSet(1..Bars) /\ Cardinality(1..Bars) = Bars BY <1>1, FS_Interval
    <2> HIDE DEF r
    <2> QED BY <1>4, <2>1, FS_Injection DEF Bars
  <1>6. \A i \in 1..Bars : \E day \in Days : Rank(day) = i
    BY <1>5 DEF Surjection
  <1>7. \A i \in 1..Bars : Index[i] \in Days /\ Rank(Index[i]) = i
    <2> SUFFICES ASSUME NEW i \in 1..Bars PROVE Index[i] \in Days /\ Rank(Index[i]) = i
      OBVIOUS
    <2>1. Index[i] = CHOOSE day \in Days : Rank(day) = i BY DEF Index, Rank
    <2> QED BY <1>6, <2>1
  <1>8. \A day \in Days : Index[Rank(day)] = day BY <1>2, <1>3, <1>7
  <1>9. \A i, j \in 1..Bars : Index[i] <= Index[j] <=> i <= j
    <2> SUFFICES ASSUME NEW i \in 1..Bars, NEW j \in 1..Bars
                 PROVE  Index[i] <= Index[j] <=> i <= j
      OBVIOUS
    <2>1. /\ Index[i] \in Days /\ Index[j] \in Days
          /\ Rank(Index[i]) = i /\ Rank(Index[j]) = j
      BY <1>7
    <2>2. Index[i] \in Int /\ Index[j] \in Int BY <1>1, <2>1
    <2>3. Index[i] < Index[j] => i < j BY <1>2, <2>1
    <2>4. Index[j] < Index[i] => j < i BY <1>2, <2>1
    <2>5. Index[i] = Index[j] => i = j BY <2>1
    <2> QED BY <2>2, <2>3, <2>4, <2>5
  <1> QED BY <1>1, <1>7, <1>8, <1>9

(* The rows of a symbol on some bars in a row are its days between their   *)
(* first and their last.                                                   *)
LEMMA RowsAreDays ==
  ASSUME StudyIsPosed, NEW symbol \in DOMAIN Times,
         NEW a \in 1..Bars, NEW b \in 1..Bars
  PROVE  /\ IsFiniteSet(SliceData(symbol, a..b))
         /\ Cardinality(SliceData(symbol, a..b))
              = Cardinality({day \in Times[symbol] : Index[a] <= day /\ day <= Index[b]})
  <1> DEFINE S == SliceData(symbol, a..b)
             D == {day \in Times[symbol] : Index[a] <= day /\ day <= Index[b]}
             f == [i \in S |-> Index[i]]
  <1>1. /\ \A i \in 1..Bars : Index[i] \in Days /\ Index[i] \in Int /\ Rank(Index[i]) = i
        /\ \A i, j \in 1..Bars : Index[i] <= Index[j] <=> i <= j
        /\ \A day \in Days : Index[Rank(day)] = day /\ Rank(day) \in 1..Bars
    BY IndexFacts, RankFacts
  <1>2. Bars \in Nat /\ Times[symbol] \subseteq Days BY DaysFinite DEF Days
  <1>3. S \subseteq a..b /\ a..b \subseteq 1..Bars /\ \A i \in S : Index[i] \in Times[symbol]
    BY <1>2 DEF SliceData
  <1>4. IsFiniteSet(S)
    <2>1. IsFiniteSet(a..b) BY <1>2, FS_Interval
    <2> QED BY <1>3, <2>1, FS_Subset
  <1>5. \A i \in S : Index[i] \in D
    <2> SUFFICES ASSUME NEW i \in S PROVE Index[a] <= Index[i] /\ Index[i] <= Index[b]
      BY <1>3
    <2>1. i \in 1..Bars /\ a <= i /\ i <= b BY <1>2, <1>3
    <2> QED BY <1>1, <2>1
  <1>6. \A i, j \in S : Index[i] = Index[j] => i = j BY <1>1, <1>3
  <1>7. \A day \in D : \E i \in S : Index[i] = day
    <2> SUFFICES ASSUME NEW day \in D PROVE Rank(day) \in S /\ Index[Rank(day)] = day
      OBVIOUS
    <2>1. day \in Days /\ day \in Times[symbol] /\ Index[a] <= day /\ day <= Index[b] BY <1>2
    <2>2. Index[Rank(day)] = day /\ Rank(day) \in 1..Bars BY <1>1, <2>1
    <2>3. a <= Rank(day) /\ Rank(day) <= b BY <1>1, <2>1, <2>2
    <2>4. Rank(day) \in a..b BY <1>2, <2>2, <2>3
    <2> QED BY <2>1, <2>2, <2>4 DEF SliceData
  <1>8. f \in Bijection(S, D)
    <2> HIDE DEF S, D
    <2> QED BY <1>5, <1>6, <1>7 DEF Bijection, Injection, Surjection, IsInjective
  <1>9. ExistsBijection(S, D) BY <1>8 DEF ExistsBijection
  <1> HIDE DEF S, D
  <1>10. Cardinality(D) = Cardinality(S) BY <1>4, <1>9, FS_Bijection
  <1> QED BY <1>4, <1>10 DEF S, D

----------------------------------------------------------------------------
(* The folds.                                                              *)
LEMMA IntervalEnds ==
  ASSUME NEW a \in Int, NEW b \in Int, a <= b
  PROVE  Min(a..b) = a /\ Max(a..b) = b
  <1>1. a \in a..b /\ b \in a..b /\ \A y \in a..b : a <= y /\ y <= b OBVIOUS
  <1>2. \A x \in a..b : (\A y \in a..b : x <= y) => x = a BY <1>1
  <1>3. \A x \in a..b : (\A y \in a..b : x >= y) => x = b BY <1>1
  <1>4. Min(a..b) = a BY <1>1, <1>2 DEF Min
  <1>5. Max(a..b) = b BY <1>1, <1>3 DEF Max
  <1> QED BY <1>4, <1>5

LEMMA PeriodFacts ==
  ASSUME StudyIsPosed, NEW p \in Periods
  PROVE  PeriodToBars(p) \in Nat \ {0}
  <1>1. CASE p.unit = "bars" BY <1>1 DEF PeriodToBars, StudyIsPosed
  <1>2. CASE p.unit # "bars"
    <2> DEFINE S == {i \in 1..Bars : Index[i] <= Index[1] + p.n}
               c == Cardinality(S)
    <2>1. c \in Nat
      <3>1. IsFiniteSet(1..Bars) BY DaysFinite, FS_Interval
      <3>2. S \in SUBSET (1..Bars) OBVIOUS
      <3> HIDE DEF S
      <3> QED BY <3>1, <3>2, FS_Subset, FS_CardinalityType
    <2> HIDE DEF c
    <2>2. \E m \in {2, c} : \A n \in {2, c} : m >= n
      <3>1. CASE c >= 2 BY <2>1, <3>1
      <3>2. CASE 2 >= c BY <2>1, <3>2
      <3> QED BY <2>1, <3>1, <3>2
    <2>3. Max({2, c}) \in {2, c} /\ Max({2, c}) >= 2 BY <2>2 DEF Max
    <2>4. Max({2, c}) \in Nat \ {0} BY <2>1, <2>3
    <2> QED BY <1>2, <2>4 DEF PeriodToBars, c
  <1> QED BY <1>1, <1>2

(* Fold k in bars, from 0: where its training and its test begin and end.  *)
LEMMA FoldFacts ==
  ASSUME StudyIsPosed, engine \in Engines, NEW k \in Nat, Fits(engine, k)
  PROVE  LET a == TrainStart(engine, k)
             b == TrainEnd(engine, k)
             c == TestEnd(engine, k)
         IN  /\ a \in Int /\ b \in Int /\ c \in Int
             /\ 1 <= a /\ a <= b /\ b + 1 <= c /\ c <= Bars
  <1> DEFINE m == TrainBars(engine)
             n == TestBars(engine)
             t == k * n
  <1>1. m \in Nat \ {0} /\ n \in Nat \ {0}
    BY PeriodFacts DEF Engines, TrainBars, TestBars
  <1>2. t \in Nat BY <1>1
  <1>3. Bars \in Nat BY DaysFinite
  <1>4. TrainEnd(engine, k) = m + t /\ TestEnd(engine, k) = m + t + n
    BY DEF TrainEnd, TestEnd
  <1>5. TrainStart(engine, k) = t + 1 \/ TrainStart(engine, k) = 1 BY DEF TrainStart
  <1>6. TestEnd(engine, k) <= Bars BY DEF Fits
  <1> HIDE DEF m, n, t
  <1> QED BY <1>1, <1>2, <1>3, <1>4, <1>5, <1>6

LEMMA NextFold ==
  ASSUME StudyIsPosed, engine \in Engines, NEW k \in Nat
  PROVE  /\ TestBars(engine) \in Nat /\ TestEnd(engine, k) \in Int
         /\ TrainEnd(engine, k + 1) = TestEnd(engine, k)
         /\ TestEnd(engine, k + 1) = TestEnd(engine, k) + TestBars(engine)
  <1> DEFINE m == TrainBars(engine)
             n == TestBars(engine)
  <1>1. m \in Nat \ {0} /\ n \in Nat \ {0}
    BY PeriodFacts DEF Engines, TrainBars, TestBars
  <1>2. (k + 1) * n = k * n + n /\ k * n \in Nat BY <1>1
  <1>3. /\ TrainEnd(engine, k) = m + k * n /\ TestEnd(engine, k) = TrainEnd(engine, k) + n
        /\ TrainEnd(engine, k + 1) = m + (k + 1) * n
        /\ TestEnd(engine, k + 1) = TrainEnd(engine, k + 1) + n
    BY DEF TrainEnd, TestEnd
  <1> HIDE DEF m
  <1>4. TestBars(engine) = n OBVIOUS
  <1> HIDE DEF n
  <1> QED BY <1>1, <1>2, <1>3, <1>4

(* The inductive invariant: every fold done is one that fits, on its bars; *)
(* a search is about a fold that fits; and a study that came to its end    *)
(* went on for as long as folds fit.                                       *)
FoldInv ==
  \A k \in 1..Len(folds) :
    /\ Fits(engine, k - 1)
    /\ folds[k].train = FoldBars(engine, k - 1).train
    /\ folds[k].test = FoldBars(engine, k - 1).test

StudyInv ==
  /\ engine \in Engines
  /\ \E S : folds \in Seq(S)
  /\ FoldInv
  /\ step = "search" => Fits(engine, Len(folds))
  /\ step \in {"retrain", "test"} => Len(folds) > 0
  /\ step = "idle" /\ folds # <<>> => ~Fits(engine, Len(folds))
  /\ runs \in Nat

LEMMA StudyInit == ASSUME StudyIsPosed, WalkInit PROVE StudyInv
  <1>1. folds \in Seq({}) BY DEF WalkInit
  <1>2. Len(folds) = 0 BY DEF WalkInit
  <1> QED BY <1>1, <1>2 DEF WalkInit, StudyInv, FoldInv

LEMMA StudyStep == ASSUME StudyIsPosed, StudyInv, [WalkNext]_walkVars PROVE StudyInv'
  <1> USE DEF StudyInv
  <1>a. ASSUME UNCHANGED <<engine, folds>> PROVE FoldInv'
    BY <1>a DEF FoldInv
  <1>b. PICK S : folds \in Seq(S) OBVIOUS
  <1>1. CASE Run
    <2>1. folds' = <<>> /\ engine' = engine /\ step' = "search" /\ runs' = runs + 1
          /\ Fits(engine, 0)
      BY <1>1 DEF Run
    <2>2. folds' \in Seq({}) /\ Len(folds') = 0 BY <2>1
    <2>3. Fits(engine, Len(folds))' BY <2>1, <2>2
    <2>4. FoldInv' BY <2>2 DEF FoldInv
    <2> QED BY <2>1, <2>2, <2>3, <2>4
  <1>2. CASE Evaluate BY <1>a, <1>2 DEF Evaluate, RunnerReturns
  <1>3. CASE Choose
    <2> DEFINE f == [train |-> FoldBars(engine, Len(folds)).train,
                     test |-> FoldBars(engine, Len(folds)).test,
                     best |-> BestOf(engine, evaluations)]
               n == Len(folds)
    <2>1. folds' = Append(folds, f) /\ engine' = engine /\ step' = "retrain"
          /\ runs' = runs /\ Fits(engine, n)
      BY <1>3 DEF Choose
    <2>2. /\ f.train = FoldBars(engine, n).train /\ f.test = FoldBars(engine, n).test
      OBVIOUS
    <2> HIDE DEF f
    <2>3. folds' \in Seq(S \cup {f})
      <3>1. folds \in Seq(S \cup {f}) BY <1>b
      <3> QED BY <2>1, <3>1
    <2>4. n \in Nat /\ Len(folds') = n + 1 /\ folds'[n + 1] = f
          /\ \A k \in 1..n : folds'[k] = folds[k]
      BY <1>b, <2>1
    <2>5. FoldInv'
      <3> SUFFICES ASSUME NEW k \in 1..(n + 1)
                   PROVE  /\ Fits(engine, k - 1)
                          /\ folds'[k].train = FoldBars(engine, k - 1).train
                          /\ folds'[k].test = FoldBars(engine, k - 1).test
        BY <2>1, <2>4 DEF FoldInv
      <3>1. CASE k = n + 1
        <4>1. k - 1 = n BY <2>4, <3>1
        <4> QED BY <2>1, <2>2, <2>4, <3>1, <4>1
      <3>2. CASE k # n + 1
        <4>1. k \in 1..n BY <2>4, <3>2
        <4> QED BY <2>4, <4>1 DEF FoldInv
      <3> QED BY <3>1, <3>2
    <2>6. Len(folds') > 0 BY <2>4
    <2> QED BY <2>1, <2>3, <2>5, <2>6
  <1>4. CASE Retrain BY <1>a, <1>4 DEF Retrain, RunnerReturns
  <1>5. CASE Test BY <1>a, <1>5 DEF Test, RunnerReturns
  <1>6. CASE BacktestRaises BY <1>a, <1>6 DEF BacktestRaises
  <1>7. CASE Recover
    <2>1. folds' = <<>> /\ engine' = engine /\ runs' = runs /\ step' = "idle"
      BY <1>7 DEF Recover
    <2>2. folds' \in Seq({}) /\ Len(folds') = 0 BY <2>1
    <2>3. FoldInv' BY <2>2 DEF FoldInv
    <2> QED BY <2>1, <2>2, <2>3
  <1>8. CASE UNCHANGED walkVars BY <1>a, <1>8 DEF walkVars
  <1> QED BY <1>1, <1>2, <1>3, <1>4, <1>5, <1>6, <1>7, <1>8 DEF WalkNext

(* Training and test of a fold together are some bars in a row.            *)
LEMMA StudySeparates ==
  ASSUME StudyIsPosed, StudyInv
  PROVE  FoldsSeparate
  <1> DEFINE n == Len(folds)
             First(k) == TrainStart(engine, k - 1)
             Cut(k) == TrainEnd(engine, k - 1)
             End(k) == TestEnd(engine, k - 1)
  <1>1. engine \in Engines /\ n \in Nat BY DEF StudyInv
  <1>2. Bars \in Nat BY DaysFinite
  <1>3. ASSUME NEW k \in 1..n
        PROVE  /\ folds[k].train = First(k)..Cut(k)
               /\ folds[k].test = (Cut(k) + 1)..End(k)
    BY DEF StudyInv, FoldInv, FoldBars
  <1>4. ASSUME NEW k \in 1..n
        PROVE  /\ First(k) \in Int /\ Cut(k) \in Int /\ End(k) \in Int
               /\ 1 <= First(k) /\ First(k) <= Cut(k) /\ Cut(k) + 1 <= End(k)
               /\ End(k) <= Bars
    <2>1. k - 1 \in Nat /\ Fits(engine, k - 1) BY DEF StudyInv, FoldInv
    <2> QED BY <1>1, <2>1, FoldFacts
  <1>5. ASSUME NEW k \in 1..n, k > 1 PROVE Cut(k) = End(k - 1)
    <2> DEFINE j == k - 2
    <2>1. j \in Nat /\ k - 1 = j + 1 /\ (k - 1) - 1 = j BY <1>5
    <2> HIDE DEF j
    <2>2. TrainEnd(engine, j + 1) = TestEnd(engine, j) BY <1>1, <2>1, NextFold
    <2> QED BY <2>1, <2>2
  <1> HIDE DEF First, Cut, End
  <1>6. ASSUME NEW k \in 1..n
        PROVE  /\ Min(folds[k].train) = First(k) /\ Max(folds[k].train) = Cut(k)
               /\ Min(folds[k].test) = Cut(k) + 1 /\ Max(folds[k].test) = End(k)
    <2>1. Cut(k) + 1 \in Int BY <1>4
    <2> QED BY <1>3, <1>4, <2>1, IntervalEnds
  <1>7. ASSUME NEW k \in 1..n
        PROVE  /\ folds[k].train # {} /\ folds[k].test # {}
               /\ folds[k].train \cup folds[k].test \subseteq 1..Bars
               /\ \A t \in folds[k].train, u \in folds[k].test : t < u
    <2>1. First(k) \in folds[k].train /\ End(k) \in folds[k].test BY <1>3, <1>4
    <2>2. folds[k].train \subseteq 1..Bars /\ folds[k].test \subseteq 1..Bars
      BY <1>2, <1>3, <1>4
    <2>3. \A t \in folds[k].train, u \in folds[k].test : t < u BY <1>3, <1>4
    <2> QED BY <2>1, <2>2, <2>3
  <1>8. ASSUME NEW k \in 1..n, k > 1
        PROVE  Min(folds[k].test) = Max(folds[k-1].test) + 1
    <2>1. k - 1 \in 1..n BY <1>1, <1>8
    <2> QED BY <1>5, <1>6, <1>8, <2>1
  <1>9. ASSUME NEW k \in 1..n, NEW symbol \in DOMAIN Times
        PROVE  /\ SliceData(symbol, folds[k].train) \cap SliceData(symbol, folds[k].test) = {}
               /\ Cardinality(SliceData(symbol, folds[k].train))
                  + Cardinality(SliceData(symbol, folds[k].test))
                  = Cardinality({day \in Times[symbol] : /\ Index[Min(folds[k].train)] <= day
                                                         /\ day <= Index[Max(folds[k].test)]})
    <2> DEFINE a == First(k)
               b == Cut(k)
               c == End(k)
               S == SliceData(symbol, a..b)
               T == SliceData(symbol, (b + 1)..c)
               U == SliceData(symbol, a..c)
    <2>1. a \in 1..Bars /\ b \in 1..Bars /\ b + 1 \in 1..Bars /\ c \in 1..Bars
          /\ a <= b /\ b + 1 <= c
      BY <1>2, <1>4
    <2>2. /\ folds[k].train = a..b /\ folds[k].test = (b + 1)..c
          /\ Min(folds[k].train) = a /\ Max(folds[k].test) = c
      BY <1>3, <1>6
    <2> HIDE DEF a, b, c
    <2>3. IsFiniteSet(S) /\ IsFiniteSet(T) /\ IsFiniteSet(U) BY <2>1, RowsAreDays
    <2>4. S \cap T = {} /\ U = S \cup T BY <1>2, <2>1 DEF SliceData
    <2>5. Cardinality(U)
            = Cardinality({day \in Times[symbol] : Index[a] <= day /\ day <= Index[c]})
      BY <2>1, RowsAreDays
    <2> HIDE DEF S, T, U
    <2>6. Cardinality(U) = Cardinality(S) + Cardinality(T)
      <3>1. Cardinality(S \cup T)
              = Cardinality(S) + Cardinality(T) - Cardinality(S \cap T)
        BY <2>3, FS_Union
      <3>2. Cardinality(S \cap T) = 0 BY <2>4, FS_EmptySet
      <3>3. Cardinality(S) \in Nat /\ Cardinality(T) \in Nat BY <2>3, FS_CardinalityType
      <3> QED BY <2>4, <3>1, <3>2, <3>3
    <2>7. Cardinality(S) + Cardinality(T)
            = Cardinality({day \in Times[symbol] : Index[a] <= day /\ day <= Index[c]})
      BY <2>5, <2>6
    <2> QED BY <2>2, <2>4, <2>7 DEF S, T
  <1>10. ASSUME step = "idle", folds # <<>>, engine.n_folds = 0
         PROVE  Bars - Max(folds[n].test) < TestBars(engine)
    <2>1. n > 0 /\ ~Fits(engine, n)
      <3>1. PICK S : folds \in Seq(S) BY DEF StudyInv
      <3>2. n > 0 BY <1>10, <3>1
      <3> QED BY <1>10, <3>2 DEF StudyInv
    <2>2. n \in 1..n BY <1>1, <2>1
    <2> DEFINE j == n - 1
    <2>3. j \in Nat /\ n = j + 1 BY <1>1, <2>1
    <2> HIDE DEF j, n
    <2>4. /\ TestBars(engine) \in Nat /\ TestEnd(engine, j) \in Int
          /\ TestEnd(engine, j + 1) = TestEnd(engine, j) + TestBars(engine)
      BY <1>1, <2>3, NextFold
    <2>5. ~(TestEnd(engine, n) <= Bars) BY <1>10, <2>1 DEF Fits
    <2>6. Max(folds[n].test) = TestEnd(engine, j)
      <3>1. n - 1 = j BY <2>3
      <3>2. Max(folds[n].test) = End(n) BY <1>6, <2>2
      <3> QED BY <3>1, <3>2 DEF End
    <2> QED BY <1>2, <2>3, <2>4, <2>5, <2>6
  <1> QED BY <1>7, <1>8, <1>9, <1>10 DEF FoldsSeparate

(* No parameters of a walk-forward study have seen their test bars or      *)
(* anything after them, no bar is tested twice or left out, and a study    *)
(* goes on for as long as the bars suffice: for any symbols, bars,         *)
(* periods, modes, parameter spaces and metrics.                           *)
THEOREM FoldsCorrect ==
  ASSUME StudyIsPosed
  PROVE  WalkSpec => []FoldsSeparate
<1>1. WalkInit => StudyInv
  BY StudyInit
<1>2. StudyInv /\ [WalkNext]_walkVars => StudyInv'
  BY StudyStep
<1>3. StudyInv => FoldsSeparate
  BY StudySeparates
<1> QED BY <1>1, <1>2, <1>3, PTL DEF WalkSpec

----------------------------------------------------------------------------
(* The optimizer: the first of the evaluations that none exceeds.          *)
(* While the chosen parameters run, they are those of BestOf.              *)
ChoiceInv ==
  /\ \E S : folds \in Seq(S)
  /\ \E P : evaluations \in Seq([params : P, raw : Int])
  /\ step \in {"retrain", "test"} =>
       evaluations # <<>> /\ folds[Len(folds)].best = BestOf(engine, evaluations)

LEMMA ChoiceInit == ASSUME WalkInit PROVE ChoiceInv
  <1>1. folds \in Seq({}) /\ evaluations \in Seq([params : {}, raw : Int]) BY DEF WalkInit
  <1>2. step \notin {"retrain", "test"} BY DEF WalkInit
  <1> QED BY <1>1, <1>2 DEF ChoiceInv

LEMMA ChoiceStep ==
  ASSUME Metrics \subseteq Int, ChoiceInv, [WalkNext]_walkVars
  PROVE  ChoiceInv'
  <1> USE DEF ChoiceInv
  <1>a. PICK S : folds \in Seq(S) OBVIOUS
  <1>b. PICK P : evaluations \in Seq([params : P, raw : Int]) OBVIOUS
  <1>c. <<>> \in Seq([params : P, raw : Int]) /\ <<>> \in Seq(S) OBVIOUS
  <1>1. CASE Run
    <2>1. evaluations' = <<>> /\ folds' = <<>> /\ step' = "search"
      BY <1>1 DEF Run, StartFold
    <2> QED BY <1>c, <2>1
  <1>2. CASE Evaluate
    <2>1. PICK value \in Metrics \cup {NoValue} :
            evaluations' = Append(evaluations, [params |-> Head(pending), raw |-> value])
      BY <1>2 DEF Evaluate
    <2> DEFINE p == Head(pending)
    <2>2. value \in Int BY DEF NoValue
    <2>3. evaluations' = Append(evaluations, [params |-> p, raw |-> value]) BY <2>1
    <2> HIDE DEF p
    <2>4. evaluations' \in Seq([params : P \cup {p}, raw : Int])
      <3>1. [params |-> p, raw |-> value] \in [params : P \cup {p}, raw : Int] BY <2>2
      <3>2. evaluations \in Seq([params : P \cup {p}, raw : Int])
        <4> DEFINE A == [params : P, raw : Int]
                   B == [params : P \cup {p}, raw : Int]
        <4>1. A \subseteq B OBVIOUS
        <4>2. evaluations \in Seq(A) BY <1>b
        <4> HIDE DEF A, B
        <4>3. evaluations \in Seq(B) BY <4>1, <4>2
        <4> QED BY <4>3 DEF B
      <3> QED BY <2>3, <3>1, <3>2
    <2>5. step' = "search" /\ folds' = folds BY <1>2 DEF Evaluate
    <2> QED BY <1>a, <2>4, <2>5
  <1>3. CASE Choose
    <2> DEFINE n == Len(folds)
               f == [train |-> FoldBars(engine, n).train, test |-> FoldBars(engine, n).test,
                     best |-> BestOf(engine, evaluations)]
    <2>1. folds' = Append(folds, f) /\ engine' = engine /\ evaluations' = evaluations
          /\ evaluations # <<>>
      BY <1>3 DEF Choose
    <2>2. f.best = BestOf(engine, evaluations) OBVIOUS
    <2> HIDE DEF f
    <2>3. folds' \in Seq(S \cup {f})
      <3>1. folds \in Seq(S \cup {f}) BY <1>a
      <3> QED BY <2>1, <3>1
    <2>4. folds'[Len(folds')] = f BY <1>a, <2>1
    <2>5. BestOf(engine', evaluations') = BestOf(engine, evaluations) BY <2>1
    <2> QED BY <1>b, <2>1, <2>2, <2>3, <2>4, <2>5
  <1>4. CASE Retrain
    <2>1. UNCHANGED <<engine, folds, evaluations>> /\ step = "retrain" BY <1>4 DEF Retrain
    <2> QED BY <1>a, <1>b, <2>1
  <1>5. CASE Test
    <2>1. evaluations' = <<>> /\ folds' = folds /\ step' \in {"search", "idle"}
      BY <1>5 DEF Test, StartFold
    <2> QED BY <1>a, <1>c, <2>1
  <1>6. CASE BacktestRaises BY <1>a, <1>b, <1>6 DEF BacktestRaises
  <1>7. CASE Recover BY <1>a, <1>c, <1>7 DEF Recover
  <1>8. CASE UNCHANGED walkVars BY <1>a, <1>b, <1>8 DEF walkVars
  <1> QED BY <1>1, <1>2, <1>3, <1>4, <1>5, <1>6, <1>7, <1>8 DEF WalkNext

LEMMA ChoiceIsBest == ASSUME ChoiceInv PROVE NoneWasBetter
  <1> SUFFICES ASSUME step \in {"retrain", "test"}, engine.objective # "max_drawdown_pct"
               PROVE  /\ \E i \in 1..Len(evaluations) : evaluations[i] = folds[Len(folds)].best
                      /\ \A i \in 1..Len(evaluations) :
                           evaluations[i].raw <= folds[Len(folds)].best.raw
    BY DEF NoneWasBetter
  <1> DEFINE n == Len(evaluations)
             Value(i) == ObjectiveValue(engine, evaluations[i].raw)
             B == {i \in 1..n : \A j \in 1..n : Value(j) <= Value(i)}
  <1>1. PICK P : evaluations \in Seq([params : P, raw : Int]) BY DEF ChoiceInv
  <1>2. evaluations # <<>> /\ folds[Len(folds)].best = evaluations[Min(B)]
    BY DEF ChoiceInv, BestOf
  <1>3. n \in Nat /\ n # 0 BY <1>1, <1>2
  <1>4. \A i \in 1..n : evaluations[i].raw \in Int /\ Value(i) = evaluations[i].raw
    <2> SUFFICES ASSUME NEW i \in 1..n
                 PROVE  evaluations[i].raw \in Int /\ Value(i) = evaluations[i].raw
      OBVIOUS
    <2> DEFINE E == [params : P, raw : Int]
    <2>1. \A e \in E : e.raw \in Int OBVIOUS
    <2>2. evaluations \in Seq(E) BY <1>1
    <2> HIDE DEF E
    <2>3. evaluations[i] \in E BY <2>2
    <2> QED BY <2>1, <2>3 DEF ObjectiveValue
  <1> HIDE DEF Value
  <1>5. IsFiniteSet(1..n) BY <1>3, FS_Interval
  <1>6. \E i \in 1..n : \A j \in 1..n : Value(j) <= Value(i)
    <2> DEFINE V == {Value(i) : i \in 1..n}
    <2>1. IsFiniteSet(V)
      <3> DEFINE f == [i \in 1..n |-> Value(i)]
                 I == 1..n
      <3>1. f \in Surjection(I, V) BY DEF Surjection
      <3>2. IsFiniteSet(I) BY <1>5
      <3> HIDE DEF f, V, I
      <3> QED BY <3>1, <3>2, FS_Surjection
    <2>2. V \subseteq Int /\ V # {} BY <1>3, <1>4
    <2>3. Max(V) \in V /\ \A y \in V : Max(V) >= y
      <3> HIDE DEF V
      <3> QED BY <2>1, <2>2, GreatestIn
    <2>4. PICK i \in 1..n : Max(V) = Value(i) BY <2>3
    <2>5. \A j \in 1..n : Value(j) <= Value(i) BY <1>4, <2>3, <2>4
    <2> QED BY <2>5
  <1>7. Min(B) \in B
    <2>1. B # {} /\ B \subseteq Int /\ B \in SUBSET (1..n) BY <1>6
    <2>2. IsFiniteSet(B)
      <3> HIDE DEF B
      <3> QED BY <1>5, <2>1, FS_Subset
    <2> HIDE DEF B
    <2> QED BY <2>1, <2>2, LeastIn
  <1>8. Min(B) \in 1..n /\ \A j \in 1..n : Value(j) <= Value(Min(B)) BY <1>7
  <1> HIDE DEF B
  <1>9. \A j \in 1..n : evaluations[j].raw <= evaluations[Min(B)].raw
    <2> QED BY <1>4, <1>8
  <1> QED BY <1>2, <1>8, <1>9

(* For every objective but the drawdown a fold's parameters are those of   *)
(* one of its evaluations, and no evaluation was better: for any parameter *)
(* space and search, however many evaluations there were.                  *)
THEOREM ChoiceCorrect ==
  ASSUME Metrics \subseteq Int
  PROVE  WalkSpec => []NoneWasBetter
<1>1. WalkInit => ChoiceInv
  BY ChoiceInit
<1>2. ChoiceInv /\ [WalkNext]_walkVars => ChoiceInv'
  BY ChoiceStep
<1>3. ChoiceInv => NoneWasBetter
  BY ChoiceIsBest
<1> QED BY <1>1, <1>2, <1>3, PTL DEF WalkSpec

----------------------------------------------------------------------------
(* The grid, built up by one parameter after the other: its sizes and its  *)
(* combinations, as FoldLeft defines them.                                 *)
SpaceIsTyped(space) ==
  /\ \E S : space \in Seq(S)
  /\ \A i \in DOMAIN space :
       /\ space[i].kind = "int" => space[i].low \in Int /\ space[i].high \in Int /\ space[i].step \in Int
       /\ space[i].kind = "float" => space[i].n_points \in Int
       /\ space[i].kind = "categorical" => \E C : space[i].choices \in Seq(C)

(* The values that parameters offer, and the value lists of a space.       *)
Offered(space) ==
  UNION {{Values(space[i])[j] : j \in 1..Len(Values(space[i]))} : i \in DOMAIN space}

LEMMA ValuesListed ==
  ASSUME NEW space, SpaceIsTyped(space), ValidSpace(space), NEW i \in DOMAIN space
  PROVE  /\ Len(Values(space[i])) \in Nat \ {0}
         /\ \A j \in 1..Len(Values(space[i])) : Values(space[i])[j] \in Offered(space)
  <1> DEFINE p == space[i]
             v == Values(p)
  <1>1. ValidParam(p) BY DEF ValidSpace
  <1>2. Len(v) \in Nat \ {0}
    <2>1. CASE p.kind = "int"
      <3> DEFINE n == (p.high - p.low) \div p.step + 1
                 f(k) == p.low + (k - 1) * p.step
      <3>1. p.low \in Int /\ p.high \in Int /\ p.step \in Nat \ {0} /\ p.low <= p.high
        BY <1>1, <2>1 DEF ValidParam, SpaceIsTyped
      <3>2. n \in Nat \ {0}
        <4>1. p.high - p.low \in Nat BY <3>1
        <4>2. (p.high - p.low) \div p.step \in Nat BY <3>1, <4>1
        <4> QED BY <4>2
      <3>3. v = [k \in 1..n |-> f(k)] BY <2>1 DEF Values
      <3> HIDE DEF n, f, v
      <3> QED BY <3>2, <3>3
    <2>2. CASE p.kind = "float"
      <3> DEFINE n == p.n_points
                 f(k) == p.low + ((k - 1) * (p.high - p.low)) \div (n - 1)
      <3>1. n \in Nat \ {0} BY <1>1, <2>2 DEF ValidParam, SpaceIsTyped
      <3>2. v = [k \in 1..n |-> f(k)] BY <2>2 DEF Values
      <3> HIDE DEF n, f, v
      <3> QED BY <3>1, <3>2
    <2>3. CASE p.kind = "categorical"
      <3>1. v = p.choices /\ p.choices # <<>> BY <1>1, <2>3 DEF Values, ValidParam
      <3>2. PICK C : p.choices \in Seq(C) BY <2>3 DEF SpaceIsTyped
      <3> QED BY <3>1, <3>2
    <2> QED BY <1>1, <2>1, <2>2, <2>3 DEF ValidParam
  <1>3. \A j \in 1..Len(v) : v[j] \in Offered(space) BY DEF Offered
  <1> QED BY <1>2, <1>3

(* Places in a product of two lengths: each is that of one pair.           *)
PlacesPairs(a, n) ==
  /\ a * n \in Nat
  /\ \A k \in 1..a * n : (k - 1) \div n + 1 \in 1..a /\ ((k - 1) % n) + 1 \in 1..n
  /\ \A i \in 1..a, j \in 1..n : \E k \in 1..a * n :
       (k - 1) \div n + 1 = i /\ ((k - 1) % n) + 1 = j

LEMMA PlaceOfPair ==
  ASSUME NEW a \in Nat, NEW n \in Nat \ {0}
  PROVE  PlacesPairs(a, n)
  <1>1. a * n \in Nat OBVIOUS
  <1>2. ASSUME NEW k \in 1..a * n
        PROVE  (k - 1) \div n + 1 \in 1..a /\ ((k - 1) % n) + 1 \in 1..n
    <2> DEFINE q == (k - 1) \div n
               r == (k - 1) % n
    <2>1. k - 1 \in Nat /\ k - 1 < a * n BY <1>1
    <2>2. q \in Nat /\ r \in 0..(n - 1) /\ n * q <= k - 1 BY <2>1, DivFloor
    <2>3. q < a
      <3> SUFFICES ASSUME a <= q PROVE FALSE BY <2>2
      <3>1. n * a <= n * q BY <2>2, TimesOrdered
      <3>2. n * a = a * n OBVIOUS
      <3> HIDE DEF q
      <3> QED BY <1>1, <2>1, <2>2, <3>1, <3>2
    <2> HIDE DEF q, r
    <2>4. q + 1 \in 1..a /\ r + 1 \in 1..n BY <2>2, <2>3
    <2> QED BY <2>4 DEF q, r
  <1>3. ASSUME NEW i \in 1..a, NEW j \in 1..n
        PROVE  \E k \in 1..a * n : (k - 1) \div n + 1 = i /\ ((k - 1) % n) + 1 = j
    <2> DEFINE m == n * (i - 1)
               k == m + j
    <2>1. m \in Nat /\ n * a = m + n * (a - (i - 1)) BY <1>1
    <2>2. n <= n * (a - (i - 1))
      <3>1. 1 <= a - (i - 1) /\ a - (i - 1) \in Int OBVIOUS
      <3>2. n * 1 <= n * (a - (i - 1)) BY <3>1, TimesOrdered
      <3> QED BY <3>2
    <2>3. k \in 1..a * n /\ k - 1 = n * (i - 1) + (j - 1)
      <3>1. n * a = a * n /\ n * (a - (i - 1)) \in Int OBVIOUS
      <3> QED BY <1>1, <2>1, <2>2, <3>1
    <2>4. (k - 1) \div n = i - 1 /\ (k - 1) % n = j - 1
      <3> DEFINE x == i - 1
                 y == j - 1
      <3>1. x \in Nat /\ y \in 0..(n - 1) /\ k - 1 = n * x + y BY <2>3
      <3> HIDE DEF x, y, k
      <3>2. (n * x + y) \div n = x /\ (n * x + y) % n = y BY <3>1
      <3>3. (k - 1) \div n = x /\ (k - 1) % n = y BY <3>1, <3>2
      <3> QED BY <3>3 DEF x, y
    <2> HIDE DEF m, k
    <2>5. k \in 1..a * n /\ i \in Int /\ j \in Int BY <2>3
    <2>6. (k - 1) \div n + 1 = i BY <2>4, <2>5
    <2>7. ((k - 1) % n) + 1 = j BY <2>4, <2>5
    <2> QED BY <2>5, <2>6, <2>7, Zenon
  <1> QED BY <1>1, <1>2, <1>3, Zenon DEF PlacesPairs

Growing(space, D, g) ==
  g = [s \in D |-> IF s = {} THEN <<<<>>>> ELSE Combined(g[s \ {Max(s)}], space[Max(s)])]

Grids(space) == CHOOSE g : Growing(space, SUBSET DOMAIN space, g)

Sizing(space, D, g) ==
  g = [s \in D |-> IF s = {} THEN 1 ELSE Enlarged(g[s \ {Max(s)}], space[Max(s)])]

Sizes(space) == CHOOSE g : Sizing(space, SUBSET DOMAIN space, g)

LEMMA GridIsLast == ASSUME NEW space PROVE Grid(space) = Grids(space)[DOMAIN space]
  BY Zenon DEF Grid, FoldLeft, MapThenFoldSet, Grids, Growing

LEMMA SizeIsLast == ASSUME NEW space PROVE GridSize(space) = Sizes(space)[DOMAIN space]
  BY Zenon DEF GridSize, FoldLeft, MapThenFoldSet, Sizes, Sizing

(* One more parameter, as list and as number.                              *)
LEMMA CombinedIsListed ==
  ASSUME NEW U, NEW combos \in Seq(Seq(U)), NEW p, Len(Values(p)) \in Nat \ {0},
         \A j \in 1..Len(Values(p)) : Values(p)[j] \in U
  PROVE  /\ Combined(combos, p) \in Seq(Seq(U))
         /\ Len(Combined(combos, p)) = Len(combos) * Len(Values(p))
         /\ \A i \in 1..Len(combos), j \in 1..Len(Values(p)) :
              \E k \in 1..Len(Combined(combos, p)) :
                Combined(combos, p)[k] = Append(combos[i], Values(p)[j])
  <1> DEFINE n == Len(Values(p))
             a == Len(combos)
             e(k) == Append(combos[(k - 1) \div n + 1], Values(p)[((k - 1) % n) + 1])
  <1>1. Combined(combos, p) = [k \in 1..a * n |-> e(k)] BY DEF Combined
  <1>2. a \in Nat /\ n \in Nat \ {0} OBVIOUS
  <1>3. /\ a * n \in Nat
        /\ \A k \in 1..a * n : (k - 1) \div n + 1 \in 1..a /\ ((k - 1) % n) + 1 \in 1..n
        /\ \A i \in 1..a, j \in 1..n : \E k \in 1..a * n :
             (k - 1) \div n + 1 = i /\ ((k - 1) % n) + 1 = j
    <2>1. PlacesPairs(a, n)
      <3> HIDE DEF a, n
      <3> QED BY <1>2, PlaceOfPair, Zenon
    <2> HIDE DEF a, n
    <2> QED BY <2>1, Zenon DEF PlacesPairs
  <1>4. ASSUME NEW k \in 1..a * n PROVE e(k) \in Seq(U)
    <2> DEFINE x == (k - 1) \div n + 1
               y == ((k - 1) % n) + 1
    <2>1. x \in 1..a /\ y \in 1..n BY <1>3
    <2> HIDE DEF x, y
    <2>2. combos[x] \in Seq(U) /\ Values(p)[y] \in U BY <2>1
    <2>3. Append(combos[x], Values(p)[y]) \in Seq(U) BY <2>2
    <2> QED BY <2>3 DEF x, y
  <1>5. \A i \in 1..a, j \in 1..n : \E k \in 1..a * n : e(k) = Append(combos[i], Values(p)[j])
    <2> SUFFICES ASSUME NEW i \in 1..a, NEW j \in 1..n
                 PROVE  \E k \in 1..a * n : e(k) = Append(combos[i], Values(p)[j])
      OBVIOUS
    <2>1. PICK k \in 1..a * n : (k - 1) \div n + 1 = i /\ ((k - 1) % n) + 1 = j BY <1>3
    <2>2. e(k) = Append(combos[i], Values(p)[j]) BY <2>1
    <2> QED BY <2>2
  <1> DEFINE m == a * n
             c == Combined(combos, p)
  <1>6. c = [k \in 1..m |-> e(k)] /\ m \in Nat /\ \A k \in 1..m : e(k) \in Seq(U)
    BY <1>1, <1>3, <1>4
  <1> HIDE DEF e, m, c
  <1>7. c \in Seq(Seq(U)) /\ Len(c) = m /\ \A k \in 1..m : c[k] = e(k) BY <1>6
  <1>8. \A i \in 1..a, j \in 1..n : \E k \in 1..m : c[k] = Append(combos[i], Values(p)[j])
    BY <1>5, <1>7 DEF m
  <1> QED BY <1>7, <1>8 DEF c, m

(* The folds over the first parameters, one after the other.               *)
LEMMA GridSteps ==
  ASSUME NEW space, SpaceIsTyped(space), ValidSpace(space)
  PROVE  /\ Grids(space)[{}] = <<<<>>>>
         /\ \A m \in Nat : m + 1 <= Len(space) =>
              Grids(space)[1..(m + 1)] = Combined(Grids(space)[1..m], space[m + 1])
  <1> DEFINE n == Len(space)
             U == Offered(space)
             V == Seq(Seq(U))
             base == <<<<>>>>
             F == [i \in 1..n |-> [c \in V |-> Combined(c, space[i])]]
             D == SUBSET (1..n)
  <1>1. n \in Nat /\ DOMAIN space = 1..n BY DEF SpaceIsTyped
  <1>2. \A i \in 1..n, c \in V : Combined(c, space[i]) \in V
    <2> SUFFICES ASSUME NEW i \in 1..n, NEW c \in Seq(Seq(U))
                 PROVE  Combined(c, space[i]) \in Seq(Seq(U))
      OBVIOUS
    <2>1. /\ Len(Values(space[i])) \in Nat \ {0}
          /\ \A j \in 1..Len(Values(space[i])) : Values(space[i])[j] \in U
      BY <1>1, ValuesListed
    <2> HIDE DEF U, n
    <2> QED BY <2>1, CombinedIsListed
  <1>3. base \in V OBVIOUS
  <1> HIDE DEF V, n, base
  <1>4. F \in [1..n -> [V -> V]] BY <1>2
  <1>5. \A i \in 1..n, c \in V : F[i][c] = Combined(c, space[i]) OBVIOUS
  <1> HIDE DEF F
  <1>6. PICK g \in [D -> V] : IsFold(g, n, base, F)
    <2>1. n \in Nat /\ base \in V BY <1>1, <1>3, <1>4
    <2> QED BY <1>4, <2>1, FoldExists, Zenon
  <1>7. \A s \in D : s # {} => Max(s) \in 1..n /\ s \ {Max(s)} \in D
    <2> SUFFICES ASSUME NEW s \in D, s # {} PROVE Max(s) \in 1..n /\ s \ {Max(s)} \in D
      OBVIOUS
    <2>1. Max(s) \in s /\ s \ {Max(s)} \in SUBSET (1..n) BY <1>1, SmallerSets
    <2> QED BY <2>1
  <1>8. g = [s \in D |-> IF s = {} THEN base ELSE Combined(g[s \ {Max(s)}], space[Max(s)])]
    <2>1. \A s \in D : g[s] = IF s = {} THEN base ELSE Combined(g[s \ {Max(s)}], space[Max(s)])
      <3>1. \A s \in D : g[s] = IF s = {} THEN base ELSE F[Max(s)][g[s \ {Max(s)}]]
        BY <1>6 DEF IsFold
      <3> HIDE DEF D
      <3> QED BY <1>5, <1>6, <1>7, <3>1
    <2> HIDE DEF D
    <2> QED BY <1>6, <2>1
  <1>9. \E h : Growing(space, SUBSET DOMAIN space, h)
    <2>1. SUBSET DOMAIN space = D BY <1>1
    <2> HIDE DEF D
    <2>2. Growing(space, D, g) BY <1>8, Zenon DEF Growing, base
    <2> QED BY <2>1, <2>2
  <1> DEFINE G == Grids(space)
  <1>10. G = [s \in D |-> IF s = {} THEN base ELSE Combined(G[s \ {Max(s)}], space[Max(s)])]
    <2>1. SUBSET DOMAIN space = D BY <1>1
    <2> HIDE DEF D
    <2>2. Growing(space, D, Grids(space)) BY <1>9, <2>1, Zenon DEF Grids
    <2> QED BY <2>2, Zenon DEF Growing, base
  <1> HIDE DEF G
  <1>11. {} \in D OBVIOUS
  <1>12. ASSUME NEW m \in Nat, m + 1 <= n
         PROVE  G[1..(m + 1)] = Combined(G[1..m], space[m + 1])
    <2> DEFINE s == 1..(m + 1)
    <2>1. s \in D /\ s # {} /\ Max(s) = m + 1 /\ s \ {m + 1} = 1..m
      BY <1>1, <1>12, FirstPlaces
    <2> HIDE DEF s, D
    <2>2. G[s] = IF s = {} THEN base ELSE Combined(G[s \ {Max(s)}], space[Max(s)])
      BY <1>10, <2>1, Zenon
    <2>3. G[s] = Combined(G[s \ {m + 1}], space[m + 1]) BY <2>1, <2>2, Zenon
    <2> QED BY <2>1, <2>3, Zenon DEF s
  <1>13. G[{}] = base
    <2> HIDE DEF D
    <2> QED BY <1>10, <1>11, Zenon
  <1> QED BY <1>12, <1>13 DEF G, n, base

LEMMA SizeSteps ==
  ASSUME NEW space, SpaceIsTyped(space), ValidSpace(space)
  PROVE  /\ Sizes(space)[{}] = 1
         /\ \A m \in Nat : m + 1 <= Len(space) =>
              Sizes(space)[1..(m + 1)] = Enlarged(Sizes(space)[1..m], space[m + 1])
  <1> DEFINE n == Len(space)
             F == [i \in 1..n |-> [c \in Nat |-> Enlarged(c, space[i])]]
             D == SUBSET (1..n)
  <1>1. n \in Nat /\ DOMAIN space = 1..n BY DEF SpaceIsTyped
  <1>2. \A i \in 1..n, c \in Nat : Enlarged(c, space[i]) \in Nat
    BY <1>1, ValuesListed DEF Enlarged
  <1> HIDE DEF n
  <1>4. F \in [1..n -> [Nat -> Nat]] BY <1>2
  <1>5. \A i \in 1..n, c \in Nat : F[i][c] = Enlarged(c, space[i]) OBVIOUS
  <1> HIDE DEF F
  <1>6. PICK g \in [D -> Nat] : IsFold(g, n, 1, F)
    <2>1. n \in Nat /\ 1 \in Nat BY <1>1, <1>4
    <2> QED BY <1>4, <2>1, FoldExists, Zenon
  <1>7. \A s \in D : s # {} => Max(s) \in 1..n /\ s \ {Max(s)} \in D
    <2> SUFFICES ASSUME NEW s \in D, s # {} PROVE Max(s) \in 1..n /\ s \ {Max(s)} \in D
      OBVIOUS
    <2>1. Max(s) \in s /\ s \ {Max(s)} \in SUBSET (1..n) BY <1>1, SmallerSets
    <2> QED BY <2>1
  <1>8. g = [s \in D |-> IF s = {} THEN 1 ELSE Enlarged(g[s \ {Max(s)}], space[Max(s)])]
    <2>1. \A s \in D : g[s] = IF s = {} THEN 1 ELSE Enlarged(g[s \ {Max(s)}], space[Max(s)])
      <3>1. \A s \in D : g[s] = IF s = {} THEN 1 ELSE F[Max(s)][g[s \ {Max(s)}]]
        BY <1>6 DEF IsFold
      <3> HIDE DEF D
      <3> QED BY <1>5, <1>6, <1>7, <3>1
    <2> HIDE DEF D
    <2> QED BY <1>6, <2>1
  <1>9. \E h : Sizing(space, SUBSET DOMAIN space, h)
    <2>1. SUBSET DOMAIN space = D BY <1>1
    <2> HIDE DEF D
    <2>2. Sizing(space, D, g) BY <1>8, Zenon DEF Sizing
    <2> QED BY <2>1, <2>2
  <1> DEFINE G == Sizes(space)
  <1>10. G = [s \in D |-> IF s = {} THEN 1 ELSE Enlarged(G[s \ {Max(s)}], space[Max(s)])]
    <2>1. SUBSET DOMAIN space = D BY <1>1
    <2> HIDE DEF D
    <2>2. Sizing(space, D, Sizes(space)) BY <1>9, <2>1, Zenon DEF Sizes
    <2> QED BY <2>2, Zenon DEF Sizing
  <1> HIDE DEF G
  <1>11. {} \in D OBVIOUS
  <1>12. ASSUME NEW m \in Nat, m + 1 <= n
         PROVE  G[1..(m + 1)] = Enlarged(G[1..m], space[m + 1])
    <2> DEFINE s == 1..(m + 1)
    <2>1. s \in D /\ s # {} /\ Max(s) = m + 1 /\ s \ {m + 1} = 1..m
      BY <1>1, <1>12, FirstPlaces
    <2> HIDE DEF s, D
    <2>2. G[s] = IF s = {} THEN 1 ELSE Enlarged(G[s \ {Max(s)}], space[Max(s)])
      BY <1>10, <2>1, Zenon
    <2>3. G[s] = Enlarged(G[s \ {m + 1}], space[m + 1]) BY <2>1, <2>2, Zenon
    <2> QED BY <2>1, <2>3, Zenon DEF s
  <1>13. G[{}] = 1
    <2> HIDE DEF D
    <2> QED BY <1>10, <1>11, Zenon
  <1> QED BY <1>12, <1>13 DEF G, n

(* The grid lists as many combinations as grid_size says, and every one.   *)
LEMMA GridGrows ==
  ASSUME NEW m \in Nat, NEW U, NEW f \in [1..(m + 1) -> U]
  PROVE  Append([j \in 1..m |-> f[j]], f[m + 1]) = [j \in 1..(m + 1) |-> f[j]]
  <1> DEFINE s == [j \in 1..m |-> f[j]]
             t == [j \in 1..(m + 1) |-> f[j]]
  <1>1. s \in Seq(U) /\ Len(s) = m /\ t \in Seq(U) /\ Len(t) = m + 1 /\ f[m + 1] \in U OBVIOUS
  <1>2. \A j \in 1..m : s[j] = t[j] OBVIOUS
  <1>3. t[m + 1] = f[m + 1] OBVIOUS
  <1> HIDE DEF s, t
  <1>4. Append(s, f[m + 1]) \in Seq(U) /\ Len(Append(s, f[m + 1])) = m + 1 BY <1>1
  <1>5. \A j \in 1..(m + 1) : Append(s, f[m + 1])[j] = t[j] BY <1>1, <1>2, <1>3
  <1>6. Append(s, f[m + 1]) = t BY <1>1, <1>4, <1>5, SeqEqual
  <1> QED BY <1>6 DEF s, t

IsChoice(space, choice) ==
  \A j \in DOMAIN space : choice[j] \in 1..Len(Values(space[j]))

Chosen(space, choice) == [j \in DOMAIN space |-> Values(space[j])[choice[j]]]

LEMMA GridIsWhole ==
  ASSUME NEW space, SpaceIsTyped(space), ValidSpace(space), NEW choice,
         IsChoice(space, choice)
  PROVE  /\ Grid(space) \in Seq(Seq(Offered(space)))
         /\ Len(Grid(space)) = GridSize(space)
         /\ \E k \in 1..Len(Grid(space)) : Grid(space)[k] = Chosen(space, choice)
  <1>0. \A j \in DOMAIN space : choice[j] \in 1..Len(Values(space[j])) BY DEF IsChoice
  <1> DEFINE n == Len(space)
             U == Offered(space)
             G == Grids(space)
             Z == Sizes(space)
             f == [j \in 1..n |-> Values(space[j])[choice[j]]]
             Upto(m) == [j \in 1..m |-> f[j]]
             Exhaustive(m) == /\ G[1..m] \in Seq(Seq(U))
                         /\ Len(G[1..m]) = Z[1..m]
                         /\ \E k \in 1..Len(G[1..m]) : G[1..m][k] = Upto(m)
             N == {m \in Nat : m <= n => Exhaustive(m)}
  <1>1. n \in Nat /\ DOMAIN space = 1..n BY DEF SpaceIsTyped
  <1>2. \A j \in 1..n : /\ Len(Values(space[j])) \in Nat \ {0}
                        /\ \A i \in 1..Len(Values(space[j])) : Values(space[j])[i] \in U
    BY <1>1, ValuesListed
  <1>3. f \in [1..n -> U] BY <1>0, <1>1, <1>2
  <1>4. \A j \in 1..n : f[j] = Values(space[j])[choice[j]] OBVIOUS
  <1>5. G[{}] = <<<<>>>> /\ Z[{}] = 1 BY GridSteps, SizeSteps
  <1>6. \A m \in Nat : m + 1 <= n => /\ G[1..(m + 1)] = Combined(G[1..m], space[m + 1])
                                     /\ Z[1..(m + 1)] = Enlarged(Z[1..m], space[m + 1])
    BY GridSteps, SizeSteps
  <1> HIDE DEF n, U, G, Z, f
  <1>7. 0 \in N
    <2>1. 1..0 = {} OBVIOUS
    <2>2. G[1..0] = <<<<>>>> /\ Z[1..0] = 1 BY <1>5, <2>1
    <2>3. <<<<>>>> \in Seq(Seq(U)) /\ Len(<<<<>>>>) = 1 /\ <<<<>>>>[1] = <<>> OBVIOUS
    <2>4. Upto(0) = <<>> BY <2>1
    <2> HIDE DEF Upto
    <2>5. Exhaustive(0) BY <2>2, <2>3, <2>4
    <2> QED BY <2>5
  <1>8. ASSUME NEW m \in Nat, m \in N PROVE m + 1 \in N
    <2> SUFFICES ASSUME m + 1 <= n PROVE Exhaustive(m + 1)
      OBVIOUS
    <2> DEFINE p == space[m + 1]
               c == G[1..m]
               i == choice[m + 1]
    <2>1. Exhaustive(m) BY <1>1, <1>8
    <2>2. m + 1 \in 1..n BY <1>1
    <2>3. /\ Len(Values(p)) \in Nat \ {0} /\ i \in 1..Len(Values(p))
          /\ \A j \in 1..Len(Values(p)) : Values(p)[j] \in U
      BY <1>0, <1>1, <1>2, <2>2
    <2>4. G[1..(m + 1)] = Combined(c, p) /\ Z[1..(m + 1)] = Len(c) * Len(Values(p))
      BY <1>6, <2>1 DEF Enlarged
    <2>5. f[m + 1] = Values(p)[i] BY <1>4, <2>2
    <2>6. PICK k \in 1..Len(c) : c[k] = Upto(m) BY <2>1
    <2>7. c \in Seq(Seq(U)) BY <2>1
    <2> HIDE DEF c, p, i, Upto
    <2>8. Combined(c, p) \in Seq(Seq(U)) BY <2>3, <2>7, CombinedIsListed
    <2>9. Len(Combined(c, p)) = Len(c) * Len(Values(p)) BY <2>3, <2>7, CombinedIsListed
    <2>10. \E l \in 1..Len(Combined(c, p)) : Combined(c, p)[l] = Append(c[k], Values(p)[i])
      BY <2>3, <2>7, CombinedIsListed
    <2>11. Append(Upto(m), f[m + 1]) = Upto(m + 1)
      <3> DEFINE h == [j \in 1..(m + 1) |-> f[j]]
      <3>1. 1..(m + 1) \subseteq 1..n /\ h \in [1..(m + 1) -> U] BY <1>1, <1>3, <2>2
      <3>2. \A j \in 1..(m + 1) : h[j] = f[j] OBVIOUS
      <3> HIDE DEF h
      <3>3. Append([j \in 1..m |-> h[j]], h[m + 1]) = [j \in 1..(m + 1) |-> h[j]]
        BY <3>1, GridGrows
      <3>4. [j \in 1..m |-> h[j]] = [j \in 1..m |-> f[j]] BY <3>2
      <3>5. [j \in 1..(m + 1) |-> h[j]] = [j \in 1..(m + 1) |-> f[j]] BY <3>2
      <3>6. h[m + 1] = f[m + 1] BY <3>2
      <3> QED BY <3>3, <3>4, <3>5, <3>6 DEF Upto
    <2>12. \E l \in 1..Len(Combined(c, p)) : Combined(c, p)[l] = Upto(m + 1)
      BY <2>5, <2>6, <2>10, <2>11
    <2> QED BY <2>4, <2>8, <2>9, <2>12
  <1>9. n \in N
    <2> HIDE DEF N
    <2> QED BY <1>1, <1>7, <1>8, NatSetInduction
  <1>10. Exhaustive(n) BY <1>1, <1>9
  <1>11. Grid(space) = G[1..n] /\ GridSize(space) = Z[1..n]
    BY <1>1, GridIsLast, SizeIsLast DEF G, Z
  <1>12. Upto(n) = Chosen(space, choice) BY <1>1, <1>4 DEF Chosen
  <1> HIDE DEF Upto
  <1> QED BY <1>10, <1>11, <1>12 DEF U

LEMMA GridIsList ==
  ASSUME NEW space, SpaceIsTyped(space), ValidSpace(space)
  PROVE  /\ Grid(space) \in Seq(Seq(Offered(space)))
         /\ Len(Grid(space)) = GridSize(space)
  <1> DEFINE choice == [j \in DOMAIN space |-> 1]
  <1>1. IsChoice(space, choice) BY ValuesListed DEF IsChoice
  <1> HIDE DEF choice
  <1> QED BY <1>1, GridIsWhole

(* What is evaluated and what is still to be evaluated are the grid, in    *)
(* its order.                                                              *)
SpacesArePosed == \A space \in ParamLists : SpaceIsTyped(space)

EvaluatedInOrder ==
  \A i \in 1..Len(evaluations) : evaluations[i].params = Grid(engine.space)[i]

GridInv ==
  /\ engine.space \in ParamLists /\ ValidSpace(engine.space)
  /\ \E P : evaluations \in Seq(P)
  /\ engine.optimizer = "grid" /\ step = "search" =>
       /\ \E P : pending \in Seq(P)
       /\ Len(evaluations) + Len(pending) = Len(Grid(engine.space))
       /\ EvaluatedInOrder
       /\ \A i \in 1..Len(pending) : pending[i] = Grid(engine.space)[Len(evaluations) + i]
  /\ engine.optimizer = "grid" /\ step \in {"retrain", "test"} =>
       Len(evaluations) = Len(Grid(engine.space)) /\ EvaluatedInOrder

LEMMA GridStarts == ASSUME WalkInit PROVE GridInv
  <1>1. evaluations \in Seq({}) /\ step = "idle" BY DEF WalkInit
  <1>2. engine.space \in ParamLists BY DEF WalkInit, Engines
  <1> QED BY <1>1, <1>2 DEF WalkInit, GridInv

LEMMA GridFold ==
  ASSUME SpacesArePosed, engine.space \in ParamLists, ValidSpace(engine.space),
         StartFold, step' = "search", engine' = engine
  PROVE  GridInv'
  <1> DEFINE g == Grid(engine.space)
  <1>1. evaluations' = <<>> /\ <<>> \in Seq({}) /\ Len(<<>>) = 0 BY DEF StartFold
  <1>2. ASSUME engine.optimizer = "grid"
        PROVE  /\ pending' \in Seq(Seq(Offered(engine.space)))
               /\ pending' = g
    <2>1. pending' = g BY <1>2 DEF StartFold
    <2>2. g \in Seq(Seq(Offered(engine.space))) BY GridIsList DEF SpacesArePosed
    <2> QED BY <2>1, <2>2
  <1> HIDE DEF g
  <1>3. ASSUME engine.optimizer = "grid"
        PROVE  /\ \E P : pending' \in Seq(P)
               /\ Len(evaluations') + Len(pending') = Len(g)
               /\ \A i \in 1..Len(pending') : pending'[i] = g[Len(evaluations') + i]
    <2>1. pending' \in Seq(Seq(Offered(engine.space))) /\ pending' = g BY <1>2, <1>3
    <2>2. Len(evaluations') = 0 BY <1>1
    <2>3. Len(pending') \in Nat BY <2>1
    <2>4. \A i \in 1..Len(pending') : Len(evaluations') + i = i BY <2>2, <2>3
    <2> QED BY <2>1, <2>2, <2>3, <2>4
  <1>4. EvaluatedInOrder' BY <1>1 DEF EvaluatedInOrder
  <1>5. \E P : evaluations' \in Seq(P) BY <1>1
  <1> QED BY <1>3, <1>4, <1>5 DEF GridInv, g

LEMMA GridStep ==
  ASSUME SpacesArePosed, GridInv, [WalkNext]_walkVars
  PROVE  GridInv'
  <1>a. PICK P : evaluations \in Seq(P) BY DEF GridInv
  <1>b. engine.space \in ParamLists /\ ValidSpace(engine.space) BY DEF GridInv
  <1>c. ASSUME UNCHANGED <<engine, evaluations>>, step = "retrain" \/ step' \in {"failed", "idle"},
               step' \in {"failed", "idle", "test"}
        PROVE  GridInv'
    BY <1>a, <1>b, <1>c DEF GridInv, EvaluatedInOrder
  <1>1. CASE Run
    <2>1. StartFold /\ step' = "search" /\ engine' = engine BY <1>1 DEF Run
    <2> QED BY <1>b, <2>1, GridFold
  <1>2. CASE Evaluate
    <2> DEFINE g == Grid(engine.space)
               n == Len(evaluations)
               p == Head(pending)
    <2>1. PICK value \in Metrics \cup {NoValue} :
            evaluations' = Append(evaluations, [params |-> p, raw |-> value])
      BY <1>2 DEF Evaluate
    <2>2. /\ step = "search" /\ step' = "search" /\ engine' = engine
          /\ pending # <<>> /\ pending' = Tail(pending)
      BY <1>2 DEF Evaluate
    <2> DEFINE e == [params |-> p, raw |-> value]
    <2>3. e.params = p /\ evaluations' = Append(evaluations, e) BY <2>1
    <2> HIDE DEF e
    <2>4. evaluations \in Seq(P \cup {e}) BY <1>a
    <2>5. /\ evaluations' \in Seq(P \cup {e}) /\ n \in Nat /\ Len(evaluations') = n + 1
          /\ evaluations'[n + 1] = e /\ \A i \in 1..n : evaluations'[i] = evaluations[i]
      BY <2>3, <2>4
    <2>6. ASSUME engine.optimizer = "grid"
          PROVE  /\ \E Q : pending' \in Seq(Q)
                 /\ Len(evaluations') + Len(pending') = Len(g)
                 /\ \A i \in 1..Len(evaluations') : evaluations'[i].params = g[i]
                 /\ \A i \in 1..Len(pending') : pending'[i] = g[Len(evaluations') + i]
      <3>1. PICK Q : pending \in Seq(Q) BY <2>2, <2>6 DEF GridInv
      <3>2. /\ n + Len(pending) = Len(g)
            /\ \A i \in 1..n : evaluations[i].params = g[i]
            /\ \A i \in 1..Len(pending) : pending[i] = g[n + i]
        BY <2>2, <2>6 DEF GridInv, EvaluatedInOrder
      <3> HIDE DEF g, n
      <3>3. /\ pending' \in Seq(Q) /\ Len(pending) \in Nat /\ Len(pending) >= 1
            /\ Len(pending') = Len(pending) - 1 /\ p = pending[1]
            /\ \A i \in 1..Len(pending') : pending'[i] = pending[i + 1]
        BY <2>2, <3>1
      <3> HIDE DEF p
      <3>4. Len(evaluations') + Len(pending') = Len(g)
        <4>1. Len(evaluations') = n + 1 /\ n \in Nat BY <2>5
        <4>2. Len(pending') = Len(pending) - 1 /\ Len(pending) \in Nat BY <3>3
        <4>3. n + Len(pending) = Len(g) BY <3>2
        <4> QED BY <4>1, <4>2, <4>3
      <3>5. ASSUME NEW i \in 1..Len(evaluations') PROVE evaluations'[i].params = g[i]
        <4>1. CASE i = n + 1
          <5>1. 1 \in 1..Len(pending) BY <3>3
          <5>2. pending[1] = g[n + 1] BY <3>2, <5>1
          <5> QED BY <2>3, <2>5, <3>3, <4>1, <5>2
        <4>2. CASE i # n + 1
          <5>1. i \in 1..n BY <2>5, <4>2
          <5> QED BY <2>5, <3>2, <5>1
        <4> QED BY <4>1, <4>2
      <3>6. ASSUME NEW i \in 1..Len(pending') PROVE pending'[i] = g[Len(evaluations') + i]
        <4>1. i + 1 \in 1..Len(pending) /\ pending'[i] = pending[i + 1] BY <3>3
        <4>2. pending[i + 1] = g[n + (i + 1)] BY <3>2, <4>1
        <4>3. n + (i + 1) = Len(evaluations') + i BY <2>5
        <4> QED BY <4>1, <4>2, <4>3
      <3> QED BY <3>3, <3>4, <3>5, <3>6
    <2> QED BY <1>b, <2>2, <2>5, <2>6 DEF GridInv, EvaluatedInOrder
  <1>3. CASE Choose
    <2>1. /\ step = "search" /\ step' = "retrain" /\ pending = <<>>
          /\ engine' = engine /\ evaluations' = evaluations
      BY <1>3 DEF Choose
    <2>2. ASSUME engine.optimizer = "grid"
          PROVE  Len(evaluations) = Len(Grid(engine.space)) /\ EvaluatedInOrder
      <3>1. Len(pending) = 0 /\ Len(evaluations) \in Nat BY <1>a, <2>1
      <3>2. Len(evaluations) + Len(pending) = Len(Grid(engine.space)) /\ EvaluatedInOrder
        BY <2>1, <2>2 DEF GridInv
      <3> QED BY <3>1, <3>2
    <2> QED BY <1>a, <1>b, <2>1, <2>2 DEF GridInv, EvaluatedInOrder
  <1>4. CASE Retrain BY <1>c, <1>4 DEF Retrain
  <1>5. CASE Test
    <2>1. engine' = engine BY <1>5 DEF Test
    <2>2. CASE Fits(engine, Len(folds))
      <3>1. StartFold /\ step' = "search" BY <1>5, <2>2 DEF Test
      <3> QED BY <1>b, <2>1, <3>1, GridFold
    <2>3. CASE ~Fits(engine, Len(folds))
      <3>1. step' = "idle" /\ evaluations' = <<>> BY <1>5, <2>3 DEF Test
      <3>2. evaluations' \in Seq({}) BY <3>1
      <3> QED BY <1>b, <2>1, <3>1, <3>2 DEF GridInv
    <2> QED BY <2>2, <2>3
  <1>6. CASE BacktestRaises BY <1>c, <1>6 DEF BacktestRaises
  <1>7. CASE Recover
    <2>1. step' = "idle" /\ evaluations' = <<>> /\ engine' = engine BY <1>7 DEF Recover
    <2>2. evaluations' \in Seq({}) BY <2>1
    <2> QED BY <1>b, <2>1, <2>2 DEF GridInv
  <1>8. CASE UNCHANGED walkVars
    <2>1. /\ engine' = engine /\ step' = step /\ pending' = pending
          /\ evaluations' = evaluations
      BY <1>8 DEF walkVars
    <2> QED BY <2>1 DEF GridInv, EvaluatedInOrder
  <1> QED BY <1>1, <1>2, <1>3, <1>4, <1>5, <1>6, <1>7, <1>8 DEF WalkNext

LEMMA GridSafe == ASSUME SpacesArePosed, GridInv PROVE WholeGridSearched
  <1> DEFINE space == engine.space
  <1> SUFFICES ASSUME step \in {"retrain", "test"}, engine.optimizer = "grid"
               PROVE  /\ Len(evaluations) = GridSize(space)
                      /\ \A choice \in [DOMAIN space -> 1..GridSize(space)] :
                           (\A j \in DOMAIN space : choice[j] <= Len(Values(space[j]))) =>
                             \E i \in 1..Len(evaluations) :
                               evaluations[i].params
                                 = [j \in DOMAIN space |-> Values(space[j])[choice[j]]]
    BY DEF WholeGridSearched
  <1>1. SpaceIsTyped(space) /\ ValidSpace(space) BY DEF GridInv, SpacesArePosed
  <1>2. /\ Len(evaluations) = Len(Grid(space))
        /\ \A i \in 1..Len(evaluations) : evaluations[i].params = Grid(space)[i]
    BY DEF GridInv, EvaluatedInOrder
  <1> HIDE DEF space
  <1>3. Len(Grid(space)) = GridSize(space) BY <1>1, GridIsList
  <1>4. ASSUME NEW choice \in [DOMAIN space -> 1..GridSize(space)],
               \A j \in DOMAIN space : choice[j] <= Len(Values(space[j]))
        PROVE  \E i \in 1..Len(evaluations) : evaluations[i].params = Chosen(space, choice)
    <2>1. IsChoice(space, choice)
      <3> SUFFICES ASSUME NEW j \in DOMAIN space PROVE choice[j] \in 1..Len(Values(space[j]))
        BY DEF IsChoice
      <3>1. Len(Values(space[j])) \in Nat BY <1>1, ValuesListed
      <3>2. choice[j] \in 1..GridSize(space) BY <1>4
      <3>3. choice[j] \in Nat /\ choice[j] >= 1
        <4>1. Len(Grid(space)) \in Nat BY <1>1, GridIsList
        <4> QED BY <1>3, <3>2, <4>1
      <3> QED BY <1>4, <3>1, <3>3
    <2>2. \E k \in 1..Len(Grid(space)) : Grid(space)[k] = Chosen(space, choice)
      BY <1>1, <2>1, GridIsWhole, Zenon
    <2> QED BY <1>2, <2>2
  <1> QED BY <1>2, <1>3, <1>4 DEF Chosen

(* When a grid search has chosen it has evaluated every choice of one      *)
(* value for each parameter, as many as grid_size says: for any parameter  *)
(* space.                                                                  *)
THEOREM GridCorrect ==
  ASSUME SpacesArePosed
  PROVE  WalkSpec => []WholeGridSearched
<1>1. WalkInit => GridInv
  BY GridStarts
<1>2. GridInv /\ [WalkNext]_walkVars => GridInv'
  BY GridStep
<1>3. GridInv => WholeGridSearched
  BY GridSafe
<1> QED BY <1>1, <1>2, <1>3, PTL DEF WalkSpec

(* A walk-forward study is sound: its folds are separate and complete, and *)
(* each is tested with the best of all the parameters it was to search.    *)
THEOREM StudyCorrect ==
  ASSUME StudyIsPosed, Metrics \subseteq Int, SpacesArePosed
  PROVE  WalkSpec => []StudyIsSound
<1>1. FoldsSeparate /\ NoneWasBetter /\ WholeGridSearched => StudyIsSound
  BY DEF StudyIsSound
<1>2. WalkSpec => []FoldsSeparate BY FoldsCorrect
<1>3. WalkSpec => []NoneWasBetter BY ChoiceCorrect
<1>4. WalkSpec => []WholeGridSearched BY GridCorrect
<1> QED BY <1>1, <1>2, <1>3, <1>4, PTL

----------------------------------------------------------------------------
(* The research lab, which shares nothing with a study.                    *)
Statuses == {None, "IDEA", "TESTING", "PROMISING", "FAILED", "RETIRED"}
Experiments == {"experiment", "drain experiment"}
Rests == {"idle", "draining"}

LabTypeOK ==
  /\ registry \in [Ids -> Statuses]
  /\ file \in [Ids -> Statuses] \cup {Broken}
  /\ stage \in Rests \cup Experiments \cup {"saving", "down"}
  /\ after \in Rests \cup Experiments
  /\ current \in Ids \cup {None}
  /\ queue \in Seq(Ids)

(* A hypothesis is current only from the save that makes it TESTING to the *)
(* end of its experiment.                                                  *)
IdleInv ==
  /\ stage \in Rests \cup {"down"} => current = None
  /\ stage = "saving" /\ after \in Rests => current = None

FileInv ==
  /\ stage = "saving" => file = Broken
  /\ stage \notin {"saving", "down"} =>
       file = registry \/ (file = Broken /\ (unsaved \/ registry = Empty))

(* What is TESTING, in memory or in a file that can be read, is being      *)
(* tested or was cut off.                                                  *)
Excused(h) == h = current \/ h \in cut
MemoryInv == \A h \in Ids : registry[h] = "TESTING" => Excused(h)
DiskInv == file # Broken => \A h \in Ids : file[h] = "TESTING" => Excused(h)

LabInv == LabTypeOK /\ IdleInv /\ FileInv /\ MemoryInv /\ DiskInv

----------------------------------------------------------------------------
LEMMA LabStarts == LabInit => LabInv
BY DEF LabInit, LabInv, LabTypeOK, IdleInv, FileInv, MemoryInv, DiskInv, Empty,
       Statuses, None, Rests,
       Experiments

(* A save empties the file first: what it will hold is no matter yet.      *)
LEMMA SavingKeeps ==
  ASSUME NEW next \in Rests \cup Experiments, Save(next),
         registry' \in [Ids -> Statuses], current' \in Ids \cup {None}, queue' \in Seq(Ids),
         next \in Rests => current' = None,
         MemoryInv'
  PROVE  LabInv'
BY DEF Save, LabInv, LabTypeOK, IdleInv, FileInv, DiskInv, Rests, Experiments

LEMMA LabKeeps ==
  ASSUME None \notin Ids, LabInv, [LabNext]_labVars
  PROVE  LabInv'
<1> USE DEF LabInv
<1>1. ASSUME NEW h \in Ids, Register(h)
      PROVE  LabInv'
  <2>1. registry' \in [Ids -> Statuses] /\ current' = None
    BY <1>1 DEF Register, SetStatus, LabTypeOK, Statuses, IdleInv, Rests
  <2>2. MemoryInv'
    BY <1>1 DEF Register, SetStatus, MemoryInv, Excused, LabTypeOK
  <2> QED BY <1>1, <2>1, <2>2, SavingKeeps DEF Register, LabTypeOK, Rests
<1>2. ASSUME NEW h \in Ids, Enqueue(h)
      PROVE  LabInv'
  BY <1>2 DEF Enqueue, LabTypeOK, IdleInv, FileInv, MemoryInv, DiskInv, Excused
<1>3. ASSUME NEW h \in Ids, Retire(h)
      PROVE  LabInv'
  <2>1. registry' \in [Ids -> Statuses] /\ current' = None
    BY <1>3 DEF Retire, SetStatus, LabTypeOK, Statuses, IdleInv, Rests
  <2>2. MemoryInv'
    BY <1>3 DEF Retire, SetStatus, MemoryInv, Excused, LabTypeOK
  <2> QED BY <1>3, <2>1, <2>2, SavingKeeps DEF Retire, LabTypeOK, Rests
<1>4. CASE RunAll
  BY <1>4 DEF RunAll, LabTypeOK, IdleInv, FileInv, MemoryInv, DiskInv, Excused,
              Rests, Experiments
<1>5. CASE RunAllDone
  BY <1>5 DEF RunAllDone, LabTypeOK, IdleInv, FileInv, MemoryInv, DiskInv, Excused,
              Rests, Experiments
<1>6. CASE RunNext
  <2> DEFINE next == IF stage = "idle" THEN "experiment" ELSE "drain experiment"
  <2>1. Head(queue) \in Ids /\ queue' \in Seq(Ids) /\ current = None
    <3>1. queue \in Seq(Ids) /\ queue # <<>> /\ queue' = Tail(queue)
      BY <1>6 DEF RunNext, LabTypeOK
    <3>2. Head(queue) \in Ids /\ Tail(queue) \in Seq(Ids)
      BY <3>1
    <3> QED BY <1>6, <3>1, <3>2 DEF RunNext, IdleInv, Rests
  <2>2. CASE registry[Head(queue)] = None
    BY <1>6, <2>1, <2>2 DEF RunNext, LabTypeOK, IdleInv, FileInv, MemoryInv, DiskInv,
                            Excused
  <2>3. CASE registry[Head(queue)] # None
    <3>1. Save(next) /\ next \in Experiments
      BY <1>6, <2>3 DEF RunNext, Save, Experiments
    <3>2. registry' \in [Ids -> Statuses] /\ current' = Head(queue)
      BY <1>6, <2>1, <2>3 DEF RunNext, SetStatus, LabTypeOK, Statuses
    <3>3. MemoryInv'
      BY <1>6, <2>1, <2>3 DEF RunNext, SetStatus, MemoryInv, Excused, LabTypeOK
    <3> HIDE DEF next
    <3> QED BY <2>1, <3>1, <3>2, <3>3, SavingKeeps DEF Rests, Experiments
  <2> QED BY <2>2, <2>3
<1>7. CASE Experiment
  <2>1. PICK outcome \in {"PROMISING", "FAILED"} : SetStatus(current, outcome)
    BY <1>7 DEF Experiment
  <2>2. registry' \in [Ids -> Statuses] /\ current' = None /\ queue' \in Seq(Ids)
    BY <1>7, <2>1 DEF Experiment, SetStatus, LabTypeOK, Statuses
  <2>3. MemoryInv'
    BY <1>7, <2>1 DEF Experiment, SetStatus, MemoryInv, Excused, LabTypeOK
  <2> DEFINE next == IF stage = "experiment" THEN "idle" ELSE "draining"
  <2>4. Save(next) /\ next \in Rests
    BY <1>7 DEF Experiment, Rests
  <2> HIDE DEF next
  <2> QED BY <2>2, <2>3, <2>4, SavingKeeps
<1>8. CASE Saved
  BY <1>8 DEF Saved, LabTypeOK, IdleInv, FileInv, MemoryInv, DiskInv, Excused, Rests,
              Experiments
<1>12. CASE SaveRaises
  <2>1. file = Broken BY <1>12 DEF SaveRaises, FileInv
  <2> QED BY <1>12, <2>1 DEF SaveRaises, LabTypeOK, IdleInv, FileInv, MemoryInv, DiskInv,
                          Excused, Rests, Experiments
<1>9. CASE Crash
  <2>1. registry' = Empty /\ current' = None /\ stage' = "down" /\ UNCHANGED file
    BY <1>9 DEF Crash
  <2>2. \A h \in Ids : Excused(h) => Excused(h)'
    BY <1>9 DEF Crash, Excused
  <2>3. LabTypeOK'
    <3>1. Empty \in [Ids -> Statuses] /\ <<>> \in Seq(Ids)
      BY DEF Empty, Statuses
    <3> QED BY <1>9, <3>1 DEF Crash, LabTypeOK
  <2>4. IdleInv' /\ FileInv'
    BY <2>1 DEF IdleInv, FileInv
  <2>5. MemoryInv' /\ DiskInv'
    BY <2>1, <2>2 DEF MemoryInv, DiskInv, Empty, None
  <2> QED BY <2>3, <2>4, <2>5
<1>10. CASE Restart
  <2>1. registry' = IF file = Broken THEN Empty ELSE file
    BY <1>10 DEF Restart, Load
  <2>2. LabTypeOK' /\ IdleInv' /\ FileInv'
    BY <1>10, <2>1 DEF Restart, LabTypeOK, IdleInv, FileInv, Empty, Statuses,
                       Rests, Experiments
  <2>3. MemoryInv' /\ DiskInv'
    BY <1>10, <2>1 DEF Restart, MemoryInv, DiskInv, Excused, Empty, None
  <2> QED BY <2>2, <2>3
<1>11. CASE UNCHANGED labVars
  BY <1>11 DEF labVars, LabTypeOK, IdleInv, FileInv, MemoryInv, DiskInv, Excused
<1> QED BY <1>1, <1>2, <1>3, <1>4, <1>5, <1>6, <1>7, <1>8, <1>9, <1>10, <1>11, <1>12 DEF LabNext

(* Between calls of the research lab the file says what the registry does, *)
(* unless a save that raised or a crash left it broken; and whatever is in *)
(* TESTING is being tested, or a crash cut its experiment off.             *)
THEOREM LabCorrect ==
  ASSUME None \notin Ids
  PROVE  LabSpec => []TestingIsRunning
<1>1. LabInv => TestingIsRunning
  BY DEF LabInv, FileInv, MemoryInv, DiskInv, IdleInv, Excused, TestingIsRunning
<1>2. LabInv /\ [LabNext]_labVars => LabInv'
  BY LabKeeps
<1> QED BY LabStarts, <1>1, <1>2, PTL DEF LabSpec

----------------------------------------------------------------------------
(* The alphas that are deployed.                                           *)
(* What an evaluation yields is a number each, the drawdown not negative,  *)
(* and never an estimate of the capacity worth mentioning.                 *)
AlphaMetrics ==
  {m \in [sharpe : Int, ic : Int, hit : Int, pf : Int, dd : Nat, turnover : Int,
          capacity : Int, halflife : Int, signals : Int] : m.capacity < 50000}

DeploymentIsPosed ==
  IsFiniteSet(Names) /\ Evaluations \subseteq AlphaMetrics /\ MaxPct \in Nat

DeployInv ==
  /\ metrics \in [Names -> AlphaMetrics]
  /\ deployed \in Seq(Names)
  /\ GuardNeedsEvidence

----------------------------------------------------------------------------
LEMMA MaxOfTwo ==
  ASSUME NEW x \in Int, NEW y \in Int
  PROVE  Max({x, y}) = IF x >= y THEN x ELSE y
BY DEF Max

LEMMA MinOfTwo ==
  ASSUME NEW x \in Int, NEW y \in Int
  PROVE  Min({x, y}) = IF x <= y THEN x ELSE y
BY DEF Min

(* SetToSeq lists the elements of a finite set.                            *)
LEMMA ListOfSet ==
  ASSUME NEW S, IsFiniteSet(S)
  PROVE  SetToSeq(S) \in Seq(S)
<1>0. Cardinality(S) = Cardinality(S)
  BY Zenon DEF Cardinality, Cardinality
<1>1. PICK n \in Nat : ExistsBijection(1..n, S) BY FS_NatBijection
<1>2. Cardinality(S) = n BY <1>1, FS_CountingElements
<1>3. PICK f \in Bijection(1..n, S) : TRUE BY <1>1 DEF ExistsBijection
<1>4. f \in [1..Cardinality(S) -> S] /\ IsInjective(f)
  BY <1>0, <1>2, <1>3 DEF Bijection, Injection, IsInjective, IsInjective
<1>5. SetToSeq(S) \in [1..Cardinality(S) -> S]
  BY <1>4, Zenon DEF SetToSeq
<1> QED BY <1>0, <1>2, <1>5

----------------------------------------------------------------------------
LEMMA DeployStarts == ASSUME DeploymentIsPosed, DeployInit PROVE DeployInv
<1>1. metrics \in [Names -> AlphaMetrics]
  BY DEF DeployInit, NoMetrics, AlphaMetrics
<1> QED BY <1>1 DEF DeployInit, DeployInv, GuardNeedsEvidence

(* What the guard lets pass: neither a score for readiness alone, nor one  *)
(* for the drawdown alone besides, is enough.                              *)
LEMMA ScoreNeedsEvidence ==
  ASSUME NEW m \in AlphaMetrics, NEW stress \in {0, 100}, NEW robust \in {0, 100},
         InstitutionalScore(m, stress, robust) >= 6000
  PROVE  m # NoMetrics /\ (m.sharpe > 0 \/ m.ic > 0)
<1> DEFINE penalty == Penalty(m)
           ready == ReadinessScore(m, stress, robust)
           perf == PerfScore(m)
<1>0. m.sharpe \in Int /\ m.ic \in Int /\ m.dd \in Nat /\ m.signals \in Int
      /\ m.capacity \in Int /\ m.capacity < 50000
  BY DEF AlphaMetrics
<1>1. penalty \in Int /\ penalty >= 2000
  BY <1>0 DEF Penalty
<1>2. ready \in Int /\ ready <= 8000
  <2> DEFINE r == 60 * stress + 40 * robust - penalty
  <2>1. r \in Int /\ r <= 8000
    <3> HIDE DEF penalty
    <3> QED BY <1>1
  <2>2. ready = Max({0, r}) BY DEF ReadinessScore
  <2> HIDE DEF r, ready
  <2> QED BY <2>1, <2>2, MaxOfTwo
<1>3. 10 * (((perf + ready) \div 2 + 5) \div 10) >= 6000
  BY DEF InstitutionalScore
<1>4. ASSUME m = NoMetrics \/ (m.sharpe <= 0 /\ m.ic <= 0)
      PROVE  perf \in Int /\ perf <= 2000
  <2>1. CASE m = NoMetrics BY <2>1 DEF PerfScore
  <2>2. CASE m # NoMetrics /\ m.ic = NaNIc BY <2>2 DEF PerfScore
  <2>3. CASE m # NoMetrics /\ m.ic # NaNIc
    <3> DEFINE s == m.sharpe \div 2
               c == 20 * m.ic
    <3>1. s \in Int /\ s <= 0 /\ c \in Int /\ c <= 0 BY <1>0, <1>4, <2>3
    <3>2. perf = 40 * Min({100, Max({0, s})})
                 + 40 * Min({100, Max({0, c})}) + (IF m.dd = 0 THEN 2000 ELSE 0)
      BY <2>3 DEF PerfScore
    <3> HIDE DEF s, c, perf
    <3>3. ASSUME NEW x \in Int, x <= 0 PROVE Min({100, Max({0, x})}) = 0
      <4>1. Max({0, x}) = 0 BY <3>3, MaxOfTwo
      <4>2. Min({100, 0}) = 0 BY MinOfTwo
      <4> QED BY <4>1, <4>2
    <3>4. Min({100, Max({0, s})}) = 0 /\ Min({100, Max({0, c})}) = 0
      BY <3>1, <3>3
    <3> QED BY <3>2, <3>4
  <2> QED BY <2>1, <2>2, <2>3
<1> HIDE DEF perf, ready
<1>5. ~(m = NoMetrics \/ (m.sharpe <= 0 /\ m.ic <= 0))
  BY <1>2, <1>3, <1>4
<1> QED BY <1>0, <1>5

LEMMA DeployStep ==
  ASSUME DeploymentIsPosed, DeployInv, [DeployNext]_deployVars
  PROVE  DeployInv'
<1> USE DEF DeployInv
<1>1. ASSUME NEW a \in Names, EvaluateSingle(a) PROVE DeployInv'
  <2>1. PICK m \in Evaluations : metrics' = [metrics EXCEPT ![a] = m]
    BY <1>1 DEF EvaluateSingle
  <2>2. m \in AlphaMetrics BY DEF DeploymentIsPosed
  <2>3. metrics' \in [Names -> AlphaMetrics] BY <2>1, <2>2
  <2> QED BY <1>1, <2>3 DEF EvaluateSingle, GuardNeedsEvidence
<1>2. ASSUME NEW alphas \in SUBSET Names, Deploy(alphas) PROVE DeployInv'
  <2> DEFINE S == alphas \cap Candidates
  <2>1. S \subseteq Names /\ IsFiniteSet(S)
    <3>1. S \in SUBSET Names OBVIOUS
    <3> HIDE DEF S
    <3>2. IsFiniteSet(S) BY <3>1, FS_Subset DEF DeploymentIsPosed
    <3> QED BY <3>1, <3>2
  <2>2. deployed' = deployed \o SetToSeq(S) BY <1>2 DEF Deploy
  <2> HIDE DEF S
  <2>3. SetToSeq(S) \in Seq(S) BY <2>1, ListOfSet
  <2>4. SetToSeq(S) \in Seq(Names) BY <2>1, <2>3
  <2>5. deployed' \in Seq(Names) BY <2>2, <2>4
  <2> QED BY <1>2, <2>5 DEF Deploy, GuardNeedsEvidence
<1>3. ASSUME NEW a \in Names, Route(a) PROVE DeployInv'
  BY <1>3 DEF Route, GuardNeedsEvidence
<1>4. ASSUME NEW a \in Names, NEW stress \in {0, 100}, NEW robust \in {0, 100},
             Check(a, stress, robust)
      PROVE  DeployInv'
  <2> DEFINE m == metrics[a]
  <2>0. UNCHANGED <<metrics, deployed>> BY <1>4 DEF Check
  <2>1. m \in AlphaMetrics OBVIOUS
  <2>2. approved' = IF InstitutionalScore(m, stress, robust) >= 6000
                    THEN {m} ELSE approved
    BY <1>4 DEF Check
  <2> HIDE DEF m
  <2>3. GuardNeedsEvidence'
    BY <2>1, <2>2, ScoreNeedsEvidence DEF GuardNeedsEvidence
  <2> QED BY <2>0, <2>3
<1>5. ASSUME NEW a \in Names, NEW t \in DOMAIN Tiers, NEW drawdown \in Drawdowns,
             ProcessTick(a, t, drawdown)
      PROVE  DeployInv'
  BY <1>5 DEF ProcessTick, GuardNeedsEvidence
<1>6. CASE UNCHANGED deployVars
  BY <1>6 DEF deployVars, GuardNeedsEvidence
<1> QED BY <1>1, <1>2, <1>3, <1>4, <1>5, <1>6 DEF DeployNext

UpTo(x, y) == x \in Int /\ y \in Int /\ x <= y

LEMMA ClipMonotone ==
  ASSUME NEW x \in Int, NEW y \in Int, NEW lo \in Int, NEW hi \in Int, x <= y
  PROVE  UpTo(Clip(x, lo, hi), Clip(y, lo, hi))
<1> DEFINE p == Min({hi, x})
           q == Min({hi, y})
<1>1. p \in Int /\ q \in Int /\ p <= q
  <2>1. p = (IF hi <= x THEN hi ELSE x) /\ q = (IF hi <= y THEN hi ELSE y)
    BY MinOfTwo
  <2> HIDE DEF p, q
  <2> QED BY <2>1
<1>2. Clip(x, lo, hi) = Max({lo, p}) - lo
      /\ Clip(y, lo, hi) = Max({lo, q}) - lo
  BY DEF Clip
<1> HIDE DEF p, q
<1>3. Max({lo, p}) = (IF lo >= p THEN lo ELSE p)
      /\ Max({lo, q}) = (IF lo >= q THEN lo ELSE q)
  BY <1>1, MaxOfTwo
<1> QED BY <1>1, <1>2, <1>3 DEF UpTo

(* The score rises with every metric that is better.                       *)
LEMMA ScoreMonotone ==
  ASSUME NEW m \in AlphaMetrics, NEW n \in AlphaMetrics, NoWorse(m, n)
  PROVE  ~(CompositeScore(n) > CompositeScore(m))
<1> DEFINE sharpe(k) == Clip(k.sharpe, -300, 500)
           coeff(k) == Clip(k.ic, -100, 100)
           hit(k) == Clip(k.hit, 0, 100)
           pf(k) == Clip(k.pf, 0, 100)
           dd(k) == Clip(k.dd, 0, 100)
           turnover(k) == Clip(k.turnover, 0, 100)
           capacity(k) == Min({k.capacity \div 10, 100000})
           decay(k) == IF k.halflife < 1000 THEN 500 * (100 - Min({k.halflife, 100})) ELSE 0
<1>1. /\ m.sharpe \in Int /\ m.ic \in Int /\ m.hit \in Int /\ m.pf \in Int /\ m.dd \in Int
      /\ m.turnover \in Int /\ m.capacity \in Int /\ m.halflife \in Int
      /\ n.sharpe \in Int /\ n.ic \in Int /\ n.hit \in Int /\ n.pf \in Int /\ n.dd \in Int
      /\ n.turnover \in Int /\ n.capacity \in Int /\ n.halflife \in Int
  BY DEF AlphaMetrics
<1>2. /\ n.sharpe <= m.sharpe /\ n.ic <= m.ic /\ n.hit <= m.hit /\ n.pf <= m.pf
      /\ n.capacity <= m.capacity /\ m.dd <= n.dd /\ m.turnover <= n.turnover
      /\ n.halflife <= m.halflife
  BY <1>1 DEF NoWorse
<1>3. UpTo(sharpe(n), sharpe(m)) BY <1>1, <1>2, ClipMonotone
<1>4. UpTo(coeff(n), coeff(m)) BY <1>1, <1>2, ClipMonotone
<1>5. UpTo(hit(n), hit(m)) BY <1>1, <1>2, ClipMonotone
<1>6. UpTo(pf(n), pf(m)) BY <1>1, <1>2, ClipMonotone
<1>7. UpTo(dd(m), dd(n)) BY <1>1, <1>2, ClipMonotone
<1>8. UpTo(turnover(m), turnover(n))
  BY <1>1, <1>2, ClipMonotone
<1>9. UpTo(capacity(n), capacity(m))
  <2> DEFINE p == m.capacity \div 10
             q == n.capacity \div 10
  <2>1. p \in Int /\ q \in Int /\ q <= p BY <1>1, <1>2
  <2> HIDE DEF p, q
  <2>2. Min({p, 100000}) = (IF p <= 100000 THEN p ELSE 100000) BY <2>1, MinOfTwo
  <2>3. Min({q, 100000}) = (IF q <= 100000 THEN q ELSE 100000) BY <2>1, MinOfTwo
  <2>4. Min({q, 100000}) <= Min({p, 100000}) BY <2>1, <2>2, <2>3
  <2> QED BY <2>1, <2>2, <2>3, <2>4 DEF p, q, UpTo
<1>10. UpTo(decay(m), decay(n))
  <2>1. Min({m.halflife, 100}) = (IF m.halflife <= 100 THEN m.halflife ELSE 100)
    BY <1>1, MinOfTwo
  <2>2. Min({n.halflife, 100}) = (IF n.halflife <= 100 THEN n.halflife ELSE 100)
    BY <1>1, MinOfTwo
  <2> QED BY <1>1, <1>2, <2>1, <2>2 DEF UpTo
<1>11. ASSUME NEW k
       PROVE  CompositeScore(k)
                = 375 * sharpe(k) + 1000 * coeff(k) + 1000 * hit(k) + 100 * pf(k) + capacity(k)
                  - 1000 * dd(k) - 500 * turnover(k) - decay(k)
  BY DEF CompositeScore, Infinite
<1> HIDE DEF sharpe, coeff, hit, pf, dd, turnover, capacity, decay
<1> QED BY <1>3, <1>4, <1>5, <1>6, <1>7, <1>8, <1>9, <1>10, <1>11 DEF UpTo

(* What the alphas of a list are given is not more than the whole list     *)
(* adds up to, however often it names one of them.                         *)
LEMMA ListAffordable ==
  ASSUME NEW list \in Seq(Names), NEW risk \in Amounts(Names), \A a \in Names : risk[a] >= 0,
         NEW w \in Amounts(ToSet(list)),
         \A a \in ToSet(list) : w[a] <= 100 * risk[a],
         NEW each \in Amounts(1..Len(list)), \A i \in 1..Len(list) : each[i] = risk[list[i]]
  PROVE  SumFunction(w) <= 100 * SumFunction(each)
<1> DEFINE D == 1..Len(list)
           S == ToSet(list)
           f == [a \in S |-> 100 * risk[a]]
           g == [i \in D |-> 100 * each[i]]
<1>1. \A a \in Names : risk[a] \in Int BY DEF Amounts
<1>2. S \subseteq Names /\ S = {list[i] : i \in D} /\ \A i \in D : list[i] \in Names
  BY DEF ToSet
<1>3. IsFiniteSet(D) BY FS_Interval
<1>4. f \in Amounts(S) /\ (\A a \in S : f[a] >= 0) /\ \A a \in S : w[a] <= f[a]
  BY <1>1, <1>2 DEF Amounts
<1>5. g \in Amounts(D) /\ (\A i \in D : g[i] = f[list[i]]) /\ \A i \in D : g[i] = 100 * each[i]
  BY <1>1, <1>2 DEF Amounts
<1>6. list \in Surjection(D, S)
  BY <1>2 DEF Surjection
<1>7. w \in Amounts(S) /\ each \in Amounts(D) OBVIOUS
<1> HIDE DEF S, D, f, g
<1>8. IsFiniteSet(S) /\ SumFunction(f) <= SumFunction(g)
  BY <1>3, <1>4, <1>5, <1>6, SumDistinct
<1>9. SumFunction(w) <= SumFunction(f) BY <1>4, <1>7, <1>8, SumMonotone
<1>10. SumFunction(g) = 100 * SumFunction(each) BY <1>3, <1>5, <1>7, SumScaled
<1>11. SumFunction(w) \in Int /\ SumFunction(f) \in Int BY <1>4, <1>7, <1>8, SumType
<1>12. SumFunction(g) \in Int BY <1>3, <1>5, SumType
<1> QED BY <1>8, <1>9, <1>10, <1>11, <1>12

LEMMA EqualAffordable ==
  ASSUME MaxPct \in Nat, NEW list \in Seq(Names)
  PROVE  Affordable(EqualWeights(list))
<1> DEFINE n == Len(list)
           S == ToSet(list)
           part == Min({100, MaxPct * n})
           w == [a \in S |-> part]
           one == [a \in Names |-> 1]
           each == [i \in 1..n |-> 1]
<1>1. EqualWeights(list) = [whole |-> n, weight |-> w]
  BY DEF EqualWeights
<1>2. part \in Int /\ part <= 100 /\ part <= MaxPct * n
  <2> DEFINE k == MaxPct * n
  <2>1. k \in Int OBVIOUS
  <2> HIDE DEF k
  <2>2. Min({100, k}) = IF 100 <= k THEN 100 ELSE k BY <2>1, MinOfTwo
  <2> QED BY <2>1, <2>2 DEF k
<1>3. S \subseteq Names BY DEF ToSet
<1>4. \A i \in 1..n : list[i] \in Names OBVIOUS
<1> HIDE DEF part
<1>5. w \in Amounts(S) /\ one \in Amounts(Names) /\ each \in Amounts(1..n)
  BY <1>2 DEF Amounts
<1>6. \A a \in S : w[a] <= 100 * one[a] BY <1>2, <1>3
<1>7. /\ (\A a \in Names : one[a] >= 0) /\ (\A i \in 1..n : each[i] = one[list[i]])
      /\ \A i \in 1..n : each[i] = 1
  BY <1>4
<1>8. \A a \in DOMAIN w : w[a] <= MaxPct * n BY <1>2
<1>9. n \in Nat OBVIOUS
<1> HIDE DEF w, one, each, S
<1>10. SumFunction(w) <= 100 * SumFunction(each)
  BY <1>5, <1>6, <1>7, ListAffordable DEF S
<1> HIDE DEF n
<1>11. SumFunction(each) = n * 1 BY <1>5, <1>7, <1>9, SumConstant
<1>12. SumFunction(w) <= 100 * n BY <1>9, <1>10, <1>11
<1> QED BY <1>1, <1>8, <1>12 DEF Affordable

LEMMA RiskParityAffordable ==
  ASSUME MaxPct \in Nat, metrics \in [Names -> AlphaMetrics], NEW list \in Seq(Names)
  PROVE  Affordable(RiskParityWeights(list))
<1> DEFINE S == ToSet(list)
           D == 1..Len(list)
           total == TotalInverseRisk(list)
           part(a) == Min({100 * InverseRisk(a), MaxPct * total})
           w == [a \in S |-> part(a)]
           risk == [a \in Names |-> InverseRisk(a)]
           each == [i \in D |-> InverseRisk(list[i])]
<1>1. RiskParityWeights(list) = [whole |-> total, weight |-> w]
  BY DEF RiskParityWeights
<1>2. ASSUME NEW a \in Names PROVE InverseRisk(a) \in Nat
  <2>1. metrics[a].dd \in Nat BY DEF AlphaMetrics
  <2> QED BY <2>1 DEF InverseRisk
<1>3. total = SumFunction(each)
  <2>1. DOMAIN list = D OBVIOUS
  <2> QED BY <2>1 DEF TotalInverseRisk
<1>4. S \subseteq Names BY DEF ToSet
<1>5. \A i \in D : list[i] \in Names OBVIOUS
<1>6. risk \in Amounts(Names) /\ (\A a \in Names : risk[a] >= 0) /\ each \in Amounts(D)
      /\ \A i \in D : each[i] = risk[list[i]]
  BY <1>2, <1>5 DEF Amounts
<1>7. IsFiniteSet(D) BY FS_Interval
<1>8. total \in Int
  <2> HIDE DEF each, D, total
  <2> QED BY <1>3, <1>6, <1>7, SumType
<1> HIDE DEF total
<1>9. ASSUME NEW a \in S
      PROVE  part(a) \in Int /\ part(a) <= 100 * risk[a] /\ part(a) <= MaxPct * total
  <2> DEFINE k == MaxPct * total
             r == 100 * InverseRisk(a)
  <2>1. k \in Int /\ r \in Int BY <1>2, <1>4, <1>8
  <2>2. r = 100 * risk[a] BY <1>4
  <2> HIDE DEF k, r
  <2>3. Min({r, k}) = IF r <= k THEN r ELSE k BY <2>1, MinOfTwo
  <2>4. Min({r, k}) \in Int /\ Min({r, k}) <= r /\ Min({r, k}) <= k
    BY <2>1, <2>3
  <2> QED BY <2>2, <2>4 DEF k, r
<1>10. w \in Amounts(S) /\ (\A a \in S : w[a] <= 100 * risk[a])
       /\ \A a \in DOMAIN w : w[a] <= MaxPct * total
  <2> HIDE DEF part, S, risk
  <2> QED BY <1>9 DEF Amounts
<1> HIDE DEF w, risk, each, S
<1>11. SumFunction(w) <= 100 * total
  BY <1>3, <1>6, <1>10, ListAffordable DEF S
<1> QED BY <1>1, <1>10, <1>11 DEF Affordable

(* For any evaluations of any alphas, and any calls: the capital given out *)
(* is never more than there is, nor any alpha's more than it may have,     *)
(* however often it is on the list; an alpha that is no worse than another *)
(* in every metric is never ranked below it; and the guard lets nothing    *)
(* pass that was never evaluated, or shows neither a positive Sharpe ratio *)
(* nor a positive coefficient.                                             *)
THEOREM DeploymentCorrect ==
  ASSUME DeploymentIsPosed
  PROVE  DeploySpec => []DeploymentSound
<1>1. ASSUME DeployInv PROVE NeverOverAllocated
  BY <1>1, EqualAffordable, RiskParityAffordable
  DEF DeployInv, DeploymentIsPosed, NeverOverAllocated
<1>2. ASSUME DeployInv PROVE DominatorRanksFirst
  <2> SUFFICES ASSUME NEW a \in Measured, NEW b \in Measured,
                      NoWorse(metrics[a], metrics[b])
               PROVE  ~Above(b, a)
    BY DEF DominatorRanksFirst
  <2>1. metrics[a] \in AlphaMetrics /\ metrics[b] \in AlphaMetrics
    BY <1>2 DEF DeployInv, Measured
  <2> QED BY <2>1, ScoreMonotone DEF Above
<1>3. DeployInv => DeploymentSound
  BY <1>1, <1>2 DEF DeployInv, DeploymentSound
<1>4. DeployInit => DeployInv BY DeployStarts
<1>5. DeployInv /\ [DeployNext]_deployVars => DeployInv' BY DeployStep
<1> QED BY <1>3, <1>4, <1>5, PTL DEF DeploySpec

----------------------------------------------------------------------------
(* The weights and sizes of a portfolio.                                   *)
(* Finitely many symbols, limits that are not negative, and volatilities   *)
(* of no more than the whole price a day.                                  *)
AllocationIsPosed ==
  /\ IsFiniteSet(Symbols) /\ NoGroup \notin Groups
  /\ Signals \subseteq Int /\ Vols \subseteq 0..1000
  /\ Limits \in [max_position_weight : Nat, min_position_weight : Nat, max_sector_exposure : Nat,
                 max_strategy_exposure : Nat, max_gross_exposure : Nat, max_net_exposure : Nat,
                 max_leverage : Nat]
  /\ MaxPositionPct \in Nat /\ TargetVol \in Nat /\ RiskFraction \in Nat /\ DefaultQuantity \in Nat
  /\ Quotes \subseteq Nat \ {0} /\ Equities \subseteq Nat

Vectors == [Symbols -> Int]

----------------------------------------------------------------------------
LEMMA AbsIs ==
  ASSUME NEW x \in Int PROVE Absolute(x) = IF x >= 0 THEN x ELSE -x
<1>1. ASSUME NEW y \in Int, NEW z \in Int PROVE Max({y, z}) = IF y >= z THEN y ELSE z
  BY DEF Max
<1>2. Max({x, -x}) = IF x >= -x THEN x ELSE -x BY <1>1
<1> QED BY <1>2 DEF Absolute

LEMMA ClampIs ==
  ASSUME NEW x \in Int, NEW limit \in Nat
  PROVE  Max({-limit, Min({limit, x})})
           = IF x > limit THEN limit ELSE IF x < -limit THEN -limit ELSE x
<1>1. ASSUME NEW y \in Int, NEW z \in Int
      PROVE  Max({y, z}) = IF y >= z THEN y ELSE z
  BY DEF Max
<1>2. Min({limit, x}) = IF limit <= x THEN limit ELSE x BY DEF Min
<1> DEFINE m == IF limit <= x THEN limit ELSE x
<1>3. m \in Int OBVIOUS
<1>4. Max({-limit, m}) = IF -limit >= m THEN -limit ELSE m
  <2> HIDE DEF m
  <2> QED BY <1>1, <1>3
<1> QED BY <1>2, <1>4

(* A weight that is moved towards zero.                                    *)
Shrunk(v, w) ==
  /\ v \in Int /\ w \in Int
  /\ w >= 0 => 0 <= v /\ v <= w
  /\ w <= 0 => w <= v /\ v <= 0

(* A weight that is scaled down is moved towards zero, and is what the     *)
(* division gives, but for less than one.                                  *)
Within(v, w, limit, total) ==
  /\ total * Absolute(v) <= limit * Absolute(w)
  /\ total * v <= limit * w + total
  /\ limit * w <= total * v + total

LEMMA NaturalQuotient ==
  ASSUME NEW x \in Nat, NEW limit \in Nat, NEW total \in Nat \ {0}, limit <= total
  PROVE  LET q == (x * limit) \div total
         IN  /\ q \in Int /\ 0 <= q /\ q <= x
             /\ total * q <= limit * x /\ limit * x < total * q + total
<1> DEFINE k == limit * x
           q == (x * limit) \div total
<1>0. k \in Nat /\ x * limit = k OBVIOUS
<1> HIDE DEF k
<1>1. q \in Int /\ total * q <= k /\ k < total * q + total BY <1>0, DivFloor
<1>2. k <= total * x
  <2>1. x * limit <= x * total BY TimesOrdered
  <2> QED BY <1>0, <2>1
<1> HIDE DEF q
<1>3. q <= x
  <2>1. total * q <= total * x BY <1>0, <1>1, <1>2
  <2> QED BY <1>1, <2>1, FactorCancels
<1>4. 0 <= q
  <2>1. total * (q + 1) = total * q + total BY <1>1
  <2>2. total * 0 <= total * (q + 1) BY <1>0, <1>1, <2>1
  <2>3. ASSUME q <= -1 PROVE FALSE
    <3>1. total * (q + 1) <= total * 0 BY <1>1, <2>3, TimesOrdered
    <3> QED BY <1>0, <1>1, <2>1, <3>1
  <2> QED BY <1>1, <2>3
<1> QED BY <1>1, <1>3, <1>4 DEF k, q

LEMMA QuotientFacts ==
  ASSUME NEW x \in Int, NEW limit \in Nat, NEW total \in Nat \ {0}, limit <= total
  PROVE  LET q == Quotient(x * limit, total)
         IN  Shrunk(q, x) /\ Within(q, x, limit, total)
<1> DEFINE q == Quotient(x * limit, total)
<1>1. CASE x >= 0
  <2> DEFINE p == (x * limit) \div total
  <2>1. x * limit >= 0 BY <1>1
  <2>2. q = p BY <2>1 DEF Quotient
  <2>3. p \in Int /\ 0 <= p /\ p <= x
        /\ total * p <= limit * x /\ limit * x < total * p + total
    BY <1>1, NaturalQuotient
  <2> HIDE DEF p, q
  <2>4. Absolute(x) = x /\ Absolute(p) = p BY <1>1, <2>3, AbsIs
  <2>5. limit * x \in Int /\ total * p \in Int BY <2>3
  <2>6. Shrunk(p, x) BY <1>1, <2>3 DEF Shrunk
  <2>7. Within(p, x, limit, total) BY <2>3, <2>4, <2>5 DEF Within
  <2> QED BY <2>2, <2>6, <2>7 DEF q
<1>2. CASE x < 0
  <2> DEFINE y == -x
             p == (y * limit) \div total
  <2>1. p \in Int /\ 0 <= p /\ p <= y
        /\ total * p <= limit * y /\ limit * y < total * p + total
    <3>1. y \in Nat BY <1>2
    <3> HIDE DEF y
    <3> QED BY <3>1, NaturalQuotient
  <2>2. q = -p
    <3>1. CASE limit = 0
      <4>1. x * limit = 0 /\ y * limit = 0 BY <3>1
      <4>2. q = 0 \div total BY <4>1 DEF Quotient
      <4>3. p = 0 \div total BY <4>1
      <4>4. limit * y = 0 BY <3>1
      <4> HIDE DEF p, q
      <4>5. p = 0
        <5>1. ASSUME p >= 1 PROVE FALSE
          <6>1. total * 1 <= total * p BY <2>1, <5>1, TimesOrdered
          <6> QED BY <2>1, <4>4, <6>1
        <5> QED BY <2>1, <5>1
      <4> QED BY <4>2, <4>3, <4>5
    <3>2. CASE limit > 0
      <4>1. x * limit < 0
        <5>1. x * limit = limit * x OBVIOUS
        <5>2. limit * x <= limit * (-1) BY <1>2, TimesOrdered
        <5> QED BY <3>2, <5>1, <5>2
      <4>2. -(x * limit) = y * limit OBVIOUS
      <4> QED BY <4>1, <4>2 DEF Quotient
    <3> QED BY <3>1, <3>2
  <2>3. limit * x = -(limit * y) OBVIOUS
  <2>4. total * (-p) = -(total * p) BY <2>1
  <2>5. y \in Nat /\ y > 0 /\ x = -y /\ limit * y \in Int /\ total * p \in Int BY <1>2, <2>1
  <2> HIDE DEF p, q, y
  <2>6. Absolute(x) = y /\ Absolute(-p) = p BY <1>2, <2>1, <2>5, AbsIs
  <2>7. Shrunk(-p, x) BY <2>1, <2>5 DEF Shrunk
  <2>8. Within(-p, x, limit, total) BY <2>1, <2>3, <2>4, <2>5, <2>6 DEF Within
  <2> QED BY <2>2, <2>7, <2>8 DEF q
<1> QED BY <1>1, <1>2

----------------------------------------------------------------------------
(* What exposures become when weights shrink, or are scaled to a limit.    *)
Shrinks(v, w) == v \in Vectors /\ w \in Vectors /\ \A s \in Symbols : Shrunk(v[s], w[s])

LEMMA ShrinksTransitive ==
  ASSUME NEW u, NEW v, NEW w, Shrinks(u, v), Shrinks(v, w)
  PROVE  Shrinks(u, w)
BY DEF Shrinks, Shrunk

LEMMA GrossIs ==
  ASSUME NEW w \in Vectors, NEW T \in SUBSET Symbols
  PROVE  LET f == [s \in T |-> Absolute(w[s])]
         IN  /\ f \in Amounts(T) /\ (\A s \in T : f[s] >= 0)
             /\ GrossOf(w, T) = SumFunction(f)
<1> DEFINE f == [s \in T |-> Absolute(w[s])]
<1>1. \A s \in T : w[s] \in Int BY DEF Vectors
<1>2. ASSUME NEW s \in T PROVE Absolute(w[s]) \in Int /\ Absolute(w[s]) >= 0
  <2> DEFINE x == w[s]
  <2>1. x \in Int BY <1>1
  <2> HIDE DEF x
  <2>2. Absolute(x) = IF x >= 0 THEN x ELSE -x BY <2>1, AbsIs
  <2>3. Absolute(x) \in Int /\ Absolute(x) >= 0 BY <2>1, <2>2
  <2> QED BY <2>3 DEF x
<1>3. f \in Amounts(T) /\ \A s \in T : f[s] >= 0 BY <1>2 DEF Amounts
<1>4. GrossOf(w, T) = SumFunction(f) BY DEF GrossOf
<1> QED BY <1>3, <1>4

LEMMA GrossType ==
  ASSUME NEW w \in Vectors, NEW T \in SUBSET Symbols, IsFiniteSet(Symbols)
  PROVE  GrossOf(w, T) \in Nat
<1> DEFINE f == [s \in T |-> Absolute(w[s])]
<1>1. f \in Amounts(T) /\ (\A s \in T : f[s] >= 0) /\ GrossOf(w, T) = SumFunction(f)
  BY GrossIs
<1>2. IsFiniteSet(T) BY FS_Subset
<1> HIDE DEF f
<1>3. SumFunction(f) \in Int BY <1>1, <1>2, SumType
<1>4. SumFunction(f) >= 0 BY <1>1, <1>2, SumOfNaturals
<1> QED BY <1>1, <1>3, <1>4

LEMMA GrossShrinks ==
  ASSUME NEW v, NEW w, Shrinks(v, w), NEW T \in SUBSET Symbols, IsFiniteSet(Symbols)
  PROVE  GrossOf(v, T) <= GrossOf(w, T)
<1> DEFINE f == [s \in T |-> Absolute(v[s])]
           g == [s \in T |-> Absolute(w[s])]
<1>1. v \in Vectors /\ w \in Vectors BY DEF Shrinks
<1>2. f \in Amounts(T) /\ GrossOf(v, T) = SumFunction(f) BY <1>1, GrossIs
<1>3. g \in Amounts(T) /\ GrossOf(w, T) = SumFunction(g) BY <1>1, GrossIs
<1>4. IsFiniteSet(T) BY FS_Subset
<1>5. ASSUME NEW s \in T PROVE f[s] <= g[s]
  <2> DEFINE x == v[s]
             y == w[s]
  <2>1. Shrunk(x, y) BY DEF Shrinks
  <2> HIDE DEF x, y
  <2>2. x \in Int /\ y \in Int BY <2>1 DEF Shrunk
  <2>3. Absolute(x) = (IF x >= 0 THEN x ELSE -x) /\ Absolute(y) = (IF y >= 0 THEN y ELSE -y)
    BY <2>2, AbsIs
  <2>4. Absolute(x) <= Absolute(y) BY <2>1, <2>2, <2>3 DEF Shrunk
  <2> QED BY <2>4 DEF x, y
<1> HIDE DEF f, g
<1> QED BY <1>2, <1>3, <1>4, <1>5, SumMonotone

(* Some of the symbols are scaled by what is at least their exposure: that *)
(* is not more than the limit then.                                        *)
LEMMA ScaledExposure ==
  ASSUME IsFiniteSet(Symbols), NEW v \in Vectors, NEW w \in Vectors, NEW T \in SUBSET Symbols,
         NEW limit \in Nat, NEW total \in Nat \ {0}, GrossOf(w, T) <= total,
         \A s \in T : Within(v[s], w[s], limit, total)
  PROVE  GrossOf(v, T) <= limit
<1> DEFINE f == [s \in T |-> Absolute(v[s])]
           g == [s \in T |-> Absolute(w[s])]
           tf == [s \in T |-> total * f[s]]
           lg == [s \in T |-> limit * g[s]]
<1>1. f \in Amounts(T) /\ GrossOf(v, T) = SumFunction(f) BY GrossIs
<1>2. g \in Amounts(T) /\ GrossOf(w, T) = SumFunction(g) BY GrossIs
<1>3. IsFiniteSet(T) BY FS_Subset
<1>4. \A s \in T : total * f[s] <= limit * g[s] BY DEF Within
<1> HIDE DEF f, g
<1>5. \A s \in T : f[s] \in Int /\ g[s] \in Int BY <1>1, <1>2 DEF Amounts
<1>6. tf \in Amounts(T) /\ (\A s \in T : tf[s] = total * f[s]) BY <1>5 DEF Amounts
<1>7. lg \in Amounts(T) /\ (\A s \in T : lg[s] = limit * g[s]) BY <1>5 DEF Amounts
<1>8. \A s \in T : tf[s] <= lg[s] BY <1>4
<1> HIDE DEF tf, lg
<1>9. SumFunction(tf) <= SumFunction(lg) BY <1>3, <1>6, <1>7, <1>8, SumMonotone
<1>10. SumFunction(tf) = total * SumFunction(f) BY <1>1, <1>3, <1>6, SumScaled
<1>11. SumFunction(lg) = limit * SumFunction(g) BY <1>2, <1>3, <1>7, SumScaled
<1>12. SumFunction(f) \in Int /\ SumFunction(g) \in Int BY <1>1, <1>2, <1>3, SumType
<1> DEFINE F == SumFunction(f)
           G == SumFunction(g)
<1>13. F \in Int /\ G \in Int /\ G <= total /\ total * F <= limit * G
  BY <1>2, <1>9, <1>10, <1>11, <1>12
<1> HIDE DEF F, G
<1>14. limit * G <= limit * total BY <1>13, TimesOrdered
<1>15. total * F <= total * limit
  <2>1. limit * total = total * limit /\ total * F \in Int /\ limit * G \in Int
        /\ limit * total \in Int
    BY <1>13
  <2> QED BY <1>13, <1>14, <2>1
<1>16. F <= limit BY <1>13, <1>15, FactorCancels
<1> QED BY <1>1, <1>16 DEF F

(* All of them are scaled: the net exposure is scaled with them, to within *)
(* one for each symbol.                                                    *)
LEMMA ScaledNet ==
  ASSUME IsFiniteSet(Symbols), NEW v \in Vectors, NEW w \in Vectors,
         NEW limit \in Nat, NEW total \in Nat \ {0}, NEW c \in Nat,
         \A s \in Symbols : Within(v[s], w[s], limit, total),
         limit * SumFunction(w) <= total * c, -(total * c) <= limit * SumFunction(w)
  PROVE  /\ SumFunction(v) <= c + Cardinality(Symbols)
         /\ -(c + Cardinality(Symbols)) <= SumFunction(v)
<1> DEFINE n == Cardinality(Symbols)
           tv == [s \in Symbols |-> total * v[s]]
           lw == [s \in Symbols |-> limit * w[s]]
           all == [s \in Symbols |-> total]
           up == [s \in Symbols |-> lw[s] + total]
           down == [s \in Symbols |-> tv[s] + total]
           V == SumFunction(v)
           W == SumFunction(w)
<1>1. \A s \in Symbols : v[s] \in Int /\ w[s] \in Int BY DEF Vectors
<1>2. /\ v \in Amounts(Symbols) /\ w \in Amounts(Symbols)
      /\ tv \in Amounts(Symbols) /\ lw \in Amounts(Symbols) /\ all \in Amounts(Symbols)
      /\ up \in Amounts(Symbols) /\ down \in Amounts(Symbols)
  BY <1>1 DEF Amounts, Vectors
<1>3. /\ \A s \in Symbols : tv[s] = total * v[s]
      /\ \A s \in Symbols : lw[s] = limit * w[s]
      /\ \A s \in Symbols : all[s] = total
      /\ \A s \in Symbols : up[s] = lw[s] + all[s]
      /\ \A s \in Symbols : down[s] = tv[s] + all[s]
  OBVIOUS
<1>4. (\A s \in Symbols : tv[s] <= up[s]) /\ (\A s \in Symbols : lw[s] <= down[s])
  BY DEF Within
<1>5. n \in Nat BY FS_CardinalityType
<1> HIDE DEF tv, lw, all, up, down
<1>6. SumFunction(tv) = total * V BY <1>2, <1>3, SumScaled
<1>7. SumFunction(lw) = limit * W BY <1>2, <1>3, SumScaled
<1>8. SumFunction(all) = n * total BY <1>2, <1>3, SumEqual
<1>9. SumFunction(up) = SumFunction(lw) + SumFunction(all) BY <1>2, <1>3, SumPlus
<1>10. SumFunction(down) = SumFunction(tv) + SumFunction(all) BY <1>2, <1>3, SumPlus
<1>11. SumFunction(tv) <= SumFunction(up) BY <1>2, <1>4, SumMonotone
<1>12. SumFunction(lw) <= SumFunction(down) BY <1>2, <1>4, SumMonotone
<1>13. V \in Int /\ W \in Int BY <1>2, SumType
<1> HIDE DEF V, W, n
<1>14. /\ total * V \in Int /\ limit * W \in Int /\ n * total \in Int /\ total * c \in Int
       /\ total * (c + n) = total * c + n * total
       /\ total * (-(c + n)) = -(total * c) - n * total
  BY <1>5, <1>13
<1>15. limit * W <= total * c /\ -(total * c) <= limit * W BY DEF W
<1>16. total * V <= total * (c + n) BY <1>6, <1>7, <1>8, <1>9, <1>11, <1>14, <1>15
<1>17. total * (-(c + n)) <= total * V BY <1>6, <1>7, <1>8, <1>10, <1>12, <1>14, <1>15
<1>18. c + n \in Int /\ -(c + n) \in Int BY <1>5
<1>19. V <= c + n BY <1>13, <1>16, <1>18, FactorCancels
<1>20. -(c + n) <= V BY <1>13, <1>17, <1>18, FactorCancels
<1> QED BY <1>19, <1>20 DEF V, n

----------------------------------------------------------------------------
(* The chain of limits.  Each step moves weights towards zero, so that no  *)
(* later step undoes an earlier one.                                       *)
LEMMA PositionStep ==
  ASSUME AllocationIsPosed, NEW w \in Vectors
  PROVE  /\ Shrinks(SmallDropped(PositionCapped(w)), w)
         /\ \A s \in Symbols : SmallDropped(PositionCapped(w))[s]
              \in -Limits.max_position_weight..Limits.max_position_weight
<1> DEFINE limit == Limits.max_position_weight
           u == PositionCapped(w)
           v == SmallDropped(u)
<1>1. limit \in Nat BY DEF AllocationIsPosed
<1>2. ASSUME NEW s \in Symbols PROVE Shrunk(u[s], w[s]) /\ u[s] \in -limit..limit
  <2> DEFINE x == w[s]
             y == u[s]
  <2>1. x \in Int BY DEF Vectors
  <2>2. y = Max({-limit, Min({limit, x})}) BY DEF PositionCapped
  <2> HIDE DEF x, y, limit
  <2>3. y = IF x > limit THEN limit ELSE IF x < -limit THEN -limit ELSE x
    BY <1>1, <2>1, <2>2, ClampIs
  <2>4. Shrunk(y, x) /\ y \in -limit..limit BY <1>1, <2>1, <2>3 DEF Shrunk
  <2> QED BY <2>4 DEF x, y
<1>3. ASSUME NEW s \in Symbols PROVE Shrunk(v[s], w[s]) /\ v[s] \in -limit..limit
  <2>1. v[s] = 0 \/ v[s] = u[s] BY DEF SmallDropped
  <2> HIDE DEF u, v, limit
  <2> QED BY <1>1, <1>2, <2>1 DEF Shrunk
<1>4. v \in Vectors
  <2>1. v = [s \in Symbols |-> v[s]] BY DEF SmallDropped
  <2>2. \A s \in Symbols : v[s] \in Int
    <3> HIDE DEF v, u, limit
    <3> QED BY <1>3 DEF Shrunk
  <2> HIDE DEF v
  <2> QED BY <2>1, <2>2 DEF Vectors
<1> HIDE DEF u, v, limit
<1> QED BY <1>3, <1>4 DEF Shrinks, u, v, limit

LEMMA GroupStep ==
  ASSUME AllocationIsPosed, NEW w \in Vectors, NEW group \in [Symbols -> Groups \cup {NoGroup}],
         NEW limit \in Nat
  PROVE  /\ Shrinks(GroupCapped(w, group, limit), w)
         /\ \A g \in Groups :
              GrossOf(GroupCapped(w, group, limit),
                             {s \in Symbols : group[s] = g}) <= limit
<1> DEFINE v == GroupCapped(w, group, limit)
           Total(g) == GroupTotal(w, group, g)
           Members(g) == {s \in Symbols : group[s] = g}
           Counted(g) == {s \in Symbols : GroupOf(group, s) = g}
<1>1. IsFiniteSet(Symbols) /\ NoGroup \notin Groups BY DEF AllocationIsPosed
<1>2. ASSUME NEW g PROVE Total(g) = GrossOf(w, Counted(g)) /\ Total(g) \in Nat
  <2>1. Counted(g) \in SUBSET Symbols OBVIOUS
  <2>2. Total(g) = GrossOf(w, Counted(g)) BY DEF GroupTotal
  <2> HIDE DEF Counted, Total
  <2> QED BY <1>1, <2>1, <2>2, GrossType
<1>3. ASSUME NEW s \in Symbols
      PROVE  v[s] = IF group[s] # NoGroup /\ Total(group[s]) > limit
                    THEN Quotient(w[s] * limit, Total(group[s])) ELSE w[s]
  BY DEF GroupCapped
<1>4. ASSUME NEW s \in Symbols, group[s] # NoGroup, Total(group[s]) > limit
      PROVE  Shrunk(v[s], w[s]) /\ Within(v[s], w[s], limit, Total(group[s]))
  <2> DEFINE x == w[s]
             total == Total(group[s])
  <2>1. x \in Int BY DEF Vectors
  <2>2. total \in Nat \ {0} /\ limit <= total
    <3>1. total \in Nat BY <1>2
    <3> HIDE DEF Total
    <3> QED BY <1>4, <3>1
  <2>3. v[s] = Quotient(x * limit, total) BY <1>3, <1>4
  <2> HIDE DEF x, total, v
  <2>4. Shrunk(v[s], x) /\ Within(v[s], x, limit, total) BY <2>1, <2>2, <2>3, QuotientFacts
  <2> QED BY <2>4 DEF x, total
<1>5. \A s \in Symbols : w[s] \in Int /\ Shrunk(w[s], w[s]) BY DEF Vectors, Shrunk
<1>6. DOMAIN v = Symbols /\ v = [s \in Symbols |-> v[s]] BY DEF GroupCapped
<1>6a. \A s \in Symbols : group[s] # NoGroup => group[s] \in Groups OBVIOUS
<1> HIDE DEF v, Total
<1>7. \A s \in Symbols : Shrunk(v[s], w[s])
  <2> SUFFICES ASSUME NEW s \in Symbols PROVE Shrunk(v[s], w[s])
    OBVIOUS
  <2>1. CASE group[s] # NoGroup /\ Total(group[s]) > limit BY <1>4, <2>1
  <2>2. CASE ~(group[s] # NoGroup /\ Total(group[s]) > limit) BY <1>3, <1>5, <2>2, Zenon
  <2> QED BY <2>1, <2>2
<1>8. v \in Vectors BY <1>6, <1>7 DEF Vectors, Shrunk
<1>9. Shrinks(v, w) BY <1>7, <1>8 DEF Shrinks
<1>10. ASSUME NEW g \in Groups PROVE GrossOf(v, Members(g)) <= limit
  <2>1. Members(g) \in SUBSET Symbols /\ Counted(g) \in SUBSET Symbols OBVIOUS
  <2>2. Members(g) \subseteq Counted(g) BY <1>1 DEF GroupOf
  <2>3. g # NoGroup /\ \A s \in Members(g) : group[s] = g BY <1>1
  <2> HIDE DEF Members, Counted
  <2>4. GrossOf(w, Members(g)) <= Total(g)
    <3> DEFINE f == [s \in Counted(g) |-> Absolute(w[s])]
               m == [s \in Members(g) |-> Absolute(w[s])]
               rest == Restrict(f, Counted(g) \ Members(g))
    <3>1. f \in Amounts(Counted(g)) /\ (\A s \in Counted(g) : f[s] >= 0)
          /\ GrossOf(w, Counted(g)) = SumFunction(f)
      BY <2>1, GrossIs
    <3>2. m \in Amounts(Members(g)) /\ GrossOf(w, Members(g)) = SumFunction(m)
      BY <2>1, GrossIs
    <3>3. IsFiniteSet(Counted(g)) /\ IsFiniteSet(Members(g))
          /\ IsFiniteSet(Counted(g) \ Members(g))
      BY <1>1, <2>1, FS_Subset, FS_Difference
    <3>4. m = Restrict(f, Members(g)) BY <2>2 DEF Restrict
    <3>5. \A s \in Counted(g) \ Members(g) : rest[s] >= 0 BY <3>1 DEF Restrict
    <3> HIDE DEF f, m
    <3>6. rest \in Amounts(Counted(g) \ Members(g)) BY <2>2, <3>1, <3>3, SumSplit
    <3>7. SumFunction(f) = SumFunction(m) + SumFunction(rest)
      BY <2>2, <3>1, <3>3, <3>4, SumSplit
    <3> HIDE DEF rest
    <3>8. SumFunction(rest) >= 0 BY <3>3, <3>5, <3>6, SumOfNaturals
    <3>9. SumFunction(rest) \in Int /\ SumFunction(m) \in Int BY <3>2, <3>3, <3>6, SumType
    <3> QED BY <1>2, <3>1, <3>2, <3>7, <3>8, <3>9
  <2>5. CASE Total(g) > limit
    <3>1. \A s \in Members(g) : Within(v[s], w[s], limit, Total(g))
      BY <1>4, <2>1, <2>3, <2>5
    <3>2. Total(g) \in Nat \ {0} BY <1>2, <2>5
    <3> QED BY <1>1, <1>8, <2>1, <2>4, <3>1, <3>2, ScaledExposure
  <2>6. CASE ~(Total(g) > limit)
    <3>1. GrossOf(v, Members(g)) <= GrossOf(w, Members(g))
      BY <1>1, <1>9, <2>1, GrossShrinks
    <3>2. GrossOf(v, Members(g)) \in Nat /\ GrossOf(w, Members(g)) \in Nat
      BY <1>1, <1>8, <2>1, GrossType
    <3> QED BY <1>2, <2>4, <2>6, <3>1, <3>2
  <2> QED BY <2>5, <2>6
<1> QED BY <1>9, <1>10 DEF v

(* A step that scales all weights by how much a total is too big.          *)
LEMMA ScaledStep ==
  ASSUME NEW w \in Vectors, NEW total \in Nat, NEW limit \in Nat
  PROVE  LET v == Scaled(w, total, limit)
         IN  /\ Shrinks(v, w)
             /\ total > limit => \A s \in Symbols : Within(v[s], w[s], limit, total)
             /\ total <= limit => v = w
<1> DEFINE v == Scaled(w, total, limit)
<1>1. CASE total <= limit
  <2>1. v = w BY <1>1 DEF Scaled
  <2>2. \A s \in Symbols : Shrunk(w[s], w[s]) BY DEF Vectors, Shrunk
  <2> QED BY <1>1, <2>1, <2>2 DEF Shrinks
<1>2. CASE total > limit
  <2>1. v = [s \in Symbols |-> Quotient(w[s] * limit, total)]
    BY <1>2 DEF Scaled
  <2>2. total \in Nat \ {0} /\ limit <= total BY <1>2
  <2> HIDE DEF v
  <2>3. ASSUME NEW s \in Symbols PROVE Shrunk(v[s], w[s]) /\ Within(v[s], w[s], limit, total)
    <3>1. v[s] = Quotient(w[s] * limit, total) /\ w[s] \in Int BY <2>1 DEF Vectors
    <3> QED BY <2>2, <3>1, QuotientFacts
  <2>4. v \in Vectors BY <2>1, <2>3 DEF Vectors, Shrunk
  <2> QED BY <1>2, <2>3, <2>4 DEF Shrinks, v
<1> QED BY <1>1, <1>2

LEMMA TotalStep ==
  ASSUME AllocationIsPosed, NEW w \in Vectors, NEW limit \in Nat
  PROVE  LET v == Scaled(w, Gross(w), limit)
         IN  /\ Shrinks(v, w) /\ Gross(v) <= limit
             /\ \A c \in Nat :
                  -c <= SumFunction(w) /\ SumFunction(w) <= c =>
                    /\ SumFunction(v) <= c + Cardinality(Symbols)
                    /\ -(c + Cardinality(Symbols)) <= SumFunction(v)
<1> DEFINE total == Gross(w)
           v == Scaled(w, total, limit)
           n == Cardinality(Symbols)
           V == SumFunction(v)
           W == SumFunction(w)
<1>1. IsFiniteSet(Symbols) /\ Symbols \in SUBSET Symbols BY DEF AllocationIsPosed
<1>2. total = GrossOf(w, Symbols) BY DEF Gross
<1> HIDE DEF total
<1>3. total \in Nat BY <1>1, <1>2, GrossType
<1> HIDE DEF v
<1>4. /\ Shrinks(v, w)
      /\ total > limit => \A s \in Symbols : Within(v[s], w[s], limit, total)
      /\ total <= limit => v = w
  BY <1>3, ScaledStep DEF v
<1>5. v \in Vectors BY <1>4 DEF Shrinks
<1>6. Gross(v) <= limit
  <2>1. CASE total <= limit BY <1>4, <2>1 DEF total
  <2>2. CASE total > limit
    <3>1. total \in Nat \ {0} BY <1>3, <2>2
    <3>2. GrossOf(v, Symbols) <= limit
      <4>1. GrossOf(w, Symbols) <= total BY <1>2, <1>3
      <4> QED BY <1>1, <1>4, <1>5, <2>2, <3>1, <4>1, ScaledExposure
    <3> QED BY <3>2 DEF Gross
  <2> QED BY <1>3, <2>1, <2>2
<1>7. n \in Nat BY <1>1, FS_CardinalityType
<1>8. W \in Int
  <2>1. w \in Amounts(Symbols) BY DEF Vectors, Amounts
  <2> QED BY <1>1, <2>1, SumType
<1>9. ASSUME NEW c \in Nat, -c <= W, W <= c PROVE V <= c + n /\ -(c + n) <= V
  <2>1. CASE total <= limit
    <3>1. V = W BY <1>4, <2>1
    <3> HIDE DEF V, W, n
    <3> QED BY <1>7, <1>8, <1>9, <3>1
  <2>2. CASE total > limit
    <3>1. total \in Nat \ {0} BY <1>3, <2>2
    <3>2. limit * W <= total * c /\ -(total * c) <= limit * W
      <4> HIDE DEF W
      <4>1. limit * W <= limit * c BY <1>8, <1>9, TimesOrdered
      <4>2. limit * (-c) <= limit * W BY <1>8, <1>9, TimesOrdered
      <4>3. c * limit <= c * total BY <1>3, <2>2, TimesOrdered
      <4>4. limit * (-c) = -(limit * c) /\ c * limit = limit * c /\ c * total = total * c
            /\ limit * W \in Int /\ limit * c \in Int /\ total * c \in Int
        BY <1>3, <1>8
      <4> QED BY <4>1, <4>2, <4>3, <4>4
    <3>3. \A s \in Symbols : Within(v[s], w[s], limit, total) BY <1>4, <2>2
    <3>4. V <= c + n BY <1>1, <1>5, <3>1, <3>2, <3>3, ScaledNet
    <3>5. -(c + n) <= V BY <1>1, <1>5, <3>1, <3>2, <3>3, ScaledNet
    <3> QED BY <3>4, <3>5
  <2> QED BY <1>3, <2>1, <2>2
<1> HIDE DEF V, W, n
<1> QED BY <1>4, <1>6, <1>9 DEF v, total, V, W, n

LEMMA NetStep ==
  ASSUME AllocationIsPosed, NEW w \in Vectors
  PROVE  LET v == NetCapped(w)
             most == Limits.max_net_exposure + Cardinality(Symbols)
         IN  Shrinks(v, w) /\ SumFunction(v) <= most /\ -most <= SumFunction(v)
<1> DEFINE limit == Limits.max_net_exposure
           W == SumFunction(w)
           total == Absolute(W)
           v == Scaled(w, total, limit)
           n == Cardinality(Symbols)
           V == SumFunction(v)
<1>1. IsFiniteSet(Symbols) /\ limit \in Nat BY DEF AllocationIsPosed
<1>2. NetCapped(w) = v BY DEF NetCapped, Sum
<1>3. W \in Int
  <2>1. w \in Amounts(Symbols) BY DEF Vectors, Amounts
  <2> QED BY <1>1, <2>1, SumType
<1>4. total = (IF W >= 0 THEN W ELSE -W) /\ total \in Nat
  <2> HIDE DEF W
  <2>1. total = IF W >= 0 THEN W ELSE -W BY <1>3, AbsIs
  <2> QED BY <1>3, <2>1
<1>5. n \in Nat BY <1>1, FS_CardinalityType
<1> HIDE DEF limit, total, v
<1>6. /\ Shrinks(v, w)
      /\ total > limit => \A s \in Symbols : Within(v[s], w[s], limit, total)
      /\ total <= limit => v = w
  BY <1>1, <1>4, ScaledStep DEF v
<1>7. v \in Vectors BY <1>6 DEF Shrinks
<1>8. V <= limit + n /\ -(limit + n) <= V
  <2>1. CASE total <= limit
    <3>1. V = W BY <1>6, <2>1
    <3> HIDE DEF V, W, n
    <3> QED BY <1>1, <1>3, <1>4, <1>5, <2>1, <3>1
  <2>2. CASE total > limit
    <3>1. total \in Nat \ {0} BY <1>1, <1>4, <2>2
    <3>2. limit * W <= total * limit /\ -(total * limit) <= limit * W
      <4> HIDE DEF W
      <4>1. total * limit = limit * total /\ limit * (-total) = -(limit * total)
            /\ limit * total \in Int /\ limit * W \in Int
        BY <1>1, <1>3, <1>4
      <4>2. W <= total /\ -total <= W /\ -total \in Int BY <1>3, <1>4
      <4>3. limit * W <= limit * total BY <1>1, <1>3, <1>4, <4>2, TimesOrdered
      <4>4. limit * (-total) <= limit * W BY <1>1, <1>3, <1>4, <4>2, TimesOrdered
      <4> QED BY <4>1, <4>3, <4>4
    <3>3. \A s \in Symbols : Within(v[s], w[s], limit, total) BY <1>6, <2>2
    <3>4. V <= limit + n BY <1>1, <1>7, <3>1, <3>2, <3>3, ScaledNet
    <3>5. -(limit + n) <= V BY <1>1, <1>7, <3>1, <3>2, <3>3, ScaledNet
    <3> QED BY <3>4, <3>5
  <2> QED BY <1>1, <1>4, <2>1, <2>2
<1> HIDE DEF V, n
<1> QED BY <1>2, <1>6, <1>8 DEF V, n, limit

(* The whole chain, for any weights to begin with.                         *)
Capped(w, base, sector, strategy) ==
  /\ w \in Vectors /\ base \in Vectors
  /\ \A s \in Symbols : /\ w[s] \in -Limits.max_position_weight..Limits.max_position_weight
                        /\ Shrunk(w[s], base[s])
  /\ \A g \in Groups :
       /\ GrossOf(w, {s \in Symbols : sector[s] = g}) <= Limits.max_sector_exposure
       /\ GrossOf(w, {s \in Symbols : strategy[s] = g}) <= Limits.max_strategy_exposure
  /\ Gross(w) <= Limits.max_gross_exposure /\ Gross(w) <= Limits.max_leverage
  /\ SumFunction(w) <= Limits.max_net_exposure + 2 * Cardinality(Symbols)
  /\ -(Limits.max_net_exposure + 2 * Cardinality(Symbols)) <= SumFunction(w)

LEMMA ChainCaps ==
  ASSUME AllocationIsPosed, NEW base \in Vectors,
         NEW sector \in [Symbols -> Groups \cup {NoGroup}],
         NEW strategy \in [Symbols -> Groups \cup {NoGroup}]
  PROVE  Capped(Constrained(base, sector, strategy), base, sector, strategy)
<1> DEFINE c1 == SmallDropped(PositionCapped(base))
           c2 == GroupCapped(c1, sector, Limits.max_sector_exposure)
           c3 == GroupCapped(c2, strategy, Limits.max_strategy_exposure)
           c4 == Scaled(c3, Gross(c3), Limits.max_gross_exposure)
           c5 == NetCapped(c4)
           c6 == Scaled(c5, Gross(c5), Limits.max_leverage)
           n == Cardinality(Symbols)
           OfSector(g) == {s \in Symbols : sector[s] = g}
           OfStrategy(g) == {s \in Symbols : strategy[s] = g}
<1>1. /\ Limits.max_position_weight \in Nat /\ Limits.max_sector_exposure \in Nat
      /\ Limits.max_strategy_exposure \in Nat /\ Limits.max_gross_exposure \in Nat
      /\ Limits.max_net_exposure \in Nat /\ Limits.max_leverage \in Nat
      /\ IsFiniteSet(Symbols)
  BY DEF AllocationIsPosed
<1>2. n \in Nat BY <1>1, FS_CardinalityType
<1>3. Constrained(base, sector, strategy) = c6 BY DEF Constrained
<1> HIDE DEF c6
<1>4. /\ Shrinks(c1, base)
      /\ \A s \in Symbols : c1[s] \in -Limits.max_position_weight..Limits.max_position_weight
  BY PositionStep
<1> HIDE DEF c1
<1>5. c1 \in Vectors BY <1>4 DEF Shrinks
<1>6. /\ Shrinks(c2, c1)
      /\ \A g \in Groups : GrossOf(c2, OfSector(g)) <= Limits.max_sector_exposure
  BY <1>1, <1>5, GroupStep
<1> HIDE DEF c2
<1>7. c2 \in Vectors BY <1>6 DEF Shrinks
<1>8. /\ Shrinks(c3, c2)
      /\ \A g \in Groups : GrossOf(c3, OfStrategy(g)) <= Limits.max_strategy_exposure
  BY <1>1, <1>7, GroupStep
<1> HIDE DEF c3
<1>9. c3 \in Vectors BY <1>8 DEF Shrinks
<1>10. Shrinks(c4, c3) /\ Gross(c4) <= Limits.max_gross_exposure
  BY <1>1, <1>9, TotalStep
<1> HIDE DEF c4
<1>11. c4 \in Vectors BY <1>10 DEF Shrinks
<1> DEFINE most == Limits.max_net_exposure + n
<1>12. Shrinks(c5, c4) /\ SumFunction(c5) <= most /\ -most <= SumFunction(c5)
  BY <1>11, NetStep
<1> HIDE DEF c5
<1>13. c5 \in Vectors BY <1>12 DEF Shrinks
<1>14. /\ Shrinks(c6, c5) /\ Gross(c6) <= Limits.max_leverage
       /\ \A c \in Nat : -c <= SumFunction(c5) /\ SumFunction(c5) <= c =>
            SumFunction(c6) <= c + n /\ -(c + n) <= SumFunction(c6)
  BY <1>1, <1>13, TotalStep DEF c6
<1>15. c6 \in Vectors BY <1>14 DEF Shrinks
<1>16. most \in Nat BY <1>1, <1>2
<1>17. SumFunction(c6) <= most + n /\ -(most + n) <= SumFunction(c6)
  <2> HIDE DEF most, n
  <2> QED BY <1>12, <1>14, <1>16
<1>18. most + n = Limits.max_net_exposure + 2 * n BY <1>1, <1>2
<1> HIDE DEF most, n
<1>19. Shrinks(c6, c4) BY <1>12, <1>14, ShrinksTransitive
<1>20. Shrinks(c6, c3) BY <1>10, <1>19, ShrinksTransitive
<1>21. Shrinks(c6, c2) BY <1>8, <1>20, ShrinksTransitive
<1>22. Shrinks(c6, c1) BY <1>6, <1>21, ShrinksTransitive
<1>23. Shrinks(c6, base) BY <1>4, <1>22, ShrinksTransitive
<1>24. \A s \in Symbols : /\ c6[s] \in -Limits.max_position_weight..Limits.max_position_weight
                          /\ Shrunk(c6[s], base[s])
  <2> SUFFICES ASSUME NEW s \in Symbols
               PROVE  /\ c6[s] \in -Limits.max_position_weight..Limits.max_position_weight
                      /\ Shrunk(c6[s], base[s])
    OBVIOUS
  <2>1. Shrunk(c6[s], c1[s]) /\ Shrunk(c6[s], base[s]) BY <1>22, <1>23 DEF Shrinks
  <2>2. c1[s] \in -Limits.max_position_weight..Limits.max_position_weight BY <1>4
  <2> QED BY <1>1, <2>1, <2>2 DEF Shrunk
<1>25. ASSUME NEW v, Shrinks(c6, v), v \in Vectors, NEW T \in SUBSET Symbols, NEW limit \in Nat,
              GrossOf(v, T) <= limit
       PROVE  GrossOf(c6, T) <= limit
  <2>1. GrossOf(c6, T) <= GrossOf(v, T) BY <1>1, <1>25, GrossShrinks
  <2>2. GrossOf(c6, T) \in Nat BY <1>1, <1>15, GrossType
  <2>3. GrossOf(v, T) \in Nat BY <1>1, <1>25, GrossType
  <2> QED BY <1>25, <2>1, <2>2, <2>3
<1>26. ASSUME NEW g \in Groups
       PROVE  /\ GrossOf(c6, OfSector(g)) <= Limits.max_sector_exposure
              /\ GrossOf(c6, OfStrategy(g)) <= Limits.max_strategy_exposure
  <2>1. OfSector(g) \in SUBSET Symbols /\ OfStrategy(g) \in SUBSET Symbols OBVIOUS
  <2> HIDE DEF OfSector, OfStrategy
  <2>2. GrossOf(c2, OfSector(g)) <= Limits.max_sector_exposure BY <1>6
  <2>3. GrossOf(c3, OfStrategy(g)) <= Limits.max_strategy_exposure BY <1>8
  <2>4. GrossOf(c6, OfSector(g)) <= Limits.max_sector_exposure
    BY <1>1, <1>7, <1>21, <1>25, <2>1, <2>2
  <2>5. GrossOf(c6, OfStrategy(g)) <= Limits.max_strategy_exposure
    BY <1>1, <1>9, <1>20, <1>25, <2>1, <2>3
  <2> QED BY <2>4, <2>5
<1>27. Gross(c6) <= Limits.max_gross_exposure
  <2>1. GrossOf(c4, Symbols) <= Limits.max_gross_exposure BY <1>10 DEF Gross
  <2>2. Symbols \in SUBSET Symbols OBVIOUS
  <2>3. GrossOf(c6, Symbols) <= Limits.max_gross_exposure
    BY <1>1, <1>11, <1>19, <1>25, <2>1, <2>2
  <2> QED BY <2>3 DEF Gross
<1> QED BY <1>3, <1>14, <1>15, <1>17, <1>18, <1>24, <1>26, <1>27 DEF Capped, n

----------------------------------------------------------------------------
(* The raw weights are integers, none of which is divided by zero.         *)
LEMMA NothingIs ==
  ASSUME AllocationIsPosed, NEW w \in Vectors, w # Nothing
  PROVE  Gross(w) \in Nat \ {0}
<1> DEFINE f == [s \in Symbols |-> Absolute(w[s])]
<1>1. IsFiniteSet(Symbols) /\ Symbols \in SUBSET Symbols BY DEF AllocationIsPosed
<1>2. f \in Amounts(Symbols) /\ (\A s \in Symbols : f[s] >= 0)
      /\ GrossOf(w, Symbols) = SumFunction(f)
  BY <1>1, GrossIs
<1>3. GrossOf(w, Symbols) \in Nat BY <1>1, GrossType
<1>4. PICK t \in Symbols : w[t] # 0 BY DEF Vectors, Nothing
<1>5. f[t] # 0
  <2> DEFINE x == w[t]
  <2>1. x \in Int /\ x # 0 BY <1>4 DEF Vectors
  <2> HIDE DEF x
  <2>2. Absolute(x) # 0 BY <2>1, AbsIs
  <2> QED BY <2>2 DEF x
<1> HIDE DEF f
<1>6. SumFunction(f) # 0 BY <1>1, <1>2, <1>5, SumOfNothing
<1> QED BY <1>2, <1>3, <1>6 DEF Gross

LEMMA HowMany ==
  ASSUME AllocationIsPosed, NEW s \in Symbols
  PROVE  Cardinality(Symbols) \in Nat \ {0}
<1>1. IsFiniteSet(Symbols) BY DEF AllocationIsPosed
<1>2. Cardinality(Symbols) \in Nat /\ Cardinality(Symbols) # 0
  BY <1>1, FS_CardinalityType, FS_EmptySet
<1> QED BY <1>2

LEMMA EvenType ==
  ASSUME AllocationIsPosed PROVE EvenWeights \in Vectors
<1>1. ASSUME NEW s \in Symbols PROVE EvenWeights[s] \in Int
  <2> DEFINE n == Cardinality(Symbols)
  <2>1. n \in Nat \ {0} BY HowMany
  <2>2. EvenWeights[s] = 1000 \div n BY DEF EvenWeights, Whole
  <2> HIDE DEF n
  <2> QED BY <2>1, <2>2, DivFloor
<1>2. EvenWeights = [s \in Symbols |-> EvenWeights[s]] BY DEF EvenWeights
<1> QED BY <1>1, <1>2 DEF Vectors

LEMMA FixedType ==
  ASSUME AllocationIsPosed, NEW signal \in Vectors
  PROVE  FixedWeights(signal) \in Vectors
<1>1. CASE signal = Nothing BY <1>1 DEF FixedWeights
<1>2. ASSUME NEW s \in Symbols, signal # Nothing
      PROVE  FixedWeights(signal)[s] \in Int
  <2> DEFINE n == Gross(signal)
             x == 1000 * signal[s]
  <2>1. n \in Nat \ {0} BY <1>2, NothingIs
  <2>2. x \in Int BY DEF Vectors
  <2>3. FixedWeights(signal)[s] = Quotient(x, n)
    BY <1>2 DEF FixedWeights, Whole
  <2> HIDE DEF n, x
  <2>4. x \div n \in Int /\ (-x) \div n \in Int
    <3>1. -x \in Int BY <2>2
    <3>2. x \div n \in Int BY <2>1, <2>2, DivFloor
    <3> DEFINE y == -x
    <3> HIDE DEF y
    <3>3. y \in Int BY <3>1 DEF y
    <3>4. y \div n \in Int BY <2>1, <3>3, DivFloor
    <3> QED BY <3>2, <3>4 DEF y
  <2> QED BY <2>3, <2>4 DEF Quotient
<1>3. CASE signal # Nothing
  <2>1. FixedWeights(signal) = [s \in Symbols |-> FixedWeights(signal)[s]]
    BY <1>3 DEF FixedWeights
  <2> QED BY <1>2, <1>3, <2>1 DEF Vectors
<1> QED BY <1>1, <1>3

(* The inverse-volatility weights are not negative, and add up to no more  *)
(* than the whole.                                                         *)
LEMMA InverseVolFacts ==
  ASSUME AllocationIsPosed, NEW vol \in [Symbols -> Vols], vol # Nothing
  PROVE  LET w == InverseVolWeights(vol)
         IN  w \in Vectors /\ (\A s \in Symbols : w[s] >= 0) /\ SumFunction(w) <= 1000
<1> DEFINE inverse == [s \in Symbols |-> IF vol[s] > 0 THEN 1000 \div vol[s] ELSE 0]
           total == SumFunction(inverse)
           w == InverseVolWeights(vol)
           scaled == [s \in Symbols |-> 1000 * inverse[s]]
           tw == [s \in Symbols |-> total * w[s]]
<1>1. IsFiniteSet(Symbols) BY DEF AllocationIsPosed
<1>2. \A s \in Symbols : vol[s] \in 0..1000 BY DEF AllocationIsPosed
<1>3. ASSUME NEW s \in Symbols
      PROVE  inverse[s] \in Nat /\ (vol[s] > 0 => inverse[s] >= 1)
  <2> DEFINE v == vol[s]
             q == 1000 \div v
  <2>1. CASE v > 0
    <3>1. v \in Nat \ {0} /\ v <= 1000 BY <1>2, <2>1
    <3>2. q \in Int /\ v * q <= 1000 /\ 1000 < v * q + v
      <4> HIDE DEF v
      <4> QED BY <3>1, DivFloor
    <3> HIDE DEF v, q
    <3>3. ASSUME q <= 0 PROVE FALSE
      <4>1. v * q <= v * 0 BY <3>1, <3>2, <3>3, TimesOrdered
      <4> QED BY <3>1, <3>2, <4>1
    <3>4. q >= 1 BY <3>2, <3>3
    <3>5. inverse[s] = q BY <2>1 DEF v, q
    <3> QED BY <3>2, <3>4, <3>5
  <2>2. CASE ~(v > 0) BY <2>2
  <2> QED BY <2>1, <2>2
<1>4. w = [s \in Symbols |-> (1000 * inverse[s]) \div total]
  BY DEF InverseVolWeights, Whole, Sum
<1>5. \E s \in Symbols : vol[s] > 0
  <2>1. PICK s \in Symbols : vol[s] # 0 BY DEF Nothing
  <2> QED BY <1>2, <2>1
<1> HIDE DEF inverse, w
<1>6. inverse \in Amounts(Symbols) /\ \A s \in Symbols : inverse[s] >= 0
  <2>1. inverse = [s \in Symbols |-> inverse[s]] BY DEF inverse
  <2> QED BY <1>3, <2>1 DEF Amounts
<1>7. total \in Int BY <1>1, <1>6, SumType
<1>8. total >= 0 BY <1>1, <1>6, SumOfNaturals
<1>9. total # 0
  <2>1. PICK s \in Symbols : vol[s] > 0 BY <1>5
  <2>2. inverse[s] # 0 BY <1>3, <2>1
  <2> QED BY <1>1, <1>6, <2>2, SumOfNothing
<1>10. total \in Nat \ {0} BY <1>7, <1>8, <1>9
<1> HIDE DEF total
<1>11. ASSUME NEW s \in Symbols
       PROVE  w[s] \in Int /\ w[s] >= 0 /\ total * w[s] <= 1000 * inverse[s]
  <2> DEFINE x == 1000 * inverse[s]
             q == x \div total
  <2>1. x \in Nat BY <1>3
  <2>2. w[s] = q BY <1>4
  <2> HIDE DEF x
  <2>3. q \in Int /\ total * q <= x /\ x < total * q + total BY <1>10, <2>1, DivFloor
  <2> HIDE DEF q
  <2>4. ASSUME q + 1 <= 0 PROVE FALSE
    <3>1. total * (q + 1) <= total * 0 BY <1>10, <2>3, <2>4, TimesOrdered
    <3>2. total * (q + 1) = total * q + total BY <1>10, <2>3
    <3> QED BY <1>10, <2>1, <2>3, <3>1, <3>2
  <2>5. q >= 0 BY <2>3, <2>4
  <2> QED BY <2>2, <2>3, <2>5 DEF x
<1>12. w \in Amounts(Symbols) /\ w \in Vectors BY <1>4, <1>11 DEF Amounts, Vectors
<1>13. scaled \in Amounts(Symbols) /\ (\A s \in Symbols : scaled[s] = 1000 * inverse[s])
  BY <1>3 DEF Amounts
<1>14. tw \in Amounts(Symbols) /\ (\A s \in Symbols : tw[s] = total * w[s])
       /\ \A s \in Symbols : tw[s] <= scaled[s]
  BY <1>10, <1>11 DEF Amounts
<1> HIDE DEF scaled, tw
<1>15. SumFunction(tw) = total * SumFunction(w) BY <1>1, <1>10, <1>12, <1>14, SumScaled
<1>16. SumFunction(scaled) = 1000 * total BY <1>1, <1>6, <1>13, SumScaled DEF total
<1>17. SumFunction(tw) <= SumFunction(scaled) BY <1>1, <1>13, <1>14, SumMonotone
<1>18. SumFunction(w) \in Int BY <1>1, <1>12, SumType
<1>19. total * SumFunction(w) <= total * 1000 BY <1>10, <1>15, <1>16, <1>17
<1>20. SumFunction(w) <= 1000 BY <1>10, <1>18, <1>19, FactorCancels
<1> QED BY <1>11, <1>12, <1>20 DEF w

LEMMA RawType ==
  ASSUME AllocationIsPosed, NEW w \in RawWeights
  PROVE  w \in Vectors
<1>1. Nothing \in Vectors BY DEF Nothing, Vectors
<1>0. CASE w = EvenWeights BY <1>0, EvenType
<1>2. ASSUME NEW signal \in [Symbols -> Signals], w = FixedWeights(signal)
      PROVE  w \in Vectors
  <2>1. signal \in Vectors BY DEF Vectors, AllocationIsPosed
  <2> QED BY <1>2, <2>1, FixedType
<1>3. ASSUME NEW vol \in [Symbols -> Vols], w = InverseVolWeights(vol)
      PROVE  w \in Vectors
  <2>1. CASE vol = Nothing
    <3>1. w = EvenWeights BY <1>3, <2>1 DEF InverseVolWeights
    <3> QED BY <3>1, EvenType
  <2>2. CASE vol # Nothing BY <1>3, <2>2, InverseVolFacts
  <2> QED BY <2>1, <2>2
<1>4. ASSUME NEW vol \in [Symbols -> Vols], w = VolTargetWeights(vol)
      PROVE  w \in Vectors
  <2>1. ASSUME NEW s \in Symbols PROVE w[s] \in Int
    <3> DEFINE n == Cardinality(Symbols)
               v == vol[s]
    <3>1. n \in Nat \ {0} BY HowMany
    <3>2. v \in Nat
      <4>1. vol[s] \in Vols /\ Vols \subseteq 0..1000 BY DEF AllocationIsPosed
      <4>2. vol[s] \in 0..1000 BY <4>1
      <4> QED BY <4>2
    <3>3. w[s] = IF v > 0 THEN (1000 * TargetVol) \div (n * v) ELSE 1000 \div n
      BY <1>4 DEF VolTargetWeights, Whole
    <3> HIDE DEF n, v
    <3>4. 1000 \div n \in Int BY <3>1, DivFloor
    <3>5. ASSUME v > 0 PROVE (1000 * TargetVol) \div (n * v) \in Int
      <4> DEFINE k == n * v
                 x == 1000 * TargetVol
      <4>1. k \in Nat \ {0} BY <3>1, <3>2, <3>5
      <4>2. x \in Int BY DEF AllocationIsPosed
      <4> HIDE DEF k, x
      <4>3. x \div k \in Int BY <4>1, <4>2, DivFloor
      <4> QED BY <4>3 DEF k, x
    <3> QED BY <3>3, <3>4, <3>5
  <2>2. w = [s \in Symbols |-> w[s]] BY <1>4 DEF VolTargetWeights
  <2> QED BY <2>1, <2>2 DEF Vectors
<1> QED BY <1>0, <1>2, <1>3, <1>4 DEF RawWeights

----------------------------------------------------------------------------
(* What a size costs.                                                      *)
LEMMA CapFacts ==
  ASSUME NEW pct \in Nat, NEW equity \in Nat, NEW price \in Nat \ {0}, NEW x \in Int
  PROVE  LET q == Least(x, (equity * pct) \div (100 * price))
         IN  q \in Int /\ 100 * (price * q) <= pct * equity
<1> DEFINE money == equity * pct
           per == 100 * price
           cap == money \div per
           q == Least(x, cap)
<1>1. money \in Int /\ money = pct * equity /\ per \in Nat \ {0} OBVIOUS
<1> HIDE DEF money, per
<1>2. cap \in Int /\ per * cap <= money BY <1>1, DivFloor
<1> HIDE DEF cap
<1>3. q \in Int /\ q <= cap BY <1>2 DEF Least
<1> HIDE DEF q
<1>4. per * q <= per * cap BY <1>1, <1>2, <1>3, TimesOrdered
<1>5. per * q = 100 * (price * q) BY <1>3 DEF per
<1>6. per * q \in Int /\ per * cap \in Int BY <1>1, <1>2, <1>3
<1> QED BY <1>1, <1>2, <1>3, <1>4, <1>5, <1>6 DEF q, cap, money, per

LEMMA InverseSizeFacts ==
  ASSUME NEW pct \in Nat, NEW equity \in Nat, NEW price \in Nat \ {0}, NEW x \in Int
  PROVE  LET weight == Least(x, Least(pct * 50, 1000))
             q == (equity * weight) \div (1000 * price)
         IN  q \in Int /\ 20 * (price * q) <= pct * equity
<1> DEFINE weight == Least(x, Least(pct * 50, 1000))
           money == equity * weight
           per == 1000 * price
           q == money \div per
<1>1. weight \in Int /\ weight <= 50 * pct BY DEF Least
<1> HIDE DEF weight
<1>2. money \in Int /\ money <= equity * (50 * pct) BY <1>1, TimesOrdered
<1>3. per \in Nat \ {0} OBVIOUS
<1>4. equity * (50 * pct) = 50 * (pct * equity) OBVIOUS
<1> HIDE DEF money, per
<1>5. q \in Int /\ per * q <= money BY <1>2, <1>3, DivFloor
<1> HIDE DEF q
<1>6. per * q = 50 * (20 * (price * q)) BY <1>5 DEF per
<1> DEFINE a == 20 * (price * q)
           b == pct * equity
<1>7. a \in Int /\ b \in Int BY <1>5
<1>8. 50 * a <= 50 * b
  <2> HIDE DEF a, b
  <2> QED BY <1>2, <1>4, <1>5, <1>6, <1>7 DEF a, b
<1>9. a <= b
  <2> HIDE DEF a, b
  <2> QED BY <1>7, <1>8
<1> QED BY <1>5, <1>9 DEF q, money, per, weight

LEMMA SizeFacts ==
  ASSUME AllocationIsPosed, NEW how \in Methods, NEW price \in Quotes \cup {0},
         NEW vol \in Vols, NEW equity \in Equities
  PROVE  LET q == SizePosition(how, price, vol, equity)
         IN  /\ q \in Int
             /\ how \in {"VOL_TARGET", "RISK_PARITY"} =>
                  100 * (price * q) <= MaxPositionPct * equity
             /\ how = "INVERSE_VOL" => 20 * (price * q) <= MaxPositionPct * equity
<1> DEFINE q == SizePosition(how, price, vol, equity)
<1>1. /\ price \in Nat /\ vol \in Nat /\ equity \in Nat /\ MaxPositionPct \in Nat
      /\ TargetVol \in Nat /\ RiskFraction \in Nat
  BY DEF AllocationIsPosed
<1>2. CASE price <= 0 \/ vol <= 0 \/ equity <= 0
  <2>1. q = 0 BY <1>2 DEF SizePosition
  <2>2. price * 0 = 0 /\ MaxPositionPct * equity >= 0 BY <1>1
  <2> HIDE DEF q
  <2> QED BY <2>1, <2>2 DEF q
<1>3. CASE ~(price <= 0 \/ vol <= 0 \/ equity <= 0)
  <2>0. price \in Nat \ {0} /\ vol \in Nat \ {0} BY <1>1, <1>3
  <2>1. q = SizedPosition(how, price, vol, equity) BY <1>3 DEF SizePosition
  <2>a. ASSUME NEW n \in Nat, NEW d \in Nat \ {0} PROVE n \div d \in Int BY DivFloor
  <2>b. vol * price \in Nat \ {0} /\ equity * RiskFraction \in Nat /\ equity * TargetVol \in Nat
        /\ 1000 * TargetVol \in Nat
    BY <1>1, <2>0
  <2>c. /\ (equity * RiskFraction) \div (vol * price) \in Int
        /\ (equity * TargetVol) \div (vol * price) \in Int
        /\ (1000 * TargetVol) \div vol \in Int
    BY <2>a, <2>b, <2>0
  <2>2. CASE how = "VOL_TARGET"
    <3>1. q = Least((equity * RiskFraction) \div (vol * price),
                          (equity * MaxPositionPct) \div (100 * price))
      BY <2>1, <2>2 DEF SizedPosition
    <3> DEFINE x == (equity * RiskFraction) \div (vol * price)
    <3>2. x \in Int BY <2>c
    <3> HIDE DEF x, q
    <3>3. q = Least(x, (equity * MaxPositionPct) \div (100 * price)) BY <3>1 DEF x
    <3>4. q \in Int /\ 100 * (price * q) <= MaxPositionPct * equity
      BY <1>1, <2>0, <3>2, <3>3, CapFacts
    <3> QED BY <2>2, <3>4 DEF q
  <2>3. CASE how = "RISK_PARITY"
    <3>1. q = Least((equity * TargetVol) \div (vol * price),
                          (equity * MaxPositionPct) \div (100 * price))
      BY <2>1, <2>3 DEF SizedPosition
    <3> DEFINE x == (equity * TargetVol) \div (vol * price)
    <3>2. x \in Int BY <2>c
    <3> HIDE DEF x, q
    <3>3. q = Least(x, (equity * MaxPositionPct) \div (100 * price)) BY <3>1 DEF x
    <3>4. q \in Int /\ 100 * (price * q) <= MaxPositionPct * equity
      BY <1>1, <2>0, <3>2, <3>3, CapFacts
    <3> QED BY <2>3, <3>4 DEF q
  <2>4. CASE how = "INVERSE_VOL"
    <3>1. q = (equity * Least((1000 * TargetVol) \div vol,
                                    Least(MaxPositionPct * 50, 1000))) \div (1000 * price)
      BY <2>1, <2>4 DEF SizedPosition, Whole
    <3> DEFINE x == (1000 * TargetVol) \div vol
    <3>2. x \in Int BY <2>c
    <3> HIDE DEF x, q
    <3>3. q = (equity * Least(x, Least(MaxPositionPct * 50, 1000))) \div (1000 * price)
      BY <3>1 DEF x
    <3>4. q \in Int /\ 20 * (price * q) <= MaxPositionPct * equity
      BY <1>1, <2>0, <3>2, <3>3, InverseSizeFacts
    <3> QED BY <2>4, <3>4 DEF q
  <2> QED BY <2>2, <2>3, <2>4 DEF Methods
<1> QED BY <1>2, <1>3

(* By inverse volatility all the positions sized together cost no more     *)
(* than the equity.                                                        *)
LEMMA InverseSharesFit ==
  ASSUME AllocationIsPosed, NEW price \in [Symbols -> Quotes], NEW vol \in [Symbols -> Vols],
         NEW equity \in Equities
  PROVE  Sum([s \in Symbols |->
                price[s] * SizePortfolio("INVERSE_VOL", price, vol, equity)[s]]) <= equity
<1> DEFINE q == SizePortfolio("INVERSE_VOL", price, vol, equity)
           w == InverseVolWeights(vol)
           cost == [s \in Symbols |-> price[s] * q[s]]
<1>1. IsFiniteSet(Symbols) /\ equity \in Nat BY DEF AllocationIsPosed
<1>2. ASSUME NEW s \in Symbols PROVE price[s] \in Nat \ {0} /\ vol[s] \in 0..1000
  <2>1. price[s] \in Quotes /\ vol[s] \in Vols OBVIOUS
  <2> QED BY <2>1 DEF AllocationIsPosed
<1>3. ASSUME NEW s \in Symbols
      PROVE  q[s] = IF vol[s] = 0 THEN 0 ELSE (equity * w[s]) \div (1000 * price[s])
  BY DEF SizePortfolio, Whole
<1>4. Sum(cost) = SumFunction(cost) BY DEF Sum
<1> HIDE DEF q, w
<1>5. CASE vol = Nothing
  <2>1. ASSUME NEW s \in Symbols PROVE cost[s] = 0
    <3>1. vol[s] = 0 BY <1>5 DEF Nothing
    <3>2. q[s] = 0 BY <1>3, <3>1
    <3>3. price[s] * 0 = 0 BY <1>2
    <3> QED BY <3>2, <3>3
  <2>2. cost \in Amounts(Symbols) BY <2>1 DEF Amounts
  <2> HIDE DEF cost
  <2>3. Cardinality(Symbols) \in Nat BY <1>1, FS_CardinalityType
  <2>4. SumFunction(cost) = Cardinality(Symbols) * 0 BY <1>1, <2>1, <2>2, SumEqual
  <2>5. SumFunction(cost) = 0 BY <2>3, <2>4
  <2> QED BY <1>1, <1>4, <2>5 DEF cost, q
<1>6. CASE vol # Nothing
  <2> DEFINE thousand == [s \in Symbols |-> 1000 * cost[s]]
             share == [s \in Symbols |-> equity * w[s]]
  <2>1. w \in Vectors /\ (\A s \in Symbols : w[s] >= 0) /\ SumFunction(w) <= 1000
    BY <1>6, InverseVolFacts DEF w
  <2>2. \A s \in Symbols : w[s] \in Int BY <2>1 DEF Vectors
  <2>3. ASSUME NEW s \in Symbols PROVE cost[s] \in Int /\ 1000 * cost[s] <= equity * w[s]
    <3> DEFINE p == price[s]
               x == equity * w[s]
               per == 1000 * p
               k == x \div per
    <3>1. p \in Nat \ {0} /\ x \in Int BY <1>1, <1>2, <2>2
    <3>2. per \in Nat \ {0} BY <3>1
    <3> HIDE DEF x, per
    <3>3. k \in Int /\ per * k <= x BY <3>1, <3>2, DivFloor
    <3>4. CASE vol[s] # 0
      <4>1. q[s] = k BY <1>3, <3>4 DEF x, per
      <4>2. cost[s] = p * k BY <4>1
      <4> HIDE DEF cost, p, k
      <4>3. per * k = 1000 * (p * k) /\ p * k \in Int BY <3>1, <3>3 DEF per
      <4> QED BY <3>3, <4>2, <4>3 DEF x
    <3>5. CASE vol[s] = 0
      <4>1. q[s] = 0 BY <1>3, <3>5
      <4>2. p * 0 = 0 BY <3>1
      <4>3. cost[s] = 0 BY <4>1, <4>2
      <4>4. equity * w[s] >= 0
        <5>1. equity * 0 <= equity * w[s] BY <1>1, <2>1, <2>2, TimesOrdered
        <5> QED BY <1>1, <5>1
      <4> HIDE DEF cost
      <4> QED BY <4>3, <4>4
    <3> QED BY <3>4, <3>5
  <2>4. cost \in Amounts(Symbols) BY <2>3 DEF Amounts
  <2>5. thousand \in Amounts(Symbols) /\ (\A s \in Symbols : thousand[s] = 1000 * cost[s])
    <3> HIDE DEF cost
    <3> QED BY <2>3 DEF Amounts
  <2>6. share \in Amounts(Symbols) /\ (\A s \in Symbols : share[s] = equity * w[s])
    BY <1>1, <2>2 DEF Amounts
  <2>7. \A s \in Symbols : thousand[s] <= share[s]
    <3> HIDE DEF cost
    <3> QED BY <2>3
  <2>8. w \in Amounts(Symbols) BY <2>1 DEF Vectors, Amounts
  <2> HIDE DEF thousand, share, cost
  <2>9. SumFunction(thousand) = 1000 * SumFunction(cost) BY <1>1, <2>4, <2>5, SumScaled
  <2>10. SumFunction(share) = equity * SumFunction(w) BY <1>1, <2>6, <2>8, SumScaled
  <2>11. SumFunction(thousand) <= SumFunction(share) BY <1>1, <2>5, <2>6, <2>7, SumMonotone
  <2>12. SumFunction(cost) \in Int /\ SumFunction(w) \in Int BY <1>1, <2>4, <2>8, SumType
  <2>13. equity * SumFunction(w) <= equity * 1000 BY <1>1, <2>1, <2>12, TimesOrdered
  <2>14. SumFunction(cost) <= equity
    <3> DEFINE C == SumFunction(cost)
               W == equity * SumFunction(w)
    <3>1. C \in Int /\ W \in Int /\ 1000 * C <= W /\ W <= equity * 1000
      BY <1>1, <2>9, <2>10, <2>11, <2>12, <2>13
    <3> HIDE DEF C, W
    <3>2. C <= equity BY <1>1, <3>1
    <3> QED BY <3>2 DEF C
  <2> QED BY <1>4, <2>14 DEF cost, q
<1> QED BY <1>5, <1>6

(* By volatility targets each keeps its cap, by risk parity each carries   *)
(* its share of the target risk.                                           *)
LEMMA PortfolioFacts ==
  ASSUME AllocationIsPosed, NEW price \in [Symbols -> Quotes], NEW vol \in [Symbols -> Vols],
         NEW equity \in Equities, NEW s \in Symbols
  PROVE  /\ 100 * (price[s] * SizePortfolio("VOL_TARGET", price, vol, equity)[s])
              <= MaxPositionPct * equity
         /\ Cardinality(Symbols) * vol[s]
              * (price[s] * SizePortfolio("RISK_PARITY", price, vol, equity)[s])
              <= TargetVol * equity
<1> DEFINE p == price[s]
           v == vol[s]
           n == Cardinality(Symbols)
           a == SizePortfolio("VOL_TARGET", price, vol, equity)[s]
           b == SizePortfolio("RISK_PARITY", price, vol, equity)[s]
<1>1. p \in Quotes /\ v \in Vols OBVIOUS
<1>3. n \in Nat \ {0} BY HowMany
<1>4. a = IF v = 0 THEN 0 ELSE SizePosition("VOL_TARGET", p, v, equity) BY DEF SizePortfolio
<1>5. b = IF v = 0 THEN 0 ELSE (equity * TargetVol) \div (n * v * p) BY DEF SizePortfolio
<1> HIDE DEF p, v, n, a, b
<1>2. p \in Nat \ {0} /\ v \in Nat /\ equity \in Nat /\ TargetVol \in Nat
      /\ MaxPositionPct \in Nat
  BY <1>1 DEF AllocationIsPosed
<1>6. 100 * (p * SizePosition("VOL_TARGET", p, v, equity)) <= MaxPositionPct * equity
  <2>1. "VOL_TARGET" \in Methods /\ p \in Quotes \cup {0} BY <1>1 DEF Methods
  <2> QED BY <1>1, <2>1, SizeFacts
<1>0. MaxPositionPct * equity >= 0 /\ TargetVol * equity >= 0 BY <1>2
<1>7. 100 * (p * a) <= MaxPositionPct * equity
  <2>1. CASE v = 0
    <3>1. a = 0 BY <1>4, <2>1
    <3>2. 100 * (p * 0) = 0 BY <1>2
    <3> QED BY <1>0, <3>1, <3>2
  <2>2. CASE v # 0 BY <1>4, <1>6, <2>2
  <2> QED BY <2>1, <2>2
<1>8. n * v * (p * b) <= TargetVol * equity
  <2>1. CASE v = 0
    <3>1. b = 0 BY <1>5, <2>1
    <3>2. n * 0 * (p * 0) = 0 BY <1>2, <1>3
    <3> QED BY <1>0, <2>1, <3>1, <3>2
  <2>2. CASE v # 0
    <3> DEFINE d == n * v * p
               m == equity * TargetVol
    <3>1. n * v \in Nat \ {0} BY <1>2, <1>3, <2>2
    <3>2. d \in Nat \ {0} BY <1>2, <3>1
    <3>3. m \in Nat BY <1>2
    <3>4. b = m \div d BY <1>5, <2>2
    <3>5. m = TargetVol * equity BY <1>2
    <3> HIDE DEF d, m
    <3>6. b \in Int /\ d * b <= m BY <3>2, <3>3, <3>4, DivFloor
    <3>7. n * v * (p * b) = d * b BY <1>2, <3>1, <3>6 DEF d
    <3> QED BY <3>5, <3>6, <3>7
  <2> QED BY <2>1, <2>2
<1> QED BY <1>7, <1>8 DEF p, v, n, a, b

----------------------------------------------------------------------------
(* The invariant: the chain's promise about the last allocation, and the   *)
(* caps on what was sized last.  Whole numbers keep the net exposure to    *)
(* within two thousandths for each symbol of its limit: it is scaled, and  *)
(* rounded, twice.                                                         *)
AllocInv == Capped(allocated, raw, sectors, strategies) /\ SizesCapped

LEMMA AllocStarts == ASSUME AllocationIsPosed, AllocInit PROVE AllocInv
<1> DEFINE zero == Nothing
<1>1. allocated = zero /\ raw = zero /\ sized.how = "none"
  BY DEF AllocInit, Unsized
<1>2. zero \in Vectors /\ \A s \in Symbols : zero[s] = 0 BY DEF Nothing, Vectors
<1>3. IsFiniteSet(Symbols) BY DEF AllocationIsPosed
<1> HIDE DEF zero
<1>4. ASSUME NEW T \in SUBSET Symbols PROVE GrossOf(zero, T) = 0
  <2> DEFINE f == [s \in T |-> Absolute(zero[s])]
  <2>1. f \in Amounts(T) /\ GrossOf(zero, T) = SumFunction(f) BY <1>2, GrossIs
  <2>2. Absolute(0) = 0 BY AbsIs
  <2>3. \A s \in T : f[s] = 0 BY <1>2, <2>2
  <2>4. IsFiniteSet(T) BY <1>3, FS_Subset
  <2>5. Cardinality(T) \in Nat BY <2>4, FS_CardinalityType
  <2> HIDE DEF f
  <2>6. SumFunction(f) = Cardinality(T) * 0 BY <2>1, <2>3, <2>4, SumEqual
  <2> QED BY <2>1, <2>5, <2>6
<1>5. Cardinality(Symbols) \in Nat BY <1>3, FS_CardinalityType
<1>6. SumFunction(zero) = 0
  <2>1. zero \in Amounts(Symbols) BY <1>2 DEF Vectors, Amounts
  <2>2. SumFunction(zero) = Cardinality(Symbols) * 0 BY <1>2, <1>3, <2>1, SumEqual
  <2> QED BY <1>5, <2>2
<1>7. Gross(zero) = 0 BY <1>4 DEF Gross
<1>8. \A s \in Symbols : Shrunk(zero[s], zero[s]) BY <1>2 DEF Shrunk
<1>9. /\ Limits.max_position_weight \in Nat /\ Limits.max_sector_exposure \in Nat
      /\ Limits.max_strategy_exposure \in Nat /\ Limits.max_gross_exposure \in Nat
      /\ Limits.max_net_exposure \in Nat /\ Limits.max_leverage \in Nat
  BY DEF AllocationIsPosed
<1>10. \A g \in Groups :
         /\ GrossOf(zero, {s \in Symbols : sectors[s] = g}) <= Limits.max_sector_exposure
         /\ GrossOf(zero, {s \in Symbols : strategies[s] = g}) <= Limits.max_strategy_exposure
  BY <1>4, <1>9
<1>11. Capped(zero, zero, sectors, strategies)
  <2>1. \A s \in Symbols : zero[s] \in -Limits.max_position_weight..Limits.max_position_weight
    <3>1. 0 \in -Limits.max_position_weight..Limits.max_position_weight BY <1>9
    <3> QED BY <1>2, <3>1
  <2> DEFINE most == Limits.max_net_exposure + 2 * Cardinality(Symbols)
  <2>2. 0 <= most /\ -most <= 0 BY <1>5, <1>9
  <2> HIDE DEF most
  <2>3. SumFunction(zero) <= most /\ -most <= SumFunction(zero) BY <1>6, <2>2
  <2>4. /\ Gross(zero) <= Limits.max_gross_exposure
        /\ Gross(zero) <= Limits.max_leverage
    BY <1>7, <1>9
  <2> QED BY <1>2, <1>8, <1>10, <2>1, <2>3, <2>4, Zenon DEF Capped, most
<1>12. SizesCapped BY <1>1 DEF SizesCapped
<1> QED BY <1>1, <1>11, <1>12 DEF AllocInv

LEMMA AllocStep ==
  ASSUME AllocationIsPosed, AllocInv, [AllocNext]_allocVars
  PROVE  AllocInv'
<1>1. CASE Allocate
  <2>1. /\ raw' \in Vectors
        /\ sectors' \in [Symbols -> Groups \cup {NoGroup}]
        /\ strategies' \in [Symbols -> Groups \cup {NoGroup}]
        /\ allocated' = Constrained(raw', sectors', strategies')
        /\ sized' = sized
    BY <1>1, RawType DEF Allocate
  <2>2. Capped(allocated', raw', sectors', strategies') BY <2>1, ChainCaps
  <2>3. SizesCapped' BY <2>1 DEF AllocInv, SizesCapped, PortfolioSizesCapped
  <2> QED BY <2>2, <2>3 DEF AllocInv, Capped
<1> DEFINE Kept == UNCHANGED <<allocated, raw, sectors, strategies>>
<1>2. ASSUME Kept, SizesCapped' PROVE AllocInv'
  BY <1>2 DEF AllocInv, Capped
<1>3. ASSUME NEW how \in Methods, NEW price \in Quotes \cup {0}, NEW vol \in Vols,
             NEW equity \in Equities, Size(how, price, vol, equity)
      PROVE  AllocInv'
  <2> DEFINE q == SizePosition(how, price, vol, equity)
  <2>1. Kept /\ sized' = [how |-> how, money |-> price * q, price |-> price, equity |-> equity]
    BY <1>3 DEF Size, Sized
  <2>2. /\ q \in Int
        /\ how \in {"VOL_TARGET", "RISK_PARITY"} => 100 * (price * q) <= MaxPositionPct * equity
        /\ how = "INVERSE_VOL" => 20 * (price * q) <= MaxPositionPct * equity
    BY SizeFacts
  <2> HIDE DEF q
  <2>3. SizesCapped' BY <2>1, <2>2 DEF SizesCapped, Methods
  <2> QED BY <1>2, <2>1, <2>3
<1>4. ASSUME NEW how \in Methods, NEW price \in [Symbols -> Quotes],
             NEW vol \in [Symbols -> Vols], NEW equity \in Equities,
             SizeAll(how, price, vol, equity)
      PROVE  AllocInv'
  <2> DEFINE money == [s \in Symbols |-> price[s] * SizePortfolio(how, price, vol, equity)[s]]
  <2>1. Kept /\ sized' = [how |-> "portfolio", method |-> how, vol |-> vol, equity |-> equity,
                          money |-> money]
    BY <1>4 DEF SizeAll
  <2>2. sized'.how = "portfolio" /\ sized'.method = how /\ sized'.vol = vol
        /\ sized'.equity = equity /\ sized'.money = money
    BY <2>1
  <2>3. how = "INVERSE_VOL" => Sum(money) <= equity BY InverseSharesFit
  <2>4. \A s \in Symbols : /\ how = "VOL_TARGET" => 100 * money[s] <= MaxPositionPct * equity
                           /\ how = "RISK_PARITY" =>
                                Cardinality(Symbols) * vol[s] * money[s] <= TargetVol * equity
    BY PortfolioFacts
  <2> HIDE DEF money
  <2>5. PortfolioSizesCapped' BY <2>2, <2>3, <2>4 DEF PortfolioSizesCapped, Sum
  <2>6. SizesCapped' BY <2>2, <2>5 DEF SizesCapped
  <2> QED BY <1>2, <2>1, <2>6
<1>5. ASSUME NEW enough \in BOOLEAN, NEW price \in Quotes, NEW vol \in Vols,
             NEW equity \in Equities, NEW strength \in {0, 5, 10},
             OnSignal(enough, price, vol, equity, strength)
      PROVE  AllocInv'
  <2> DEFINE q == SizePosition("VOL_TARGET", price, vol, equity)
             size == SizeOrder(enough, price, vol, equity, strength)
  <2>0. price \in Nat \ {0} /\ equity \in Nat /\ MaxPositionPct \in Nat BY DEF AllocationIsPosed
  <2>1. Kept /\ sized' = [how |-> IF enough /\ vol > 0 THEN "order" ELSE "fixed order",
                          money |-> price * size, price |-> price, equity |-> equity]
    BY <1>5 DEF OnSignal, Sized
  <2>2. CASE ~(enough /\ vol > 0)
    <3>1. sized'.how = "fixed order" BY <2>1, <2>2
    <3>2. SizesCapped' BY <3>1 DEF SizesCapped
    <3> QED BY <1>2, <2>1, <3>2
  <2>3. CASE enough /\ vol > 0
    <3>1. size = strength * Max({1, q}) BY <2>3 DEF SizeOrder
    <3>2. q \in Int /\ 100 * (price * q) <= MaxPositionPct * equity
      <4>1. "VOL_TARGET" \in Methods BY DEF Methods
      <4> QED BY <4>1, SizeFacts
    <3> HIDE DEF q, size
    <3>3. Max({1, q}) = IF 1 >= q THEN 1 ELSE q BY <3>2 DEF Max
    <3>4. 10 * (price * size) <= MaxPositionPct * equity \/ price * size <= 10 * price
      <4>1. CASE 1 >= q
        <5>1. size = strength BY <3>1, <3>3, <4>1
        <5>2. price * strength <= price * 10 BY <2>0, TimesOrdered
        <5> QED BY <2>0, <5>1, <5>2
      <4>2. CASE q > 1
        <5> DEFINE k == price * q
        <5>1. k \in Nat BY <2>0, <3>2, <4>2
        <5>2. price * size = strength * k
          <6>1. size = strength * q BY <3>1, <3>2, <3>3, <4>2
          <6> QED BY <2>0, <3>2, <6>1
        <5>3. 100 * k <= MaxPositionPct * equity BY <3>2
        <5> HIDE DEF k
        <5>4. strength * k = 0 \/ strength * k = 5 * k \/ strength * k = 10 * k BY <5>1
        <5>5. MaxPositionPct * equity \in Int BY <2>0
        <5> QED BY <5>1, <5>2, <5>3, <5>4, <5>5
      <4> QED BY <3>2, <4>1, <4>2
    <3>5. sized'.how = "order" /\ sized'.money = price * size /\ sized'.price = price
          /\ sized'.equity = equity
      BY <2>1, <2>3
    <3>6. SizesCapped' BY <3>4, <3>5 DEF SizesCapped
    <3> QED BY <1>2, <2>1, <3>6
  <2> QED BY <2>2, <2>3
<1>6. CASE UNCHANGED allocVars
  <2>1. Kept /\ sized' = sized BY <1>6 DEF allocVars
  <2>2. SizesCapped' BY <2>1 DEF AllocInv, SizesCapped, PortfolioSizesCapped
  <2> QED BY <1>2, <2>1, <2>2
<1> QED BY <1>1, <1>3, <1>4, <1>5, <1>6 DEF AllocNext

(* For any symbols, groups, limits, signals, volatilities, prices and      *)
(* equity: the weights that come out of the chain keep the limits of the   *)
(* position, of each named sector and strategy, gross and leverage, and no *)
(* weight changes its sign; the net exposure keeps its limit but for the   *)
(* rounding; and a size keeps what its way of sizing holds to: the cap of  *)
(* a position, five times the cap, the equity for all together, or no more *)
(* than a share of the target risk, at any cost.                           *)
THEOREM AllocationCorrect ==
  ASSUME AllocationIsPosed
  PROVE  AllocSpec => []PortfolioCapped
<1>1. ASSUME AllocInv PROVE PositionLimitHolds
  <2> SUFFICES ASSUME NEW s \in Symbols PROVE allocated[s] * raw[s] >= 0
    BY <1>1 DEF AllocInv, Capped, PositionLimitHolds
  <2> DEFINE v == allocated[s]
             w == raw[s]
  <2>1. Shrunk(v, w) BY <1>1 DEF AllocInv, Capped
  <2> HIDE DEF v, w
  <2>2. v * w >= 0
    <3>1. CASE w >= 0 /\ v >= 0
      <4>1. v * 0 <= v * w BY <2>1, <3>1, TimesOrdered DEF Shrunk
      <4> QED BY <2>1, <3>1, <4>1 DEF Shrunk
    <3>2. CASE w <= 0 /\ v <= 0
      <4> DEFINE a == -v
                 b == -w
      <4>1. a \in Nat /\ b \in Nat BY <2>1, <3>2 DEF Shrunk
      <4>2. v * w = a * b BY <2>1 DEF Shrunk
      <4> HIDE DEF a, b
      <4>3. a * 0 <= a * b BY <4>1, TimesOrdered
      <4> QED BY <4>1, <4>2, <4>3
    <3> QED BY <2>1, <3>1, <3>2 DEF Shrunk
  <2> QED BY <2>2 DEF v, w
<1>2. ASSUME AllocInv PROVE GroupLimitsHold
  BY <1>2 DEF AllocInv, Capped, GroupLimitsHold, Named
<1>3. ASSUME AllocInv PROVE TotalLimitsHold
  BY <1>3 DEF AllocInv, Capped, TotalLimitsHold, Least
<1>4. ASSUME AllocInv PROVE NetLimitHolds
  <2> DEFINE W == SumFunction(allocated)
             most == Limits.max_net_exposure + 2 * Cardinality(Symbols)
  <2>1. IsFiniteSet(Symbols) /\ Limits.max_net_exposure \in Nat BY DEF AllocationIsPosed
  <2>2. allocated \in Amounts(Symbols) BY <1>4 DEF AllocInv, Capped, Vectors, Amounts
  <2>3. W \in Int BY <2>1, <2>2, SumType
  <2>4. most \in Int BY <2>1, FS_CardinalityType
  <2>5. W <= most /\ -most <= W BY <1>4 DEF AllocInv, Capped
  <2>6. Sum(allocated) = W BY DEF Sum
  <2>7. Limits.max_net_exposure + 2 * Cardinality(Symbols) = most OBVIOUS
  <2> HIDE DEF W, most
  <2>8. Absolute(W) <= most BY <2>3, <2>4, <2>5, AbsIs
  <2> QED BY <2>6, <2>7, <2>8 DEF NetLimitHolds
<1>5. AllocInv => PortfolioCapped
  BY <1>1, <1>2, <1>3, <1>4 DEF AllocInv, PortfolioCapped, WeightsCapped
<1>6. AllocInit => AllocInv BY AllocStarts
<1>7. AllocInv /\ [AllocNext]_allocVars => AllocInv' BY AllocStep
<1> QED BY <1>5, <1>6, <1>7, PTL DEF AllocSpec

(* Deployments and allocations side by side, in whatever order their       *)
(* callers come: neither gives out what there is not.                      *)
THEOREM CapitalCorrect ==
  ASSUME DeploymentIsPosed, AllocationIsPosed
  PROVE  CapitalSpec => []CapsHold
<1>1. DeploymentSound /\ PortfolioCapped => CapsHold BY DEF CapsHold
<1>2. DeploySpec => []DeploymentSound BY DeploymentCorrect
<1>3. AllocSpec => []PortfolioCapped BY AllocationCorrect
<1> QED BY <1>1, <1>2, <1>3, PTL DEF CapitalSpec

----------------------------------------------------------------------------
(* The monitor of an alpha.                                                *)
(* Coefficients and thresholds are numbers; the threshold of the sum is    *)
(* not negative, and a window is not empty.                                *)
MonitorIsPosed ==
  /\ Ics \subseteq Int /\ Target \in Int /\ Threshold \in Nat
  /\ Warning \in Int /\ Critical \in Int /\ MinObservations \in Nat

(* A stretch of reports, all of them with a coefficient.                   *)
CleanRun(list, k) == \A i \in k..Len(list) : list[i] # NoIc
Shortfall(list, k) == SumFunction([i \in k..Len(list) |-> Target - list[i]])

(* The negative sum is the greatest shortfall of a clean stretch of        *)
(* reports up to the last, or zero.                                        *)
IsWorst(list, sum) ==
  /\ sum \in Int /\ sum <= 0
  /\ \A k \in DOMAIN list : CleanRun(list, k) => Shortfall(list, k) <= -sum
  /\ sum < 0 => \E k \in DOMAIN list : CleanRun(list, k) /\ Shortfall(list, k) = -sum

MonitorInv ==
  /\ observations \in 0..MinObservations
  /\ ic \in Ics \cup {NoIc}
  /\ ics \in Seq(Int)
  /\ IsWorst(ics, cusum_neg)
  /\ ics # <<>> => /\ observations = MinObservations
                   /\ (status = "CRITICAL") <=> -cusum_neg > Threshold

(* One more report adds its own shortfall to every stretch.                *)
LEMMA ShortfallAppend ==
  ASSUME Target \in Int, NEW list \in Seq(Int), NEW c \in Int,
         NEW k \in 1..Len(list) + 1
  PROVE  /\ Shortfall(Append(list, c), k)
              = (IF k \in DOMAIN list THEN Shortfall(list, k) ELSE 0) + (Target - c)
         /\ k \in DOMAIN list => Shortfall(list, k) \in Int
         /\ CleanRun(Append(list, c), k) <=>
              (c # NoIc /\ (k \in DOMAIN list => CleanRun(list, k)))
<1> DEFINE n == Len(list)
           longer == Append(list, c)
           S == k..(n + 1)
           f == [i \in S |-> Target - longer[i]]
           g == [i \in k..n |-> Target - list[i]]
<1>1. n \in Nat /\ DOMAIN list = 1..n BY LenProperties
<1>2. /\ longer \in Seq(Int) /\ Len(longer) = n + 1 /\ longer[n + 1] = c
      /\ \A i \in 1..n : longer[i] = list[i]
  BY AppendProperties
<1>3. \A i \in 1..n : list[i] \in Int BY <1>1, ElementOfSeq
<1>4. \A i \in S : longer[i] \in Int
  <2> SUFFICES ASSUME NEW i \in S PROVE longer[i] \in Int OBVIOUS
  <2>1. CASE i = n + 1 BY <1>2, <2>1
  <2>2. CASE i # n + 1
    <3>1. i \in 1..n BY <1>1, <2>2
    <3> QED BY <1>2, <1>3, <3>1
  <2> QED BY <2>1, <2>2
<1>5. IsFiniteSet(S) /\ n + 1 \in S BY <1>1, FS_Interval
<1>6. f \in Amounts(S) BY <1>4 DEF Amounts
<1>7. S \ {n + 1} = k..n BY <1>1
<1>8. Restrict(f, S \ {n + 1}) = g
  <2>1. \A i \in k..n : i \in S /\ f[i] = g[i] BY <1>1, <1>2
  <2> HIDE DEF f
  <2>2. Restrict(f, k..n) = g BY <2>1 DEF Restrict
  <2> QED BY <1>7, <2>2
<1>9. SumFunction(f) = f[n + 1] + SumFunction(g) /\ SumFunction(g) \in Int
  <2> HIDE DEF f, S, g
  <2>1. /\ SumFunction(f) = f[n + 1] + SumFunction(Restrict(f, S \ {n + 1}))
        /\ SumFunction(Restrict(f, S \ {n + 1})) \in Int
    BY <1>5, <1>6, SumRemove
  <2> QED BY <1>8, <2>1
<1>10. f[n + 1] = Target - c BY <1>2, <1>5
<1>11. Shortfall(longer, k) = SumFunction(f) BY <1>2 DEF Shortfall
<1>12. Shortfall(list, k) = SumFunction(g) BY DEF Shortfall
<1>13. k \notin DOMAIN list => SumFunction(g) = 0
  <2> SUFFICES ASSUME k \notin DOMAIN list PROVE SumFunction(g) = 0 OBVIOUS
  <2>1. k..n = {} BY <1>1
  <2>2. g \in Amounts({}) BY <2>1 DEF Amounts
  <2> QED BY <2>2, SumEmpty
<1>14. CleanRun(longer, k) <=> (c # NoIc /\ (k \in DOMAIN list => CleanRun(list, k)))
  <2>1. CleanRun(longer, k) <=> \A i \in S : longer[i] # NoIc BY <1>2 DEF CleanRun
  <2>2. (\A i \in S : longer[i] # NoIc)
          <=> (c # NoIc /\ \A i \in k..n : list[i] # NoIc)
    BY <1>1, <1>2, <1>5, <1>7
  <2>3. k \notin DOMAIN list => k..n = {} BY <1>1
  <2> QED BY <2>1, <2>2, <2>3 DEF CleanRun
<1> HIDE DEF f, g
<1>15. SumFunction(f) = (IF k \in DOMAIN list THEN SumFunction(g) ELSE 0) + (Target - c)
  BY <1>9, <1>10, <1>13
<1> QED BY <1>9, <1>11, <1>12, <1>14, <1>15

(* A report with a coefficient moves the sum by what it falls short, down  *)
(* to the greatest shortfall; one without starts the sum anew.             *)
LEMMA WorstOfMore ==
  ASSUME Target \in Int, NEW list \in Seq(Int), NEW sum, IsWorst(list, sum), NEW c \in Int,
         NEW next, next = IF c = NoIc THEN 0
                          ELSE IF 0 <= sum + c - Target THEN 0 ELSE sum + c - Target
  PROVE  IsWorst(Append(list, c), next)
<1> DEFINE longer == Append(list, c)
           n == Len(list)
<1>1. /\ n \in Nat /\ DOMAIN list = 1..n /\ DOMAIN longer = 1..n + 1
  BY LenProperties, AppendProperties
<1>2. sum \in Int /\ sum <= 0 /\ next \in Int /\ next <= 0 BY DEF IsWorst
<1>3. ASSUME NEW k \in DOMAIN longer
      PROVE  /\ Shortfall(longer, k)
                  = (IF k \in DOMAIN list THEN Shortfall(list, k) ELSE 0) + (Target - c)
             /\ k \in DOMAIN list => Shortfall(list, k) \in Int
             /\ CleanRun(longer, k) <=>
                  (c # NoIc /\ (k \in DOMAIN list => CleanRun(list, k)))
  <2>1. k \in 1..Len(list) + 1 BY <1>1
  <2> QED BY <2>1, ShortfallAppend
<1>4. ASSUME NEW k \in DOMAIN longer, CleanRun(longer, k) PROVE Shortfall(longer, k) <= -next
  <2>1. c # NoIc BY <1>3, <1>4
  <2>2. CASE k \in DOMAIN list
    <3>1. CleanRun(list, k) BY <1>3, <1>4, <2>2
    <3>2. Shortfall(list, k) <= -sum BY <2>2, <3>1 DEF IsWorst
    <3>3. Shortfall(longer, k) = Shortfall(list, k) + (Target - c) /\ Shortfall(list, k) \in Int
      BY <1>3, <2>2
    <3> QED BY <1>2, <2>1, <3>2, <3>3
  <2>3. CASE k \notin DOMAIN list
    <3>1. Shortfall(longer, k) = 0 + (Target - c) BY <1>3, <2>3
    <3> QED BY <1>2, <2>1, <3>1
  <2> QED BY <2>2, <2>3
<1>5. ASSUME next < 0
      PROVE  \E k \in DOMAIN longer : CleanRun(longer, k) /\ Shortfall(longer, k) = -next
  <2>1. c # NoIc /\ next = sum + c - Target BY <1>5
  <2>2. CASE sum < 0
    <3>1. PICK k \in DOMAIN list : CleanRun(list, k) /\ Shortfall(list, k) = -sum
      BY <2>2 DEF IsWorst
    <3>2. k \in DOMAIN longer BY <1>1
    <3>3. CleanRun(longer, k) BY <1>3, <2>1, <3>1, <3>2
    <3>4. Shortfall(longer, k) = Shortfall(list, k) + (Target - c) BY <1>3, <3>2
    <3>5. Shortfall(longer, k) = -next BY <1>2, <2>1, <3>1, <3>4
    <3> QED BY <3>2, <3>3, <3>5
  <2>3. CASE sum = 0
    <3>1. n + 1 \in DOMAIN longer /\ n + 1 \notin DOMAIN list BY <1>1
    <3>2. CleanRun(longer, n + 1) BY <1>3, <2>1, <3>1
    <3>3. Shortfall(longer, n + 1) = 0 + (Target - c) BY <1>3, <3>1
    <3>4. Shortfall(longer, n + 1) = -next BY <2>1, <2>3, <3>3
    <3> QED BY <3>1, <3>2, <3>4
  <2> QED BY <1>2, <2>2, <2>3
<1> QED BY <1>2, <1>4, <1>5 DEF IsWorst

LEMMA MonitorStarts == ASSUME MonitorIsPosed, MonitorInit PROVE MonitorInv
<1>1. IsWorst(<<>>, 0) BY DEF IsWorst
<1> QED BY <1>1 DEF MonitorIsPosed, MonitorInit, MonitorInv

LEMMA MonitorStep ==
  ASSUME MonitorIsPosed, MonitorInv, [MonitorNext]_monitorVars PROVE MonitorInv'
<1> USE DEF MonitorInv
<1>1. CASE Update
  <2>1. observations \in Int /\ MinObservations \in Int /\ observations + 1 \in Int
    BY DEF MonitorIsPosed
  <2>2. Min({observations + 1, MinObservations})
          = IF observations + 1 <= MinObservations THEN observations + 1 ELSE MinObservations
    BY <2>1, LesserOfTwo
  <2>3. /\ observations' \in 0..MinObservations
        /\ observations = MinObservations => observations' = MinObservations
    BY <1>1, <2>1, <2>2 DEF Update, MonitorIsPosed
  <2> QED BY <1>1, <2>3 DEF Update
<1>2. CASE HealthReport
  <2>1. CASE observations < MinObservations
    <3>1. ics = <<>> BY <2>1 DEF MonitorIsPosed
    <3> QED BY <1>2, <2>1, <3>1 DEF HealthReport
  <2>2. CASE ~(observations < MinObservations)
    <3>1. observations = MinObservations BY <2>2 DEF MonitorIsPosed
    <3>2. /\ Accumulate /\ status' = StatusOf(cusum_neg')
          /\ ics' = Append(ics, ic) /\ observations' = observations /\ ic' = ic
      BY <1>2, <2>2 DEF HealthReport
    <3>3. ic \in Int /\ Target \in Int /\ NoIc \in Int
      BY DEF MonitorIsPosed, NoIc
    <3>4. cusum_neg \in Int /\ cusum_neg + ic - Target \in Int
      BY <3>3 DEF IsWorst
    <3>5. Min({0, cusum_neg + ic - Target})
            = IF 0 <= cusum_neg + ic - Target THEN 0 ELSE cusum_neg + ic - Target
      <4> DEFINE next == cusum_neg + ic - Target
      <4>1. 0 \in Int /\ next \in Int BY <3>4
      <4> HIDE DEF next
      <4>2. Min({0, next}) = IF 0 <= next THEN 0 ELSE next BY <4>1, LesserOfTwo
      <4> QED BY <4>2 DEF next
    <3>6. cusum_neg' = IF ic = NoIc THEN 0
                       ELSE IF 0 <= cusum_neg + ic - Target THEN 0 ELSE cusum_neg + ic - Target
      BY <3>2, <3>5 DEF Accumulate
    <3>7. IsWorst(ics', cusum_neg')
      <4>1. IsWorst(Append(ics, ic), cusum_neg') BY <3>3, <3>6, WorstOfMore
      <4> QED BY <3>2, <4>1
    <3>8. (status' = "CRITICAL") <=> -(cusum_neg') > Threshold
      BY <3>2 DEF StatusOf
    <3>9. ics' \in Seq(Int) BY <3>2, <3>3, AppendProperties
    <3> QED BY <3>1, <3>2, <3>7, <3>8, <3>9
  <2> QED BY <2>1, <2>2
<1>3. CASE ResetCusum
  <2>1. IsWorst(<<>>, 0) BY DEF IsWorst
  <2> QED BY <1>3, <2>1 DEF ResetCusum
<1>4. CASE UNCHANGED monitorVars BY <1>4 DEF monitorVars
<1> QED BY <1>1, <1>2, <1>3, <1>4 DEF MonitorNext

(* For any coefficients, target, thresholds and windows, however           *)
(* observations, reports and resets follow each other: a report is         *)
(* CRITICAL if and only if over some stretch of reports up to it the       *)
(* coefficient fell short of its target by more than the threshold.        *)
THEOREM MonitorCorrect ==
  ASSUME MonitorIsPosed
  PROVE  MonitorSpec => []DegradationNoticed
<1>1. ASSUME MonitorInv PROVE DegradationNoticed
  <2> SUFFICES ASSUME ics # <<>>
               PROVE  (status = "CRITICAL") <=>
                        \E k \in DOMAIN ics : CleanRun(ics, k) /\ Shortfall(ics, k) > Threshold
    <3>1. \A k \in DOMAIN ics : ShortfallFrom(k) = Shortfall(ics, k)
      BY DEF ShortfallFrom, Shortfall
    <3> QED BY <3>1 DEF DegradationNoticed, CleanRun
  <2>1. (status = "CRITICAL") <=> -cusum_neg > Threshold BY <1>1 DEF MonitorInv
  <2>2. cusum_neg \in Int /\ cusum_neg <= 0 /\ Threshold \in Nat
    BY <1>1 DEF MonitorInv, IsWorst, MonitorIsPosed
  <2>3. ASSUME -cusum_neg > Threshold
        PROVE  \E k \in DOMAIN ics : CleanRun(ics, k) /\ Shortfall(ics, k) > Threshold
    <3>1. cusum_neg < 0 BY <2>2, <2>3
    <3> QED BY <1>1, <2>3, <3>1 DEF MonitorInv, IsWorst
  <2>4. ASSUME NEW k \in DOMAIN ics, CleanRun(ics, k), Shortfall(ics, k) > Threshold
        PROVE  -cusum_neg > Threshold
    <3>1. Shortfall(ics, k) <= -cusum_neg BY <1>1, <2>4 DEF MonitorInv, IsWorst
    <3>2. Shortfall(ics, k) \in Int
      <4> DEFINE S == k..Len(ics)
                 f == [i \in S |-> Target - ics[i]]
      <4>1. ics \in Seq(Int) /\ Len(ics) \in Nat /\ DOMAIN ics = 1..Len(ics) /\ Target \in Int
        BY <1>1, LenProperties DEF MonitorInv, MonitorIsPosed
      <4>2. \A i \in S : ics[i] \in Int
        BY <2>4, <4>1, ElementOfSeq
      <4>3. f \in Amounts(S) BY <4>1, <4>2 DEF Amounts
      <4>4. IsFiniteSet(S) BY <2>4, <4>1, FS_Interval
      <4> HIDE DEF S
      <4>5. SumFunction(f) \in Int BY <4>3, <4>4, SumType
      <4> QED BY <4>5 DEF Shortfall, S
    <3> QED BY <2>2, <2>4, <3>1, <3>2
  <2> QED BY <2>1, <2>3, <2>4
<1>2. MonitorInit => MonitorInv BY MonitorStarts
<1>3. MonitorInv /\ [MonitorNext]_monitorVars => MonitorInv' BY MonitorStep
<1> QED BY <1>1, <1>2, <1>3, PTL DEF MonitorSpec

----------------------------------------------------------------------------
(* The regime and forecast engines.                                        *)
(* Counts are numbers, histories and refit intervals not empty, and no     *)
(* refit falls due before there may be a forecast.                         *)
RegimeIsPosed ==
  /\ VolWindow \in Nat /\ HistoryLength \in Nat \ {0} /\ MinHmm \in Nat /\ MinForecast \in Nat
  /\ RefitEvery \in Nat \ {0} /\ MinForecast <= RefitEvery

----------------------------------------------------------------------------
(* Sequences that grow at their end.                                       *)
LEMMA PartOf ==
  ASSUME NEW S, NEW s \in Seq(S), NEW a \in Nat \ {0}, NEW n \in Nat, n <= Len(s)
  PROVE  LET part == SubSeq(s, a, n)
         IN  /\ part \in Seq(S)
             /\ Len(part) = IF a <= n THEN n - a + 1 ELSE 0
             /\ \A i \in 1..n - a + 1 : part[i] = s[a + i - 1]
<1>1. Len(s) \in Nat BY LenProperties
<1>2. \A i \in a..n : s[i] \in S
  <2> SUFFICES ASSUME NEW i \in a..n PROVE s[i] \in S OBVIOUS
  <2>1. i \in 1..Len(s) BY <1>1
  <2> QED BY <2>1, ElementOfSeq
<1>3. a \in Int /\ n \in Int OBVIOUS
<1> QED BY <1>2, <1>3, SubSeqProperties

LEMMA AppendFacts ==
  ASSUME NEW S, NEW s \in Seq(S), NEW x \in S
  PROVE  /\ Len(s) \in Nat
         /\ Append(s, x) \in Seq(S) /\ Len(Append(s, x)) = Len(s) + 1
         /\ Append(s, x)[Len(s) + 1] = x
         /\ \A i \in 1..Len(s) : Append(s, x)[i] = s[i]
BY AppendProperties, LenProperties

LEMMA SubSeqOfMore ==
  ASSUME NEW S, NEW s \in Seq(S), NEW x \in S, NEW a \in Nat \ {0}, NEW n \in Nat, n <= Len(s)
  PROVE  SubSeq(Append(s, x), a, n) = SubSeq(s, a, n)
<1> DEFINE t == Append(s, x)
           f == SubSeq(t, a, n)
           g == SubSeq(s, a, n)
<1>1. Len(s) \in Nat /\ t \in Seq(S) /\ Len(t) = Len(s) + 1 /\ \A i \in 1..Len(s) : t[i] = s[i]
  BY AppendFacts
<1>2. n <= Len(t) BY <1>1
<1> HIDE DEF t
<1>3. /\ f \in Seq(S) /\ Len(f) = (IF a <= n THEN n - a + 1 ELSE 0)
      /\ \A i \in 1..n - a + 1 : f[i] = t[a + i - 1]
  BY <1>1, <1>2, PartOf
<1>4. /\ g \in Seq(S) /\ Len(g) = (IF a <= n THEN n - a + 1 ELSE 0)
      /\ \A i \in 1..n - a + 1 : g[i] = s[a + i - 1]
  BY PartOf
<1> HIDE DEF f, g
<1>5. \A i \in 1..Len(f) : f[i] = g[i]
  <2> SUFFICES ASSUME NEW i \in 1..Len(f) PROVE f[i] = g[i] OBVIOUS
  <2>1. i \in 1..n - a + 1 /\ a + i - 1 \in 1..Len(s) BY <1>1, <1>3
  <2> QED BY <1>1, <1>3, <1>4, <2>1
<1>6. f = g BY <1>3, <1>4, <1>5, SeqEqual
<1> QED BY <1>6 DEF f, g, t

LEMMA SubSeqMore ==
  ASSUME NEW S, NEW s \in Seq(S), NEW n \in 1..Len(s), NEW a \in 1..n
  PROVE  /\ SubSeq(s, a, n) = Append(SubSeq(s, a, n - 1), s[n])
         /\ SubSeq(s, a, n - 1) \in Seq(S) /\ s[n] \in S
<1>1. Len(s) \in Nat /\ s[n] \in S BY ElementOfSeq, LenProperties
<1>2. /\ a \in 1..Len(s) /\ n \in a..Len(s)
      /\ a \in Nat \ {0} /\ n - 1 \in Nat /\ n - 1 <= Len(s)
  BY <1>1
<1> DEFINE g == SubSeq(s, a, n - 1)
<1>3. g \in Seq(S) BY <1>2, PartOf
<1>4. SubSeq(s, a, n) = g \o <<s[n]>> BY <1>2, SubSeqRecursiveSecond
<1> HIDE DEF g
<1>5. g \o <<s[n]>> = Append(g, s[n]) BY <1>1, <1>3
<1> QED BY <1>1, <1>3, <1>4, <1>5 DEF g

(* The last few of a list, one more appended, are the last few of the last *)
(* few, one more appended.                                                 *)
LEMMA LastFewAppend ==
  ASSUME NEW S, NEW s \in Seq(S), NEW x \in S, NEW h \in Nat \ {0}
  PROVE  /\ LastFew(s, h) \in Seq(S)
         /\ LastFew(Append(LastFew(s, h), x), h)
              = LastFew(Append(s, x), h)
<1> DEFINE n == Len(s)
           t == Append(s, x)
<1>1. n \in Nat /\ t \in Seq(S) /\ Len(t) = n + 1 /\ t[n + 1] = x /\ \A i \in 1..n : t[i] = s[i]
  BY AppendFacts
<1>2. CASE n <= h
  <2>1. LastFew(s, h) = s BY <1>2 DEF LastFew
  <2> QED BY <2>1
<1>3. CASE ~(n <= h)
  <2> DEFINE g == SubSeq(s, n - h + 1, n)
             u == Append(g, x)
             v == SubSeq(u, 2, h + 1)
             w == SubSeq(t, n + 1 - h + 1, n + 1)
  <2>1. /\ n - h + 1 \in Nat \ {0} /\ n <= Len(s) /\ n + 1 - h + 1 \in Nat \ {0}
        /\ n + 1 \in Nat /\ h + 1 \in Nat /\ 2 \in Nat \ {0}
    BY <1>1, <1>3
  <2>2. g \in Seq(S) /\ Len(g) = h /\ \A i \in 1..h : g[i] = s[n - h + i]
    <3>1. /\ g \in Seq(S) /\ Len(g) = (IF n - h + 1 <= n THEN n - (n - h + 1) + 1 ELSE 0)
          /\ \A i \in 1..n - (n - h + 1) + 1 : g[i] = s[n - h + 1 + i - 1]
      BY <1>1, <2>1, PartOf
    <3> HIDE DEF g
    <3>2. n - (n - h + 1) + 1 = h /\ n - h + 1 <= n BY <1>1
    <3>3. \A i \in 1..h : n - h + 1 + i - 1 = n - h + i BY <1>1
    <3> QED BY <3>1, <3>2, <3>3
  <2>3. LastFew(s, h) = g BY <1>3 DEF LastFew
  <2> HIDE DEF g
  <2>4. Len(u) = h + 1 /\ u \in Seq(S) /\ u[h + 1] = x /\ \A i \in 1..h : u[i] = g[i]
    BY <2>2, AppendFacts
  <2> HIDE DEF u
  <2>5. LastFew(u, h) = v
    <3>1. ~(Len(u) <= h) /\ Len(u) - h + 1 = 2 BY <2>4
    <3> QED BY <2>4, <3>1 DEF LastFew
  <2>6. /\ v \in Seq(S) /\ Len(v) = h /\ \A i \in 1..h : v[i] = u[i + 1]
    <3>1. /\ v \in Seq(S) /\ Len(v) = (IF 2 <= h + 1 THEN h + 1 - 2 + 1 ELSE 0)
          /\ \A i \in 1..h + 1 - 2 + 1 : v[i] = u[2 + i - 1]
      BY <2>1, <2>4, PartOf
    <3> HIDE DEF v
    <3>2. h + 1 - 2 + 1 = h /\ 2 <= h + 1 /\ \A i \in 1..h : 2 + i - 1 = i + 1 OBVIOUS
    <3> QED BY <3>1, <3>2
  <2> HIDE DEF t
  <2>7. LastFew(t, h) = w
    <3>1. ~(Len(t) <= h) /\ Len(t) - h + 1 = n + 1 - h + 1 BY <1>1, <1>3
    <3> QED BY <1>1, <3>1 DEF LastFew
  <2>8. /\ w \in Seq(S) /\ Len(w) = h /\ \A i \in 1..h : w[i] = t[n - h + i + 1]
    <3>1. /\ w \in Seq(S)
          /\ Len(w) = (IF n + 1 - h + 1 <= n + 1 THEN n + 1 - (n + 1 - h + 1) + 1 ELSE 0)
          /\ \A i \in 1..n + 1 - (n + 1 - h + 1) + 1 : w[i] = t[n + 1 - h + 1 + i - 1]
      BY <1>1, <2>1, PartOf
    <3> HIDE DEF w
    <3>2. n + 1 - (n + 1 - h + 1) + 1 = h /\ n + 1 - h + 1 <= n + 1 BY <1>1
    <3>3. \A i \in 1..h : n + 1 - h + 1 + i - 1 = n - h + i + 1 BY <1>1
    <3> QED BY <3>1, <3>2, <3>3
  <2>9. \A i \in 1..h : v[i] = w[i]
    <3> SUFFICES ASSUME NEW i \in 1..h PROVE u[i + 1] = t[n - h + i + 1] BY <2>6, <2>8
    <3>1. CASE i = h
      <4>1. n - h + i + 1 = n + 1 BY <1>1, <3>1
      <4> QED BY <1>1, <2>4, <3>1, <4>1
    <3>2. CASE i # h
      <4>1. i + 1 \in 1..h /\ n - h + i + 1 \in 1..n BY <1>1, <1>3, <3>2
      <4>2. u[i + 1] = g[i + 1] BY <2>4, <4>1
      <4>3. g[i + 1] = s[n - h + (i + 1)] BY <2>2, <4>1
      <4>4. n - h + (i + 1) = n - h + i + 1 BY <1>1
      <4>5. t[n - h + i + 1] = s[n - h + i + 1] BY <1>1, <4>1
      <4> QED BY <4>2, <4>3, <4>4, <4>5
    <3> QED BY <3>1, <3>2
  <2> HIDE DEF v, w
  <2>10. v = w BY <2>6, <2>8, <2>9, SeqEqual
  <2> QED BY <2>2, <2>3, <2>5, <2>7, <2>10 DEF u, t
<1> QED BY <1>1, <1>2, <1>3

(* Among so many numbers in a row one is a multiple.                       *)
LEMMA MultipleInRow ==
  ASSUME NEW r \in Nat \ {0}, NEW m \in Nat
  PROVE  \E k \in m..m + r - 1 : k % r = 0
<1> DEFINE q == m \div r
           p == m % r
<1>1. q \in Int /\ p \in 0..r - 1 /\ m = r * q + p BY SMT
<1>2. CASE p = 0
  <2>1. m \in m..m + r - 1 OBVIOUS
  <2> QED BY <1>2, <2>1
<1>3. CASE p # 0
  <2> DEFINE k == r * (q + 1)
  <2>1. k = r * q + r BY <1>1, SMT
  <2> HIDE DEF q, p
  <2>2. k \in Int /\ k \in m..m + r - 1 BY <1>1, <1>3, <2>1
  <2>3. k % r = 0 BY <1>1, SMT
  <2> QED BY <2>2, <2>3
<1> QED BY <1>2, <1>3
----------------------------------------------------------------------------
(* How many bars the engine has labelled, by its detectors or by its       *)
(* forecasts.                                                              *)
Done(model) ==
  IF Len(readings) = 0 THEN 0
  ELSE IF labels[Len(labels)][model] # "-" THEN Len(readings) ELSE Len(readings) - 1

Words == {"-", "raised", "NORMAL", "EXTREME", "HIGH", "LOW"}
Labels == [vol : Words, corr : Words, forecast : Words]

RegimeTypes ==
  /\ readings \in Seq(Readings) /\ labels \in Seq(Labels) /\ Len(labels) = Len(readings)
  /\ vol_history \in Seq(Readings) /\ corr_history \in Seq(Readings)
  /\ reported \in BOOLEAN /\ hmm \in Nat /\ garch \in Nat
  /\ raised \in [hmm : Nat, garch : Nat]

(* The histories hold what the report of the whole series would rank the   *)
(* last bar in; after a report this is not so of the correlations.         *)
HistoryInv ==
  /\ vol_history = LastFew(ReadingsTo(Done("vol")), HistoryLength)
  /\ ~reported => corr_history = vol_history
  /\ ensemble = SubSeq(readings, MinForecast + 1, Done("forecast"))

(* Since a model was fitted a refit raised no earlier than any that was    *)
(* due, unless there were too few returns for one.                         *)
FitInv ==
  /\ call_count = Done("vol")
  /\ hmm # 0 => /\ hmm <= Done("vol") /\ MinHmm <= hmm - 1
                /\ \A k \in hmm + 1..Done("vol") :
                     k % RefitEvery = 0 => k <= raised.hmm
  /\ raised.hmm <= Len(readings) /\ raised.garch <= Len(readings)
  /\ garch <= Len(readings)
  /\ garch # 0 => \A k \in garch..Done("forecast") - 1 :
                    MinForecast <= k /\ k % RefitEvery = 0 => k < raised.garch

RegimeInv == RegimeTypes /\ HistoryInv /\ FitInv /\ LabelsAgree

----------------------------------------------------------------------------
LEMMA DoneFacts ==
  ASSUME RegimeTypes
  PROVE  /\ Len(readings) \in Nat /\ Done("vol") \in Nat /\ Done("forecast") \in Nat
         /\ Done("vol") <= Len(readings) /\ Done("forecast") <= Len(readings)
         /\ Asked("vol") <=> Len(readings) > 0 /\ Done("vol") = Len(readings)
         /\ Asked("forecast") <=> Len(readings) > 0 /\ Done("forecast") = Len(readings)
         /\ ~Asked("vol") /\ Len(readings) > 0 => Done("vol") = Len(readings) - 1
         /\ ~Asked("forecast") /\ Len(readings) > 0 =>
              Done("forecast") = Len(readings) - 1
<1>1. Len(readings) \in Nat BY LenProperties DEF RegimeTypes
<1>2. \A m \in {"vol", "forecast"} :
        Asked(m) <=> Len(readings) > 0 /\ labels[Len(labels)][m] # "-"
  BY DEF Asked, Now, Last
<1> QED BY <1>1, <1>2 DEF Done

(* A label is one of four, none of them the words that stand for none.     *)
LEMMA ClassifyIsLabel ==
  ASSUME NEW x, NEW hist
  PROVE  Classify(x, hist) \in Words \ {"-", "raised"}
BY DEF Classify, Words

LEMMA ReadingsToFacts ==
  ASSUME RegimeIsPosed, RegimeTypes, NEW n \in Nat, n <= Len(readings)
  PROVE  /\ ReadingsTo(n) \in Seq(Readings)
         /\ n <= VolWindow => ReadingsTo(n) = <<>>
         /\ n > VolWindow => /\ ReadingsTo(n)
                               = Append(ReadingsTo(n - 1), readings[n])
                          /\ readings[n] \in Readings
<1>1. VolWindow \in Nat /\ VolWindow + 1 \in Nat \ {0} /\ readings \in Seq(Readings)
      /\ Len(readings) \in Nat
  BY LenProperties DEF RegimeIsPosed, RegimeTypes
<1>2. ReadingsTo(n) \in Seq(Readings) BY <1>1, PartOf DEF ReadingsTo
<1>3. ASSUME n <= VolWindow PROVE ReadingsTo(n) = <<>>
  <2>1. VolWindow + 1 \in Int /\ n \in Int /\ n < VolWindow + 1 BY <1>1, <1>3
  <2> QED BY <2>1, SubSeqEmpty DEF ReadingsTo
<1>4. ASSUME n > VolWindow
      PROVE  /\ ReadingsTo(n) = Append(ReadingsTo(n - 1), readings[n])
             /\ readings[n] \in Readings
  <2>1. n \in 1..Len(readings) /\ VolWindow + 1 \in 1..n BY <1>1, <1>4
  <2>2. /\ SubSeq(readings, VolWindow + 1, n)
             = Append(SubSeq(readings, VolWindow + 1, n - 1), readings[n])
        /\ readings[n] \in Readings
    BY <1>1, <2>1, SubSeqMore
  <2> QED BY <2>2 DEF ReadingsTo
<1> QED BY <1>2, <1>3, <1>4

(* A bar more changes no earlier label of the whole series.                *)
LEMMA LabelsStand ==
  ASSUME RegimeIsPosed, RegimeTypes, NEW r \in Readings, readings' = Append(readings, r)
  PROVE  /\ \A n \in Nat : n <= Len(readings) =>
              /\ ReadingsTo(n)' = ReadingsTo(n)
              /\ SubSeq(readings', MinForecast + 1, n) = SubSeq(readings, MinForecast + 1, n)
         /\ \A n \in 1..Len(readings) :
              /\ VolLabel(n)' = VolLabel(n)
              /\ CorrLabel(n + 1)' = CorrLabel(n + 1)
              /\ readings'[n] = readings[n]
<1>1. /\ readings \in Seq(Readings) /\ Len(readings) \in Nat
      /\ VolWindow + 1 \in Nat \ {0} /\ MinForecast + 1 \in Nat \ {0}
  BY LenProperties DEF RegimeIsPosed, RegimeTypes
<1>2. ASSUME NEW n \in Nat, n <= Len(readings)
      PROVE  /\ ReadingsTo(n)' = ReadingsTo(n)
             /\ SubSeq(readings', MinForecast + 1, n) = SubSeq(readings, MinForecast + 1, n)
  <2>1. SubSeq(readings', VolWindow + 1, n) = SubSeq(readings, VolWindow + 1, n)
    BY <1>1, <1>2, SubSeqOfMore
  <2>2. SubSeq(readings', MinForecast + 1, n) = SubSeq(readings, MinForecast + 1, n)
    BY <1>1, <1>2, SubSeqOfMore
  <2> QED BY <2>1, <2>2 DEF ReadingsTo
<1>3. \A n \in 1..Len(readings) : readings'[n] = readings[n] BY <1>1, AppendFacts
<1>4. ASSUME NEW n \in 1..Len(readings) PROVE VolLabel(n)' = VolLabel(n)
  <2>1. n \in Nat /\ n <= Len(readings) BY <1>1
  <2> QED BY <1>2, <1>3, <2>1 DEF VolLabel
<1>5. ASSUME NEW n \in 1..Len(readings)
      PROVE  CorrLabel(n + 1)' = CorrLabel(n + 1)
  <2>1. n + 1 - 1 = n BY <1>1
  <2>2. VolLabel(n + 1 - 1)' = VolLabel(n + 1 - 1) BY <1>4, <2>1
  <2> QED BY <2>2 DEF CorrLabel
<1> QED BY <1>2, <1>3, <1>4, <1>5

LEMMA RegimeStarts == ASSUME RegimeIsPosed, RegimeInit PROVE RegimeInv
<1> USE DEF RegimeInit
<1>1. readings = <<>> /\ Len(readings) = 0 /\ \A m : Done(m) = 0 BY DEF Done
<1>2. ReadingsTo(0) = <<>> /\ SubSeq(readings, MinForecast + 1, 0) = <<>>
  BY SubSeqEmpty DEF ReadingsTo, RegimeIsPosed
<1>3. LastFew(<<>>, HistoryLength) = <<>> BY DEF LastFew, RegimeIsPosed
<1>4. RegimeTypes
  <2>1. <<>> \in Seq(Readings) /\ <<>> \in Seq(Labels) BY EmptySeq
  <2>2. raised \in [hmm : Nat, garch : Nat] OBVIOUS
  <2> QED BY <2>1, <2>2 DEF RegimeTypes
<1>5. HistoryInv BY <1>1, <1>2, <1>3 DEF HistoryInv
<1>6. FitInv BY <1>1 DEF FitInv
<1>7. LabelsAgree BY <1>1 DEF LabelsAgree, Now
<1> QED BY <1>4, <1>5, <1>6, <1>7 DEF RegimeInv

----------------------------------------------------------------------------
(* What OnlineIsBatch says of one bar.                                     *)
LabelFits(n) ==
  LET given == labels[n]
  IN  /\ given.vol \in {"-", "raised", VolLabel(n)}
      /\ ~reported => given.corr \in {"-", "raised", CorrLabel(n + 1)}
      /\ given.forecast \in {"-", IF n - 1 < MinForecast THEN "NORMAL"
           ELSE Classify(readings[n], SubSeq(readings, MinForecast + 1, n))}

LEMMA OnlineIs == LabelsAgree <=> \A n \in 1..Len(readings) : LabelFits(n)
BY DEF LabelsAgree, Now, LabelFits

LEMMA BarStep ==
  ASSUME RegimeIsPosed, RegimeInv, Bar PROVE RegimeInv'
<1>1. PICK r \in Readings : readings' = Append(readings, r) BY DEF Bar
<1>0. PICK n \in Nat : n = Len(readings) BY DoneFacts DEF RegimeInv
<1>2. /\ labels' = Append(labels, Unasked)
      /\ UNCHANGED <<vol_history, corr_history, ensemble, call_count, hmm, garch, reported,
                     raised>>
      /\ n > 0 => Asked("vol") /\ Asked("forecast")
  BY <1>0 DEF Bar, Now
<1>3. RegimeTypes /\ HistoryInv /\ FitInv /\ LabelsAgree BY DEF RegimeInv
<1>4. /\ n \in Nat /\ Done("vol") = n /\ Done("forecast") = n
  BY <1>0, <1>2, <1>3, DoneFacts DEF Done
<1>5. Unasked \in Labels /\ Unasked.vol = "-" /\ Unasked.forecast = "-"
      /\ Unasked.corr = "-"
  BY DEF Labels, Words, Unasked
<1>6. /\ readings' \in Seq(Readings) /\ Len(readings') = n + 1
      /\ labels' \in Seq(Labels) /\ Len(labels') = n + 1 /\ labels'[n + 1] = Unasked
      /\ \A i \in 1..n : labels'[i] = labels[i]
  <2>1. readings' \in Seq(Readings) /\ Len(readings') = n + 1
    BY <1>0, <1>1, <1>3, AppendFacts DEF RegimeTypes
  <2>2. labels \in Seq(Labels) /\ Len(labels) = n BY <1>0, <1>3 DEF RegimeTypes
  <2>3. /\ labels' \in Seq(Labels) /\ Len(labels') = n + 1 /\ labels'[n + 1] = Unasked
        /\ \A i \in 1..n : labels'[i] = labels[i]
    BY <1>2, <1>5, <2>2, AppendFacts
  <2> QED BY <2>1, <2>3
<1>7. Done("vol")' = n /\ Done("forecast")' = n
  BY <1>4, <1>5, <1>6 DEF Done
<1>8. RegimeTypes' BY <1>2, <1>3, <1>6 DEF RegimeTypes
<1>9. /\ ReadingsTo(n)' = ReadingsTo(n)
      /\ SubSeq(readings', MinForecast + 1, n) = SubSeq(readings, MinForecast + 1, n)
  <2>1. n \in Nat /\ n <= Len(readings) BY <1>0
  <2>2. RegimeTypes /\ r \in Readings /\ readings' = Append(readings, r) BY <1>1, <1>3
  <2>3. \A m \in Nat : m <= Len(readings) =>
          /\ ReadingsTo(m)' = ReadingsTo(m)
          /\ SubSeq(readings', MinForecast + 1, m) = SubSeq(readings, MinForecast + 1, m)
    BY <2>2, LabelsStand
  <2> QED BY <2>1, <2>3
<1>10. HistoryInv'
  <2>1. ReadingsTo(Done("vol"))' = ReadingsTo(n)' BY <1>7 DEF ReadingsTo
  <2> QED BY <1>2, <1>3, <1>4, <1>7, <1>9, <2>1 DEF HistoryInv
<1>11. FitInv' BY <1>0, <1>2, <1>3, <1>4, <1>6, <1>7 DEF FitInv, RegimeTypes
<1>12. ASSUME NEW k \in 1..n PROVE LabelFits(k)'
  <2>1. /\ VolLabel(k)' = VolLabel(k)
        /\ CorrLabel(k + 1)' = CorrLabel(k + 1)
        /\ readings'[k] = readings[k]
        /\ SubSeq(readings', MinForecast + 1, k) = SubSeq(readings, MinForecast + 1, k)
    <3>1. k \in Nat /\ k <= Len(readings) /\ k \in 1..Len(readings) BY <1>0
    <3> QED BY <1>1, <1>3, <3>1, LabelsStand
  <2>2. LabelFits(k) BY <1>0, <1>3, OnlineIs
  <2>3. labels'[k] = labels[k] /\ reported' = reported BY <1>2, <1>6
  <2> QED BY <2>1, <2>2, <2>3 DEF LabelFits
<1>13. LabelFits(n + 1)'
  BY <1>5, <1>6 DEF LabelFits
<1>14. LabelsAgree'
  <2>1. \A k \in 1..n + 1 : k \in 1..n \/ k = n + 1 BY <1>4
  <2>2. \A k \in 1..n + 1 : LabelFits(k)' BY <1>12, <1>13, <2>1
  <2>3. (\A k \in 1..Len(readings) : LabelFits(k))' BY <1>6, <2>2
  <2> QED BY <2>3 DEF LabelsAgree, Now, LabelFits
<1> QED BY <1>8, <1>10, <1>11, <1>14 DEF RegimeInv

LEMMA FewType ==
  ASSUME NEW S, NEW s \in Seq(S), NEW h \in Nat \ {0}
  PROVE  LastFew(s, h) \in Seq(S)
<1>1. Len(s) \in Nat BY LenProperties
<1>2. CASE Len(s) <= h BY <1>2 DEF LastFew
<1>3. CASE ~(Len(s) <= h)
  <2>1. Len(s) - h + 1 \in Nat \ {0} /\ Len(s) <= Len(s) BY <1>1, <1>3
  <2>2. SubSeq(s, Len(s) - h + 1, Len(s)) \in Seq(S) BY <1>1, <2>1, PartOf
  <2> QED BY <1>3, <2>2 DEF LastFew
<1> QED BY <1>2, <1>3

(* What is filed is what the whole series has at that bar.                 *)
LEMMA FiledIs ==
  ASSUME RegimeIsPosed, RegimeTypes, NEW n \in Nat \ {0}, n = Len(readings),
         NEW hist, hist = LastFew(ReadingsTo(n - 1), HistoryLength)
  PROVE  /\ Filed(hist, HistoryLength)
              = LastFew(ReadingsTo(n), HistoryLength)
         /\ hist \in Seq(Readings)
<1>1. HistoryLength \in Nat \ {0} /\ VolWindow \in Nat BY DEF RegimeIsPosed
<1>2. n - 1 \in Nat /\ n - 1 <= Len(readings) /\ n \in Nat /\ n <= Len(readings) OBVIOUS
<1>3. /\ ReadingsTo(n - 1) \in Seq(Readings) /\ ReadingsTo(n) \in Seq(Readings)
      /\ n <= VolWindow => ReadingsTo(n) = <<>>
      /\ n - 1 <= VolWindow => ReadingsTo(n - 1) = <<>>
      /\ n > VolWindow => /\ ReadingsTo(n) = Append(ReadingsTo(n - 1), readings[n])
                       /\ readings[n] \in Readings
  BY <1>2, ReadingsToFacts
<1>4. Now = n /\ Last(readings) = readings[n]
  BY DEF Now, Last
<1>5. \A s \in Seq(Readings) : LastFew(s, HistoryLength) \in Seq(Readings)
  BY <1>1, FewType
<1>6. hist \in Seq(Readings) BY <1>3, <1>5
<1>7. CASE n <= VolWindow
  <2>1. n - 1 <= VolWindow BY <1>1, <1>7
  <2> QED BY <1>3, <1>4, <1>6, <1>7, <2>1 DEF Filed
<1>8. CASE n > VolWindow
  <2>1. Filed(hist, HistoryLength)
          = LastFew(Append(hist, readings[n]), HistoryLength)
    BY <1>1, <1>4, <1>8 DEF Filed
  <2>2. readings[n] \in Readings BY <1>3, <1>8
  <2>3. LastFew(Append(hist, readings[n]), HistoryLength)
          = LastFew(Append(ReadingsTo(n - 1), readings[n]), HistoryLength)
    BY <1>1, <1>3, <2>2, LastFewAppend
  <2> QED BY <1>3, <1>6, <1>8, <2>1, <2>3
<1> QED BY <1>1, <1>7, <1>8

(* An answer, or a raise in its place.                                     *)
LEMMA DetectStep ==
  ASSUME RegimeIsPosed, RegimeInv, Detect \/ DetectRaises PROVE RegimeInv'
<1>0. PICK n \in Nat : n = Len(readings) BY DoneFacts DEF RegimeInv
<1>1. RegimeTypes /\ HistoryInv /\ FitInv /\ LabelsAgree BY DEF RegimeInv
<1>2. n > 0 /\ Done("vol") = n - 1
  BY <1>0, <1>1, DoneFacts DEF Detect, DetectRaises, Detection, Now
<1>3. Now = n /\ Last(readings) = readings[n]
  BY <1>0 DEF Now, Last
<1> DEFINE label(hist) == IF n <= VolWindow THEN "NORMAL" ELSE Classify(readings[n], hist)
<1>4. /\ call_count' = call_count + 1
      /\ vol_history' = Filed(vol_history, HistoryLength)
      /\ corr_history' = Filed(corr_history, HistoryLength)
      /\ UNCHANGED <<readings, ensemble, garch, reported>>
  BY <1>3 DEF Detect, DetectRaises, Detection
<1>5. /\ vol_history' = LastFew(ReadingsTo(n), HistoryLength)
      /\ ~reported => corr_history' = vol_history'
      /\ vol_history' \in Seq(Readings)
  <2>1. vol_history = LastFew(ReadingsTo(n - 1), HistoryLength)
    BY <1>1, <1>2 DEF HistoryInv
  <2>2. n \in Nat \ {0} BY <1>2
  <2>3. Filed(vol_history, HistoryLength)
          = LastFew(ReadingsTo(n), HistoryLength)
    BY <1>0, <1>1, <2>1, <2>2, FiledIs
  <2>4. LastFew(ReadingsTo(n), HistoryLength) \in Seq(Readings)
    <3>1. ReadingsTo(n) \in Seq(Readings) BY <1>0, <1>1, ReadingsToFacts
    <3> QED BY <3>1, FewType DEF RegimeIsPosed
  <2> QED BY <1>1, <1>4, <2>3, <2>4 DEF HistoryInv
<1>6. corr_history' \in Seq(Readings)
  <2>1. corr_history \in Seq(Readings) /\ readings \in Seq(Readings) BY <1>1 DEF RegimeTypes
  <2>2. CASE n <= VolWindow BY <1>3, <1>4, <2>1, <2>2 DEF Filed
  <2>3. CASE ~(n <= VolWindow)
    <3>1. readings[n] \in Readings
      <4>1. n \in 1..Len(readings) BY <1>0, <1>2
      <4> QED BY <2>1, <4>1, ElementOfSeq
    <3>2. Append(corr_history, readings[n]) \in Seq(Readings) BY <2>1, <3>1, AppendProperties
    <3>3. corr_history' = LastFew(Append(corr_history, readings[n]), HistoryLength)
      BY <1>3, <1>4, <2>3 DEF Filed
    <3> QED BY <3>2, <3>3, FewType DEF RegimeIsPosed
  <2> QED BY <2>2, <2>3
<1>7. label(vol_history') \in Words \ {"-"} /\ label(corr_history') \in Words \ {"-"}
  BY ClassifyIsLabel DEF Words
<1> DEFINE v == label(vol_history')
           c == label(corr_history')
<1>8. PICK w, d : /\ labels' = [labels EXCEPT ![n].vol = w, ![n].corr = d]
                  /\ w \in Words \ {"-"} /\ w \in {"raised", v}
                  /\ d \in Words \ {"-"} /\ d \in {"raised", c}
  <2>1. CASE Detect
    <3>1. labels' = [labels EXCEPT ![n].vol = v, ![n].corr = c]
      BY <1>3, <2>1 DEF Detect
    <3> QED BY <1>7, <3>1
  <2>2. CASE DetectRaises
    <3>1. labels' = [labels EXCEPT ![n].vol = "raised", ![n].corr = "raised"]
      BY <1>3, <2>2 DEF DetectRaises
    <3> QED BY <3>1 DEF Words
  <2> QED BY <2>1, <2>2
<1>9. w \in Words \ {"-"} /\ d \in Words \ {"-"} BY <1>8
<1>10. labels' = [labels EXCEPT ![n].vol = w, ![n].corr = d] BY <1>8
<1>11. /\ labels' \in Seq(Labels) /\ Len(labels') = n
       /\ labels'[n].vol = w /\ labels'[n].corr = d /\ labels'[n].forecast = labels[n].forecast
       /\ \A k \in 1..n : k # n => labels'[k] = labels[k]
  <2>1. labels \in Seq(Labels) /\ Len(labels) = n /\ n \in 1..Len(labels)
    BY <1>0, <1>1, <1>2 DEF RegimeTypes
  <2>2. labels[n] \in Labels /\ DOMAIN labels = 1..n BY <2>1, ElementOfSeq, LenProperties
  <2> DEFINE new == [[labels[n] EXCEPT !.vol = w] EXCEPT !.corr = d]
  <2>3. /\ new \in Labels /\ new.vol = w /\ new.corr = d /\ new.forecast = labels[n].forecast
    BY <1>9, <2>2 DEF Labels
  <2>4. labels' = [labels EXCEPT ![n] = new] BY <1>10, <2>1, <2>2
  <2> HIDE DEF new
  <2>5. /\ labels' \in Seq(Labels) /\ Len(labels') = Len(labels)
        /\ \A k \in 1..Len(labels) : labels'[k] = IF k = n THEN new ELSE labels[k]
    BY <2>1, <2>3, <2>4, ExceptSeq
  <2> QED BY <2>1, <2>3, <2>5
<1> HIDE DEF label, v, c
<1>12. Done("vol")' = n /\ Done("forecast")' = Done("forecast")
  <2>1. Len(labels) = n BY <1>0, <1>1 DEF RegimeTypes
  <2> QED BY <1>0, <1>2, <1>4, <1>9, <1>11, <2>1 DEF Done
<1>13. /\ hmm' \in Nat /\ raised' \in [hmm : Nat, garch : Nat]
       /\ raised'.garch = raised.garch /\ raised'.hmm <= n
       /\ hmm' # 0 => /\ hmm' <= n /\ MinHmm <= hmm' - 1
                      /\ \A k \in hmm' + 1..n : k % RefitEvery = 0 => k <= raised'.hmm
  <2>1. call_count' = n BY <1>1, <1>2, <1>4 DEF FitInv
  <2>2. /\ hmm \in Nat /\ MinHmm \in Nat
        /\ raised \in [hmm : Nat, garch : Nat] /\ raised.hmm <= n
    BY <1>0, <1>1 DEF RegimeTypes, RegimeIsPosed, FitInv
  <2>3. NumReturns = n - 1 BY <1>3 DEF NumReturns
  <2>4. hmm # 0 => /\ hmm <= n - 1 /\ MinHmm <= hmm - 1
                   /\ \A k \in hmm + 1..n - 1 : k % RefitEvery = 0 => k <= raised.hmm
    BY <1>1, <1>2 DEF FitInv
  <2>5. \A k \in hmm + 1..n : k \in hmm + 1..n - 1 \/ k = n BY <2>2
  <2>6. CASE DetectRaises
    <3>1. hmm' = hmm /\ raised' = [raised EXCEPT !.hmm = IF hmm = 0 THEN 0 ELSE n]
      BY <1>3, <2>6 DEF DetectRaises
    <3>2. /\ raised' \in [hmm : Nat, garch : Nat]
          /\ raised'.garch = raised.garch /\ raised'.hmm = IF hmm = 0 THEN 0 ELSE n
      BY <2>2, <3>1
    <3> QED BY <2>2, <2>4, <2>5, <3>1, <3>2
  <2>7. CASE Detect /\ HmmDue /\ NumReturns >= MinHmm
    <3>1. hmm' = n /\ raised' = [raised EXCEPT !.hmm = 0] BY <1>3, <2>7 DEF Detect
    <3>2. /\ raised' \in [hmm : Nat, garch : Nat]
          /\ raised'.garch = raised.garch /\ raised'.hmm = 0
      BY <2>2, <3>1
    <3> QED BY <1>2, <2>2, <2>3, <2>7, <3>1, <3>2
  <2>8. CASE Detect /\ ~HmmDue
    <3>1. hmm' = hmm /\ hmm # 0 /\ n % RefitEvery # 0 /\ raised' = raised
      BY <2>1, <2>8 DEF HmmDue, Detect
    <3> QED BY <2>2, <2>4, <2>5, <3>1
  <2>9. CASE Detect /\ ~(NumReturns >= MinHmm)
    <3>1. hmm' = hmm /\ raised' = raised BY <2>9 DEF Detect
    <3>2. hmm = 0 BY <2>2, <2>3, <2>4, <2>9
    <3> QED BY <2>2, <3>1, <3>2
  <2> QED BY <2>6, <2>7, <2>8, <2>9
<1>14. RegimeTypes'
  BY <1>0, <1>1, <1>4, <1>5, <1>6, <1>11, <1>13 DEF RegimeTypes
<1>15. HistoryInv'
  <2>1. ReadingsTo(Done("vol"))' = ReadingsTo(n)
    BY <1>4, <1>12 DEF ReadingsTo
  <2> QED BY <1>1, <1>4, <1>5, <1>12, <2>1 DEF HistoryInv
<1>16. FitInv'
  <2>1. call_count' = n BY <1>1, <1>2, <1>4 DEF FitInv
  <2> QED BY <1>0, <1>1, <1>4, <1>12, <1>13, <2>1 DEF FitInv
<1>17. ASSUME NEW k \in 1..n PROVE LabelFits(k)'
  <2>1. LabelFits(k) BY <1>0, <1>1, OnlineIs
  <2>2. /\ VolLabel(k)' = VolLabel(k)
        /\ CorrLabel(k + 1)' = CorrLabel(k + 1)
    BY <1>4 DEF VolLabel, CorrLabel, ReadingsTo
  <2>3. CASE k # n
    <3>1. labels'[k] = labels[k] BY <1>11, <2>3
    <3> QED BY <1>4, <2>1, <2>2, <3>1 DEF LabelFits
  <2>4. CASE k = n
    <3>1. VolLabel(n) = v
      BY <1>5 DEF VolLabel, label, v
    <3>2. ~reported => c = v BY <1>5 DEF v, c
    <3>3. CorrLabel(n + 1) = VolLabel(n)
      <4>1. n + 1 # 1 /\ n + 1 - 1 = n BY <1>2
      <4> QED BY <4>1 DEF CorrLabel
    <3> QED BY <1>4, <1>8, <1>11, <2>1, <2>2, <2>4, <3>1, <3>2, <3>3 DEF LabelFits
  <2> QED BY <2>3, <2>4
<1>18. LabelsAgree'
  <2>1. (\A k \in 1..Len(readings) : LabelFits(k))' BY <1>0, <1>4, <1>17
  <2> QED BY <2>1 DEF LabelsAgree, Now, LabelFits
<1> QED BY <1>14, <1>15, <1>16, <1>18 DEF RegimeInv

LEMMA ForecastStep ==
  ASSUME RegimeIsPosed, RegimeInv, Forecast PROVE RegimeInv'
<1>0. PICK n \in Nat : n = Len(readings) BY DoneFacts DEF RegimeInv
<1>1. RegimeTypes /\ HistoryInv /\ FitInv /\ LabelsAgree BY DEF RegimeInv
<1>2. n > 0 /\ Done("forecast") = n - 1
  BY <1>0, <1>1, DoneFacts DEF Forecast, Now
<1>3. Now = n /\ Last(readings) = readings[n] /\ NumReturns = n - 1
  BY <1>0 DEF Now, Last, NumReturns
<1>4. MinForecast \in Nat /\ RefitEvery \in Nat \ {0} BY DEF RegimeIsPosed
<1> DEFINE part == SubSeq(readings, MinForecast + 1, n)
           fits == IF n - 1 < MinForecast THEN "NORMAL" ELSE Classify(readings[n], part)
<1>5. UNCHANGED <<readings, vol_history, corr_history, call_count, hmm, reported>>
  BY DEF Forecast
<1>6. labels' = [labels EXCEPT ![n].forecast = fits] /\ ensemble' = part
  <2>1. CASE n - 1 < MinForecast
    <3>1. labels' = [labels EXCEPT ![n].forecast = "NORMAL"] /\ ensemble' = ensemble
      BY <1>3, <2>1 DEF Forecast
    <3>2. ensemble = SubSeq(readings, MinForecast + 1, n - 1) BY <1>1, <1>2 DEF HistoryInv
    <3>3. n < MinForecast + 1 /\ n - 1 < MinForecast + 1 /\ MinForecast + 1 \in Int /\ n \in Int
          /\ n - 1 \in Int
      BY <1>4, <2>1
    <3>4. part = <<>> /\ SubSeq(readings, MinForecast + 1, n - 1) = <<>> BY <3>3, SubSeqEmpty
    <3> QED BY <2>1, <3>1, <3>2, <3>4
  <2>2. CASE ~(n - 1 < MinForecast)
    <3>1. /\ ensemble' = Append(ensemble, readings[n])
          /\ labels' = [labels EXCEPT ![n].forecast = Classify(readings[n], ensemble')]
      BY <1>3, <2>2 DEF Forecast
    <3>2. ensemble = SubSeq(readings, MinForecast + 1, n - 1) BY <1>1, <1>2 DEF HistoryInv
    <3>3. readings \in Seq(Readings) /\ n \in 1..Len(readings) /\ MinForecast + 1 \in 1..n
      BY <1>0, <1>1, <1>2, <1>4, <2>2 DEF RegimeTypes
    <3>4. part = Append(SubSeq(readings, MinForecast + 1, n - 1), readings[n])
      BY <3>3, SubSeqMore
    <3> QED BY <2>2, <3>1, <3>2, <3>4
  <2> QED BY <2>1, <2>2
<1>7. fits \in Words \ {"-"} BY ClassifyIsLabel DEF Words
<1>8. PICK w : w = fits OBVIOUS
<1>9. w \in Words \ {"-"} /\ labels' = [labels EXCEPT ![n].forecast = w] BY <1>6, <1>7, <1>8
<1>10. /\ labels' \in Seq(Labels) /\ Len(labels') = n
       /\ labels'[n].vol = labels[n].vol /\ labels'[n].corr = labels[n].corr
       /\ labels'[n].forecast = w
       /\ \A k \in 1..n : k # n => labels'[k] = labels[k]
  <2>1. labels \in Seq(Labels) /\ Len(labels) = n /\ n \in 1..Len(labels)
    BY <1>0, <1>1, <1>2 DEF RegimeTypes
  <2>2. labels[n] \in Labels /\ DOMAIN labels = 1..n BY <2>1, ElementOfSeq, LenProperties
  <2> DEFINE new == [labels[n] EXCEPT !.forecast = w]
  <2>3. /\ new \in Labels /\ new.forecast = w
        /\ new.vol = labels[n].vol /\ new.corr = labels[n].corr
    BY <1>9, <2>2 DEF Labels
  <2>4. labels' = [labels EXCEPT ![n] = new] BY <1>9, <2>1, <2>2
  <2> HIDE DEF new
  <2>5. /\ labels' \in Seq(Labels) /\ Len(labels') = Len(labels)
        /\ \A k \in 1..Len(labels) : labels'[k] = IF k = n THEN new ELSE labels[k]
    BY <2>1, <2>3, <2>4, ExceptSeq
  <2> QED BY <2>1, <2>3, <2>5
<1>11. Done("vol")' = Done("vol") /\ Done("forecast")' = n
  <2>1. Len(labels) = n BY <1>0, <1>1 DEF RegimeTypes
  <2> QED BY <1>0, <1>2, <1>5, <1>9, <1>10, <2>1 DEF Done
<1>12. /\ garch' \in Nat /\ garch' <= n
       /\ raised' \in [hmm : Nat, garch : Nat] /\ raised'.hmm = raised.hmm
       /\ raised'.garch <= n
       /\ garch' # 0 => \A k \in garch'..n - 1 :
            MinForecast <= k /\ k % RefitEvery = 0 => k < raised'.garch
  <2>1. /\ garch \in Nat /\ garch <= n
        /\ raised \in [hmm : Nat, garch : Nat] /\ raised.garch <= n
        /\ garch # 0 => \A k \in garch..n - 2 :
             MinForecast <= k /\ k % RefitEvery = 0 => k < raised.garch
    <3>1. Done("forecast") - 1 = n - 2 BY <1>2
    <3> QED BY <1>0, <1>1, <3>1 DEF RegimeTypes, FitInv
  <2>2. \A k \in garch..n - 1 : k \in garch..n - 2 \/ k = n - 1 BY <2>1
  <2>3. CASE n - 1 < MinForecast
    <3>1. garch' = garch /\ raised' = raised BY <1>3, <2>3 DEF Forecast
    <3> QED BY <1>4, <2>1, <2>2, <2>3, <3>1
  <2>4. CASE /\ ~(n - 1 < MinForecast) /\ garch' \in {0, n}
             /\ raised' = [raised EXCEPT !.garch = 0]
    <3>1. n..n - 1 = {} OBVIOUS
    <3>2. /\ raised' \in [hmm : Nat, garch : Nat]
          /\ raised'.hmm = raised.hmm /\ raised'.garch = 0
      BY <2>1, <2>4
    <3> QED BY <2>1, <2>4, <3>1, <3>2
  <2>5. CASE garch' = garch /\ raised' = [raised EXCEPT !.garch = n]
    <3>1. /\ raised' \in [hmm : Nat, garch : Nat]
          /\ raised'.hmm = raised.hmm /\ raised'.garch = n
      BY <2>1, <2>5
    <3>2. n - 1 + 1 = n OBVIOUS
    <3> QED BY <2>1, <2>2, <2>5, <3>1, <3>2
  <2>6. CASE ~(n - 1 < MinForecast) /\ ~GarchDue /\ garch' = garch /\ raised' = raised
    <3>1. (n - 1) % RefitEvery # 0 BY <1>3, <2>6 DEF GarchDue
    <3> QED BY <2>1, <2>2, <2>6, <3>1
  <2> QED BY <1>3, <2>3, <2>4, <2>5, <2>6 DEF Forecast
<1> HIDE DEF part, fits
<1>13. RegimeTypes' BY <1>0, <1>1, <1>5, <1>10, <1>12 DEF RegimeTypes
<1>14. HistoryInv'
  <2>1. ReadingsTo(Done("vol"))' = ReadingsTo(Done("vol"))
    BY <1>5, <1>11 DEF ReadingsTo
  <2> QED BY <1>1, <1>5, <1>6, <1>11, <2>1 DEF HistoryInv, part
<1>15. FitInv' BY <1>0, <1>1, <1>5, <1>11, <1>12 DEF FitInv
<1>16. ASSUME NEW k \in 1..n PROVE LabelFits(k)'
  <2>1. LabelFits(k) BY <1>0, <1>1, OnlineIs
  <2>2. /\ VolLabel(k)' = VolLabel(k)
        /\ CorrLabel(k + 1)' = CorrLabel(k + 1)
    BY <1>5 DEF VolLabel, CorrLabel, ReadingsTo
  <2>3. CASE k # n
    <3>1. labels'[k] = labels[k] BY <1>10, <2>3
    <3> QED BY <1>5, <2>1, <2>2, <3>1 DEF LabelFits
  <2>4. CASE k = n
    <3>1. w = IF n - 1 < MinForecast THEN "NORMAL"
              ELSE Classify(readings[n], SubSeq(readings, MinForecast + 1, n))
      BY <1>8 DEF fits, part
    <3> QED BY <1>5, <1>10, <2>1, <2>2, <2>4, <3>1 DEF LabelFits
  <2> QED BY <2>3, <2>4
<1>17. LabelsAgree'
  <2>1. (\A k \in 1..Len(readings) : LabelFits(k))' BY <1>0, <1>5, <1>16
  <2> QED BY <2>1 DEF LabelsAgree, Now, LabelFits
<1> QED BY <1>13, <1>14, <1>15, <1>17 DEF RegimeInv

(* The reports of the whole series leave the histories as bar by bar       *)
(* detection would have, but for the correlations.                         *)
LEMMA FullSeriesStep ==
  ASSUME RegimeIsPosed, RegimeInv, DetectFullSeries \/ ComputeFullSeries
  PROVE  RegimeInv'
<1>0. PICK n \in Nat : n = Len(readings) BY DoneFacts DEF RegimeInv
<1>1. RegimeTypes /\ HistoryInv /\ FitInv /\ LabelsAgree BY DEF RegimeInv
<1>2. UNCHANGED <<readings, ensemble, labels, call_count, hmm>>
  BY DEF DetectFullSeries, ComputeFullSeries
<1>3. Done("vol")' = Done("vol") /\ Done("forecast")' = Done("forecast") BY <1>2 DEF Done
<1>4. Now = n BY <1>0 DEF Now
<1>5. reported' \in BOOLEAN /\ (~reported' => ~reported)
  BY <1>1 DEF RegimeTypes, DetectFullSeries, ComputeFullSeries
<1>6. /\ vol_history' = LastFew(ReadingsTo(Done("vol")), HistoryLength)
      /\ vol_history' \in Seq(Readings)
  <2>1. CASE DetectFullSeries
    <3>1. Done("vol") = n BY <1>0, <1>1, <2>1, DoneFacts DEF DetectFullSeries
    <3>2. ReadingsTo(n) \in Seq(Readings) BY <1>0, <1>1, ReadingsToFacts
    <3>3. vol_history' = LastFew(ReadingsTo(n), HistoryLength)
      BY <1>4, <2>1 DEF DetectFullSeries
    <3> QED BY <3>1, <3>2, <3>3, FewType DEF RegimeIsPosed
  <2>2. CASE ComputeFullSeries
    BY <1>1, <2>2 DEF RegimeTypes, HistoryInv, ComputeFullSeries
  <2> QED BY <2>1, <2>2
<1>7. corr_history' \in Seq(Readings) /\ (~reported' => corr_history' = vol_history')
  <2>1. CASE DetectFullSeries
    <3>1. n > 0 BY <1>0, <1>1, <2>1, DoneFacts DEF DetectFullSeries
    <3>2. n - 1 \in Nat /\ n - 1 <= Len(readings) BY <1>0, <3>1
    <3>3. ReadingsTo(n - 1) \in Seq(Readings) BY <1>1, <3>2, ReadingsToFacts
    <3>4. corr_history' = LastFew(ReadingsTo(n - 1), HistoryLength) /\ reported'
      BY <1>4, <2>1 DEF DetectFullSeries
    <3> QED BY <3>3, <3>4, FewType DEF RegimeIsPosed
  <2>2. CASE ComputeFullSeries
    BY <1>1, <2>2 DEF RegimeTypes, HistoryInv, ComputeFullSeries
  <2> QED BY <2>1, <2>2
<1>8. /\ garch' \in Nat /\ garch' <= n
      /\ raised' \in [hmm : Nat, garch : Nat] /\ raised'.hmm = raised.hmm
      /\ raised'.garch <= n
      /\ garch' # 0 => \A k \in garch'..Done("forecast") - 1 :
                         MinForecast <= k /\ k % RefitEvery = 0 => k < raised'.garch
  <2>1. /\ raised \in [hmm : Nat, garch : Nat] /\ raised.garch <= n
        /\ garch \in Nat /\ garch <= n
    BY <1>0, <1>1 DEF RegimeTypes, FitInv
  <2>2. CASE garch' = garch /\ raised' = raised
    BY <1>0, <1>1, <2>1, <2>2 DEF FitInv
  <2>3. CASE garch' = n /\ raised' = [raised EXCEPT !.garch = 0]
    <3>1. Done("forecast") \in Nat /\ Done("forecast") <= n BY <1>0, <1>1, DoneFacts
    <3>2. n..Done("forecast") - 1 = {} BY <3>1
    <3>3. /\ raised' \in [hmm : Nat, garch : Nat]
          /\ raised'.hmm = raised.hmm /\ raised'.garch = 0
      BY <2>1, <2>3
    <3> QED BY <2>3, <3>2, <3>3
  <2> QED BY <1>4, <2>2, <2>3 DEF DetectFullSeries, ComputeFullSeries
<1>9. RegimeTypes' BY <1>1, <1>2, <1>5, <1>6, <1>7, <1>8 DEF RegimeTypes
<1>10. HistoryInv'
  <2>1. ReadingsTo(Done("vol"))' = ReadingsTo(Done("vol"))
    BY <1>2, <1>3 DEF ReadingsTo
  <2> QED BY <1>1, <1>2, <1>3, <1>6, <1>7, <2>1 DEF HistoryInv
<1>11. FitInv' BY <1>0, <1>1, <1>2, <1>3, <1>8 DEF FitInv
<1>12. ASSUME NEW k \in 1..n PROVE LabelFits(k)'
  <2>1. LabelFits(k) BY <1>0, <1>1, OnlineIs
  <2>2. /\ VolLabel(k)' = VolLabel(k)
        /\ CorrLabel(k + 1)' = CorrLabel(k + 1)
    BY <1>2 DEF VolLabel, CorrLabel, ReadingsTo
  <2> QED BY <1>2, <1>5, <2>1, <2>2 DEF LabelFits
<1>13. LabelsAgree'
  <2>1. (\A k \in 1..Len(readings) : LabelFits(k))' BY <1>0, <1>2, <1>12
  <2> QED BY <2>1 DEF LabelsAgree, Now, LabelFits
<1> QED BY <1>9, <1>10, <1>11, <1>13 DEF RegimeInv

LEMMA RegimeStep ==
  ASSUME RegimeIsPosed, RegimeInv, [RegimeNext]_regimeVars PROVE RegimeInv'
<1>1. CASE UNCHANGED regimeVars
  BY <1>1 DEF RegimeInv, RegimeTypes, HistoryInv, FitInv, Done, regimeVars,
              LabelsAgree, Now, VolLabel, CorrLabel,
              ReadingsTo
<1> QED BY <1>1, BarStep, DetectStep, ForecastStep, FullSeriesStep DEF RegimeNext

(* A model that is older than its refit interval was due to be fitted      *)
(* again within the last of them, and the fit raised.                      *)
LEMMA Fresh ==
  ASSUME RegimeIsPosed, RegimeInv PROVE ModelsFresh
<1>0. PICK n \in Nat : n = Len(readings) BY DoneFacts DEF RegimeInv
<1>1. RegimeTypes /\ FitInv BY DEF RegimeInv
<1>2. Now = n /\ NumReturns = n - 1 BY <1>0 DEF Now, NumReturns
<1>3. RefitEvery \in Nat \ {0} /\ MinForecast \in Nat /\ MinForecast <= RefitEvery
      /\ hmm \in Nat /\ garch \in Nat
  BY <1>1 DEF RegimeIsPosed, RegimeTypes
<1>4. ASSUME Asked("vol"), hmm # 0, n - hmm >= RefitEvery
      PROVE  RaisedLately("hmm")
  <2>1. Done("vol") = n BY <1>0, <1>1, <1>4, DoneFacts
  <2>2. \A k \in hmm + 1..n : k % RefitEvery = 0 => k <= raised.hmm
    BY <1>1, <1>4, <2>1 DEF FitInv
  <2>3. n - RefitEvery + 1 \in Nat BY <1>3, <1>4
  <2>4. PICK k \in n - RefitEvery + 1..n - RefitEvery + 1 + RefitEvery - 1 :
          k % RefitEvery = 0
    BY <1>3, <2>3, MultipleInRow
  <2>5. k \in hmm + 1..n /\ hmm < k /\ n - k < RefitEvery BY <1>3, <1>4, <2>4
  <2>6. k <= raised.hmm /\ raised.hmm \in Nat BY <1>1, <2>2, <2>4, <2>5 DEF RegimeTypes
  <2> QED BY <1>2, <1>3, <2>5, <2>6 DEF RaisedLately
<1>5. ASSUME Asked("forecast"), garch # 0, n - 1 >= MinForecast, n - garch >= RefitEvery
      PROVE  RaisedLately("garch")
  <2>1. Done("forecast") = n BY <1>0, <1>1, <1>5, DoneFacts
  <2>2. \A k \in garch..n - 1 :
          MinForecast <= k /\ k % RefitEvery = 0 => k < raised.garch
    BY <1>1, <1>5, <2>1 DEF FitInv
  <2>3. n - RefitEvery \in Nat BY <1>3, <1>5
  <2>4. PICK k \in n - RefitEvery..n - RefitEvery + RefitEvery - 1 : k % RefitEvery = 0
    BY <1>3, <2>3, MultipleInRow
  <2>5. k \in garch..n - 1 /\ n - (k + 1) < RefitEvery BY <1>3, <1>5, <2>4
  <2>8. raised.garch \in Nat BY <1>1 DEF RegimeTypes
  <2>6. CASE MinForecast <= k
    <3>1. k < raised.garch BY <2>2, <2>4, <2>5, <2>6
    <3> QED BY <1>2, <1>3, <2>5, <2>8, <3>1 DEF RaisedLately
  <2>7. CASE k < MinForecast
    <3>1. RefitEvery \in garch..n - 1 /\ n - (RefitEvery + 1) < RefitEvery
      BY <1>3, <1>5, <2>5, <2>7
    <3>2. RefitEvery % RefitEvery = 0 BY <1>3, SMT
    <3>3. RefitEvery < raised.garch BY <1>3, <2>2, <3>1, <3>2
    <3> QED BY <1>2, <1>3, <2>8, <3>1, <3>3 DEF RaisedLately
  <2> QED BY <1>3, <2>5, <2>6, <2>7
<1> QED BY <1>2, <1>3, <1>4, <1>5 DEF ModelsFresh

(* For any readings, windows and lengths of history, however single bars   *)
(* and whole series are asked for and whichever fits raise: each bar keeps *)
(* the volatility label that the report of the whole series gives it, its  *)
(* correlation label is that of the next row, the forecasts rank it among  *)
(* those before it only, and a model answers beyond its refit interval     *)
(* only if the last refit that was due raised.                             *)
THEOREM RegimesCorrect ==
  ASSUME RegimeIsPosed
  PROVE  RegimeSpec => []OnlineIsBatch
<1>1. RegimeInv => OnlineIsBatch BY Fresh DEF RegimeInv, OnlineIsBatch
<1>2. RegimeInit => RegimeInv BY RegimeStarts
<1>3. RegimeInv /\ [RegimeNext]_regimeVars => RegimeInv' BY RegimeStep
<1> QED BY <1>1, <1>2, <1>3, PTL DEF RegimeSpec

----------------------------------------------------------------------------
(* The alphas and their ensemble.                                          *)
(* Targets, z-scores and metrics are numbers, and drawdowns not negative.  *)
AlphasArePosed ==
  /\ \A t \in Targets : IsFiniteSet(t) /\ t \subseteq Int
  /\ DepthZ \subseteq Int /\ SpreadZ \subseteq Int /\ MicropriceZ \subseteq Int
  /\ \A m \in CachedMetrics : m.ratio \in Int /\ m.dd \in Nat

LEMMA SubsAreThree ==
  /\ Subs = {"imbalance", "liquidity", "microprice"}
  /\ IsFiniteSet(Subs)
<1>1. Subs = {"imbalance", "liquidity", "microprice"} BY DEF Subs
<1> DEFINE A == {"imbalance"}
           B == A \cup {"liquidity"}
           C == B \cup {"microprice"}
<1>2. IsFiniteSet({} \cup {"imbalance"}) BY FS_EmptySet, FS_AddElement
<1>3. A = {} \cup {"imbalance"} OBVIOUS
<1>4. IsFiniteSet(A) BY <1>2, <1>3
<1>5. IsFiniteSet(B)
  <2> HIDE DEF A
  <2> QED BY <1>4, FS_AddElement
<1>6. IsFiniteSet(C)
  <2> HIDE DEF B
  <2> QED BY <1>5, FS_AddElement
<1>7. C = Subs BY <1>1
<1> HIDE DEF C
<1> QED BY <1>1, <1>6, <1>7

(* A sum over the three alphas.                                            *)
LEMMA SumOfThree ==
  ASSUME NEW f \in Amounts(Subs)
  PROVE  SumFunction(f) = f["imbalance"] + f["liquidity"] + f["microprice"]
<1> DEFINE A == Subs
           B == A \ {"imbalance"}
           C == B \ {"liquidity"}
           D == C \ {"microprice"}
           g == Restrict(f, B)
           h == Restrict(g, C)
           k == Restrict(h, D)
<1>1. A = {"imbalance", "liquidity", "microprice"} BY DEF Subs
<1>2. B = {"liquidity", "microprice"} /\ C = {"microprice"} /\ D = {} BY <1>1
<1>3. IsFiniteSet(A) BY SubsAreThree
<1>4. IsFiniteSet(B) /\ IsFiniteSet(C) BY <1>3, FS_RemoveElement
<1>5. /\ g \in Amounts(B) /\ SumFunction(f) = f["imbalance"] + SumFunction(g)
      /\ f["imbalance"] \in Int /\ SumFunction(g) \in Int
  <2>1. "imbalance" \in A BY <1>1
  <2> QED BY <1>3, <2>1, SumRemove
<1>6. /\ h \in Amounts(C) /\ SumFunction(g) = g["liquidity"] + SumFunction(h)
      /\ g["liquidity"] \in Int /\ SumFunction(h) \in Int
  <2>1. "liquidity" \in B BY <1>2
  <2>2. g \in Amounts(B) BY <1>5
  <2> HIDE DEF g
  <2> QED BY <1>4, <2>1, <2>2, SumRemove
<1>7. /\ k \in Amounts(D) /\ SumFunction(h) = h["microprice"] + SumFunction(k)
  <2>1. "microprice" \in C BY <1>2
  <2>2. h \in Amounts(C) BY <1>6
  <2> HIDE DEF h
  <2> QED BY <1>4, <2>1, <2>2, SumRemove
<1>8. SumFunction(k) = 0 BY <1>2, <1>7, SumEmpty
<1>9. g["liquidity"] = f["liquidity"] /\ g["microprice"] = f["microprice"]
  BY <1>2 DEF Restrict
<1>10. h["microprice"] = g["microprice"] BY <1>2 DEF Restrict
<1>11. f["microprice"] \in Int /\ f["liquidity"] \in Int BY <1>1 DEF Amounts
<1> HIDE DEF g, h, k
<1> QED BY <1>5, <1>6, <1>7, <1>8, <1>9, <1>10, <1>11

(* A mean rounded towards zero stays between the bounds of the mean.       *)
LEMMA RoundedMean ==
  ASSUME NEW sum \in Int, NEW whole \in Nat \ {0}, NEW low \in Int, NEW high \in Int,
         whole * low <= sum, sum <= whole * high
  PROVE  LET mean == IF sum >= 0 THEN sum \div whole ELSE -((-sum) \div whole)
         IN  mean \in Int /\ low <= mean /\ mean <= high
<1>1. CASE sum >= 0
  <2> DEFINE q == sum \div whole
  <2>1. q \in Int /\ whole * q <= sum /\ sum < whole * q + whole BY DivFloor
  <2> HIDE DEF q
  <2>2. whole * low \in Int /\ whole * high \in Int /\ whole * q \in Int BY <2>1
  <2>3. q <= high
    <3>1. whole * q <= whole * high BY <2>1, <2>2
    <3> QED BY <2>1, <3>1, FactorCancels
  <2>4. low <= q
    <3>1. SUFFICES ASSUME q + 1 <= low PROVE FALSE BY <2>1
    <3>2. whole * (q + 1) <= whole * low BY <2>1, <3>1, TimesOrdered
    <3>3. whole * (q + 1) = whole * q + whole BY <2>1
    <3> QED BY <2>1, <2>2, <3>2, <3>3
  <2> QED BY <1>1, <2>1, <2>3, <2>4 DEF q
<1>2. CASE ~(sum >= 0)
  <2> DEFINE q == (-sum) \div whole
  <2>1. q \in Int /\ whole * q <= -sum /\ -sum < whole * q + whole BY DivFloor
  <2> HIDE DEF q
  <2>2. whole * low \in Int /\ whole * high \in Int /\ whole * q \in Int BY <2>1
  <2>3. whole * (-q) = -(whole * q) /\ whole * (-q - 1) = -(whole * q) - whole BY <2>1
  <2>4. low <= -q
    <3>1. whole * low <= whole * (-q) BY <2>1, <2>2, <2>3
    <3> QED BY <2>1, <3>1, FactorCancels
  <2>5. -q <= high
    <3>1. SUFFICES ASSUME high <= -q - 1 PROVE FALSE BY <2>1
    <3>2. whole * high <= whole * (-q - 1) BY <2>1, <3>1, TimesOrdered
    <3> QED BY <2>1, <2>2, <2>3, <3>2
  <2> QED BY <1>2, <2>1, <2>4, <2>5 DEF q
<1> QED BY <1>1, <1>2

----------------------------------------------------------------------------
(* Each alpha's signal is one that AlphaSignal takes, of its score.        *)
SignalIsSound(s) ==
  /\ s = Signal(s.direction, s.strength, s.confidence)
  /\ s.direction \in {-1, 0, 1}
  /\ s.strength \in Int /\ s.strength >= -300 /\ s.strength <= 300
  /\ s.confidence \in Int /\ s.confidence >= 0 /\ s.confidence <= 300
  /\ s.direction = 1 => s.strength >= 0
  /\ s.direction = -1 => s.strength <= 0

OneSignal(a, s) ==
  /\ SignalIsSound(s)
  /\ \/ s.direction = Evaluated(a, s.strength)
     \/ a = "liquidity" /\ s.direction = 0 /\ s.confidence = 300

(* The weights of the blend are weights, and not all of them nothing.        *)
PartsAreWeights(p) ==
  /\ p \in [Subs -> Nat]
  /\ \E a \in Subs : p[a] # 0

AlphasInv ==
  /\ IsFiniteSet(targets) /\ targets \subseteq Int
  /\ \A a \in Subs : cached[a].ratio \in Int /\ cached[a].dd \in Nat
  /\ PartsAreWeights(weights)
  /\ \A a \in Subs : OneSignal(a, signals[a]) /\ scores[a] = signals[a].strength
  /\ DOMAIN signals = Subs \cup {"ensemble"}
  /\ SignalIsSound(signals["ensemble"])
  /\ \E a \in Subs : signals["ensemble"].strength <= signals[a].strength
  /\ \E a \in Subs : signals["ensemble"].strength >= signals[a].strength

LEMMA ClampedScore ==
  ASSUME NEW x \in Int
  PROVE  Clamp(x) = IF x > 300 THEN 300 ELSE IF x < -300 THEN -300 ELSE x
<1>1. Min({300, x}) = IF 300 <= x THEN 300 ELSE x BY LesserOfTwo
<1>2. Min({300, x}) \in Int BY <1>1
<1>3. Max({-300, Min({300, x})})
        = IF -300 >= Min({300, x}) THEN -300 ELSE Min({300, x})
  BY <1>2, GreaterOfTwo
<1> QED BY <1>1, <1>3 DEF Clamp, One

LEMMA AbsoluteScore ==
  ASSUME NEW x \in Int
  PROVE  Abs(x) = IF x >= 0 THEN x ELSE -x
<1>1. Max({x, -x}) = IF x >= -x THEN x ELSE -x BY GreaterOfTwo
<1> QED BY <1>1 DEF Abs

LEMMA AtMostOne ==
  ASSUME NEW x \in Nat
  PROVE  /\ Min({x, 300}) \in Int /\ Min({x, 300}) >= 0
         /\ Min({x, 300}) <= 300
<1>1. Min({x, 300}) = IF x <= 300 THEN x ELSE 300 BY LesserOfTwo
<1> QED BY <1>1

LEMMA FlatSound ==
  ASSUME NEW a \in Subs PROVE OneSignal(a, Flat)
BY DEF OneSignal, SignalIsSound, Flat, Signal, Evaluated,
       DirectionOf, ThresholdOf, Subs

LEMMA ImbalanceSound ==
  ASSUME NEW x \in Int, x >= -300, x <= 300
  PROVE  OneSignal("imbalance", ImbalanceSignal(x))
<1> DEFINE c == Min({2 * Abs(x), One})
<1>1. 2 * Abs(x) \in Nat BY AbsoluteScore
<1>2. c \in Int /\ c >= 0 /\ c <= 300 BY <1>1, AtMostOne DEF One
<1> HIDE DEF c
<1>3. ImbalanceSignal(x) = Signal(DirectionOf(x, 30), x, c)
  BY DEF ImbalanceSignal, c
<1> QED BY <1>2, <1>3 DEF OneSignal, SignalIsSound, Signal, Evaluated,
                         DirectionOf, ThresholdOf

LEMMA LiquiditySound ==
  ASSUME NEW spread \in Int, NEW depth \in Int
  PROVE  OneSignal("liquidity",
                   LiquiditySignal(LiquidityScore(spread, depth), depth))
<1> DEFINE x == LiquidityScore(spread, depth)
           y == ((300 \div 10) * (spread - depth)) \div 4
<1>1. y \in Int
  <2>1. 300 \div 10 = 30 /\ 30 * (spread - depth) \in Int OBVIOUS
  <2> QED BY <2>1, DivFloor
<1>2. x \in Int /\ x >= -300 /\ x <= 300
  <2>1. x = -Clamp(y) BY DEF LiquidityScore, One
  <2> HIDE DEF x, y
  <2> QED BY <1>1, <2>1, ClampedScore
<1> HIDE DEF x
<1>3. Abs(x) = IF x >= 0 THEN x ELSE -x BY <1>2, AbsoluteScore
<1>4. OneSignal("liquidity", LiquiditySignal(x, depth))
  BY <1>2, <1>3 DEF OneSignal, SignalIsSound, LiquiditySignal, Signal,
                    Evaluated, DirectionOf, ThresholdOf, One
<1> QED BY <1>4 DEF x

LEMMA MicropriceSound ==
  ASSUME NEW z \in Int PROVE OneSignal("microprice", MicropriceSignal(z))
<1> DEFINE c == Min({10 * Abs(z), One})
           x == MicropriceScore(z)
<1>1. 10 * Abs(z) \in Nat BY AbsoluteScore
<1>2. c \in Int /\ c >= 0 /\ c <= 300 BY <1>1, AtMostOne DEF One
<1>3. x = IF 10 * z > 300 THEN 300 ELSE IF 10 * z < -300 THEN -300 ELSE 10 * z
  BY ClampedScore DEF MicropriceScore
<1> HIDE DEF c, x
<1>4. MicropriceSignal(z)
        = Signal(IF z > 15 THEN 1 ELSE IF z < -15 THEN -1 ELSE 0, x, c)
  BY DEF MicropriceSignal, c, x
<1> QED BY <1>2, <1>3, <1>4 DEF OneSignal, SignalIsSound, Signal, Evaluated,
                               DirectionOf, ThresholdOf

(* The score of the imbalance alpha: a difference of two probabilities.    *)
LEMMA ImbalanceScored ==
  ASSUME IsFiniteSet(targets), targets \subseteq Int,
         NEW score \in ImbalanceScores
  PROVE  score \in Int /\ score >= -300 /\ score <= 300
<1>1. CASE targets = {} BY <1>1 DEF ImbalanceScores
<1>2. CASE targets # {}
  <2>1. PICK p \in Probabilities(targets) : score = ImbalanceScore(p)
    BY <1>2 DEF ImbalanceScores
  <2>2. p \in [targets -> {0, 5, 10}] BY <2>1 DEF Probabilities
  <2>3. Max(targets) \in targets /\ Min(targets) \in targets
    BY <1>2, ExtremesIn
  <2>4. p[Max(targets)] \in {0, 5, 10} /\ p[Min(targets)] \in {0, 5, 10}
    BY <2>2, <2>3
  <2> QED BY <2>1, <2>4 DEF ImbalanceScore
<1> QED BY <1>1, <1>2

(* A blend of three strengths is between the least and the greatest.       *)
LEMMA BlendBetween ==
  ASSUME PartsAreWeights(weights), NEW strength \in [Subs -> Int],
         NEW low \in Subs, \A a \in Subs : strength[low] <= strength[a],
         NEW high \in Subs, \A a \in Subs : strength[a] <= strength[high]
  PROVE  /\ Blend(strength) \in Int
         /\ strength[low] <= Blend(strength)
         /\ Blend(strength) <= strength[high]
<1> DEFINE f == [a \in Subs |-> weights[a] * strength[a]]
           sum == SumFunction(f)
           whole == SumFunction(weights)
<1>1. Subs = {"imbalance", "liquidity", "microprice"} BY DEF Subs
<1>2. weights \in [Subs -> Nat] BY DEF PartsAreWeights
<1>3. f \in Amounts(Subs) /\ weights \in Amounts(Subs)
  <2>1. \A a \in Subs : weights[a] * strength[a] \in Int
    <3>1. TAKE a \in Subs
    <3>2. weights[a] \in Int /\ strength[a] \in Int BY <1>2
    <3> QED BY <3>2
  <2> QED BY <1>2, <2>1 DEF Amounts
<1>4. /\ sum = f["imbalance"] + f["liquidity"] + f["microprice"]
      /\ whole = weights["imbalance"] + weights["liquidity"] + weights["microprice"]
  BY <1>3, SumOfThree
<1> DEFINE w(a) == weights[a]
           s(a) == strength[a]
<1>5. /\ f["imbalance"] = w("imbalance") * s("imbalance")
      /\ f["liquidity"] = w("liquidity") * s("liquidity")
      /\ f["microprice"] = w("microprice") * s("microprice")
  BY <1>1
<1>6. \A a \in Subs : w(a) \in Nat /\ s(a) \in Int BY <1>2
<1>7. \A a \in Subs : w(a) * s(low) <= w(a) * s(a) /\ w(a) * s(a) <= w(a) * s(high)
  <2>1. TAKE a \in Subs
  <2>2. w(a) \in Nat /\ s(a) \in Int /\ s(low) \in Int /\ s(high) \in Int
        /\ s(low) <= s(a) /\ s(a) <= s(high)
    BY <1>6
  <2> HIDE DEF w, s
  <2> QED BY <2>2, TimesOrdered
<1>8. whole \in Nat \ {0}
  <2>1. PICK a \in Subs : weights[a] # 0 BY DEF PartsAreWeights
  <2>2. a = "imbalance" \/ a = "liquidity" \/ a = "microprice" BY <1>1
  <2> DEFINE x == weights["imbalance"]  y == weights["liquidity"]  z == weights["microprice"]
  <2>3. x \in Nat /\ y \in Nat /\ z \in Nat BY <1>1, <1>2
  <2>4. whole = x + y + z BY <1>4
  <2>5. x # 0 \/ y # 0 \/ z # 0 BY <2>1, <2>2
  <2> HIDE DEF whole, x, y, z
  <2> QED BY <2>3, <2>4, <2>5
<1>9. sum \in Int /\ whole * s(low) <= sum /\ sum <= whole * s(high)
  <2> DEFINE x == w("imbalance")  y == w("liquidity")  z == w("microprice")
             l == s(low)  h == s(high)
  <2>1. x \in Nat /\ y \in Nat /\ z \in Nat /\ l \in Int /\ h \in Int BY <1>1, <1>6
  <2>2. f["imbalance"] \in Int /\ f["liquidity"] \in Int /\ f["microprice"] \in Int
    BY <1>1, <1>3 DEF Amounts
  <2>3. /\ x * l <= f["imbalance"] /\ f["imbalance"] <= x * h
        /\ y * l <= f["liquidity"] /\ f["liquidity"] <= y * h
        /\ z * l <= f["microprice"] /\ f["microprice"] <= z * h
    <3>1. /\ "imbalance" \in Subs /\ "liquidity" \in Subs
          /\ "microprice" \in Subs
      BY <1>1
    <3> HIDE DEF w, s, f
    <3> QED BY <1>5, <1>7, <3>1
  <2>4. whole = x + y + z BY <1>4
  <2> HIDE DEF x, y, z, l, h, f, sum, whole
  <2>5. (x + y + z) * l = x * l + y * l + z * l /\ (x + y + z) * h = x * h + y * h + z * h
    BY <2>1
  <2>6. /\ x * l \in Int /\ y * l \in Int /\ z * l \in Int
        /\ x * h \in Int /\ y * h \in Int /\ z * h \in Int
    BY <2>1
  <2>7. sum \in Int /\ (x + y + z) * l <= sum /\ sum <= (x + y + z) * h
    BY <1>4, <2>2, <2>3, <2>5, <2>6
  <2>8. whole * l <= sum /\ sum <= whole * h BY <2>4, <2>7
  <2> QED BY <2>7, <2>8 DEF l, h
<1>10. Blend(strength) = IF sum >= 0 THEN sum \div whole ELSE -((-sum) \div whole)
  BY Zenon DEF Blend
<1>11. strength[low] \in Int /\ strength[high] \in Int OBVIOUS
<1> HIDE DEF sum, whole
<1> QED BY <1>8, <1>9, <1>10, <1>11, RoundedMean
(* Three numbers have a least and a greatest.                              *)
LEMMA EndsOfThree ==
  ASSUME NEW strength \in [Subs -> Int]
  PROVE  /\ \E low \in Subs : \A a \in Subs : strength[low] <= strength[a]
         /\ \E high \in Subs : \A a \in Subs : strength[a] <= strength[high]
<1>1. Subs = {"imbalance", "liquidity", "microprice"} BY DEF Subs
<1>2. /\ strength["imbalance"] \in Int /\ strength["liquidity"] \in Int
      /\ strength["microprice"] \in Int
  BY <1>1
<1> QED BY <1>1, <1>2

LEMMA EnsembleSound ==
  ASSUME NEW x \in Int, x >= -300, x <= 300
  PROVE  SignalIsSound(EnsembleSignal(x)) /\ EnsembleSignal(x).strength = x
<1>1. Abs(x) = IF x >= 0 THEN x ELSE -x BY AbsoluteScore
<1> QED BY <1>1 DEF SignalIsSound, EnsembleSignal, Signal, DirectionOf

LEMMA AlphasStart == ASSUME AlphasInit PROVE AlphasInv
<1>1. targets = {} /\ IsFiniteSet({}) /\ {} \subseteq Int BY FS_EmptySet DEF AlphasInit
<1>2. \A a \in Subs : cached[a].ratio \in Int /\ cached[a].dd \in Nat
  BY DEF AlphasInit, Unevaluated
<1>3. PartsAreWeights(weights)
  BY DEF AlphasInit, PartsAreWeights, Subs
<1>4. /\ DOMAIN signals = Subs \cup {"ensemble"}
      /\ \A a \in Subs : signals[a] = Flat
      /\ signals["ensemble"] = Flat
      /\ \A a \in Subs : scores[a] = 0
  BY DEF AlphasInit
<1>5. \A a \in Subs : OneSignal(a, signals[a]) BY <1>4, FlatSound
<1>6. Flat.strength = 0 BY DEF Flat, Signal
<1>7. "imbalance" \in Subs BY DEF Subs
<1>8. SignalIsSound(Flat) BY <1>7, FlatSound DEF OneSignal
<1> QED BY <1>1, <1>2, <1>3, <1>4, <1>5, <1>6, <1>7, <1>8 DEF AlphasInv

LEMMA FitStep ==
  ASSUME AlphasArePosed, AlphasInv, Fit PROVE AlphasInv'
<1>1. IsFiniteSet(targets)' /\ (targets \subseteq Int)'
  <2>1. PICK t \in Targets \cup {{}} : targets' = IF targets = {} THEN t ELSE targets
    BY DEF Fit
  <2>2. IsFiniteSet(t) /\ t \subseteq Int BY <2>1, FS_EmptySet DEF AlphasArePosed
  <2> QED BY <2>1, <2>2 DEF AlphasInv
<1>2. (\A a \in Subs : cached[a].ratio \in Int /\ cached[a].dd \in Nat)'
  <2>0. PICK evaluated \in SUBSET Subs : \E m \in [evaluated -> CachedMetrics] :
          cached' = [a \in Subs |-> IF a \in evaluated THEN m[a] ELSE cached[a]]
    BY DEF Fit
  <2>1. PICK m \in [evaluated -> CachedMetrics] :
          cached' = [a \in Subs |-> IF a \in evaluated THEN m[a] ELSE cached[a]]
    BY <2>0
  <2>2. ASSUME NEW a \in Subs
        PROVE  cached'[a].ratio \in Int /\ cached'[a].dd \in Nat
    <3>1. CASE a \in evaluated
      <4>1. cached'[a] = m[a] /\ m[a] \in CachedMetrics BY <2>1, <3>1
      <4> QED BY <4>1 DEF AlphasArePosed
    <3>2. CASE a \notin evaluated
      <4>1. cached'[a] = cached[a] BY <2>1, <3>2
      <4> QED BY <4>1 DEF AlphasInv
    <3> QED BY <3>1, <3>2
  <2> QED BY <2>2
<1>3. PartsAreWeights(weights)'
  <2> DEFINE p(a) == Part(a)'
  <2>1. \A a \in Subs : p(a) \in Nat
    <3>1. TAKE a \in Subs
    <3>2. cached'[a].ratio \in Int /\ cached'[a].dd \in Nat BY <1>2
    <3>3. Max({0, cached'[a].ratio}) \in Nat
      <4> DEFINE r == cached'[a].ratio
      <4>1. r \in Int BY <3>2
      <4> HIDE DEF r
      <4>2. Max({0, r}) = IF 0 >= r THEN 0 ELSE r BY <4>1, GreaterOfTwo
      <4>3. Max({0, r}) \in Nat BY <4>1, <4>2
      <4> QED BY <4>3 DEF r
    <3>4. cached'[a].dd # 0 => 20 \div cached'[a].dd \in Nat
      <4> DEFINE d == cached'[a].dd
      <4>1. d \in Nat BY <3>2
      <4> HIDE DEF d
      <4>2. d # 0 => 20 \div d \in Nat BY <4>1, NatDivOrdered
      <4> QED BY <4>2 DEF d
    <3> QED BY <3>3, <3>4 DEF Part
  <2>2. weights' = IF \A a \in Subs : p(a) = 0 THEN [a \in Subs |-> 1]
                 ELSE [a \in Subs |-> p(a)]
    BY DEF Fit, FittedWeights
  <2>3. "imbalance" \in Subs BY DEF Subs
  <2> HIDE DEF p
  <2>4. PartsAreWeights(weights') BY <2>1, <2>2, <2>3 DEF PartsAreWeights
  <2> QED BY <2>4 DEF PartsAreWeights, Subs
<1>4. signals' = signals /\ scores' = scores BY DEF Fit
<1> QED BY <1>1, <1>2, <1>3, <1>4 DEF AlphasInv, OneSignal, SignalIsSound

LEMMA EmitStep ==
  ASSUME AlphasArePosed, AlphasInv, Emit PROVE AlphasInv'
<1>1. PICK enough \in BOOLEAN, score \in ImbalanceScores, depth \in DepthZ,
           spread \in SpreadZ, z \in MicropriceZ :
             Snapshot(enough, score, depth, spread, z)
  BY Zenon DEF Emit
<1>2. depth \in Int /\ spread \in Int /\ z \in Int BY DEF AlphasArePosed
<1>3. score \in Int /\ score >= -300 /\ score <= 300 BY ImbalanceScored DEF AlphasInv
<1> DEFINE first == IF targets = {} THEN Flat ELSE ImbalanceSignal(score)
           second == IF ~enough THEN Flat
                     ELSE LiquiditySignal(LiquidityScore(spread, depth), depth)
           third == IF enough THEN MicropriceSignal(z) ELSE Flat
           subs == [imbalance |-> first, liquidity |-> second, microprice |-> third]
           strength == [a \in Subs |-> subs[a].strength]
           blend == Blend(strength)
<1>4. /\ scores' = strength
      /\ signals' = [a \in Subs \cup {"ensemble"} |->
                       IF a = "ensemble" THEN EnsembleSignal(blend) ELSE subs[a]]
      /\ targets' = targets /\ cached' = cached /\ weights' = weights
  BY <1>1, Zenon DEF Snapshot
<1>5. Subs = {"imbalance", "liquidity", "microprice"} BY DEF Subs
<1>6. /\ "imbalance" \in Subs /\ "liquidity" \in Subs
      /\ "microprice" \in Subs /\ "ensemble" \notin Subs
  BY <1>5
<1>7. OneSignal("imbalance", first) BY <1>3, <1>6, FlatSound, ImbalanceSound
<1>8. OneSignal("liquidity", second) BY <1>2, <1>6, FlatSound, LiquiditySound
<1>9. OneSignal("microprice", third) BY <1>2, <1>6, FlatSound, MicropriceSound
<1> HIDE DEF first, second, third
<1>10. subs.imbalance = first /\ subs.liquidity = second /\ subs.microprice = third
  OBVIOUS
<1>11. \A a \in Subs : OneSignal(a, subs[a])
  BY <1>5, <1>7, <1>8, <1>9, <1>10
<1> HIDE DEF subs
<1>12. \A a \in Subs : /\ strength[a] = subs[a].strength /\ strength[a] \in Int
                               /\ strength[a] >= -300 /\ strength[a] <= 300
  BY <1>11 DEF OneSignal, SignalIsSound
<1>13. strength \in [Subs -> Int] BY <1>12
<1> HIDE DEF strength
<1>14. PICK low \in Subs : \A a \in Subs : strength[low] <= strength[a]
  BY <1>13, EndsOfThree
<1>15. PICK high \in Subs : \A a \in Subs : strength[a] <= strength[high]
  BY <1>13, EndsOfThree
<1>16. PartsAreWeights(weights) BY DEF AlphasInv
<1>17. blend \in Int /\ strength[low] <= blend /\ blend <= strength[high]
  BY <1>13, <1>14, <1>15, <1>16, BlendBetween
<1> HIDE DEF blend
<1>18. blend >= -300 /\ blend <= 300
  <2>1. strength[low] \in Int /\ strength[low] >= -300 BY <1>12
  <2>2. strength[high] \in Int /\ strength[high] <= 300 BY <1>12
  <2> QED BY <1>17, <2>1, <2>2
<1>19. SignalIsSound(EnsembleSignal(blend)) /\ EnsembleSignal(blend).strength = blend
  BY <1>17, <1>18, EnsembleSound
<1>20. /\ DOMAIN signals' = Subs \cup {"ensemble"}
       /\ signals'["ensemble"] = EnsembleSignal(blend)
       /\ \A a \in Subs : signals'[a] = subs[a] /\ scores'[a] = subs[a].strength
  BY <1>4, <1>6, <1>12
<1>21. blend <= signals'[high].strength /\ blend >= signals'[low].strength
  BY <1>12, <1>17, <1>20
<1>22. \A a \in Subs : OneSignal(a, signals'[a]) /\ scores'[a] = signals'[a].strength
  BY <1>11, <1>20
<1>23. /\ \E a \in Subs : signals'["ensemble"].strength <= signals'[a].strength
       /\ \E a \in Subs : signals'["ensemble"].strength >= signals'[a].strength
  BY <1>19, <1>20, <1>21
<1>24. SignalIsSound(signals'["ensemble"]) BY <1>19, <1>20
<1>25. /\ IsFiniteSet(targets') /\ targets' \subseteq Int /\ PartsAreWeights(weights')
       /\ \A a \in Subs : cached'[a].ratio \in Int /\ cached'[a].dd \in Nat
  BY <1>4 DEF AlphasInv
<1> QED BY <1>20, <1>22, <1>23, <1>24, <1>25 DEF AlphasInv, OneSignal, SignalIsSound, PartsAreWeights

LEMMA BlendStaysInside ==
  ASSUME AlphasInv PROVE DirectionsAgree /\ BlendIsConvex
<1>1. DirectionsAgree
  BY DEF AlphasInv, OneSignal, DirectionsAgree, One
<1> DEFINE S == {signals[a].strength : a \in Subs}
           e == signals["ensemble"].strength
<1>2. Subs = {"imbalance", "liquidity", "microprice"} BY DEF Subs
<1>3. \A a \in Subs : signals[a].strength \in Int
  BY DEF AlphasInv, OneSignal, SignalIsSound
<1>4. IsFiniteSet(S) /\ S # {} /\ S \subseteq Int
  <2> DEFINE f == [a \in Subs |-> signals[a].strength]
  <2>1. IsFiniteSet(Subs) BY SubsAreThree
  <2>2. f \in Surjection(Subs, S) BY DEF Surjection
  <2>3. IsFiniteSet(S)
    <3> HIDE DEF f, S
    <3> QED BY <2>1, <2>2, FS_Surjection
  <2> QED BY <1>2, <1>3, <2>3
<1>5. e \in Int BY DEF AlphasInv, SignalIsSound
<1>6. PICK one \in S : e <= one BY DEF AlphasInv
<1>7. PICK other \in S : e >= other BY DEF AlphasInv
<1>8. /\ Max(S) \in S /\ \A y \in S : Max(S) >= y
      /\ Min(S) \in S /\ \A y \in S : Min(S) <= y
  <2> HIDE DEF S
  <2> QED BY <1>4, ExtremesIn
<1>9. e <= Max(S) /\ e >= Min(S)
  <2> HIDE DEF S, e
  <2>1. Max(S) \in Int /\ Min(S) \in Int /\ one \in Int /\ other \in Int
    BY <1>4, <1>6, <1>7, <1>8
  <2> QED BY <1>5, <1>6, <1>7, <1>8, <2>1
<1>10. ASSUME NEW a \in DOMAIN signals
       PROVE  /\ signals[a].strength \in -One..One
              /\ signals[a].confidence \in 0..One
              /\ signals[a].direction * signals[a].strength >= 0
  <2>1. SignalIsSound(signals[a])
    <3>1. a \in Subs \/ a = "ensemble" BY DEF AlphasInv
    <3> QED BY <3>1 DEF AlphasInv, OneSignal
  <2> DEFINE d == signals[a].direction
             x == signals[a].strength
  <2>2. d * x >= 0
    <3>1. /\ d \in {-1, 0, 1} /\ x \in Int
          /\ (d = 1 => x >= 0) /\ (d = -1 => x <= 0)
      BY <2>1 DEF SignalIsSound
    <3> HIDE DEF d, x
    <3>2. 0 * x = 0 /\ 1 * x = x /\ (-1) * x = -x BY <3>1
    <3> QED BY <3>1, <3>2
  <2> QED BY <2>1, <2>2 DEF SignalIsSound, One
<1> QED BY <1>1, <1>9, <1>10 DEF BlendIsConvex

(* For any targets, z-scores, metrics and blending methods: the direction  *)
(* of an alpha's signal is the one its evaluation gives the same score,    *)
(* unless a liquidity alpha stays out; the ensemble's strength is between  *)
(* those of its alphas, and every signal is one that AlphaSignal takes.    *)
THEOREM AlphasCorrect ==
  ASSUME AlphasArePosed
  PROVE  AlphasSpec => []ScoredAsTraded
<1>1. AlphasInit => AlphasInv BY AlphasStart
<1>2. AlphasInv /\ [AlphasNext]_alphasVars => AlphasInv'
  <2>1. ASSUME AlphasInv, UNCHANGED alphasVars PROVE AlphasInv'
    BY <2>1 DEF AlphasInv, alphasVars, OneSignal, SignalIsSound, PartsAreWeights
  <2> QED BY <2>1, FitStep, EmitStep DEF AlphasNext
<1>3. AlphasInv => ScoredAsTraded BY BlendStaysInside DEF ScoredAsTraded
<1> QED BY <1>1, <1>2, <1>3, PTL DEF AlphasSpec

----------------------------------------------------------------------------
(* What indicators and features look at.                                   *)
PeriodIsPositive == Period \in Nat \ {0}

Columns(m) == [1..m -> SUBSET Nat]

(* The column y begins with the column x.                                  *)
Continues(m, x, n, y) ==
  /\ m \in Nat /\ n \in Nat /\ m <= n
  /\ x \in Columns(m) /\ y \in Columns(n)
  /\ \A t \in 1..m : x[t] = y[t]

LEMMA BothContinue ==
  ASSUME NEW m, NEW n, NEW x, NEW y, NEW u, NEW v,
         Continues(m, x, n, y), Continues(m, u, n, v)
  PROVE  Continues(m, Both(x, u), n, Both(y, v))
<1> DEFINE V(z, w, t) == IF NaN \in {z[t], w[t]} THEN NaN ELSE z[t] \cup w[t]
<1>0. m \in Nat /\ n \in Nat /\ m <= n /\ DOMAIN x = 1..m /\ DOMAIN y = 1..n
  BY DEF Continues, Columns
<1>1. \A t \in 1..m : V(x, u, t) = V(y, v, t) BY DEF Continues
<1>2. \A t \in 1..n : V(y, v, t) \in SUBSET Nat BY DEF Continues, Columns, NaN
<1>3. \A t \in 1..m : V(x, u, t) \in SUBSET Nat BY DEF Continues, Columns, NaN
<1>4. /\ Both(x, u) = [t \in 1..m |-> V(x, u, t)]
      /\ Both(y, v) = [t \in 1..n |-> V(y, v, t)]
  BY <1>0, Zenon DEF Both
<1> HIDE DEF V
<1> QED BY <1>0, <1>1, <1>2, <1>3, <1>4 DEF Continues, Columns

LEMMA RowMaxContinues ==
  ASSUME NEW m, NEW n, NEW x, NEW y, NEW u, NEW v,
         Continues(m, x, n, y), Continues(m, u, n, v)
  PROVE  Continues(m, RowMax(x, u), n, RowMax(y, v))
BY DEF Continues, Columns, RowMax

LEMMA ShiftContinues ==
  ASSUME NEW m, NEW n, NEW x, NEW y, Continues(m, x, n, y), NEW k \in Nat
  PROVE  Continues(m, Shift(x, k), n, Shift(y, k))
BY DEF Continues, Columns, Shift, NaN

LEMMA DiffContinues ==
  ASSUME NEW m, NEW n, NEW x, NEW y, Continues(m, x, n, y), NEW k \in Nat
  PROVE  Continues(m, Diff(x, k), n, Diff(y, k))
BY ShiftContinues, BothContinue DEF Diff

(* What is defined, and what a set of rows depends on, up to some row.     *)
LEMMA RowsContinue ==
  ASSUME NEW m, NEW n, NEW x, NEW y, Continues(m, x, n, y),
         NEW rows, \A i \in rows : i \in Int /\ i <= m
  PROVE  /\ Defined(x, rows) = Defined(y, rows)
         /\ Defined(x, rows) \subseteq 1..m
<1>1. DOMAIN x = 1..m /\ DOMAIN y = 1..n BY DEF Continues, Columns
<1>2. rows \cap DOMAIN x = rows \cap DOMAIN y BY <1>1 DEF Continues
<1> QED BY <1>1, <1>2 DEF Continues, Defined, NaN

LEMMA OfContinues ==
  ASSUME NEW m, NEW n, NEW x, NEW y, Continues(m, x, n, y), NEW rows \in SUBSET (1..m)
  PROVE  Of(x, rows) = Of(y, rows) /\ Of(x, rows) \in SUBSET Nat
<1>1. \A i \in rows : x[i] = y[i] /\ x[i] \in SUBSET Nat BY DEF Continues, Columns
<1>2. {x[i] : i \in rows} = {y[i] : i \in rows} BY <1>1
<1>3. UNION {x[i] : i \in rows} \in SUBSET Nat BY <1>1
<1> QED BY <1>2, <1>3 DEF Of

LEMMA OfIn ==
  ASSUME NEW n \in Nat, NEW y \in Columns(n), NEW rows \in SUBSET (1..n)
  PROVE  Of(y, rows) \in SUBSET Nat
BY DEF Columns, Of

(* A row that depends on those up to it only.                              *)
LEMMA RollingContinues ==
  ASSUME NEW m, NEW n, NEW x, NEW y, Continues(m, x, n, y), NEW w \in Int, NEW minp
  PROVE  Continues(m, Rolling(x, w, minp), n, Rolling(y, w, minp))
<1> DEFINE R(z, t) == Defined(z, t - w + 1..t)
           V(z, t) == IF Cardinality(R(z, t)) >= minp THEN Of(z, R(z, t)) ELSE NaN
<1>0. m \in Nat /\ n \in Nat /\ m <= n /\ DOMAIN x = 1..m /\ DOMAIN y = 1..n /\ y \in Columns(n)
  BY DEF Continues, Columns
<1>1. \A t \in 1..m : V(x, t) = V(y, t)
  <2>1. TAKE t \in 1..m
  <2>2. \A i \in t - w + 1..t : i \in Int /\ i <= m BY <1>0
  <2>3. R(x, t) = R(y, t) /\ R(x, t) \subseteq 1..m BY <2>2, RowsContinue
  <2> HIDE DEF R
  <2>4. Of(x, R(x, t)) = Of(y, R(x, t)) BY <2>3, OfContinues
  <2> QED BY <2>3, <2>4
<1>2. \A t \in 1..n : V(y, t) \in SUBSET Nat
  <2>1. TAKE t \in 1..n
  <2>2. R(y, t) \in SUBSET (1..n) BY <1>0 DEF Defined
  <2> HIDE DEF R
  <2>3. Of(y, R(y, t)) \in SUBSET Nat BY <1>0, <2>2, OfIn
  <2> QED BY <2>3 DEF NaN
<1>3. \A t \in 1..m : V(x, t) \in SUBSET Nat
  <2>1. TAKE t \in 1..m
  <2>2. t \in 1..n BY <1>0
  <2> HIDE DEF V
  <2> QED BY <1>1, <1>2, <2>2
<1>4. /\ Rolling(x, w, minp) = [t \in 1..m |-> V(x, t)]
      /\ Rolling(y, w, minp) = [t \in 1..n |-> V(y, t)]
  BY <1>0, Zenon DEF Rolling
<1> HIDE DEF V
<1> QED BY <1>0, <1>1, <1>2, <1>3, <1>4 DEF Continues, Columns

LEMMA EwmContinues ==
  ASSUME NEW m, NEW n, NEW x, NEW y, Continues(m, x, n, y), NEW minp
  PROVE  Continues(m, Ewm(x, minp), n, Ewm(y, minp))
<1> DEFINE R(z, t) == Defined(z, 1..t)
           V(z, t) == IF Cardinality(R(z, t)) >= minp THEN Of(z, R(z, t)) ELSE NaN
<1>0. m \in Nat /\ n \in Nat /\ m <= n /\ DOMAIN x = 1..m /\ DOMAIN y = 1..n /\ y \in Columns(n)
  BY DEF Continues, Columns
<1>1. \A t \in 1..m : V(x, t) = V(y, t)
  <2>1. TAKE t \in 1..m
  <2>2. \A i \in 1..t : i \in Int /\ i <= m BY <1>0
  <2>3. R(x, t) = R(y, t) /\ R(x, t) \subseteq 1..m BY <2>2, RowsContinue
  <2> HIDE DEF R
  <2>4. Of(x, R(x, t)) = Of(y, R(x, t)) BY <2>3, OfContinues
  <2> QED BY <2>3, <2>4
<1>2. \A t \in 1..n : V(y, t) \in SUBSET Nat
  <2>1. TAKE t \in 1..n
  <2>2. R(y, t) \in SUBSET (1..n) BY <1>0 DEF Defined
  <2> HIDE DEF R
  <2>3. Of(y, R(y, t)) \in SUBSET Nat BY <1>0, <2>2, OfIn
  <2> QED BY <2>3 DEF NaN
<1>3. \A t \in 1..m : V(x, t) \in SUBSET Nat
  <2>1. TAKE t \in 1..m
  <2>2. t \in 1..n BY <1>0
  <2> HIDE DEF V
  <2> QED BY <1>1, <1>2, <2>2
<1>4. /\ Ewm(x, minp) = [t \in 1..m |-> V(x, t)]
      /\ Ewm(y, minp) = [t \in 1..n |-> V(y, t)]
  BY <1>0, Zenon DEF Ewm
<1> HIDE DEF V
<1> QED BY <1>0, <1>1, <1>2, <1>3, <1>4 DEF Continues, Columns

LEMMA CumSumContinues ==
  ASSUME NEW m, NEW n, NEW x, NEW y, Continues(m, x, n, y)
  PROVE  Continues(m, CumSum(x), n, CumSum(y))
<1> DEFINE V(z, t) == IF z[t] = NaN THEN NaN ELSE Of(z, 1..t)
<1>0. m \in Nat /\ n \in Nat /\ m <= n /\ DOMAIN x = 1..m /\ DOMAIN y = 1..n /\ y \in Columns(n)
  BY DEF Continues, Columns
<1>1. \A t \in 1..m : V(x, t) = V(y, t)
  <2>1. TAKE t \in 1..m
  <2>2. 1..t \in SUBSET (1..m) BY <1>0
  <2>3. Of(x, 1..t) = Of(y, 1..t) BY <2>2, OfContinues
  <2> QED BY <2>3 DEF Continues
<1>2. \A t \in 1..n : V(y, t) \in SUBSET Nat
  <2>1. TAKE t \in 1..n
  <2>2. 1..t \in SUBSET (1..n) BY <1>0
  <2>3. Of(y, 1..t) \in SUBSET Nat BY <1>0, <2>2, OfIn
  <2> QED BY <2>3 DEF NaN
<1>3. \A t \in 1..m : V(x, t) \in SUBSET Nat
  <2>1. TAKE t \in 1..m
  <2>2. t \in 1..n BY <1>0
  <2> HIDE DEF V
  <2> QED BY <1>1, <1>2, <2>2
<1>4. /\ CumSum(x) = [t \in 1..m |-> V(x, t)] /\ CumSum(y) = [t \in 1..n |-> V(y, t)]
  BY <1>0, Zenon DEF CumSum
<1> HIDE DEF V
<1> QED BY <1>0, <1>1, <1>2, <1>3, <1>4 DEF Continues, Columns

LEMMA FillContinues ==
  ASSUME NEW m, NEW n, NEW x, NEW y, Continues(m, x, n, y)
  PROVE  Continues(m, Fill(x), n, Fill(y))
BY DEF Continues, Columns, Fill, NaN, Constant

(* Series without their undefined rows continue each other as well.        *)
AllDefined(x) == \A i \in DOMAIN x : x[i] # NaN

LEMMA DropNaFacts ==
  ASSUME NEW n \in Nat, NEW y \in Columns(n)
  PROVE  LET kept == Defined(y, DOMAIN y)
         IN  /\ kept \in SUBSET (1..n) /\ kept \in SUBSET Nat /\ IsFiniteSet(kept)
             /\ Cardinality(kept) \in Nat
             /\ DropNa(y) = [k \in 1..Cardinality(kept) |-> y[Nth(kept, k)]]
             /\ DropNa(y) \in Columns(Cardinality(kept)) /\ AllDefined(DropNa(y))
<1> DEFINE kept == Defined(y, DOMAIN y)
           z == DropNa(y)
<1>1. DOMAIN y = 1..n BY DEF Columns
<1>2. kept \in SUBSET (1..n) /\ \A i \in kept : y[i] # NaN /\ y[i] \in SUBSET Nat
  BY <1>1 DEF Defined, Columns
<1>3. kept \in SUBSET Nat BY <1>2
<1>4. IsFiniteSet(kept)
  <2>1. IsFiniteSet(1..n) BY FS_Interval
  <2> HIDE DEF kept
  <2> QED BY <1>2, <2>1, FS_Subset
<1>5. Cardinality(kept) \in Nat /\ Cardinality(kept) = Cardinality(kept)
  BY <1>4, FS_CardinalityType
<1>6. z = [k \in 1..Cardinality(kept) |-> y[Nth(kept, k)]]
  BY Zenon DEF DropNa, Select
<1>7. z = [k \in 1..Cardinality(kept) |-> y[Nth(kept, k)]] BY <1>5, <1>6
<1>8. \A k \in 1..Cardinality(kept) : Nth(kept, k) \in kept
  <2> HIDE DEF kept
  <2> QED BY <1>3, <1>4, NthFacts
<1> HIDE DEF kept, z
<1>9. \A k \in 1..Cardinality(kept) : z[k] # NaN /\ z[k] \in SUBSET Nat
  BY <1>2, <1>7, <1>8
<1>10. z \in Columns(Cardinality(kept)) BY <1>7, <1>9 DEF Columns
<1>11. AllDefined(z) BY <1>7, <1>9 DEF AllDefined
<1> QED BY <1>2, <1>3, <1>4, <1>5, <1>7, <1>10, <1>11 DEF kept, z

Dropped(x) == Cardinality(Defined(x, DOMAIN x))

LEMMA DropNaContinues ==
  ASSUME NEW m, NEW n, NEW x, NEW y, Continues(m, x, n, y)
  PROVE  /\ Continues(Dropped(x), DropNa(x), Dropped(y), DropNa(y))
         /\ AllDefined(DropNa(x)) /\ AllDefined(DropNa(y))
<1> DEFINE S == Defined(x, DOMAIN x)
           T == Defined(y, DOMAIN y)
           u == DropNa(x)
           v == DropNa(y)
<1>1. /\ m \in Nat /\ n \in Nat /\ m <= n /\ x \in Columns(m) /\ y \in Columns(n)
      /\ DOMAIN x = 1..m /\ DOMAIN y = 1..n /\ \A t \in 1..m : x[t] = y[t]
  BY DEF Continues, Columns
<1>2. /\ S \in SUBSET (1..m) /\ S \in SUBSET Nat /\ IsFiniteSet(S) /\ Cardinality(S) \in Nat
      /\ u = [k \in 1..Cardinality(S) |-> x[Nth(S, k)]]
      /\ u \in Columns(Cardinality(S)) /\ AllDefined(u)
  BY <1>1, DropNaFacts
<1>3. /\ T \in SUBSET (1..n) /\ T \in SUBSET Nat /\ IsFiniteSet(T) /\ Cardinality(T) \in Nat
      /\ v = [k \in 1..Cardinality(T) |-> y[Nth(T, k)]]
      /\ v \in Columns(Cardinality(T)) /\ AllDefined(v)
  BY <1>1, DropNaFacts
<1>4. S \subseteq T /\ \A j \in T \ S : j > m
  BY <1>1 DEF Defined
<1>5. \A i \in S : \A j \in T \ S : i < j
  <2>1. \A i \in S : i \in Nat /\ i <= m BY <1>1, <1>2
  <2>2. \A j \in T \ S : j \in Nat BY <1>3
  <2> HIDE DEF S, T
  <2> QED BY <1>1, <1>4, <2>1, <2>2
<1> HIDE DEF S, T, u, v
<1>6. Cardinality(S) <= Cardinality(T) BY <1>3, <1>4, FS_Subset
<1>7. \A k \in 1..Cardinality(S) : Nth(T, k) = Nth(S, k) /\ Nth(S, k) \in S
  BY <1>2, <1>3, <1>4, <1>5, NthStays, NthFacts
<1>8. \A k \in 1..Cardinality(S) : u[k] = v[k]
  <2>1. TAKE k \in 1..Cardinality(S)
  <2>2. k \in 1..Cardinality(T) BY <1>2, <1>3, <1>6
  <2>3. u[k] = x[Nth(S, k)] /\ v[k] = y[Nth(S, k)] BY <1>2, <1>3, <1>7, <2>2
  <2>4. Nth(S, k) \in 1..m BY <1>2, <1>7
  <2> QED BY <1>1, <2>3, <2>4
<1>9. Continues(Cardinality(S), u, Cardinality(T), v)
  BY <1>2, <1>3, <1>6, <1>8 DEF Continues
<1> QED BY <1>2, <1>3, <1>9, Zenon DEF Dropped, S, T, u, v

(* The variance by exponential weights, of a series without gaps.          *)
LEMMA EwmaVarianceOf ==
  ASSUME NEW n \in Nat, NEW y \in Columns(n), AllDefined(y), NEW p \in Nat \ {0}
  PROVE  EwmaVariance(y, p) =
           [t \in 1..n |-> IF p >= 2 /\ t >= p
                           THEN Of(y, 1..IF p >= t - 1 THEN p ELSE t - 1) ELSE NaN]
<1> DEFINE valid == Defined(y, DOMAIN y)
           seed == Min(valid) + p - 1
           first == Defined(y, Min(valid)..seed)
           seeded == /\ Cardinality(valid) >= p /\ seed <= Len(y)
                     /\ Cardinality(first) >= 2
           V(t) == IF seeded /\ t >= seed
                   THEN Of(y, Min(valid)..Max({seed, t - 1})) ELSE NaN
           W(t) == IF p >= 2 /\ t >= p
                   THEN Of(y, 1..IF p >= t - 1 THEN p ELSE t - 1) ELSE NaN
<1>1. DOMAIN y = 1..n /\ Len(y) = n BY DEF Columns
<1>2. valid = 1..n BY <1>1 DEF Defined, AllDefined
<1>3. EwmaVariance(y, p) = [t \in 1..n |-> V(t)]
  BY <1>1, Zenon DEF EwmaVariance
<1>4. ASSUME NEW t \in 1..n PROVE V(t) = W(t)
  <2>1. 1 \in 1..n /\ 1..n \subseteq Int /\ \A i \in 1..n : 1 <= i BY <1>4
  <2>2. Min(valid) = 1 BY <1>2, <2>1, ExtremeIs
  <2>3. seed = p BY <2>2
  <2>4. Cardinality(valid) = n BY <1>2, FS_Interval
  <2>5. p <= n => first = 1..p
    <3>1. first = Defined(y, 1..p) BY <2>2, <2>3
    <3> QED BY <1>1, <3>1 DEF Defined, AllDefined
  <2>6. p <= n => Cardinality(first) = p BY <2>5, FS_Interval
  <2>7. Max({p, t - 1}) = IF p >= t - 1 THEN p ELSE t - 1
    <3>1. {p, t - 1} \subseteq Int /\ p \in {p, t - 1} /\ t - 1 \in {p, t - 1} OBVIOUS
    <3>2. p >= t - 1 => Max({p, t - 1}) = p BY <3>1, ExtremeIs
    <3>3. ~(p >= t - 1) => Max({p, t - 1}) = t - 1 BY <3>1, ExtremeIs
    <3> QED BY <3>2, <3>3
  <2>8. seeded <=> n >= p /\ p >= 2 BY <1>1, <2>3, <2>4, <2>6
  <2>9. V(t) = IF seeded /\ t >= p THEN Of(y, 1..Max({p, t - 1})) ELSE NaN
    BY <2>2, <2>3
  <2>10. t >= p => n >= p OBVIOUS
  <2> HIDE DEF seeded, V, seed, valid, first
  <2>11. V(t) = IF p >= 2 /\ t >= p THEN Of(y, 1..Max({p, t - 1})) ELSE NaN
    BY <2>8, <2>9, <2>10
  <2> QED BY <2>7, <2>11
<1> HIDE DEF V
<1> QED BY <1>3, <1>4

LEMMA EwmaVarianceContinues ==
  ASSUME NEW m, NEW n, NEW x, NEW y, Continues(m, x, n, y), AllDefined(x), AllDefined(y),
         NEW p \in Nat \ {0}
  PROVE  Continues(m, EwmaVariance(x, p), n, EwmaVariance(y, p))
<1> DEFINE rows(t) == 1..IF p >= t - 1 THEN p ELSE t - 1
           V(z, t) == IF p >= 2 /\ t >= p THEN Of(z, rows(t)) ELSE NaN
<1>0. m \in Nat /\ n \in Nat /\ m <= n /\ x \in Columns(m) /\ y \in Columns(n)
  BY DEF Continues
<1>1. \A t \in 1..m : V(x, t) = V(y, t)
  <2>1. TAKE t \in 1..m
  <2>2. t >= p => rows(t) \in SUBSET (1..m) BY <1>0
  <2> HIDE DEF rows
  <2>3. t >= p => Of(x, rows(t)) = Of(y, rows(t)) BY <2>2, OfContinues
  <2> QED BY <2>3
<1>2. \A t \in 1..n : V(y, t) \in SUBSET Nat
  <2>1. TAKE t \in 1..n
  <2>2. t >= p => rows(t) \in SUBSET (1..n) BY <1>0
  <2> HIDE DEF rows
  <2>3. t >= p => Of(y, rows(t)) \in SUBSET Nat BY <1>0, <2>2, OfIn
  <2> QED BY <2>3 DEF NaN
<1>3. \A t \in 1..m : V(x, t) \in SUBSET Nat
  <2>1. TAKE t \in 1..m
  <2>2. t \in 1..n BY <1>0
  <2> HIDE DEF V
  <2> QED BY <1>1, <1>2, <2>2
<1>4. EwmaVariance(x, p) = [t \in 1..m |-> V(x, t)] BY <1>0, EwmaVarianceOf
<1>5. EwmaVariance(y, p) = [t \in 1..n |-> V(y, t)] BY <1>0, EwmaVarianceOf
<1> HIDE DEF V
<1> QED BY <1>0, <1>1, <1>2, <1>3, <1>4, <1>5 DEF Continues, Columns

LEMMA TrueRangeContinues ==
  ASSUME NEW m, NEW n, NEW x, NEW y, Continues(m, x, n, y)
  PROVE  Continues(m, TrueRange(x), n, TrueRange(y))
<1> DEFINE u == RowMax(x, Shift(x, 1))
           v == RowMax(y, Shift(y, 1))
<1>1. Continues(m, u, n, v)
  <2>1. Continues(m, Shift(x, 1), n, Shift(y, 1)) BY ShiftContinues
  <2> QED BY <2>1, RowMaxContinues
<1>2. /\ TrueRange(x) = [t \in DOMAIN x |-> IF x[t] = NaN THEN NaN ELSE u[t]]
      /\ TrueRange(y) = [t \in DOMAIN y |-> IF y[t] = NaN THEN NaN ELSE v[t]]
  BY Zenon DEF TrueRange
<1> HIDE DEF u, v
<1> QED BY <1>1, <1>2 DEF Continues, Columns, NaN

LEMMA TrendSlopeContinues ==
  ASSUME NEW m, NEW n, NEW x, NEW y, Continues(m, x, n, y), NEW w \in Nat \ {0}
  PROVE  Continues(m, TrendSlope(x, w), n, TrendSlope(y, w))
<1> DEFINE a == Sma(x, w)
           b == Sma(y, w)
           R(z, t) == Defined(z, t - w + 1..t)
           V(z, t) == IF t >= 2 * w /\ Cardinality(R(z, t)) >= 2
                      THEN z[Min(R(z, t))] \cup z[Max(R(z, t))] ELSE NaN
<1>1. Continues(m, a, n, b) BY RollingContinues DEF Sma
<1>2. /\ TrendSlope(x, w) = [t \in DOMAIN x |-> V(a, t)]
      /\ TrendSlope(y, w) = [t \in DOMAIN y |-> V(b, t)]
  BY Zenon DEF TrendSlope
<1> HIDE DEF a, b
<1>3. m \in Nat /\ n \in Nat /\ m <= n /\ DOMAIN x = 1..m /\ DOMAIN y = 1..n
      /\ DOMAIN a = 1..m /\ DOMAIN b = 1..n
      /\ (\A t \in 1..n : b[t] \in SUBSET Nat) /\ \A t \in 1..m : a[t] = b[t]
  BY <1>1 DEF Continues, Columns
<1>4. ASSUME NEW t \in 1..n, Cardinality(R(b, t)) >= 2
      PROVE  Min(R(b, t)) \in R(b, t) /\ Max(R(b, t)) \in R(b, t)
  <2> DEFINE S == R(b, t)
  <2>1. S \in SUBSET (1..n) BY <1>3 DEF Defined
  <2>2. IsFiniteSet(S)
    <3>1. IsFiniteSet(1..n) BY <1>3, FS_Interval
    <3> HIDE DEF S
    <3> QED BY <2>1, <3>1, FS_Subset
  <2>3. Cardinality(S) >= 2 BY <1>4
  <2> HIDE DEF S, R
  <2>4. S # {}
    <3>1. Cardinality({}) = 0 BY FS_EmptySet
    <3> QED BY <2>3, <3>1
  <2>5. S \subseteq Int BY <2>1
  <2>6. Min(S) \in S /\ Max(S) \in S BY <2>2, <2>4, <2>5, ExtremesIn
  <2> QED BY <2>6 DEF S
<1>5. \A t \in 1..n : V(b, t) \in SUBSET Nat
  <2>1. TAKE t \in 1..n
  <2>2. \A i \in R(b, t) : b[i] \in SUBSET Nat BY <1>3 DEF Defined
  <2> HIDE DEF R
  <2>3. NaN \in SUBSET Nat BY DEF NaN
  <2>4. ASSUME Cardinality(R(b, t)) >= 2
        PROVE  b[Min(R(b, t))] \cup b[Max(R(b, t))] \in SUBSET Nat
    BY <1>4, <2>2, <2>4
  <2> QED BY <2>3, <2>4
<1>6. \A t \in 1..m : V(a, t) = V(b, t)
  <2>1. TAKE t \in 1..m
  <2>2. \A i \in t - w + 1..t : i \in Int /\ i <= m BY <1>3
  <2>3. R(a, t) = R(b, t) /\ R(a, t) \subseteq 1..m BY <1>1, <2>2, RowsContinue
  <2>4. t \in 1..n BY <1>3
  <2> HIDE DEF R
  <2>5. \A i \in R(b, t) : a[i] = b[i] BY <1>3, <2>3
  <2>6. ASSUME Cardinality(R(b, t)) >= 2
        PROVE  /\ a[Min(R(b, t))] = b[Min(R(b, t))]
               /\ a[Max(R(b, t))] = b[Max(R(b, t))]
    BY <1>4, <2>4, <2>5, <2>6
  <2> QED BY <2>3, <2>6
<1>7. \A t \in 1..m : V(a, t) \in SUBSET Nat
  <2>1. TAKE t \in 1..m
  <2>2. t \in 1..n BY <1>3
  <2> HIDE DEF V
  <2> QED BY <1>5, <1>6, <2>2
<1> HIDE DEF V
<1> QED BY <1>2, <1>3, <1>5, <1>6, <1>7 DEF Continues, Columns

LEMMA AvgCorrelationContinues ==
  ASSUME NEW m, NEW n, NEW x, NEW y, Continues(m, x, n, y), NEW w \in Nat \ {0}
  PROVE  Continues(m, AvgCorrelation(x, w), n, AvgCorrelation(y, w))
<1> DEFINE u == Shift(Rolling(x, w, 2), 1)
           v == Shift(Rolling(y, w, 2), 1)
<1>1. Continues(m, u, n, v)
  <2>1. Continues(m, Rolling(x, w, 2), n, Rolling(y, w, 2)) BY RollingContinues
  <2> QED BY <2>1, ShiftContinues
<1>2. /\ AvgCorrelation(x, w) = [t \in DOMAIN x |-> IF t <= w THEN NaN ELSE u[t]]
      /\ AvgCorrelation(y, w) = [t \in DOMAIN y |-> IF t <= w THEN NaN ELSE v[t]]
  BY Zenon DEF AvgCorrelation
<1> HIDE DEF u, v
<1> QED BY <1>1, <1>2 DEF Continues, Columns, NaN

----------------------------------------------------------------------------
(* Every indicator, volatility and feature continues with its input.       *)
Prefixed(u, v) == \E m, n : Continues(m, u, n, v)

LEMMA HullPeriods ==
  ASSUME NEW p \in Nat \ {0}
  PROVE  Max({1, p \div 2}) \in Int /\ Max({k \in 1..p : k * k <= p}) \in Int
<1>1. Max({1, p \div 2}) \in Int
  <2>1. p \div 2 \in Int BY DivFloor
  <2>2. {1, p \div 2} \subseteq Int /\ {1, p \div 2} # {} BY <2>1
  <2>3. IsFiniteSet({1, p \div 2})
    <3> DEFINE q == p \div 2
    <3>1. IsFiniteSet({} \cup {1}) BY FS_EmptySet, FS_AddElement
    <3>2. IsFiniteSet(({} \cup {1}) \cup {q}) BY <3>1, FS_AddElement
    <3>3. ({} \cup {1}) \cup {q} = {1, q} OBVIOUS
    <3> HIDE DEF q
    <3>4. IsFiniteSet({1, q}) BY <3>2, <3>3
    <3> QED BY <3>4 DEF q
  <2> QED BY <2>2, <2>3, ExtremesIn
<1>2. Max({k \in 1..p : k * k <= p}) \in Int
  <2> DEFINE S == {k \in 1..p : k * k <= p}
  <2>1. S \subseteq Int /\ S \subseteq 1..p OBVIOUS
  <2>2. 1 \in S OBVIOUS
  <2> HIDE DEF S
  <2>3. IsFiniteSet(S)
    <3>1. IsFiniteSet(1..p) BY FS_Interval
    <3> QED BY <2>1, <3>1, FS_Subset
  <2>4. Max(S) \in S BY <2>1, <2>2, <2>3, ExtremesIn
  <2>5. Max(S) \in Int BY <2>1, <2>4
  <2> QED BY <2>5 DEF S
<1> QED BY <1>1, <1>2

(* indicators/                                                             *)
LEMMA AveragesContinue ==
  ASSUME NEW m, NEW n, NEW x, NEW y, Continues(m, x, n, y), NEW p \in Nat \ {0}
  PROVE  /\ Continues(m, Sma(x, p), n, Sma(y, p))
         /\ Continues(m, Ema(x, p), n, Ema(y, p))
         /\ Continues(m, Wma(x, p), n, Wma(y, p))
         /\ Continues(m, Dema(x, p), n, Dema(y, p))
         /\ Continues(m, MacdHistogram(x, p), n, MacdHistogram(y, p))
<1>1. Continues(m, Sma(x, p), n, Sma(y, p))
  BY RollingContinues DEF Sma
<1>2. Continues(m, Ema(x, p), n, Ema(y, p))
  BY EwmContinues DEF Ema
<1>3. Continues(m, Wma(x, p), n, Wma(y, p))
  BY RollingContinues DEF Wma
<1>4. Continues(m, Ema(Ema(x, p), p), n, Ema(Ema(y, p), p))
  BY <1>2, EwmContinues DEF Ema
<1>5. Continues(m, Dema(x, p), n, Dema(y, p))
  BY <1>2, <1>4, BothContinue DEF Dema
<1>6. Continues(m, Ema(x, p - 1), n, Ema(y, p - 1))
  BY EwmContinues DEF Ema
<1>7. Continues(m, MacdLine(x, p), n, MacdLine(y, p))
  BY <1>2, <1>6, BothContinue DEF MacdLine
<1>8. Continues(m, Ema(MacdLine(x, p), p - 1), n, Ema(MacdLine(y, p), p - 1))
  BY <1>7, EwmContinues DEF Ema
<1>9. Continues(m, MacdHistogram(x, p), n, MacdHistogram(y, p))
  BY <1>7, <1>8, BothContinue DEF MacdHistogram
<1> QED BY <1>1, <1>2, <1>3, <1>5, <1>9

LEMMA HullMaContinues ==
  ASSUME NEW m, NEW n, NEW x, NEW y, Continues(m, x, n, y), NEW p \in Nat \ {0}
  PROVE  Continues(m, HullMa(x, p), n, HullMa(y, p))
<1> DEFINE half == Max({1, p \div 2})
           root == Max({k \in 1..p : k * k <= p})
           u == Both(Wma(x, half), Wma(x, p))
           v == Both(Wma(y, half), Wma(y, p))
<1>1. half \in Int /\ root \in Int BY HullPeriods
<1>2. HullMa(x, p) = Wma(u, root) /\ HullMa(y, p) = Wma(v, root)
  BY Zenon DEF HullMa
<1> HIDE DEF half, root
<1>3. Continues(m, Wma(x, half), n, Wma(y, half))
  BY <1>1, RollingContinues DEF Wma
<1>4. Continues(m, Wma(x, p), n, Wma(y, p)) BY RollingContinues DEF Wma
<1>5. Continues(m, u, n, v) BY <1>3, <1>4, BothContinue
<1> HIDE DEF u, v
<1>6. Continues(m, Wma(u, root), n, Wma(v, root))
  BY <1>1, <1>5, RollingContinues DEF Wma
<1> QED BY <1>2, <1>6

LEMMA OscillatorsContinue ==
  ASSUME NEW m, NEW n, NEW x, NEW y, Continues(m, x, n, y), NEW p \in Nat \ {0}
  PROVE  /\ Continues(m, Rsi(x, p), n, Rsi(y, p))
         /\ Continues(m, StochasticD(x, p), n, StochasticD(y, p))
         /\ Continues(m, RateOfChange(x, p), n, RateOfChange(y, p))
         /\ Continues(m, BollingerPercentB(x, p), n, BollingerPercentB(y, p))
<1>1. Continues(m, Diff(x, 1), n, Diff(y, 1))
  BY DiffContinues
<1>2. Continues(m, Rsi(x, p), n, Rsi(y, p))
  BY <1>1, EwmContinues DEF Rsi
<1>3. Continues(m, Rolling(x, p, p), n, Rolling(y, p, p))
  BY RollingContinues
<1>4. Continues(m, StochasticK(x, p), n, StochasticK(y, p))
  BY <1>3, BothContinue DEF StochasticK
<1>5. Continues(m, StochasticD(x, p), n, StochasticD(y, p))
  BY <1>4, RollingContinues DEF StochasticD
<1>6. Continues(m, RateOfChange(x, p), n, RateOfChange(y, p))
  BY DiffContinues DEF RateOfChange
<1>7. Continues(m, Sma(x, p), n, Sma(y, p))
  BY RollingContinues DEF Sma
<1>8. Continues(m, BollingerBand(x, p), n, BollingerBand(y, p))
  BY <1>3, <1>7, BothContinue DEF BollingerBand
<1>9. Continues(m, BollingerPercentB(x, p), n, BollingerPercentB(y, p))
  BY <1>8, BothContinue DEF BollingerPercentB
<1> QED BY <1>2, <1>5, <1>6, <1>9

(* indicators/volatility.py, regimes/.                                     *)
LEMMA VolatilitiesContinue ==
  ASSUME NEW m, NEW n, NEW x, NEW y, Continues(m, x, n, y), NEW p \in Nat \ {0}
  PROVE  /\ Continues(m, Atr(x, p), n, Atr(y, p))
         /\ Continues(m, LogReturns(x), n, LogReturns(y))
         /\ Continues(m, HistoricalVolatility(x, p), n, HistoricalVolatility(y, p))
         /\ Continues(m, VolRatio(x, p), n, VolRatio(y, p))
         /\ Continues(m, TrendRegime(x, p), n, TrendRegime(y, p))
<1>1. Continues(m, TrueRange(x), n, TrueRange(y))
  BY TrueRangeContinues
<1>2. Continues(m, Atr(x, p), n, Atr(y, p))
  BY <1>1, EwmContinues DEF Atr
<1>3. Continues(m, LogReturns(x), n, LogReturns(y))
  BY DiffContinues DEF LogReturns
<1>4. Continues(m, HistoricalVolatility(x, p), n, HistoricalVolatility(y, p))
  BY <1>3, RollingContinues DEF HistoricalVolatility
<1>5. Continues(m, HistoricalVolatility(x, p - 1), n, HistoricalVolatility(y, p - 1))
  BY <1>3, RollingContinues DEF HistoricalVolatility
<1>6. Continues(m, VolRatio(x, p), n, VolRatio(y, p))
  BY <1>4, <1>5, BothContinue DEF VolRatio
<1>7. Continues(m, Diff(x, 1), n, Diff(y, 1))
  BY DiffContinues
<1>8. Continues(m, DirectionalMove(x), n, DirectionalMove(y))
  BY <1>7, FillContinues DEF DirectionalMove
<1>9. Continues(m, Ewm(DirectionalMove(x), p), n, Ewm(DirectionalMove(y), p))
  BY <1>8, EwmContinues
<1>10. Continues(m, Both(Ewm(DirectionalMove(x), p), Atr(x, p)), n, Both(Ewm(DirectionalMove(y), p), Atr(y, p)))
  BY <1>2, <1>9, BothContinue
<1>11. Continues(m, Adx(x, p), n, Adx(y, p))
  BY <1>10, EwmContinues DEF Adx
<1>12. Continues(m, Fill(Adx(x, p)), n, Fill(Adx(y, p)))
  BY <1>11, FillContinues
<1>13. Continues(m, TrendSlope(x, p), n, TrendSlope(y, p))
  BY TrendSlopeContinues
<1>14. Continues(m, Fill(TrendSlope(x, p)), n, Fill(TrendSlope(y, p)))
  BY <1>13, FillContinues
<1>15. Continues(m, TrendRegime(x, p), n, TrendRegime(y, p))
  BY <1>12, <1>14, BothContinue DEF TrendRegime
<1> QED BY <1>2, <1>3, <1>4, <1>6, <1>15

(* strategies/                                                             *)
LEMMA FeaturesContinue ==
  ASSUME NEW m, NEW n, NEW x, NEW y, Continues(m, x, n, y), NEW p \in Nat \ {0}
  PROVE  /\ Continues(m, VwapZscore(x, p), n, VwapZscore(y, p))
         /\ Continues(m, Zscore(x, p), n, Zscore(y, p))
         /\ Continues(m, VolumeSpike(x, p), n, VolumeSpike(y, p))
         /\ Continues(m, FailedBreakout(x, p), n, FailedBreakout(y, p))
         /\ Continues(m, QueueImbalance(x, p), n, QueueImbalance(y, p))
         /\ Continues(m, DepthDrop(x, p), n, DepthDrop(y, p))
         /\ Continues(m, SpreadZscore(x, p), n, SpreadZscore(y, p))
         /\ Continues(m, LiquidityShock(x, p), n, LiquidityShock(y, p))
         /\ Continues(m, DeviationZscore(x, p), n, DeviationZscore(y, p))
<1>1. Continues(m, CumSum(x), n, CumSum(y))
  BY CumSumContinues
<1>2. Continues(m, Both(x, CumSum(x)), n, Both(y, CumSum(y)))
  BY <1>1, BothContinue
<1>3. Continues(m, Rolling(Both(x, CumSum(x)), p, p), n, Rolling(Both(y, CumSum(y)), p, p))
  BY <1>2, RollingContinues
<1>4. Continues(m, VwapZscore(x, p), n, VwapZscore(y, p))
  BY <1>2, <1>3, BothContinue DEF VwapZscore
<1>5. Continues(m, Rolling(x, p, p), n, Rolling(y, p, p))
  BY RollingContinues
<1>6. Continues(m, Zscore(x, p), n, Zscore(y, p))
  BY <1>5, BothContinue DEF Zscore
<1>7. Continues(m, Both(x, Rolling(x, p, p)), n, Both(y, Rolling(y, p, p)))
  BY <1>5, BothContinue
<1>8. Continues(m, VolumeSpike(x, p), n, VolumeSpike(y, p))
  BY <1>7, FillContinues DEF VolumeSpike
<1>9. Continues(m, Shift(Rolling(x, p, p), 1), n, Shift(Rolling(y, p, p), 1))
  BY <1>5, ShiftContinues
<1>10. Continues(m, Both(x, Shift(Rolling(x, p, p), 1)), n, Both(y, Shift(Rolling(y, p, p), 1)))
  BY <1>9, BothContinue
<1>11. Continues(m, FailedBreakout(x, p), n, FailedBreakout(y, p))
  BY <1>10, FillContinues DEF FailedBreakout
<1>12. Continues(m, Diff(x, 1), n, Diff(y, 1))
  BY DiffContinues
<1>13. Continues(m, QueueImbalance(x, p), n, QueueImbalance(y, p))
  BY <1>12, FillContinues DEF QueueImbalance
<1>14. Continues(m, DepthDrop(x, p), n, DepthDrop(y, p))
  BY <1>12 DEF DepthDrop
<1>15. Continues(m, SpreadZscore(x, p), n, SpreadZscore(y, p))
  BY <1>6 DEF SpreadZscore
<1>16. Continues(m, LiquidityShock(x, p), n, LiquidityShock(y, p))
  BY <1>6, FillContinues DEF LiquidityShock
<1>17. Continues(m, DeviationZscore(x, p), n, DeviationZscore(y, p))
  BY <1>6 DEF DeviationZscore
<1> QED BY <1>4, <1>6, <1>8, <1>11, <1>13, <1>14, <1>15, <1>16, <1>17

(* volatility/, on the returns there are.                                  *)
LEMMA ReturnsContinue ==
  ASSUME NEW m, NEW n, NEW x, NEW y, Continues(m, x, n, y), NEW p \in Nat \ {0}
  PROVE  /\ Prefixed(EwmaVolatility(x, p), EwmaVolatility(y, p))
         /\ Prefixed(RollingVolatility(x, p), RollingVolatility(y, p))
         /\ Prefixed(VolOfVol(x, p), VolOfVol(y, p))
<1> DEFINE u == LogReturns(x)
           v == LogReturns(y)
           r == DropNa(u)
           s == DropNa(v)
<1>1. Returns(x) = r /\ Returns(y) = s BY DEF Returns
<1>2. Continues(m, u, n, v) BY DiffContinues DEF LogReturns
<1> HIDE DEF u, v
<1>3. Continues(Dropped(u), r, Dropped(v), s) /\ AllDefined(r) /\ AllDefined(s)
  BY <1>2, DropNaContinues
<1> HIDE DEF r, s
<1> DEFINE a == Rolling(r, p, p)
           b == Rolling(s, p, p)
           c == Diff(a, 1)
           d == Diff(b, 1)
<1>4. Continues(Dropped(u), EwmaVariance(r, p), Dropped(v), EwmaVariance(s, p))
  BY <1>3, EwmaVarianceContinues
<1>5. Continues(Dropped(u), a, Dropped(v), b) BY <1>3, RollingContinues
<1>6. RollingVolatility(x, p) = a /\ RollingVolatility(y, p) = b
  BY <1>1 DEF RollingVolatility
<1> HIDE DEF a, b
<1>7. Continues(Dropped(u), c, Dropped(v), d) BY <1>5, DiffContinues
<1>8. /\ VolOfVol(x, p) = Rolling(DropNa(c), p, p)
      /\ VolOfVol(y, p) = Rolling(DropNa(d), p, p)
  BY <1>6 DEF VolOfVol
<1> HIDE DEF c, d
<1>9. Continues(Dropped(c), DropNa(c), Dropped(d), DropNa(d))
  BY <1>7, DropNaContinues
<1>10. Continues(Dropped(c), Rolling(DropNa(c), p, p),
                 Dropped(d), Rolling(DropNa(d), p, p))
  BY <1>9, RollingContinues
<1>11. Prefixed(EwmaVolatility(x, p), EwmaVolatility(y, p))
  BY <1>1, <1>4, Zenon DEF Prefixed, EwmaVolatility
<1>12. Prefixed(RollingVolatility(x, p), RollingVolatility(y, p))
  BY <1>5, <1>6, Zenon DEF Prefixed
<1>13. Prefixed(VolOfVol(x, p), VolOfVol(y, p))
  BY <1>8, <1>10, Zenon DEF Prefixed
<1> QED BY <1>11, <1>12, <1>13

LEMMA AllContinue ==
  ASSUME NEW m, NEW n, NEW x, NEW y, Continues(m, x, n, y), NEW p \in Nat \ {0},
         NEW name \in DOMAIN Causal(x, p)
  PROVE  Prefixed(Causal(x, p)[name], Causal(y, p)[name])
<1> DEFINE a == Causal(x, p)
           b == Causal(y, p)
<1>1. CASE name \in {"sma", "ema", "wma", "dema", "macd"}
  <2>1. /\ Continues(m, Sma(x, p), n, Sma(y, p))
        /\ Continues(m, Ema(x, p), n, Ema(y, p))
        /\ Continues(m, Wma(x, p), n, Wma(y, p))
        /\ Continues(m, Dema(x, p), n, Dema(y, p))
        /\ Continues(m, MacdHistogram(x, p), n, MacdHistogram(y, p))
    BY AveragesContinue
  <2>2. /\ a.sma = Sma(x, p) /\ b.sma = Sma(y, p)
        /\ a.ema = Ema(x, p) /\ b.ema = Ema(y, p)
        /\ a.wma = Wma(x, p) /\ b.wma = Wma(y, p)
        /\ a.dema = Dema(x, p) /\ b.dema = Dema(y, p)
        /\ a.macd = MacdHistogram(x, p) /\ b.macd = MacdHistogram(y, p)
    BY DEF Causal
  <2> HIDE DEF a, b
  <2>3. Continues(m, a[name], n, b[name]) BY <1>1, <2>1, <2>2
  <2>4. Prefixed(a[name], b[name]) BY <2>3, Zenon DEF Prefixed
  <2> QED BY <2>4 DEF a, b
<1>2. CASE name \in {"hull_ma"}
  <2>1. /\ Continues(m, HullMa(x, p), n, HullMa(y, p))
    BY HullMaContinues
  <2>2. /\ a.hull_ma = HullMa(x, p) /\ b.hull_ma = HullMa(y, p)
    BY DEF Causal
  <2> HIDE DEF a, b
  <2>3. Continues(m, a[name], n, b[name]) BY <1>2, <2>1, <2>2
  <2>4. Prefixed(a[name], b[name]) BY <2>3, Zenon DEF Prefixed
  <2> QED BY <2>4 DEF a, b
<1>3. CASE name \in {"rsi", "stochastic", "rate_of_change", "percent_b"}
  <2>1. /\ Continues(m, Rsi(x, p), n, Rsi(y, p))
        /\ Continues(m, StochasticD(x, p), n, StochasticD(y, p))
        /\ Continues(m, RateOfChange(x, p), n, RateOfChange(y, p))
        /\ Continues(m, BollingerPercentB(x, p), n, BollingerPercentB(y, p))
    BY OscillatorsContinue
  <2>2. /\ a.rsi = Rsi(x, p) /\ b.rsi = Rsi(y, p)
        /\ a.stochastic = StochasticD(x, p) /\ b.stochastic = StochasticD(y, p)
        /\ a.rate_of_change = RateOfChange(x, p) /\ b.rate_of_change = RateOfChange(y, p)
        /\ a.percent_b = BollingerPercentB(x, p) /\ b.percent_b = BollingerPercentB(y, p)
    BY DEF Causal
  <2> HIDE DEF a, b
  <2>3. Continues(m, a[name], n, b[name]) BY <1>3, <2>1, <2>2
  <2>4. Prefixed(a[name], b[name]) BY <2>3, Zenon DEF Prefixed
  <2> QED BY <2>4 DEF a, b
<1>4. CASE name \in {"atr", "historical_volatility", "trend_regime", "vol_ratio"}
  <2>1. /\ Continues(m, Atr(x, p), n, Atr(y, p))
        /\ Continues(m, HistoricalVolatility(x, p), n, HistoricalVolatility(y, p))
        /\ Continues(m, TrendRegime(x, p), n, TrendRegime(y, p))
        /\ Continues(m, VolRatio(x, p), n, VolRatio(y, p))
    BY VolatilitiesContinue
  <2>2. /\ a.atr = Atr(x, p) /\ b.atr = Atr(y, p)
        /\ a.historical_volatility = HistoricalVolatility(x, p) /\ b.historical_volatility = HistoricalVolatility(y, p)
        /\ a.trend_regime = TrendRegime(x, p) /\ b.trend_regime = TrendRegime(y, p)
        /\ a.vol_ratio = VolRatio(x, p) /\ b.vol_ratio = VolRatio(y, p)
    BY DEF Causal
  <2> HIDE DEF a, b
  <2>3. Continues(m, a[name], n, b[name]) BY <1>4, <2>1, <2>2
  <2>4. Prefixed(a[name], b[name]) BY <2>3, Zenon DEF Prefixed
  <2> QED BY <2>4 DEF a, b
<1>5. CASE name \in {"ewma_volatility", "vol", "vol_of_vol"}
  <2>1. /\ Prefixed(EwmaVolatility(x, p), EwmaVolatility(y, p))
        /\ Prefixed(RollingVolatility(x, p), RollingVolatility(y, p))
        /\ Prefixed(VolOfVol(x, p), VolOfVol(y, p))
    BY ReturnsContinue
  <2>2. /\ a.ewma_volatility = EwmaVolatility(x, p) /\ b.ewma_volatility = EwmaVolatility(y, p)
        /\ a.vol = RollingVolatility(x, p) /\ b.vol = RollingVolatility(y, p)
        /\ a.vol_of_vol = VolOfVol(x, p) /\ b.vol_of_vol = VolOfVol(y, p)
    BY DEF Causal
  <2> HIDE DEF a, b
  <2>3. Prefixed(a[name], b[name]) BY <1>5, <2>1, <2>2
  <2> QED BY <2>3 DEF a, b
<1>6. CASE name \in {"avg_corr"}
  <2>1. /\ Continues(m, AvgCorrelation(x, p), n, AvgCorrelation(y, p))
    BY AvgCorrelationContinues
  <2>2. /\ a.avg_corr = AvgCorrelation(x, p) /\ b.avg_corr = AvgCorrelation(y, p)
    BY DEF Causal
  <2> HIDE DEF a, b
  <2>3. Continues(m, a[name], n, b[name]) BY <1>6, <2>1, <2>2
  <2>4. Prefixed(a[name], b[name]) BY <2>3, Zenon DEF Prefixed
  <2> QED BY <2>4 DEF a, b
<1>7. CASE name \in {"vwap_zscore", "zscore", "volume_spike", "failed_breakout", "queue_imbalance", "depth_drop", "spread_zscore", "liquidity_shock", "deviation_zscore"}
  <2>1. /\ Continues(m, VwapZscore(x, p), n, VwapZscore(y, p))
        /\ Continues(m, Zscore(x, p), n, Zscore(y, p))
        /\ Continues(m, VolumeSpike(x, p), n, VolumeSpike(y, p))
        /\ Continues(m, FailedBreakout(x, p), n, FailedBreakout(y, p))
        /\ Continues(m, QueueImbalance(x, p), n, QueueImbalance(y, p))
        /\ Continues(m, DepthDrop(x, p), n, DepthDrop(y, p))
        /\ Continues(m, SpreadZscore(x, p), n, SpreadZscore(y, p))
        /\ Continues(m, LiquidityShock(x, p), n, LiquidityShock(y, p))
        /\ Continues(m, DeviationZscore(x, p), n, DeviationZscore(y, p))
    BY FeaturesContinue
  <2>2. /\ a.vwap_zscore = VwapZscore(x, p) /\ b.vwap_zscore = VwapZscore(y, p)
        /\ a.zscore = Zscore(x, p) /\ b.zscore = Zscore(y, p)
        /\ a.volume_spike = VolumeSpike(x, p) /\ b.volume_spike = VolumeSpike(y, p)
        /\ a.failed_breakout = FailedBreakout(x, p) /\ b.failed_breakout = FailedBreakout(y, p)
        /\ a.queue_imbalance = QueueImbalance(x, p) /\ b.queue_imbalance = QueueImbalance(y, p)
        /\ a.depth_drop = DepthDrop(x, p) /\ b.depth_drop = DepthDrop(y, p)
        /\ a.spread_zscore = SpreadZscore(x, p) /\ b.spread_zscore = SpreadZscore(y, p)
        /\ a.liquidity_shock = LiquidityShock(x, p) /\ b.liquidity_shock = LiquidityShock(y, p)
        /\ a.deviation_zscore = DeviationZscore(x, p) /\ b.deviation_zscore = DeviationZscore(y, p)
    BY DEF Causal
  <2> HIDE DEF a, b
  <2>3. Continues(m, a[name], n, b[name]) BY <1>7, <2>1, <2>2
  <2>4. Prefixed(a[name], b[name]) BY <2>3, Zenon DEF Prefixed
  <2> QED BY <2>4 DEF a, b
<1>8. name \in {"sma", "ema", "wma", "dema", "macd"}
             \cup {"hull_ma"}
             \cup {"rsi", "stochastic", "rate_of_change", "percent_b"}
             \cup {"atr", "historical_volatility", "trend_regime", "vol_ratio"}
             \cup {"ewma_volatility", "vol", "vol_of_vol"}
             \cup {"avg_corr"}
             \cup {"vwap_zscore", "zscore", "volume_spike", "failed_breakout", "queue_imbalance", "depth_drop", "spread_zscore", "liquidity_shock", "deviation_zscore"}
  BY DEF Causal
<1> QED BY <1>1, <1>2, <1>3, <1>4, <1>5, <1>6, <1>7, <1>8

(* A column that continues another one has it as a prefix.                 *)
LEMMA PrefixedIsPrefix ==
  ASSUME NEW u, NEW v, Prefixed(u, v) PROVE IsPrefix(u, v)
<1>1. PICK m, n : Continues(m, u, n, v) BY Zenon DEF Prefixed
<1>2. /\ m \in Nat /\ n \in Nat /\ m <= n /\ u \in [1..m -> SUBSET Nat] /\ v \in [1..n -> SUBSET Nat]
      /\ \A t \in 1..m : u[t] = v[t]
  BY <1>1 DEF Continues, Columns
<1>3. u \in Seq(SUBSET Nat) /\ v \in Seq(SUBSET Nat) /\ Len(u) = m /\ Len(v) = n BY <1>2
<1> DEFINE a == SubSeq(u, 1, m)
           b == SubSeq(v, 1, m)
<1>4. /\ a \in Seq(SUBSET Nat) /\ Len(a) = m /\ \A i \in 1..m : a[i] = u[i]
  <2>1. 1 \in Int /\ m \in Int /\ \A i \in 1..m : u[i] \in SUBSET Nat BY <1>2
  <2>2. a \in Seq(SUBSET Nat) BY <2>1, SubSeqProperties
  <2>3. Len(a) = IF 1 <= m THEN m - 1 + 1 ELSE 0 BY <2>1, SubSeqProperties
  <2>4. \A i \in 1..m - 1 + 1 : a[i] = u[1 + i - 1] BY <2>1, SubSeqProperties
  <2> HIDE DEF a
  <2>5. \A i \in 1..m : a[i] = u[i]
    <3> SUFFICES ASSUME NEW i \in 1..m PROVE a[i] = u[i] OBVIOUS
    <3>1. i \in 1..m - 1 + 1 /\ 1 + i - 1 = i BY <1>2
    <3> QED BY <2>4, <3>1
  <2> QED BY <1>2, <2>2, <2>3, <2>5
<1>5. /\ b \in Seq(SUBSET Nat) /\ Len(b) = m /\ \A i \in 1..m : b[i] = v[i]
  <2>1. 1 \in Int /\ m \in Int /\ \A i \in 1..m : v[i] \in SUBSET Nat BY <1>2
  <2>2. b \in Seq(SUBSET Nat) BY <2>1, SubSeqProperties
  <2>3. Len(b) = IF 1 <= m THEN m - 1 + 1 ELSE 0 BY <2>1, SubSeqProperties
  <2>4. \A i \in 1..m - 1 + 1 : b[i] = v[1 + i - 1] BY <2>1, SubSeqProperties
  <2> HIDE DEF b
  <2>5. \A i \in 1..m : b[i] = v[i]
    <3> SUFFICES ASSUME NEW i \in 1..m PROVE b[i] = v[i] OBVIOUS
    <3>1. i \in 1..m - 1 + 1 /\ 1 + i - 1 = i BY <1>2
    <3> QED BY <2>4, <3>1
  <2> QED BY <1>2, <2>2, <2>3, <2>5
<1> HIDE DEF a, b
<1>6. a = b
  <2>1. a = [i \in 1..m |-> a[i]] /\ b = [i \in 1..m |-> b[i]] BY <1>4, <1>5
  <2> QED BY <1>2, <1>4, <1>5, <2>1
<1>7. SubSeq(u, 1, Len(u)) = SubSeq(v, 1, Len(u)) BY <1>3, <1>6 DEF a, b
<1> QED BY <1>2, <1>3, <1>7 DEF IsPrefix

LEMMA RowsAppended ==
  ASSUME missing \in Seq(BOOLEAN), NewRow
  PROVE  Continues(Len(missing), Rows(1), Len(missing) + 1, Rows(1)')
<1>1. PICK b \in BOOLEAN : missing' = Append(missing, b) BY DEF NewRow
<1>2. PICK k \in Nat : k = Len(missing) OBVIOUS
<1>3. Len(missing') = k + 1 /\ \A i \in 1..k : missing'[i] = missing[i]
  BY <1>1, <1>2
<1>4. Rows(1) = [i \in 1..k |-> IF missing[i] THEN NaN ELSE {i}]
  <2>1. 1..Len(missing) - 1 + 1 = 1..k /\ \A i \in 1..k : 1 + i - 1 = i BY <1>2
  <2> QED BY <2>1 DEF Rows
<1>5. Rows(1)' = [i \in 1..k + 1 |-> IF missing'[i] THEN NaN ELSE {i}]
  <2>1. 1..Len(missing') - 1 + 1 = 1..k + 1 /\ \A i \in 1..k + 1 : 1 + i - 1 = i BY <1>3
  <2> QED BY <2>1 DEF Rows, NaN
<1> DEFINE x == [i \in 1..k |-> IF missing[i] THEN NaN ELSE {i}]
           y == [i \in 1..k + 1 |-> IF missing'[i] THEN NaN ELSE {i}]
<1>6. x \in Columns(k) /\ y \in Columns(k + 1) BY DEF Columns, NaN
<1>7. \A t \in 1..k : x[t] = y[t] BY <1>3
<1> HIDE DEF x, y
<1>8. Continues(k, x, k + 1, y) BY <1>6, <1>7 DEF Continues
<1> QED BY <1>2, <1>4, <1>5, <1>8 DEF x, y

(* For every period and any rows, missing or not: whatever row comes, no   *)
(* indicator, volatility, regime or feature changes at an earlier row; a   *)
(* backtest computes them over the whole series and sees what it would     *)
(* have seen at each bar ("Zero look-ahead bias").                         *)
THEOREM NoRepaintCorrect ==
  ASSUME PeriodIsPositive
  PROVE  RowsSpec => NoRepaint
<1> DEFINE Typed == missing \in Seq(BOOLEAN)
<1>1. RowsInit => Typed BY DEF RowsInit
<1>2. Typed /\ [NewRow]_missing => Typed'
  BY DEF NewRow
<1>3. ASSUME Typed, NewRow PROVE Appended
  <2> DEFINE x == Rows(1)
             y == Rows(1)'
  <2>1. Continues(Len(missing), x, Len(missing) + 1, y) BY <1>3, RowsAppended
  <2>2. Causal(Rows(1), Period)' = Causal(y, Period) OBVIOUS
  <2> HIDE DEF x, y
  <2>3. Period \in Nat \ {0} BY DEF PeriodIsPositive
  <2>4. \A name \in DOMAIN Causal(x, Period) :
          IsPrefix(Causal(x, Period)[name], Causal(y, Period)[name])
    BY <2>1, <2>3, AllContinue, PrefixedIsPrefix
  <2> QED BY <2>2, <2>4, Zenon DEF Appended, x, y
<1>4. Typed /\ [NewRow]_missing => [NewRow => Appended]_missing BY <1>3
<1> QED BY <1>1, <1>2, <1>4, PTL DEF RowsSpec, NoRepaint

----------------------------------------------------------------------------
(* The rows of z from the a-th on are the last rows of x, which has d rows *)
(* more before them.                                                       *)
EndsAs(a, n, z, d, x) ==
  /\ a \in Nat \ {0} /\ n \in Nat /\ d \in Nat
  /\ z \in Columns(n) /\ x \in Columns(n + d)
  /\ \A t \in a..n : z[t] = x[t + d]

LEMMA Later ==
  ASSUME NEW a, NEW n, NEW z, NEW d, NEW x, EndsAs(a, n, z, d, x), NEW b \in Nat, b >= a
  PROVE  EndsAs(b, n, z, d, x)
BY DEF EndsAs

LEMMA EndsColumns ==
  ASSUME NEW a, NEW n, NEW z, NEW d, NEW x, EndsAs(a, n, z, d, x)
  PROVE  Continues(n, z, n, z) /\ Continues(n + d, x, n + d, x)
BY DEF EndsAs, Continues

LEMMA BothServed ==
  ASSUME NEW a, NEW n, NEW d, NEW z, NEW x, NEW u, NEW v,
         EndsAs(a, n, z, d, x), EndsAs(a, n, u, d, v)
  PROVE  EndsAs(a, n, Both(z, u), d, Both(x, v))
<1>1. Continues(n, Both(z, u), n, Both(z, u)) BY EndsColumns, BothContinue
<1>2. Continues(n + d, Both(x, v), n + d, Both(x, v)) BY EndsColumns, BothContinue
<1>3. ASSUME NEW t \in a..n PROVE Both(z, u)[t] = Both(x, v)[t + d]
  <2>1. t \in DOMAIN z /\ t + d \in DOMAIN x BY DEF EndsAs, Columns
  <2>2. z[t] = x[t + d] /\ u[t] = v[t + d] BY DEF EndsAs
  <2> QED BY <2>1, <2>2 DEF Both
<1> QED BY <1>1, <1>2, <1>3 DEF EndsAs, Continues

LEMMA ShiftServed ==
  ASSUME NEW a, NEW n, NEW z, NEW d, NEW x, EndsAs(a, n, z, d, x), NEW k \in Nat
  PROVE  EndsAs(a + k, n, Shift(z, k), d, Shift(x, k))
<1>1. Continues(n, Shift(z, k), n, Shift(z, k)) BY EndsColumns, ShiftContinues
<1>2. Continues(n + d, Shift(x, k), n + d, Shift(x, k))
  BY EndsColumns, ShiftContinues
<1>3. ASSUME NEW t \in a + k..n PROVE Shift(z, k)[t] = Shift(x, k)[t + d]
  <2>1. /\ a \in Nat \ {0} /\ n \in Nat /\ d \in Nat /\ DOMAIN z = 1..n /\ DOMAIN x = 1..n + d
    BY DEF EndsAs, Columns
  <2>2. t \in 1..n /\ t - k \in a..n /\ t - k \in 1..n BY <2>1
  <2>3. t + d \in 1..n + d /\ t + d - k \in 1..n + d /\ t + d - k = t - k + d BY <2>1, <2>2
  <2>4. z[t - k] = x[t - k + d] BY <2>2 DEF EndsAs
  <2> QED BY <2>1, <2>2, <2>3, <2>4 DEF Shift
<1> QED BY <1>1, <1>2, <1>3 DEF EndsAs, Continues

LEMMA FillServed ==
  ASSUME NEW a, NEW n, NEW z, NEW d, NEW x, EndsAs(a, n, z, d, x)
  PROVE  EndsAs(a, n, Fill(z), d, Fill(x))
<1>1. Continues(n, Fill(z), n, Fill(z)) BY EndsColumns, FillContinues
<1>2. Continues(n + d, Fill(x), n + d, Fill(x)) BY EndsColumns, FillContinues
<1>3. ASSUME NEW t \in a..n PROVE Fill(z)[t] = Fill(x)[t + d]
  <2>1. t \in DOMAIN z /\ t + d \in DOMAIN x BY DEF EndsAs, Columns
  <2> QED BY <2>1 DEF EndsAs, Fill
<1> QED BY <1>1, <1>2, <1>3 DEF EndsAs, Continues

LEMMA MovedCount ==
  ASSUME NEW S, NEW d \in Int, S \subseteq Int, IsFiniteSet(S)
  PROVE  Cardinality({i + d : i \in S}) = Cardinality(S)
<1> DEFINE T == {i + d : i \in S}
           f == [i \in S |-> i + d]
<1>1. f \in Bijection(S, T)
  BY DEF Bijection, Injection, Surjection, IsInjective
<1>2. ExistsBijection(S, T) BY <1>1 DEF ExistsBijection
<1> HIDE DEF T, f
<1>3. Cardinality(T) = Cardinality(S) BY <1>2, FS_Bijection
<1> QED BY <1>3 DEF T

(* A window that reaches back w rows is the same for rows that are at      *)
(* least that far behind the first of the buffer.                          *)
LEMMA RollingServed ==
  ASSUME NEW a, NEW n, NEW z, NEW d, NEW x, EndsAs(a, n, z, d, x),
         NEW w \in Nat \ {0}, NEW minp
  PROVE  EndsAs(a + w - 1, n, Rolling(z, w, minp), d, Rolling(x, w, minp))
<1> DEFINE R(s, t) == Defined(s, t - w + 1..t)
           V(s, t) == IF Cardinality(R(s, t)) >= minp THEN Of(s, R(s, t)) ELSE NaN
<1>0. /\ a \in Nat \ {0} /\ n \in Nat /\ d \in Nat /\ DOMAIN z = 1..n /\ DOMAIN x = 1..n + d
      /\ \A t \in a..n : z[t] = x[t + d]
  BY DEF EndsAs, Columns
<1>1. Continues(n, Rolling(z, w, minp), n, Rolling(z, w, minp))
  BY EndsColumns, RollingContinues
<1>2. Continues(n + d, Rolling(x, w, minp), n + d, Rolling(x, w, minp))
  BY EndsColumns, RollingContinues
<1>3. ASSUME NEW t \in a + w - 1..n PROVE V(z, t) = V(x, t + d)
  <2> DEFINE W == t - w + 1..t
             Y == t + d - w + 1..t + d
  <2>1. W \subseteq a..n /\ W \subseteq 1..n /\ Y \subseteq 1..n + d /\ W \subseteq Int BY <1>0
  <2>2. \A i \in Int : i \in W <=> i + d \in Y BY <1>0
  <2>3. \A j \in Y : j - d \in W /\ j = j - d + d BY <1>0
  <2>4. R(z, t) = {i \in W : z[i] # NaN} BY <1>0, <2>1 DEF Defined
  <2>5. R(x, t + d) = {j \in Y : x[j] # NaN} BY <1>0, <2>1 DEF Defined
  <2>6. IsFiniteSet(W) BY <1>0, FS_Interval
  <2>7. \A i \in W : z[i] = x[i + d] BY <1>0, <2>1
  <2> DEFINE A == R(z, t)
             B == R(x, t + d)
  <2> HIDE DEF W, Y
  <2>8. A \subseteq W /\ IsFiniteSet(A) BY <2>4, <2>6, FS_Subset
  <2>9. B = {i + d : i \in A}
    <3>1. ASSUME NEW i \in A PROVE i + d \in B BY <2>1, <2>2, <2>4, <2>5, <2>7
    <3>2. ASSUME NEW j \in B PROVE \E i \in A : j = i + d
      <4>1. j \in Y /\ x[j] # NaN BY <2>5
      <4>2. j - d \in W /\ j = j - d + d BY <2>3, <4>1
      <4>3. j - d \in A BY <2>4, <2>7, <4>1, <4>2
      <4> QED BY <4>2, <4>3
    <3> HIDE DEF A, B
    <3> QED BY <3>1, <3>2
  <2> HIDE DEF A, B
  <2>10. Cardinality(A) = Cardinality(B)
    <3>1. A \subseteq Int /\ d \in Int BY <1>0, <2>1, <2>8
    <3>2. Cardinality(A) = Cardinality(B) BY <2>8, <2>9, <3>1, MovedCount
    <3> QED BY <3>2
  <2>11. Of(z, A) = Of(x, B)
    <3>1. \A i \in A : z[i] = x[i + d] BY <2>7, <2>8
    <3> QED BY <2>9, <3>1 DEF Of
  <2>12. V(z, t) = IF Cardinality(A) >= minp THEN Of(z, A) ELSE NaN
    BY DEF A
  <2>13. V(x, t + d) = IF Cardinality(B) >= minp THEN Of(x, B) ELSE NaN
    BY DEF B
  <2> HIDE DEF V
  <2> QED BY <2>10, <2>11, <2>12, <2>13
<1>4. /\ Rolling(z, w, minp) = [t \in 1..n |-> V(z, t)]
      /\ Rolling(x, w, minp) = [t \in 1..n + d |-> V(x, t)]
  BY <1>0, Zenon DEF Rolling
<1> HIDE DEF V
<1>5. ASSUME NEW t \in a + w - 1..n
      PROVE  Rolling(z, w, minp)[t] = Rolling(x, w, minp)[t + d]
  <2>1. t \in 1..n /\ t + d \in 1..n + d BY <1>0
  <2> QED BY <1>3, <1>4, <2>1
<1>6. a + w - 1 \in Nat \ {0} BY <1>0
<1> QED BY <1>0, <1>1, <1>2, <1>5, <1>6 DEF EndsAs, Continues

LEMMA DiffServed ==
  ASSUME NEW a, NEW n, NEW z, NEW d, NEW x, EndsAs(a, n, z, d, x), NEW k \in Nat
  PROVE  EndsAs(a + k, n, Diff(z, k), d, Diff(x, k))
<1>1. EndsAs(a + k, n, z, d, x) BY Later DEF EndsAs
<1> QED BY <1>1, ShiftServed, BothServed DEF Diff

LEMMA ZscoreServed ==
  ASSUME NEW n, NEW z, NEW d, NEW x, EndsAs(1, n, z, d, x), NEW p \in Nat \ {0}
  PROVE  /\ EndsAs(p, n, Rolling(z, p, p), d, Rolling(x, p, p))
         /\ EndsAs(p, n, Zscore(z, p), d, Zscore(x, p))
<1>1. EndsAs(1 + p - 1, n, Rolling(z, p, p), d, Rolling(x, p, p))
  BY RollingServed
<1>2. 1 + p - 1 = p OBVIOUS
<1>3. EndsAs(p, n, Rolling(z, p, p), d, Rolling(x, p, p)) BY <1>1, <1>2
<1>4. EndsAs(p, n, z, d, x) BY Later
<1> QED BY <1>3, <1>4, BothServed DEF Zscore

(* Each feature on the rows it needs.                                      *)
LEMMA FeaturesServed ==
  ASSUME NEW n, NEW z, NEW d, NEW x, EndsAs(1, n, z, d, x), NEW p \in Nat \ {0, 1}
  PROVE  /\ EndsAs(p, n, SpreadZscore(z, p), d, SpreadZscore(x, p))
         /\ EndsAs(p, n, LiquidityShock(z, p), d, LiquidityShock(x, p))
         /\ EndsAs(p, n, DepthDrop(z, p), d, DepthDrop(x, p))
         /\ EndsAs(p, n, DeviationZscore(z, p), d, DeviationZscore(x, p))
         /\ EndsAs(p + 2, n, Sma(z, p), d, Sma(x, p))
         /\ EndsAs(p + 2, n, Zscore(z, p), d, Zscore(x, p))
         /\ EndsAs(p + 2, n, VolRatio(z, p), d, VolRatio(x, p))
         /\ EndsAs(p + 2, n, VolumeSpike(z, p), d, VolumeSpike(x, p))
         /\ EndsAs(p + 2, n, FailedBreakout(z, p), d, FailedBreakout(x, p))
<1>1. EndsAs(p, n, Rolling(z, p, p), d, Rolling(x, p, p)) BY ZscoreServed
<1>2. EndsAs(p, n, Zscore(z, p), d, Zscore(x, p)) BY ZscoreServed
<1>3. EndsAs(p, n, SpreadZscore(z, p), d, SpreadZscore(x, p))
  BY <1>2 DEF SpreadZscore
<1>4. EndsAs(p, n, LiquidityShock(z, p), d, LiquidityShock(x, p))
  BY <1>2, FillServed DEF LiquidityShock
<1>5. EndsAs(2, n, Diff(z, 1), d, Diff(x, 1))
  <2>1. EndsAs(1 + 1, n, Diff(z, 1), d, Diff(x, 1)) BY DiffServed
  <2> QED BY <2>1
<1>6. EndsAs(p, n, DepthDrop(z, p), d, DepthDrop(x, p))
  BY <1>5, Later DEF DepthDrop
<1>7. EndsAs(p, n, DeviationZscore(z, p), d, DeviationZscore(x, p))
  BY <1>2 DEF DeviationZscore
<1>8. EndsAs(p + 2, n, Sma(z, p), d, Sma(x, p)) BY <1>1, Later DEF Sma
<1>9. EndsAs(p + 2, n, Zscore(z, p), d, Zscore(x, p)) BY <1>2, Later
<1>10. EndsAs(p + 2, n, VolRatio(z, p), d, VolRatio(x, p))
  <2>1. EndsAs(2 + (p - 1) - 1, n, HistoricalVolatility(z, p - 1), d,
               HistoricalVolatility(x, p - 1))
    BY <1>5, RollingServed DEF HistoricalVolatility, LogReturns
  <2>2. EndsAs(2 + p - 1, n, HistoricalVolatility(z, p), d,
               HistoricalVolatility(x, p))
    BY <1>5, RollingServed DEF HistoricalVolatility, LogReturns
  <2>3. p + 2 \in Nat /\ p + 2 >= 2 + (p - 1) - 1 /\ p + 2 >= 2 + p - 1 OBVIOUS
  <2>4. EndsAs(p + 2, n, HistoricalVolatility(z, p - 1), d,
               HistoricalVolatility(x, p - 1))
    BY <2>1, <2>3, Later
  <2>5. EndsAs(p + 2, n, HistoricalVolatility(z, p), d, HistoricalVolatility(x, p))
    BY <2>2, <2>3, Later
  <2> QED BY <2>4, <2>5, BothServed DEF VolRatio
<1>11. EndsAs(p + 2, n, VolumeSpike(z, p), d, VolumeSpike(x, p))
  <2>1. VolumeSpike(z, p) = Fill(Zscore(z, p)) /\
        VolumeSpike(x, p) = Fill(Zscore(x, p))
    BY Zenon DEF VolumeSpike, Zscore
  <2> QED BY <1>9, <2>1, FillServed
<1>12. EndsAs(p + 2, n, FailedBreakout(z, p), d, FailedBreakout(x, p))
  <2> DEFINE u == Shift(Rolling(z, p, p), 1)
             v == Shift(Rolling(x, p, p), 1)
  <2>1. EndsAs(p + 1, n, u, d, v) BY <1>1, ShiftServed
  <2>2. FailedBreakout(z, p) = Fill(Both(z, u)) /\
        FailedBreakout(x, p) = Fill(Both(x, v))
    BY Zenon DEF FailedBreakout
  <2> HIDE DEF u, v
  <2>3. EndsAs(p + 2, n, u, d, v) BY <2>1, Later
  <2>4. EndsAs(p + 2, n, z, d, x) BY Later
  <2>5. EndsAs(p + 2, n, Both(z, u), d, Both(x, v)) BY <2>3, <2>4, BothServed
  <2> QED BY <2>2, <2>5, FillServed
<1> QED BY <1>2, <1>3, <1>4, <1>6, <1>7, <1>8, <1>9, <1>10, <1>11, <1>12

LEMMA RowsServed ==
  ASSUME missing \in Seq(BOOLEAN), NEW n \in Nat, Len(missing) >= n
  PROVE  EndsAs(1, n, Rows(Len(missing) - n + 1), Len(missing) - n, Rows(1))
<1>1. PICK k \in Nat : k = Len(missing) OBVIOUS
<1>2. PICK d \in Nat : d = k - n
  <2>1. k - n \in Nat BY <1>1
  <2> QED BY <2>1
<1> DEFINE z == [i \in 1..n |-> IF missing[d + 1 + i - 1] THEN NaN ELSE {d + 1 + i - 1}]
           x == [i \in 1..n + d |-> IF missing[1 + i - 1] THEN NaN ELSE {1 + i - 1}]
<1>3. Rows(Len(missing) - n + 1) = z
  <2>1. Len(missing) - n + 1 = d + 1 /\ Len(missing) - (d + 1) + 1 = n BY <1>1, <1>2
  <2>2. Rows(d + 1) = z BY <2>1 DEF Rows
  <2> QED BY <2>1, <2>2
<1>4. Rows(1) = x
  <2>1. Len(missing) - 1 + 1 = n + d BY <1>1, <1>2
  <2> QED BY <2>1 DEF Rows
<1>5. z \in Columns(n) /\ x \in Columns(n + d) BY DEF Columns, NaN
<1>6. \A t \in 1..n : z[t] = x[t + d]
  <2>1. TAKE t \in 1..n
  <2>2. d + 1 + t - 1 = d + t /\ 1 + (t + d) - 1 = d + t /\ t + d \in 1..n + d OBVIOUS
  <2> QED BY <2>2
<1> HIDE DEF z, x
<1>7. EndsAs(1, n, z, d, x) BY <1>5, <1>6 DEF EndsAs
<1> QED BY <1>1, <1>2, <1>3, <1>4, <1>7

(* With two rows to look at, a row depends on the one before.              *)
PeriodIsLong == Period \in Nat \ {0, 1}

LEMMA LastServed ==
  ASSUME NEW n \in Nat \ {0}, NEW z, NEW d, NEW x, EndsAs(n, n, z, d, x)
  PROVE  Last(z) = Last(x)
<1>1. z \in Seq(SUBSET Nat) /\ Len(z) = n /\ x \in Seq(SUBSET Nat) /\ Len(x) = n + d
  BY DEF EndsAs, Columns
<1>2. z[n] = x[n + d] BY DEF EndsAs
<1> QED BY <1>1, <1>2 DEF Last

(* What rolls, weighs or adds up the rows it is given sees, on the last    *)
(* rows of x, a part of what it sees on all of them.                       *)
AmongAll(n, z, d, x) ==
  /\ n \in Nat /\ d \in Nat /\ z \in Columns(n) /\ x \in Columns(n + d)
  /\ \A t \in 1..n : z[t] \subseteq x[t + d]

LEMMA WithinColumns ==
  ASSUME NEW n, NEW z, NEW d, NEW x, AmongAll(n, z, d, x)
  PROVE  Continues(n, z, n, z) /\ Continues(n + d, x, n + d, x)
BY DEF AmongAll, Continues

LEMMA BothWithin ==
  ASSUME NEW n, NEW z, NEW d, NEW x, NEW u, NEW v, AmongAll(n, z, d, x), AmongAll(n, u, d, v)
  PROVE  AmongAll(n, Both(z, u), d, Both(x, v))
<1>1. Continues(n, Both(z, u), n, Both(z, u)) BY WithinColumns, BothContinue
<1>2. Continues(n + d, Both(x, v), n + d, Both(x, v)) BY WithinColumns, BothContinue
<1>3. ASSUME NEW t \in 1..n PROVE Both(z, u)[t] \subseteq Both(x, v)[t + d]
  <2>1. t \in DOMAIN z /\ t + d \in DOMAIN x BY DEF AmongAll, Columns
  <2>2. z[t] \subseteq x[t + d] /\ u[t] \subseteq v[t + d] BY DEF AmongAll
  <2> QED BY <2>1, <2>2 DEF Both, NaN
<1> QED BY <1>1, <1>2, <1>3 DEF AmongAll, Continues

LEMMA DiffWithin ==
  ASSUME NEW n, NEW z, NEW d, NEW x, AmongAll(n, z, d, x)
  PROVE  AmongAll(n, Diff(z, 1), d, Diff(x, 1))
<1>1. Continues(n, Shift(z, 1), n, Shift(z, 1)) BY WithinColumns, ShiftContinues
<1>2. Continues(n + d, Shift(x, 1), n + d, Shift(x, 1)) BY WithinColumns, ShiftContinues
<1>3. ASSUME NEW t \in 1..n PROVE Shift(z, 1)[t] \subseteq Shift(x, 1)[t + d]
  <2>1. n \in Nat /\ d \in Nat /\ DOMAIN z = 1..n /\ DOMAIN x = 1..n + d
    BY DEF AmongAll, Columns
  <2>2. CASE t = 1 BY <2>1, <2>2 DEF Shift, NaN
  <2>3. CASE t # 1
    <3>1. t - 1 \in 1..n /\ t + d \in 1..n + d /\ t + d - 1 \in 1..n + d
          /\ t + d - 1 = t - 1 + d
      BY <2>1, <2>3
    <3>2. z[t - 1] \subseteq x[t - 1 + d] BY <3>1 DEF AmongAll
    <3> QED BY <2>1, <3>1, <3>2 DEF Shift
  <2> QED BY <2>2, <2>3
<1>4. AmongAll(n, Shift(z, 1), d, Shift(x, 1)) BY <1>1, <1>2, <1>3 DEF AmongAll, Continues
<1> QED BY <1>4, BothWithin DEF Diff

(* More rows, of which as many have to be defined.                         *)
LEMMA MoreRowsSeen ==
  ASSUME NEW n, NEW z, NEW d, NEW x, AmongAll(n, z, d, x), NEW A, NEW B, NEW minp \in Nat,
         \A i \in A : i \in Int /\ i + d \in B
  PROVE  (IF Cardinality(Defined(z, A)) >= minp THEN Of(z, Defined(z, A)) ELSE NaN)
           \subseteq (IF Cardinality(Defined(x, B)) >= minp THEN Of(x, Defined(x, B)) ELSE NaN)
<1> DEFINE S == Defined(z, A)
           T == Defined(x, B)
           M == {i + d : i \in S}
<1>1. n \in Nat /\ d \in Nat /\ DOMAIN z = 1..n /\ DOMAIN x = 1..n + d
      /\ \A t \in 1..n : z[t] \subseteq x[t + d]
  BY DEF AmongAll, Columns
<1>2. S \subseteq 1..n /\ T \subseteq 1..n + d BY <1>1 DEF Defined
<1>3. IsFiniteSet(S) /\ IsFiniteSet(T)
  <2>1. IsFiniteSet(1..n) /\ IsFiniteSet(1..n + d) BY <1>1, FS_Interval
  <2> QED BY <1>2, <2>1, FS_Subset
<1>4. ASSUME NEW i \in S PROVE i + d \in T /\ z[i] \subseteq x[i + d]
  <2>1. i \in A /\ i \in 1..n /\ z[i] # NaN BY <1>1 DEF Defined
  <2>2. i + d \in B /\ i + d \in 1..n + d /\ z[i] \subseteq x[i + d] BY <1>1, <2>1
  <2>3. x[i + d] # NaN BY <2>1, <2>2 DEF NaN
  <2> QED BY <1>1, <2>2, <2>3 DEF Defined
<1> HIDE DEF S, T
<1>5. Cardinality(S) <= Cardinality(T) /\ Cardinality(S) \in Nat /\ Cardinality(T) \in Nat
  <2>1. S \subseteq Int /\ d \in Int BY <1>1, <1>2
  <2>2. Cardinality(M) = Cardinality(S) BY <1>3, <2>1, MovedCount
  <2>3. M \subseteq T BY <1>4
  <2> HIDE DEF M
  <2>4. Cardinality(M) <= Cardinality(T) BY <1>3, <2>3, FS_Subset
  <2> QED BY <1>3, <2>2, <2>4, FS_CardinalityType
<1>6. Of(z, S) \subseteq Of(x, T)
  <2>1. SUFFICES ASSUME NEW e \in Of(z, S) PROVE e \in Of(x, T) OBVIOUS
  <2>2. PICK i \in S : e \in z[i] BY <2>1 DEF Of
  <2>3. i + d \in T /\ e \in x[i + d] BY <1>4, <2>2
  <2> QED BY <2>3 DEF Of
<1>7. (IF Cardinality(S) >= minp THEN Of(z, S) ELSE NaN)
        \subseteq (IF Cardinality(T) >= minp THEN Of(x, T) ELSE NaN)
  BY <1>5, <1>6 DEF NaN
<1> QED BY <1>7 DEF S, T

LEMMA SmoothedWithin ==
  ASSUME NEW n, NEW z, NEW d, NEW x, AmongAll(n, z, d, x), NEW p \in Nat
  PROVE  /\ AmongAll(n, Ewm(z, p), d, Ewm(x, p))
         /\ AmongAll(n, Rolling(z, p, p), d, Rolling(x, p, p))
<1>1. n \in Nat /\ d \in Nat /\ DOMAIN z = 1..n /\ DOMAIN x = 1..n + d
  BY DEF AmongAll, Columns
<1>2. /\ Continues(n, Ewm(z, p), n, Ewm(z, p))
      /\ Continues(n + d, Ewm(x, p), n + d, Ewm(x, p))
  BY WithinColumns, EwmContinues
<1>3. /\ Continues(n, Rolling(z, p, p), n, Rolling(z, p, p))
      /\ Continues(n + d, Rolling(x, p, p), n + d, Rolling(x, p, p))
  BY WithinColumns, RollingContinues
<1>4. ASSUME NEW t \in 1..n
      PROVE  /\ Ewm(z, p)[t] \subseteq Ewm(x, p)[t + d]
             /\ Rolling(z, p, p)[t] \subseteq Rolling(x, p, p)[t + d]
  <2>1. t \in DOMAIN z /\ t + d \in DOMAIN x BY <1>1
  <2>2. \A i \in 1..t : i \in Int /\ i + d \in 1..t + d BY <1>1
  <2>3. \A i \in t - p + 1..t : i \in Int /\ i + d \in (t + d) - p + 1..t + d BY <1>1
  <2> DEFINE S(c, rows) == IF Cardinality(Defined(c, rows)) >= p
                           THEN Of(c, Defined(c, rows)) ELSE NaN
         A == t - p + 1..t
         B == (t + d) - p + 1..t + d
  <2>4. S(z, 1..t) \subseteq S(x, 1..t + d) BY <2>2, MoreRowsSeen
  <2>5. S(z, A) \subseteq S(x, B)
    <3>1. \A i \in A : i \in Int /\ i + d \in B BY <2>3
    <3> HIDE DEF A, B
    <3> QED BY <3>1, MoreRowsSeen
  <2>6. Ewm(z, p)[t] = S(z, 1..t) /\ Ewm(x, p)[t + d] = S(x, 1..t + d)
    BY <2>1, Zenon DEF Ewm
  <2>7. Rolling(z, p, p)[t] = S(z, A)
    <3>1. Rolling(z, p, p) = [r \in DOMAIN z |-> S(z, r - p + 1..r)] BY Zenon DEF Rolling
    <3> HIDE DEF S
    <3> QED BY <2>1, <3>1
  <2>8. Rolling(x, p, p)[t + d] = S(x, B)
    <3>1. Rolling(x, p, p) = [r \in DOMAIN x |-> S(x, r - p + 1..r)] BY Zenon DEF Rolling
    <3> HIDE DEF S
    <3> QED BY <2>1, <3>1
  <2> HIDE DEF S, A, B
  <2> QED BY <2>4, <2>5, <2>6, <2>7, <2>8
<1> QED BY <1>1, <1>2, <1>3, <1>4 DEF AmongAll, Continues

LEMMA CumSumWithin ==
  ASSUME NEW n, NEW z, NEW d, NEW x, AmongAll(n, z, d, x)
  PROVE  AmongAll(n, CumSum(z), d, CumSum(x))
<1>1. n \in Nat /\ d \in Nat /\ DOMAIN z = 1..n /\ DOMAIN x = 1..n + d
      /\ \A t \in 1..n : z[t] \subseteq x[t + d]
  BY DEF AmongAll, Columns
<1>2. /\ Continues(n, CumSum(z), n, CumSum(z))
      /\ Continues(n + d, CumSum(x), n + d, CumSum(x))
  BY WithinColumns, CumSumContinues
<1>3. ASSUME NEW t \in 1..n, NEW e \in CumSum(z)[t] PROVE e \in CumSum(x)[t + d]
  <2>1. t \in DOMAIN z /\ t + d \in DOMAIN x BY <1>1
  <2>2. z[t] # NaN /\ e \in Of(z, 1..t) BY <1>3, <2>1 DEF CumSum, NaN
  <2>3. x[t + d] # NaN BY <1>1, <2>2 DEF NaN
  <2>4. PICK i \in 1..t : e \in z[i] BY <2>2 DEF Of
  <2>5. i \in 1..n /\ i + d \in 1..t + d /\ e \in x[i + d] BY <1>1, <2>4
  <2>6. e \in Of(x, 1..t + d) BY <2>5 DEF Of
  <2> QED BY <2>1, <2>3, <2>6 DEF CumSum
<1> QED BY <1>1, <1>2, <1>3 DEF AmongAll, Continues

LEMMA ForgetfulWithin ==
  ASSUME NEW n, NEW z, NEW d, NEW x, AmongAll(n, z, d, x), NEW p \in Nat
  PROVE  /\ AmongAll(n, Ema(z, p), d, Ema(x, p)) /\ AmongAll(n, Rsi(z, p), d, Rsi(x, p))
         /\ AmongAll(n, VwapZscore(z, p), d, VwapZscore(x, p))
<1>1. AmongAll(n, Ema(z, p), d, Ema(x, p)) BY SmoothedWithin DEF Ema
<1>2. AmongAll(n, Rsi(z, p), d, Rsi(x, p)) BY DiffWithin, SmoothedWithin DEF Rsi
<1>3. AmongAll(n, Both(z, CumSum(z)), d, Both(x, CumSum(x))) BY CumSumWithin, BothWithin
<1> DEFINE u == Both(z, CumSum(z))
           v == Both(x, CumSum(x))
<1>4. /\ VwapZscore(z, p) = Both(u, Rolling(u, p, p))
      /\ VwapZscore(x, p) = Both(v, Rolling(v, p, p))
  BY Zenon DEF VwapZscore
<1>5. AmongAll(n, u, d, v) BY <1>3
<1> HIDE DEF u, v
<1>6. AmongAll(n, VwapZscore(z, p), d, VwapZscore(x, p))
  BY <1>4, <1>5, SmoothedWithin, BothWithin
<1> QED BY <1>1, <1>2, <1>6

(* With no row missing each of them depends on all the rows it is given.   *)
LEMMA AllWeighed ==
  ASSUME NEW p \in Nat \ {0, 1}, NEW n \in Nat, n >= p + 2, NEW d \in Nat,
         NEW z, z = [i \in 1..n |-> {d + i}]
  PROVE  /\ Ema(z, p)[n] = d + 1..d + n /\ Rsi(z, p)[n] = d + 1..d + n
         /\ VwapZscore(z, p)[n] = d + 1..d + n
<1>1. DOMAIN z = 1..n /\ n \in 1..n /\ \A i \in 1..n : z[i] = {d + i} BY SMT
<1>2. Of(z, 1..n) = d + 1..d + n
  <2>1. \A e \in Of(z, 1..n) : e \in d + 1..d + n BY <1>1 DEF Of
  <2>2. ASSUME NEW e \in d + 1..d + n PROVE e \in Of(z, 1..n)
    <3>1. e - d \in 1..n /\ e = d + (e - d) OBVIOUS
    <3>2. e \in z[e - d] BY <1>1, <3>1
    <3> QED BY <3>1, <3>2 DEF Of
  <2> QED BY <2>1, <2>2
<1>3. Ema(z, p)[n] = d + 1..d + n
  <2>1. Defined(z, 1..n) = 1..n BY <1>1 DEF Defined, NaN
  <2>2. Cardinality(1..n) = n BY FS_Interval
  <2>3. Ewm(z, p)[n] = IF Cardinality(Defined(z, 1..n)) >= p
                       THEN Of(z, Defined(z, 1..n)) ELSE NaN
    BY <1>1, Zenon DEF Ewm
  <2> QED BY <1>2, <2>1, <2>2, <2>3 DEF Ema
<1>4. Rsi(z, p)[n] = d + 1..d + n
  <2> DEFINE c == Diff(z, 1)
  <2>1. DOMAIN c = 1..n /\ c[1] = NaN
        /\ \A i \in 2..n : c[i] = {d + i, d + i - 1}
    <3>1. DOMAIN c = 1..n BY <1>1 DEF Diff, Both
    <3>2. \A i \in 1..n : Shift(z, 1)[i] = IF i - 1 \in 1..n THEN {d + i - 1} ELSE NaN
      BY <1>1 DEF Shift
    <3>3. \A i \in 1..n : c[i] = IF NaN \in {z[i], Shift(z, 1)[i]} THEN NaN
                                ELSE z[i] \cup Shift(z, 1)[i]
      BY <1>1, Zenon DEF Diff, Both
    <3> HIDE DEF c
    <3>4. c[1] = NaN
      <4>1. 1 \in 1..n /\ 1 - 1 \notin 1..n OBVIOUS
      <4>2. Shift(z, 1)[1] = NaN BY <3>2, <4>1
      <4> QED BY <3>3, <4>1, <4>2
    <3>5. ASSUME NEW i \in 2..n PROVE c[i] = {d + i, d + i - 1}
      <4>1. i \in 1..n /\ i - 1 \in 1..n OBVIOUS
      <4>2. Shift(z, 1)[i] = {d + i - 1} /\ z[i] = {d + i} BY <1>1, <3>2, <4>1
      <4> QED BY <3>3, <4>1, <4>2 DEF NaN
    <3> QED BY <3>1, <3>4, <3>5
  <2>2. Rsi(z, p)[n] = IF Cardinality(Defined(c, 1..n)) >= p
                       THEN Of(c, Defined(c, 1..n)) ELSE NaN
    BY <1>1, <2>1, Zenon DEF Rsi, Ewm
  <2> HIDE DEF c
  <2>3. Defined(c, 1..n) = 2..n
    <3>1. \A i \in 1..n : i = 1 \/ i \in 2..n OBVIOUS
    <3>2. ASSUME NEW i \in 2..n PROVE i \in 1..n /\ c[i] # NaN
      <4>1. d + i \in c[i] BY <2>1
      <4> QED BY <4>1 DEF NaN
    <3>3. 1 \notin 2..n OBVIOUS
    <3> QED BY <2>1, <3>1, <3>2, <3>3 DEF Defined
  <2>4. Cardinality(2..n) = n - 1 BY FS_Interval
  <2>5. Of(c, 2..n) = d + 1..d + n
    <3>1. \A e \in Of(c, 2..n) : e \in d + 1..d + n BY <2>1 DEF Of
    <3>2. ASSUME NEW e \in d + 1..d + n PROVE e \in Of(c, 2..n)
      <4>1. CASE e = d + 1
        <5>1. 2 \in 2..n /\ e = d + 2 - 1 BY <4>1
        <5> QED BY <2>1, <5>1 DEF Of
      <4>2. CASE e # d + 1
        <5>1. e - d \in 2..n /\ e = d + (e - d) BY <4>2
        <5>2. e \in c[e - d] BY <2>1, <5>1
        <5> QED BY <5>1, <5>2 DEF Of
      <4> QED BY <4>1, <4>2
    <3> QED BY <3>1, <3>2
  <2> QED BY <2>2, <2>3, <2>4, <2>5
<1>5. VwapZscore(z, p)[n] = d + 1..d + n
  <2> DEFINE u == Both(z, CumSum(z))
  <2>1. ASSUME NEW i \in 1..n PROVE CumSum(z)[i] # NaN /\ CumSum(z)[i] \subseteq d + 1..d + n
    <3>1. CumSum(z)[i] = Of(z, 1..i)
      <4>1. z[i] # NaN BY <1>1 DEF NaN
      <4> QED BY <1>1, <4>1 DEF CumSum
    <3>2. i \in 1..i /\ d + i \in z[i] BY <1>1
    <3>3. d + i \in Of(z, 1..i) BY <3>2 DEF Of
    <3>4. \A e \in Of(z, 1..i) : e \in Of(z, 1..n) BY DEF Of
    <3> QED BY <1>2, <3>1, <3>3, <3>4 DEF NaN
  <2>2. CumSum(z)[n] = d + 1..d + n
    <3>1. z[n] # NaN BY <1>1 DEF NaN
    <3> QED BY <1>1, <1>2, <3>1 DEF CumSum
  <2>3. /\ DOMAIN u = 1..n /\ u[n] = d + 1..d + n
        /\ \A i \in 1..n : u[i] # NaN /\ u[i] \subseteq d + 1..d + n
    <3>1. \A i \in 1..n : u[i] = IF NaN \in {z[i], CumSum(z)[i]} THEN NaN
                                ELSE z[i] \cup CumSum(z)[i]
      BY <1>1, Zenon DEF Both
    <3>2. DOMAIN u = 1..n BY <1>1 DEF Both
    <3> HIDE DEF u
    <3>3. ASSUME NEW i \in 1..n
          PROVE  /\ u[i] # NaN /\ u[i] = z[i] \cup CumSum(z)[i]
                 /\ u[i] \subseteq d + 1..d + n
      <4>1. z[i] = {d + i} /\ d + i \in d + 1..d + n /\ z[i] # NaN BY <1>1 DEF NaN
      <4>2. u[i] = z[i] \cup CumSum(z)[i] BY <2>1, <3>1, <4>1
      <4> QED BY <2>1, <4>1, <4>2 DEF NaN
    <3>4. u[n] = d + 1..d + n
      <4>1. z[n] \subseteq d + 1..d + n BY <1>1
      <4>2. u[n] = z[n] \cup CumSum(z)[n] BY <1>1, <3>3
      <4> QED BY <2>2, <4>1, <4>2
    <3> QED BY <3>2, <3>3, <3>4
  <2>4. VwapZscore(z, p)[n] = IF NaN \in {u[n], Rolling(u, p, p)[n]} THEN NaN
                              ELSE u[n] \cup Rolling(u, p, p)[n]
    BY <1>1, <2>3, Zenon DEF VwapZscore, Both
  <2>5. Rolling(u, p, p)[n] = IF Cardinality(Defined(u, n - p + 1..n)) >= p
                              THEN Of(u, Defined(u, n - p + 1..n)) ELSE NaN
    BY <1>1, <2>3, Zenon DEF Rolling
  <2> HIDE DEF u
  <2>6. Defined(u, n - p + 1..n) = n - p + 1..n
    <3>1. \A i \in n - p + 1..n : i \in 1..n OBVIOUS
    <3> QED BY <2>3, <3>1 DEF Defined
  <2>7. Cardinality(n - p + 1..n) = p
    <3>1. n - p + 1 \in Int /\ n \in Int /\ ~(n - p + 1 > n) /\ n - (n - p + 1) + 1 = p
      OBVIOUS
    <3> QED BY <3>1, FS_Interval
  <2>8. Of(u, n - p + 1..n) = d + 1..d + n
    <3>1. n \in n - p + 1..n /\ \A i \in n - p + 1..n : i \in 1..n OBVIOUS
    <3>2. \A e \in Of(u, n - p + 1..n) : e \in d + 1..d + n BY <2>3, <3>1 DEF Of
    <3>3. \A e \in d + 1..d + n : e \in Of(u, n - p + 1..n) BY <2>3, <3>1 DEF Of
    <3> QED BY <3>2, <3>3
  <2>9. Rolling(u, p, p)[n] = d + 1..d + n BY <2>5, <2>6, <2>7, <2>8
  <2>10. u[n] # NaN BY <1>1, <2>3
  <2> QED BY <2>3, <2>4, <2>9, <2>10
<1> QED BY <1>3, <1>4, <1>5

LEMMA RowsWithin ==
  ASSUME missing \in Seq(BOOLEAN), NEW n \in Nat, Len(missing) >= n
  PROVE  /\ AmongAll(n, Rows(Len(missing) - n + 1), Len(missing) - n, Rows(1))
         /\ (\A i \in DOMAIN missing : ~missing[i]) =>
              Rows(Len(missing) - n + 1) = [i \in 1..n |-> {Len(missing) - n + i}]
<1>1. EndsAs(1, n, Rows(Len(missing) - n + 1), Len(missing) - n, Rows(1)) BY RowsServed
<1>2. AmongAll(n, Rows(Len(missing) - n + 1), Len(missing) - n, Rows(1))
  <2> DEFINE z == Rows(Len(missing) - n + 1)
             x == Rows(1)
             d == Len(missing) - n
  <2>1. EndsAs(1, n, z, d, x) BY <1>1
  <2> HIDE DEF z, x, d
  <2>2. AmongAll(n, z, d, x) BY <2>1 DEF EndsAs, AmongAll
  <2> QED BY <2>2 DEF z, x, d
<1>3. ASSUME \A i \in DOMAIN missing : ~missing[i]
      PROVE  Rows(Len(missing) - n + 1) = [i \in 1..n |-> {Len(missing) - n + i}]
  <2>1. PICK k \in Nat : k = Len(missing) OBVIOUS
  <2>2. k - (k - n + 1) + 1 = n BY <2>1
  <2>3. ASSUME NEW i \in 1..n
        PROVE  ~missing[k - n + 1 + i - 1] /\ k - n + 1 + i - 1 = k - n + i
    <3>1. k - n + 1 + i - 1 \in DOMAIN missing BY <2>1
    <3> QED BY <1>3, <2>1, <3>1
  <2> QED BY <2>1, <2>2, <2>3 DEF Rows
<1> QED BY <1>2, <1>3

LEMMA TypedServes ==
  ASSUME PeriodIsLong, missing \in Seq(BOOLEAN)
  PROVE  ServedFromBuffer
<1>1. SUFFICES ASSUME NEW n \in Period..Len(missing), NEW name \in Buffered, n >= Buffer(name)
      PROVE LET first == Len(missing) - n + 1
                held == Causal(Rows(first), Period)
                all == Causal(Rows(1), Period)
            IN  IF name \notin Forgetful THEN Last(held[name]) = Last(all[name])
                ELSE /\ Last(held[name]) \subseteq Last(all[name])
                     /\ (\A i \in DOMAIN missing : ~missing[i]) =>
                          /\ Last(held[name]) = first..Len(missing)
                          /\ Last(all[name]) = 1..Len(missing)
  BY DEF ServedFromBuffer
<1>2. PICK k \in Nat : k = Len(missing) OBVIOUS
<1>3. Period \in Nat \ {0, 1} /\ Period + 2 \in Nat /\ n \in Nat \ {0} /\ k >= n
  BY <1>2 DEF PeriodIsLong
<1> DEFINE z == Rows(Len(missing) - n + 1)
           x == Rows(1)
           d == Len(missing) - n
           a == Causal(z, Period)
           b == Causal(x, Period)
<1>4. EndsAs(1, n, z, d, x) /\ AmongAll(n, z, d, x) BY <1>2, <1>3, RowsServed, RowsWithin
<1>5. d \in Nat BY <1>2, <1>3
<1>6. /\ a.spread_zscore = SpreadZscore(z, Period) /\ b.spread_zscore = SpreadZscore(x, Period)
      /\ a.liquidity_shock = LiquidityShock(z, Period) /\ b.liquidity_shock = LiquidityShock(x, Period)
      /\ a.depth_drop = DepthDrop(z, Period) /\ b.depth_drop = DepthDrop(x, Period)
      /\ a.deviation_zscore = DeviationZscore(z, Period) /\ b.deviation_zscore = DeviationZscore(x, Period)
      /\ a.sma = Sma(z, Period) /\ b.sma = Sma(x, Period)
      /\ a.zscore = Zscore(z, Period) /\ b.zscore = Zscore(x, Period)
      /\ a.vol_ratio = VolRatio(z, Period) /\ b.vol_ratio = VolRatio(x, Period)
      /\ a.volume_spike = VolumeSpike(z, Period) /\ b.volume_spike = VolumeSpike(x, Period)
      /\ a.failed_breakout = FailedBreakout(z, Period) /\ b.failed_breakout = FailedBreakout(x, Period)
      /\ a.ema = Ema(z, Period) /\ b.ema = Ema(x, Period)
      /\ a.rsi = Rsi(z, Period) /\ b.rsi = Rsi(x, Period)
      /\ a.vwap_zscore = VwapZscore(z, Period) /\ b.vwap_zscore = VwapZscore(x, Period)
  BY DEF Causal
<1>7. ASSUME name \notin Forgetful PROVE Last(a[name]) = Last(b[name])
  <2> HIDE DEF z, x, d, a, b
  <2>1. CASE name \in {"spread_zscore", "liquidity_shock", "depth_drop", "deviation_zscore"}
    <3>1. /\ EndsAs(Period, n, SpreadZscore(z, Period), d, SpreadZscore(x, Period))
          /\ EndsAs(Period, n, LiquidityShock(z, Period), d, LiquidityShock(x, Period))
          /\ EndsAs(Period, n, DepthDrop(z, Period), d, DepthDrop(x, Period))
          /\ EndsAs(Period, n, DeviationZscore(z, Period), d, DeviationZscore(x, Period))
      BY <1>3, <1>4, FeaturesServed
    <3>2. EndsAs(Period, n, a[name], d, b[name]) BY <1>6, <2>1, <3>1
    <3>3. EndsAs(n, n, a[name], d, b[name]) BY <1>3, <3>2, Later
    <3> QED BY <1>3, <3>3, LastServed
  <2>2. CASE name \in {"sma", "zscore", "vol_ratio", "volume_spike", "failed_breakout"}
    <3>1. /\ EndsAs(Period + 2, n, Sma(z, Period), d, Sma(x, Period))
          /\ EndsAs(Period + 2, n, Zscore(z, Period), d, Zscore(x, Period))
          /\ EndsAs(Period + 2, n, VolRatio(z, Period), d, VolRatio(x, Period))
          /\ EndsAs(Period + 2, n, VolumeSpike(z, Period), d, VolumeSpike(x, Period))
          /\ EndsAs(Period + 2, n, FailedBreakout(z, Period), d, FailedBreakout(x, Period))
      BY <1>3, <1>4, FeaturesServed
    <3>2. EndsAs(Period + 2, n, a[name], d, b[name]) BY <1>6, <2>2, <3>1
    <3>3. n >= Period + 2 BY <1>1, <2>2 DEF Buffer
    <3>4. EndsAs(n, n, a[name], d, b[name]) BY <1>3, <3>2, <3>3, Later
    <3> QED BY <1>3, <3>4, LastServed
  <2> QED BY <1>7, <2>1, <2>2 DEF Buffered
<1>8. ASSUME name \in Forgetful
      PROVE  /\ Last(a[name]) \subseteq Last(b[name])
             /\ (\A i \in DOMAIN missing : ~missing[i]) =>
                  /\ Last(a[name]) = Len(missing) - n + 1..Len(missing)
                  /\ Last(b[name]) = 1..Len(missing)
  <2>1. n >= Period + 2 BY <1>1, <1>8 DEF Buffer, Forgetful
  <2>2. name = "ema" \/ name = "rsi" \/ name = "vwap_zscore" BY <1>8 DEF Forgetful
  <2>3. ASSUME \A i \in DOMAIN missing : ~missing[i]
        PROVE  z = [i \in 1..n |-> {d + i}] /\ x = [i \in 1..k |-> {0 + i}]
    <3>1. z = [i \in 1..n |-> {d + i}] BY <1>2, <1>3, <2>3, RowsWithin
    <3>2. Len(missing) - k + 1 = 1 /\ Len(missing) - k = 0 /\ Len(missing) >= k BY <1>2
    <3>3. x = [i \in 1..k |-> {0 + i}] BY <1>2, <2>3, <3>2, RowsWithin
    <3> QED BY <3>1, <3>3
  <2>4. d + n = k /\ d + 1 = k - n + 1 BY <1>2, <1>3
  <2> HIDE DEF z, x, d, a, b
  <2>5. AmongAll(n, a[name], d, b[name])
    <3>1. /\ AmongAll(n, Ema(z, Period), d, Ema(x, Period))
          /\ AmongAll(n, Rsi(z, Period), d, Rsi(x, Period))
          /\ AmongAll(n, VwapZscore(z, Period), d, VwapZscore(x, Period))
      BY <1>3, <1>4, ForgetfulWithin
    <3> QED BY <1>6, <2>2, <3>1
  <2>6. Last(a[name]) = a[name][n] /\ Last(b[name]) = b[name][k]
    <3>1. Len(a[name]) = n /\ Len(b[name]) = k
      BY <1>2, <1>3, <2>4, <2>5 DEF AmongAll, Columns
    <3> QED BY <3>1 DEF Last
  <2>7. Last(a[name]) \subseteq Last(b[name])
    <3>1. n \in 1..n /\ n + d = k BY <1>3, <1>5, <2>4
    <3> QED BY <2>5, <2>6, <3>1 DEF AmongAll
  <2>8. ASSUME \A i \in DOMAIN missing : ~missing[i]
        PROVE  Last(a[name]) = d + 1..d + n /\ Last(b[name]) = 0 + 1..0 + k
    <3>1. z = [i \in 1..n |-> {d + i}] /\ x = [i \in 1..k |-> {0 + i}] BY <2>3, <2>8
    <3>2. /\ Ema(z, Period)[n] = d + 1..d + n /\ Rsi(z, Period)[n] = d + 1..d + n
          /\ VwapZscore(z, Period)[n] = d + 1..d + n
      BY <1>3, <1>5, <2>1, <3>1, AllWeighed
    <3>3. 0 \in Nat /\ k >= Period + 2 BY <1>3, <2>1
    <3>4. /\ Ema(x, Period)[k] = 0 + 1..0 + k /\ Rsi(x, Period)[k] = 0 + 1..0 + k
          /\ VwapZscore(x, Period)[k] = 0 + 1..0 + k
      BY <1>3, <3>1, <3>3, AllWeighed
    <3> QED BY <1>6, <2>2, <2>6, <3>2, <3>4
  <2> QED BY <1>2, <2>4, <2>7, <2>8
<1> QED BY <1>7, <1>8

(* For every period of at least two rows, any buffer of at least the rows  *)
(* a feature needs and any rows, missing or not: at the last row, features *)
(* with a window are on the buffer what they are on all rows, and the RSI, *)
(* the EMAs and the VWAP's score are made of the rows of the buffer only   *)
(* where on all rows they are made of all.                                 *)
THEOREM ServedCorrect ==
  ASSUME PeriodIsLong
  PROVE  RowsSpec => []ServedFromBuffer
<1> DEFINE Typed == missing \in Seq(BOOLEAN)
<1>1. RowsInit => Typed BY DEF RowsInit
<1>2. Typed /\ [NewRow]_missing => Typed' BY DEF NewRow
<1>3. Typed => ServedFromBuffer BY TypedServes
<1> QED BY <1>1, <1>2, <1>3, PTL DEF RowsSpec

----------------------------------------------------------------------------
(* Loading.  What is left of a frame, in its order or in the order of      *)
(* time, are rows it had before.                                           *)
Ascending(s) == \A i, j \in DOMAIN s : i < j => s[i].time <= s[j].time
StrictlyAscending(s) == \A i, j \in DOMAIN s : i < j => s[i].time < s[j].time
Priced(s) == \A i \in DOMAIN s : IsPrice(s[i].price)

(* Every price of s is one that `source' has for its time or before.       *)
Sourced(s, source) ==
  \A i \in DOMAIN s : IsPrice(s[i].price) =>
    \E j \in DOMAIN source : source[j].time <= s[i].time /\ source[j].price = s[i].price

LEMMA FrameRows ==
  ASSUME NEW s \in Seq(FileRows)
  PROVE  /\ DOMAIN s = 1..Len(s) /\ Len(s) \in Nat /\ IsFiniteSet(DOMAIN s)
         /\ Cardinality(DOMAIN s) = Len(s) /\ DOMAIN s \in SUBSET Nat
         /\ \A i \in DOMAIN s : s[i] \in FileRows /\ s[i].time \in Int /\ s[i].price \in Int
<1>1. DOMAIN s = 1..Len(s) /\ Len(s) \in Nat OBVIOUS
<1>2. IsFiniteSet(1..Len(s)) /\ Cardinality(1..Len(s)) = Len(s) BY <1>1, FS_Interval
<1>3. \A i \in DOMAIN s : s[i] \in FileRows OBVIOUS
<1>4. DOMAIN s \in SUBSET Nat BY <1>1
<1> QED BY <1>1, <1>2, <1>3, <1>4 DEF FileRows

LEMMA SelectRows ==
  ASSUME NEW s \in Seq(FileRows), NEW keep \in SUBSET (DOMAIN s), NEW t, t = Select(s, keep)
  PROVE  /\ t \in Seq(FileRows)
         /\ \A k \in DOMAIN t : \E i \in keep : t[k] = s[i]
         /\ \A k, l \in DOMAIN t : k < l => \E i, j \in keep : i < j /\ t[k] = s[i] /\ t[l] = s[j]
<1>1. keep \in SUBSET Nat /\ IsFiniteSet(keep) /\ \A i \in keep : s[i] \in FileRows
  <2>1. IsFiniteSet(DOMAIN s) /\ DOMAIN s \in SUBSET Nat BY FrameRows
  <2>2. IsFiniteSet(keep) BY <2>1, FS_Subset
  <2>3. \A i \in DOMAIN s : s[i] \in FileRows BY FrameRows
  <2> QED BY <2>1, <2>2, <2>3
<1>2. t \in Seq(FileRows) BY <1>1, SelectIn
<1>3. DOMAIN t = 1..Cardinality(keep) BY <1>1, SelectFacts
<1>4. \A k \in 1..Cardinality(keep) : Nth(keep, k) \in keep /\ t[k] = s[Nth(keep, k)]
  BY <1>1, SelectFacts
<1>5. \A k, l \in 1..Cardinality(keep) : k < l => Nth(keep, k) < Nth(keep, l)
  BY <1>1, SelectFacts
<1>6. \A k \in DOMAIN t : \E i \in keep : t[k] = s[i] BY <1>3, <1>4
<1>7. \A k, l \in DOMAIN t : k < l => \E i, j \in keep : i < j /\ t[k] = s[i] /\ t[l] = s[j]
  BY <1>3, <1>4, <1>5
<1> QED BY <1>2, <1>6, <1>7

LEMMA SelectKeeps ==
  ASSUME NEW s \in Seq(FileRows), NEW keep \in SUBSET (DOMAIN s), NEW t, t = Select(s, keep),
         NEW source
  PROVE  /\ t \in Seq(FileRows)
         /\ Ascending(s) => Ascending(t)
         /\ StrictlyAscending(s) => StrictlyAscending(t)
         /\ Priced(s) => Priced(t)
         /\ Sourced(s, source) => Sourced(t, source)
<1>1. t \in Seq(FileRows) BY SelectRows
<1>2. \A k \in DOMAIN t : \E i \in DOMAIN s : t[k] = s[i]
  <2>1. \A k \in DOMAIN t : \E i \in keep : t[k] = s[i] BY SelectRows
  <2> QED BY <2>1
<1>3. \A k, l \in DOMAIN t : k < l =>
        \E i, j \in DOMAIN s : i < j /\ t[k] = s[i] /\ t[l] = s[j]
  <2>1. \A k, l \in DOMAIN t : k < l => \E i, j \in keep : i < j /\ t[k] = s[i] /\ t[l] = s[j]
    BY SelectRows
  <2> QED BY <2>1
<1>4. Ascending(s) => Ascending(t)
  <2>1. SUFFICES ASSUME Ascending(s), NEW k \in DOMAIN t, NEW l \in DOMAIN t, k < l
                 PROVE  t[k].time <= t[l].time
    BY DEF Ascending
  <2>2. PICK i, j \in DOMAIN s : i < j /\ t[k] = s[i] /\ t[l] = s[j] BY <1>3, <2>1
  <2>3. s[i].time <= s[j].time BY <2>1, <2>2 DEF Ascending
  <2> QED BY <2>2, <2>3
<1>5. StrictlyAscending(s) => StrictlyAscending(t)
  <2>1. SUFFICES ASSUME StrictlyAscending(s), NEW k \in DOMAIN t, NEW l \in DOMAIN t, k < l
                 PROVE  t[k].time < t[l].time
    BY DEF StrictlyAscending
  <2>2. PICK i, j \in DOMAIN s : i < j /\ t[k] = s[i] /\ t[l] = s[j] BY <1>3, <2>1
  <2>3. s[i].time < s[j].time BY <2>1, <2>2 DEF StrictlyAscending
  <2> QED BY <2>2, <2>3
<1>6. Priced(s) => Priced(t) BY <1>2 DEF Priced
<1>7. Sourced(s, source) => Sourced(t, source) BY <1>2 DEF Sourced
<1> QED BY <1>1, <1>4, <1>5, <1>6, <1>7

(* Sorting: the rows of before in the order of their times.                *)
LEMMA SortFacts ==
  ASSUME NEW s \in Seq(FileRows), NEW t, t = SortIndex(s)
  PROVE  /\ t \in Seq(FileRows) /\ Len(t) = Len(s) /\ Ascending(t)
         /\ \A k \in DOMAIN t : \E i \in DOMAIN s : t[k] = s[i]
<1>1. PICK n \in Nat : n = Len(s) /\ DOMAIN s = 1..n BY FrameRows
<1>2. \A i \in 1..n : s[i] \in FileRows /\ s[i].time \in Int BY <1>1, FrameRows
<1>3. PICK time : time = [i \in 1..n |-> s[i].time] OBVIOUS
<1>4. time \in [1..n -> Int] BY <1>2, <1>3
<1>5. t = [k \in 1..n |-> s[Ordered(time, k)]] BY <1>1, <1>3, Zenon DEF SortIndex
<1>6. /\ \A k \in 1..n : Ordered(time, k) \in 1..n
      /\ \A k, l \in 1..n : k < l => time[Ordered(time, k)] <= time[Ordered(time, l)]
  BY <1>4, OrderedFacts
<1>7. t \in [1..n -> FileRows] BY <1>2, <1>5, <1>6
<1>8. t \in Seq(FileRows) /\ Len(t) = n /\ DOMAIN t = 1..n BY <1>7
<1>9. \A k \in 1..n : \E i \in 1..n : t[k] = s[i] BY <1>5, <1>6
<1>10. \A k \in 1..n : t[k].time = time[Ordered(time, k)] BY <1>3, <1>5, <1>6
<1>11. Ascending(t) BY <1>6, <1>8, <1>10 DEF Ascending
<1> QED BY <1>1, <1>8, <1>9, <1>11

(* Rows in the order of time are so however far apart they are.            *)
LEMMA AscendingPairwise ==
  ASSUME NEW s \in Seq(FileRows), \A i \in 2..Len(s) : s[i - 1].time <= s[i].time
  PROVE  Ascending(s)
<1> DEFINE N == {d \in Nat : \A i \in DOMAIN s : i + d \in DOMAIN s => s[i].time <= s[i + d].time}
<1>1. /\ DOMAIN s = 1..Len(s) /\ Len(s) \in Nat
      /\ \A i \in DOMAIN s : s[i].time \in Int
  BY FrameRows
<1>2. 0 \in N BY <1>1
<1>3. ASSUME NEW d \in Nat, d \in N PROVE d + 1 \in N
  <2>1. SUFFICES ASSUME NEW i \in DOMAIN s, i + (d + 1) \in DOMAIN s
                 PROVE  s[i].time <= s[i + (d + 1)].time
    OBVIOUS
  <2>2. i + d \in DOMAIN s /\ i + (d + 1) \in 2..Len(s) /\ (i + (d + 1)) - 1 = i + d
    BY <1>1, <2>1
  <2>3. s[i].time <= s[i + d].time BY <1>3, <2>2
  <2>4. s[i + d].time <= s[i + (d + 1)].time BY <2>2
  <2>5. s[i].time \in Int /\ s[i + d].time \in Int /\ s[i + (d + 1)].time \in Int
    BY <1>1, <2>1, <2>2
  <2> QED BY <2>3, <2>4, <2>5
<1> HIDE DEF N
<1>4. Nat \subseteq N BY <1>2, <1>3, NatSetInduction
<1>5. ASSUME NEW i \in DOMAIN s, NEW j \in DOMAIN s, i < j PROVE s[i].time <= s[j].time
  <2>1. j - i \in Nat /\ i + (j - i) = j BY <1>1, <1>5
  <2>2. j - i \in N BY <1>4, <2>1
  <2> QED BY <2>1, <2>2 DEF N
<1> QED BY <1>5 DEF Ascending

(* Filling forwards takes prices of earlier rows only.                     *)
LEMMA FilledRow ==
  ASSUME NEW s \in Seq(FileRows), NEW i \in DOMAIN s, NEW m, NEW row,
         row = FilledFrom(s, i, Known(s, i, m), m)
  PROVE  /\ row \in FileRows /\ row.time = s[i].time
         /\ m = "ffill" => \E j \in DOMAIN s : j <= i /\ row.price = s[j].price
<1> DEFINE known == Known(s, i, m)
           from == IF m = "ffill" THEN Max(known) ELSE Min(known)
<1>1. /\ IsFiniteSet(DOMAIN s) /\ DOMAIN s \in SUBSET Nat /\ s[i] \in FileRows
      /\ \A j \in DOMAIN s : s[j] \in FileRows
  BY FrameRows
<1>2. known \subseteq DOMAIN s /\ (m = "ffill" => \A j \in known : j < i) BY DEF Known
<1>3. CASE s[i].price # Missing \/ known = {}
  <2>1. row = s[i] BY <1>3 DEF FilledFrom
  <2> QED BY <1>1, <2>1
<1>4. CASE ~(s[i].price # Missing \/ known = {})
  <2>1. row = [s[i] EXCEPT !.price = s[from].price] BY <1>4, Zenon DEF FilledFrom
  <2> HIDE DEF known
  <2>2. known \subseteq Int /\ IsFiniteSet(known) BY <1>1, <1>2, FS_Subset
  <2>3. Max(known) \in known /\ Min(known) \in known BY <1>4, <2>2, ExtremesIn
  <2>4. from \in known BY <2>3
  <2>5. m = "ffill" => from < i BY <1>2, <2>3
  <2> HIDE DEF from
  <2>6. from \in DOMAIN s /\ s[from] \in FileRows /\ from \in Int /\ i \in Int
    BY <1>1, <1>2, <2>4
  <2>7. row \in FileRows /\ row.time = s[i].time /\ row.price = s[from].price
    BY <1>1, <2>1, <2>6 DEF FileRows
  <2> QED BY <2>5, <2>6, <2>7
<1> QED BY <1>3, <1>4

LEMMA MissingHandled ==
  ASSUME NEW s \in Seq(FileRows), NEW m, NEW h, h = HandleMissing(s, m)
  PROVE  /\ h \in Seq(FileRows)
         /\ Ascending(s) /\ m # "bfill" => Sourced(h, s)
<1>0. /\ DOMAIN s = 1..Len(s) /\ Len(s) \in Nat
      /\ \A i \in DOMAIN s : s[i] \in FileRows /\ s[i].time \in Int
  BY FrameRows
<1>1. Sourced(s, s)
  <2>1. \A i \in DOMAIN s : s[i].time <= s[i].time BY <1>0
  <2> QED BY <2>1 DEF Sourced
<1>2. CASE m \in {"ffill", "bfill"}
  <2>1. h = [i \in DOMAIN s |-> FilledFrom(s, i, Known(s, i, m), m)]
    BY <1>2, Zenon DEF HandleMissing
  <2>2. \A i \in DOMAIN s : h[i] = FilledFrom(s, i, Known(s, i, m), m) BY <2>1
  <2>3. \A i \in DOMAIN s : h[i] \in FileRows /\ h[i].time = s[i].time BY <2>2, FilledRow
  <2>4. h \in Seq(FileRows)
    <3>1. DOMAIN h = 1..Len(s) /\ h = [i \in 1..Len(s) |-> h[i]] BY <1>0, <2>1
    <3> QED BY <1>0, <2>3, <3>1
  <2>5. ASSUME Ascending(s), m = "ffill" PROVE Sourced(h, s)
    <3>1. SUFFICES ASSUME NEW i \in DOMAIN s
                   PROVE  \E j \in DOMAIN s : s[j].time <= h[i].time /\ s[j].price = h[i].price
      BY <2>1 DEF Sourced
    <3>2. PICK j \in DOMAIN s : j <= i /\ h[i].price = s[j].price BY <2>2, <2>5, FilledRow
    <3>3. j = i \/ j < i BY <1>0, <3>2
    <3>4. s[j].time <= s[i].time BY <1>0, <2>5, <3>3 DEF Ascending
    <3> QED BY <2>3, <3>2, <3>4
  <2> QED BY <1>2, <2>4, <2>5
<1>3. CASE m \notin {"ffill", "bfill"} /\ m = "drop"
  <2> DEFINE keep == {i \in DOMAIN s : s[i].price # Missing}
  <2>1. h = Select(s, keep) BY <1>3, Zenon DEF HandleMissing
  <2>2. keep \in SUBSET (DOMAIN s) OBVIOUS
  <2> HIDE DEF keep
  <2> QED BY <1>1, <2>1, <2>2, SelectKeeps
<1>4. CASE m \notin {"ffill", "bfill"} /\ m # "drop"
  <2>1. h = s BY <1>4, Zenon DEF HandleMissing
  <2> QED BY <1>1, <2>1
<1> QED BY <1>2, <1>3, <1>4

LEMMA CastKeeps ==
  ASSUME NEW s \in Seq(FileRows), NEW source, NEW t, t = CastNumeric(s)
  PROVE  t \in Seq(FileRows) /\ (Sourced(s, source) => Sourced(t, source))
<1>1. DOMAIN s = 1..Len(s) /\ Len(s) \in Nat /\ \A i \in DOMAIN s : s[i] \in FileRows
  BY FrameRows
<1>2. t = [i \in DOMAIN s |-> IF s[i].price = Text THEN [s[i] EXCEPT !.price = Missing] ELSE s[i]]
  BY Zenon DEF CastNumeric
<1>3. \A i \in DOMAIN s :
        /\ t[i] \in FileRows /\ t[i].time = s[i].time
        /\ IsPrice(t[i].price) => t[i].price = s[i].price
  <2>1. TAKE i \in DOMAIN s
  <2>2. s[i] \in FileRows BY <1>1
  <2>3. CASE s[i].price = Text
    <3>1. t[i] = [s[i] EXCEPT !.price = Missing] BY <1>2, <2>3
    <3>2. ~IsPrice(Missing) /\ Missing \in Int BY DEF IsPrice, Missing
    <3> QED BY <2>2, <3>1, <3>2 DEF FileRows
  <2>4. CASE s[i].price # Text
    <3>1. t[i] = s[i] BY <1>2, <2>4
    <3> QED BY <2>2, <3>1
  <2> QED BY <2>3, <2>4
<1>4. DOMAIN t = DOMAIN s BY <1>2
<1>5. t \in Seq(FileRows)
  <2>1. t = [i \in 1..Len(s) |-> t[i]] BY <1>1, <1>2
  <2> QED BY <1>1, <1>3, <2>1
<1>6. Sourced(s, source) => Sourced(t, source)
  <2>1. SUFFICES ASSUME Sourced(s, source), NEW i \in DOMAIN s, IsPrice(t[i].price)
                 PROVE  \E j \in DOMAIN source :
                          source[j].time <= t[i].time /\ source[j].price = t[i].price
    BY <1>4 DEF Sourced
  <2>2. t[i].price = s[i].price /\ t[i].time = s[i].time BY <1>3, <2>1
  <2>3. IsPrice(s[i].price) BY <2>1, <2>2
  <2> QED BY <2>1, <2>2, <2>3 DEF Sourced
<1> QED BY <1>5, <1>6

(* What load returns, and what the cleaner makes of it.                    *)
LEMMA LoadedFacts ==
  ASSUME NEW s \in Seq(FileRows), NEW m, NEW t, t = SortIndex(CastNumeric(HandleMissing(s, m)))
  PROVE  /\ t \in Seq(FileRows) /\ Ascending(t)
         /\ Ascending(s) /\ m # "bfill" => Sourced(t, s)
<1>1. PICK h : h = HandleMissing(s, m) OBVIOUS
<1>2. PICK c : c = CastNumeric(h) OBVIOUS
<1>3. t = SortIndex(c) BY <1>1, <1>2
<1>4. h \in Seq(FileRows) /\ (Ascending(s) /\ m # "bfill" => Sourced(h, s))
  BY <1>1, MissingHandled
<1>5. c \in Seq(FileRows) /\ (Sourced(h, s) => Sourced(c, s)) BY <1>2, <1>4, CastKeeps
<1>6. t \in Seq(FileRows) /\ Ascending(t) BY <1>3, <1>5, SortFacts
<1>7. \A k \in DOMAIN t : \E i \in DOMAIN c : t[k] = c[i] BY <1>3, <1>5, SortFacts
<1>8. Sourced(c, s) => Sourced(t, s) BY <1>7 DEF Sourced
<1> QED BY <1>4, <1>5, <1>6, <1>8

LEMMA DuplicatesDropped ==
  ASSUME NEW s \in Seq(FileRows), Ascending(s), NEW t, t = DropDuplicates(s)
  PROVE  t \in Seq(FileRows) /\ StrictlyAscending(t)
<1> DEFINE keep == {i \in DOMAIN s : \A j \in DOMAIN s : s[j].time = s[i].time => j <= i}
<1>1. t = Select(s, keep) BY Zenon DEF DropDuplicates
<1>2. keep \in SUBSET (DOMAIN s) OBVIOUS
<1>3. \A i, j \in keep : i < j => s[i].time < s[j].time
  <2>1. TAKE i, j \in keep
  <2>2. i \in Int /\ j \in Int /\ s[i].time \in Int /\ s[j].time \in Int BY FrameRows
  <2>3. i < j => s[i].time <= s[j].time BY DEF Ascending
  <2>4. s[j].time = s[i].time => j <= i OBVIOUS
  <2> QED BY <2>2, <2>3, <2>4
<1> HIDE DEF keep
<1>4. t \in Seq(FileRows) BY <1>1, <1>2, SelectRows
<1>5. \A k, l \in DOMAIN t : k < l => \E i, j \in keep : i < j /\ t[k] = s[i] /\ t[l] = s[j]
  BY <1>1, <1>2, SelectRows
<1>6. StrictlyAscending(t) BY <1>3, <1>5 DEF StrictlyAscending
<1> QED BY <1>4, <1>6

LEMMA UniqueAscend ==
  ASSUME NEW s \in Seq(FileRows), Ascending(s), ~HasDuplicates(s)
  PROVE  StrictlyAscending(s)
<1>1. SUFFICES ASSUME NEW i \in DOMAIN s, NEW j \in DOMAIN s, i < j
               PROVE  s[i].time < s[j].time
  BY DEF StrictlyAscending
<1>2. i \in Int /\ j \in Int /\ s[i].time \in Int /\ s[j].time \in Int BY FrameRows
<1>3. s[i].time <= s[j].time BY <1>1 DEF Ascending
<1>4. s[i].time # s[j].time BY <1>1, <1>2 DEF HasDuplicates
<1> QED BY <1>2, <1>3, <1>4

LEMMA OutliersKeep ==
  ASSUME NEW s \in Seq(FileRows), NEW threshold, NEW t, t = RemoveOutliers(s, threshold), NEW source
  PROVE  /\ t \in Seq(FileRows)
         /\ Ascending(s) => Ascending(t)
         /\ StrictlyAscending(s) => StrictlyAscending(t)
         /\ Priced(s) => Priced(t)
         /\ Sourced(s, source) => Sourced(t, source)
<1> DEFINE keep == {i \in DOMAIN s : ~IsOutlier(s, i, threshold)}
<1>1. CASE Len(s) < MinRows
  <2>1. t = s BY <1>1, Zenon DEF RemoveOutliers
  <2> QED BY <2>1
<1>2. CASE ~(Len(s) < MinRows)
  <2>1. t = Select(s, keep) BY <1>2, Zenon DEF RemoveOutliers
  <2>2. keep \in SUBSET (DOMAIN s) OBVIOUS
  <2> HIDE DEF keep
  <2> QED BY <2>1, <2>2, SelectKeeps
<1> QED BY <1>1, <1>2

LEMMA UsualFacts ==
  ASSUME frame \in Seq(FileRows), Ascending(frame), NEW o, NEW source, NEW u, u = Usual(o)
  PROVE  /\ u \in Seq(FileRows) /\ Ascending(u)
         /\ o.remove_duplicates => StrictlyAscending(u)
         /\ o.remove_non_positive => Priced(u)
         /\ Sourced(frame, source) => Sourced(u, source)
<1>1. PICK unique : unique = IF o.remove_duplicates THEN DropDuplicates(frame) ELSE frame
  OBVIOUS
<1>2. PICK positive : positive = IF o.remove_non_positive THEN DropNonPositive(unique) ELSE unique
  OBVIOUS
<1>3. u = IF o.outlier_std_threshold = 0 THEN positive
          ELSE RemoveOutliers(positive, o.outlier_std_threshold)
  BY <1>1, <1>2 DEF Usual
<1>4. /\ unique \in Seq(FileRows) /\ Ascending(unique)
      /\ o.remove_duplicates => StrictlyAscending(unique)
      /\ Sourced(frame, source) => Sourced(unique, source)
  <2>1. CASE o.remove_duplicates
    <3> DEFINE keep == {i \in DOMAIN frame :
                          \A j \in DOMAIN frame : frame[j].time = frame[i].time => j <= i}
    <3>1. unique = DropDuplicates(frame) BY <1>1, <2>1
    <3>2. StrictlyAscending(unique) BY <3>1, DuplicatesDropped
    <3>3. unique = Select(frame, keep) BY <3>1, Zenon DEF DropDuplicates
    <3>4. keep \in SUBSET (DOMAIN frame) OBVIOUS
    <3> HIDE DEF keep
    <3> QED BY <3>2, <3>3, <3>4, SelectKeeps
  <2>2. CASE ~o.remove_duplicates
    <3>1. unique = frame BY <1>1, <2>2
    <3> QED BY <2>2, <3>1
  <2> QED BY <2>1, <2>2
<1>5. /\ positive \in Seq(FileRows) /\ Ascending(positive)
      /\ o.remove_duplicates => StrictlyAscending(positive)
      /\ o.remove_non_positive => Priced(positive)
      /\ Sourced(frame, source) => Sourced(positive, source)
  <2>1. CASE o.remove_non_positive
    <3> DEFINE keep == {i \in DOMAIN unique : IsPrice(unique[i].price)}
    <3>1. positive = Select(unique, keep) BY <1>2, <2>1 DEF DropNonPositive
    <3>2. keep \in SUBSET (DOMAIN unique) /\ \A i \in keep : IsPrice(unique[i].price) OBVIOUS
    <3> HIDE DEF keep
    <3>3. \A k \in DOMAIN positive : \E i \in keep : positive[k] = unique[i]
      BY <1>4, <3>1, <3>2, SelectRows
    <3>4. Priced(positive) BY <3>2, <3>3 DEF Priced
    <3>5. /\ positive \in Seq(FileRows)
          /\ Ascending(unique) => Ascending(positive)
          /\ StrictlyAscending(unique) => StrictlyAscending(positive)
          /\ Sourced(unique, source) => Sourced(positive, source)
      BY <1>4, <3>1, <3>2, SelectKeeps
    <3> QED BY <1>4, <3>4, <3>5
  <2>2. CASE ~o.remove_non_positive
    <3>1. positive = unique BY <1>2, <2>2
    <3> QED BY <1>4, <2>2, <3>1
  <2> QED BY <2>1, <2>2
<1>6. CASE o.outlier_std_threshold = 0
  <2>1. u = positive BY <1>3, <1>6
  <2> QED BY <1>5, <2>1
<1>7. CASE o.outlier_std_threshold # 0
  <2>1. u = RemoveOutliers(positive, o.outlier_std_threshold) BY <1>3, <1>7
  <2>2. /\ u \in Seq(FileRows)
        /\ Ascending(positive) => Ascending(u)
        /\ StrictlyAscending(positive) => StrictlyAscending(u)
        /\ Priced(positive) => Priced(u)
        /\ Sourced(positive, source) => Sourced(u, source)
    BY <1>5, <2>1, OutliersKeep
  <2> QED BY <1>5, <2>2
<1> QED BY <1>6, <1>7

(* The grid without gaps: its distance is positive, its rows run from the  *)
(* first to the last, and each takes the price of a row up to its time.    *)
LEMMA DominantIsPositive ==
  ASSUME NEW s \in Seq(FileRows), StrictlyAscending(s), Len(s) >= 2
  PROVE  DominantFreq(s) \in Nat \ {0}
<1> DEFINE D == 1..(Len(s) - 1)
           delta == Deltas(s)
           ds == {delta[i] : i \in D}
           F == {Frequency(s, d) : d \in ds}
           best == {d \in ds : \A e \in ds : Frequency(s, e) <= Frequency(s, d)}
<1>1. Len(s) \in Nat /\ DOMAIN s = 1..Len(s) /\ \A i \in DOMAIN s : s[i].time \in Int
  BY FrameRows
<1>2. DOMAIN delta = D BY DEF Deltas
<1>3. \A i \in D : delta[i] \in Nat \ {0}
  <2>1. TAKE i \in D
  <2>2. i \in DOMAIN s /\ i + 1 \in DOMAIN s /\ i < i + 1 BY <1>1
  <2>3. s[i].time < s[i + 1].time BY <2>2 DEF StrictlyAscending
  <2>4. delta[i] = s[i + 1].time - s[i].time BY DEF Deltas
  <2>5. s[i].time \in Int /\ s[i + 1].time \in Int BY <1>1, <2>2
  <2> QED BY <2>3, <2>4, <2>5
<1>4. IsFiniteSet(D) /\ Cardinality(D) \in Nat /\ 1 \in D
  <2>1. 1 \in Int /\ Len(s) - 1 \in Int /\ 1 \in D BY <1>1
  <2>2. IsFiniteSet(D) BY <2>1, FS_Interval
  <2> QED BY <2>1, <2>2, FS_CardinalityType
<1>5. DominantFreq(s) = Min(best)
  BY <1>2 DEF DominantFreq
<1> HIDE DEF D, delta
<1>6. ds # {} /\ ds \subseteq Nat \ {0} BY <1>3, <1>4
<1>7. IsFiniteSet(ds)
  <2>1. delta \in Surjection(D, ds)
    <3>1. delta = [i \in D |-> delta[i]] BY <1>2 DEF delta, Deltas
    <3>2. delta \in [D -> ds] BY <3>1
    <3> QED BY <3>2 DEF Surjection
  <2> HIDE DEF ds
  <2> QED BY <1>4, <2>1, FS_Surjection
<1> HIDE DEF ds
<1>8. \A d : Frequency(s, d) \in 0..Cardinality(D)
  <2>1. TAKE d
  <2> DEFINE at == {i \in D : delta[i] = d}
  <2>2. Frequency(s, d) = Cardinality(at) BY <1>2, Zenon DEF Frequency, delta
  <2>3. at \subseteq D OBVIOUS
  <2> HIDE DEF at
  <2>4. IsFiniteSet(at) /\ Cardinality(at) <= Cardinality(D) BY <1>4, <2>3, FS_Subset
  <2>5. Cardinality(at) \in Nat BY <2>4, FS_CardinalityType
  <2> QED BY <1>4, <2>2, <2>4, <2>5
<1>9. F \subseteq 0..Cardinality(D) /\ F \subseteq Int /\ F # {}
  <2>1. \A d \in ds : Frequency(s, d) \in 0..Cardinality(D) BY <1>8
  <2>2. F \subseteq 0..Cardinality(D) BY <2>1
  <2>3. 0..Cardinality(D) \subseteq Int BY <1>4
  <2>4. F # {} BY <1>6
  <2> HIDE DEF F
  <2> QED BY <2>2, <2>3, <2>4
<1>10. IsFiniteSet(F)
  <2>1. 0 \in Int /\ Cardinality(D) \in Int BY <1>4
  <2>2. IsFiniteSet(0..Cardinality(D)) BY <2>1, FS_Interval
  <2> HIDE DEF F
  <2> QED BY <1>9, <2>2, FS_Subset
<1>11. Max(F) \in F /\ \A y \in F : Max(F) >= y
  <2> HIDE DEF F
  <2> QED BY <1>9, <1>10, GreatestIn
<1>12. PICK d \in ds : Frequency(s, d) = Max(F) BY <1>11
<1>13. d \in best
  <2>1. \A e \in ds : Frequency(s, e) \in F OBVIOUS
  <2>2. \A e \in ds : Frequency(s, e) \in Int /\ Frequency(s, d) \in Int BY <1>8
  <2>3. \A e \in ds : Frequency(s, e) <= Frequency(s, d) BY <1>11, <1>12, <2>1, <2>2
  <2> QED BY <2>3
<1>14. best # {} /\ best \subseteq ds BY <1>13
<1> HIDE DEF best
<1>15. IsFiniteSet(best) BY <1>7, <1>14, FS_Subset
<1>16. best \subseteq Int BY <1>6, <1>14
<1>17. Min(best) \in best BY <1>14, <1>15, <1>16, LeastIn
<1> QED BY <1>5, <1>6, <1>14, <1>17

LEMMA GridFacts ==
  ASSUME NEW s \in Seq(FileRows), StrictlyAscending(s), Len(s) >= 2
  PROVE  /\ GridLength(s) \in Nat
         /\ \A k \in Nat : GridTime(s, k) \in Int
         /\ \A k, l \in Nat : k < l => GridTime(s, k) < GridTime(s, l)
         /\ GridTime(s, 1) = s[1].time
<1>1. PICK f \in Nat \ {0} : f = DominantFreq(s) BY DominantIsPositive
<1>2. Len(s) \in Nat /\ 1 \in DOMAIN s /\ Len(s) \in DOMAIN s BY FrameRows
<1>3. s[1].time \in Int /\ s[Len(s)].time \in Int BY <1>2, FrameRows
<1>4. s[1].time < s[Len(s)].time BY <1>2 DEF StrictlyAscending
<1>5. GridLength(s) \in Nat
  <2>1. PICK x \in Nat : x = s[Len(s)].time - s[1].time BY <1>3, <1>4
  <2>2. x \div f \in Nat BY NatDivOrdered
  <2> QED BY <1>1, <2>1, <2>2 DEF GridLength
<1>6. \A k : GridTime(s, k) = s[1].time + (k - 1) * f BY <1>1 DEF GridTime
<1>7. \A k \in Nat : (k - 1) * f \in Int OBVIOUS
<1>8. \A k \in Nat : GridTime(s, k) \in Int BY <1>3, <1>6, <1>7
<1>9. ASSUME NEW k \in Nat, NEW l \in Nat, k < l PROVE (k - 1) * f < (l - 1) * f
  <2>1. PICK d \in Nat : d = l - k - 1 BY <1>9
  <2>2. (l - 1) * f = (k - 1) * f + d * f + f
    <3>1. l - 1 = ((k - 1) + d) + 1 BY <2>1
    <3>2. \A a, b \in Int : ((a + b) + 1) * f = a * f + b * f + f OBVIOUS
    <3>3. k - 1 \in Int /\ d \in Int OBVIOUS
    <3> QED BY <3>1, <3>2, <3>3
  <2>3. d * f \in Nat BY NatTimes
  <2>4. (k - 1) * f \in Int OBVIOUS
  <2> QED BY <2>2, <2>3, <2>4
<1>10. ASSUME NEW k \in Nat, NEW l \in Nat, k < l PROVE GridTime(s, k) < GridTime(s, l)
  <2>1. PICK a \in Int : a = (k - 1) * f BY <1>7
  <2>2. PICK b \in Int : b = (l - 1) * f BY <1>7
  <2>3. a < b BY <1>9, <1>10, <2>1, <2>2
  <2>4. GridTime(s, k) = s[1].time + a /\ GridTime(s, l) = s[1].time + b
    BY <1>6, <2>1, <2>2
  <2> QED BY <1>3, <2>3, <2>4
<1>11. GridTime(s, 1) = s[1].time
  <2>1. (1 - 1) * f = 0 OBVIOUS
  <2>2. GridTime(s, 1) = s[1].time + (1 - 1) * f BY <1>6
  <2> QED BY <1>3, <2>1, <2>2
<1> QED BY <1>5, <1>8, <1>10, <1>11

LEMMA GapsFilled ==
  ASSUME NEW s \in Seq(FileRows), StrictlyAscending(s), Priced(s), NEW source,
         \A j \in DOMAIN source : source[j].time \in Int,
         NEW g, g = FillGaps(s)
  PROVE  /\ g \in Seq(FileRows) /\ StrictlyAscending(g) /\ Priced(g)
         /\ Sourced(s, source) => Sourced(g, source)
<1>1. CASE Len(s) < 2
  <2>1. g = s BY <1>1, Zenon DEF FillGaps
  <2> QED BY <2>1
<1>2. CASE ~(Len(s) < 2)
  <2>1. /\ Len(s) \in Nat /\ Len(s) >= 2 /\ 1 \in DOMAIN s
        /\ IsFiniteSet(DOMAIN s) /\ DOMAIN s \in SUBSET Nat
        /\ \A i \in DOMAIN s : s[i] \in FileRows /\ s[i].time \in Int /\ s[i].price \in Int
    <3>1. Len(s) \in Nat /\ DOMAIN s = 1..Len(s) BY FrameRows
    <3>2. Len(s) >= 2 /\ 1 \in DOMAIN s BY <1>2, <3>1
    <3> QED BY <3>1, <3>2, FrameRows
  <2>2. GridLength(s) \in Nat BY <2>1, GridFacts
  <2>3. \A k \in Nat : GridTime(s, k) \in Int BY <2>1, GridFacts
  <2>4. \A k, l \in Nat : k < l => GridTime(s, k) < GridTime(s, l) BY <2>1, GridFacts
  <2>5. GridTime(s, 1) = s[1].time BY <2>1, GridFacts
  <2>6. g = [k \in 1..GridLength(s) |->
               [time |-> GridTime(s, k), price |-> s[Max(RowsUpTo(s, k))].price]]
    BY <1>2, Zenon DEF FillGaps
  <2>7. ASSUME NEW k \in 1..GridLength(s)
        PROVE  \E i \in DOMAIN s : i = Max(RowsUpTo(s, k)) /\ s[i].time <= GridTime(s, k)
    <3> DEFINE R == RowsUpTo(s, k)
    <3>1. R \subseteq DOMAIN s BY DEF RowsUpTo
    <3>2. 1 \in R BY <2>1, <2>2, <2>5 DEF RowsUpTo
    <3>3. \A i \in R : \E l \in 1..k : s[i].time = GridTime(s, l) BY DEF RowsUpTo
    <3> HIDE DEF R
    <3>4. IsFiniteSet(R) /\ R \subseteq Int /\ R # {} BY <2>1, <3>1, <3>2, FS_Subset
    <3>5. Max(R) \in R BY <3>4, GreatestIn
    <3>6. PICK i \in R : i = Max(R) BY <3>5
    <3>7. PICK l \in 1..k : s[i].time = GridTime(s, l) BY <3>3
    <3>8. k \in Nat /\ l \in Nat /\ l <= k BY <2>2
    <3>9. GridTime(s, l) <= GridTime(s, k)
      <4>1. l = k \/ l < k BY <3>8
      <4>2. GridTime(s, l) \in Int /\ GridTime(s, k) \in Int BY <2>3, <3>8
      <4> QED BY <2>4, <3>8, <4>1, <4>2
    <3> QED BY <3>1, <3>6, <3>7, <3>9 DEF R
  <2>8. \A k \in 1..GridLength(s) :
          /\ g[k].time = GridTime(s, k) /\ g[k] \in FileRows /\ k \in Nat
          /\ \E i \in DOMAIN s : g[k].price = s[i].price /\ s[i].time <= g[k].time
    <3>1. TAKE k \in 1..GridLength(s)
    <3>2. PICK i \in DOMAIN s : i = Max(RowsUpTo(s, k)) /\ s[i].time <= GridTime(s, k)
      BY <2>7
    <3>3. g[k] = [time |-> GridTime(s, k), price |-> s[i].price] BY <2>6, <3>2
    <3>4. k \in Nat BY <2>2
    <3>5. GridTime(s, k) \in Int /\ s[i].price \in Int BY <2>1, <2>3, <3>4
    <3>6. g[k].time = GridTime(s, k) /\ g[k].price = s[i].price /\ g[k] \in FileRows
      BY <3>3, <3>5 DEF FileRows
    <3> QED BY <3>2, <3>4, <3>6
  <2>9. DOMAIN g = 1..GridLength(s) /\ g = [k \in 1..GridLength(s) |-> g[k]] BY <2>6
  <2>10. g \in Seq(FileRows)
    <3>1. \A k \in 1..GridLength(s) : g[k] \in FileRows BY <2>8
    <3> QED BY <2>2, <2>9, <3>1
  <2>11. StrictlyAscending(g) BY <2>4, <2>8, <2>9 DEF StrictlyAscending
  <2>12. Priced(g) BY <2>8, <2>9 DEF Priced
  <2>13. Sourced(s, source) => Sourced(g, source)
    <3>1. SUFFICES ASSUME Sourced(s, source), NEW k \in DOMAIN g
                   PROVE  \E j \in DOMAIN source :
                            source[j].time <= g[k].time /\ source[j].price = g[k].price
      BY DEF Sourced
    <3>2. PICK i \in DOMAIN s : g[k].price = s[i].price /\ s[i].time <= g[k].time
      BY <2>8, <2>9
    <3>3. IsPrice(s[i].price) BY DEF Priced
    <3>4. PICK j \in DOMAIN source : source[j].time <= s[i].time /\ source[j].price = s[i].price
      BY <3>1, <3>3 DEF Sourced
    <3>5. source[j].time \in Int /\ s[i].time \in Int /\ g[k].time \in Int
      BY <2>1, <2>3, <2>8, <2>9
    <3> QED BY <3>2, <3>4, <3>5
  <2> QED BY <2>10, <2>11, <2>12, <2>13
<1> QED BY <1>1, <1>2

(* What has been loaded is in the order of time, what has been cleaned can *)
(* be traded on, and every price has its source.                           *)
FromThePast == Ascending(csv_file) /\ fill_method # "bfill" => Sourced(frame, csv_file)

LoadInv ==
  /\ csv_file \in Seq(FileRows) /\ frame \in Seq(FileRows)
  /\ load_step = "file" => frame = <<>>
  /\ load_step = "loaded" => Ascending(frame)
  /\ load_step = "cleaned" /\ options.remove_duplicates => StrictlyAscending(frame)
  /\ load_step = "cleaned" /\ options.remove_non_positive => Priced(frame)
  /\ FromThePast

LEMMA LoadStarts == LoadInit => LoadInv
  <1>1. SUFFICES ASSUME LoadInit PROVE LoadInv OBVIOUS
  <1>2. csv_file \in Seq(FileRows) BY <1>1, LoadingAssumption DEF LoadInit
  <1>3. frame = <<>> /\ load_step = "file" BY <1>1 DEF LoadInit
  <1>4. frame \in Seq(FileRows) /\ DOMAIN frame = {} BY <1>3
  <1>5. Sourced(frame, csv_file) BY <1>4 DEF Sourced
  <1> QED BY <1>2, <1>3, <1>4, <1>5 DEF LoadInv, FromThePast

LEMMA LoadStep == ASSUME LoadInv, [LoadNext]_loadVars PROVE LoadInv'
<1>0. csv_file \in Seq(FileRows) /\ frame \in Seq(FileRows) BY DEF LoadInv
<1>1. ASSUME NEW m, LoadFile(m) PROVE LoadInv'
  <2>1. PICK t : t = SortIndex(CastNumeric(HandleMissing(csv_file, m))) OBVIOUS
  <2>2. /\ load_step = "file" /\ fill_method' = m
        /\ IF t = <<>> THEN load_step' = "raised" /\ UNCHANGED frame
           ELSE load_step' = "loaded" /\ frame' = t
        /\ UNCHANGED <<csv_file, options>>
    BY <1>1, <2>1 DEF LoadFile, Loaded
  <2>3. /\ t \in Seq(FileRows) /\ Ascending(t)
        /\ Ascending(csv_file) /\ m # "bfill" => Sourced(t, csv_file)
    BY <1>0, <2>1, LoadedFacts
  <2>4. frame = <<>> /\ DOMAIN frame = {} BY <2>2 DEF LoadInv
  <2>5. CASE t = <<>>
    <3>1. Sourced(frame, csv_file) BY <2>4 DEF Sourced
    <3>2. load_step' = "raised" /\ frame' = frame /\ csv_file' = csv_file BY <2>2, <2>5
    <3>3. Sourced(frame, csv_file)' BY <3>1, <3>2 DEF Sourced
    <3> QED BY <1>0, <3>2, <3>3 DEF LoadInv, FromThePast
  <2>6. CASE t # <<>>
    <3>1. load_step' = "loaded" /\ frame' = t /\ csv_file' = csv_file /\ fill_method' = m
      BY <2>2, <2>6
    <3>2. Ascending(frame)' BY <2>3, <3>1 DEF Ascending
    <3>3. FromThePast'
      <4>1. Ascending(csv_file)' => Ascending(csv_file) BY <3>1 DEF Ascending
      <4>2. Sourced(t, csv_file) => Sourced(frame, csv_file)' BY <3>1 DEF Sourced
      <4> QED BY <2>3, <3>1, <4>1, <4>2 DEF FromThePast
    <3> QED BY <1>0, <2>3, <3>1, <3>2, <3>3 DEF LoadInv
  <2> QED BY <2>5, <2>6
<1>2. ASSUME NEW o \in Options, Clean(o) PROVE LoadInv'
  <2>1. PICK u : u = Usual(o) OBVIOUS
  <2>2. /\ load_step = "loaded" /\ options' = o
        /\ IF o.fill_gaps /\ HasDuplicates(u)
           THEN load_step' = "raised" /\ UNCHANGED frame
           ELSE load_step' = "cleaned" /\ frame' = IF o.fill_gaps THEN FillGaps(u) ELSE u
        /\ UNCHANGED <<csv_file, fill_method>>
    BY <1>2, <2>1 DEF Clean
  <2>3. Ascending(frame) BY <2>2 DEF LoadInv
  <2>4. /\ u \in Seq(FileRows) /\ Ascending(u)
        /\ o.remove_duplicates => StrictlyAscending(u)
        /\ o.remove_non_positive => Priced(u)
        /\ Sourced(frame, csv_file) => Sourced(u, csv_file)
    BY <1>0, <2>1, <2>3, UsualFacts
  <2>5. o.fill_gaps => o.remove_non_positive BY DEF Options
  <2>6. Ascending(csv_file)' => Ascending(csv_file) BY <2>2 DEF Ascending
  <2>7. Ascending(csv_file)' /\ fill_method' # "bfill" => Sourced(frame, csv_file)
    BY <2>2, <2>6 DEF LoadInv, FromThePast
  <2>8. CASE o.fill_gaps /\ HasDuplicates(u)
    <3>1. load_step' = "raised" /\ frame' = frame /\ csv_file' = csv_file BY <2>2, <2>8
    <3>2. Sourced(frame, csv_file) => Sourced(frame, csv_file)' BY <3>1 DEF Sourced
    <3> QED BY <1>0, <2>7, <3>1, <3>2 DEF LoadInv, FromThePast
  <2>9. CASE ~(o.fill_gaps /\ HasDuplicates(u))
    <3>1. load_step' = "cleaned" /\ csv_file' = csv_file /\ options' = o
          /\ frame' = IF o.fill_gaps THEN FillGaps(u) ELSE u
      BY <2>2, <2>9
    <3>2. /\ frame' \in Seq(FileRows)
          /\ o.remove_duplicates => StrictlyAscending(frame')
          /\ o.remove_non_positive => Priced(frame')
          /\ Sourced(u, csv_file) => Sourced(frame', csv_file)
      <4>1. CASE o.fill_gaps
        <5>1. frame' = FillGaps(u) BY <3>1, <4>1
        <5>2. StrictlyAscending(u) BY <2>4, <2>9, <4>1, UniqueAscend
        <5>3. Priced(u) BY <2>4, <2>5, <4>1
        <5>4. \A j \in DOMAIN csv_file : csv_file[j].time \in Int BY <1>0, FrameRows
        <5>5. /\ frame' \in Seq(FileRows) /\ StrictlyAscending(frame') /\ Priced(frame')
              /\ Sourced(u, csv_file) => Sourced(frame', csv_file)
          BY <2>4, <5>1, <5>2, <5>3, <5>4, GapsFilled
        <5> QED BY <5>5
      <4>2. CASE ~o.fill_gaps
        <5>1. frame' = u BY <3>1, <4>2
        <5> QED BY <2>4, <5>1
      <4> QED BY <4>1, <4>2
    <3>3. StrictlyAscending(frame') => StrictlyAscending(frame)' BY DEF StrictlyAscending
    <3>4. Priced(frame') => Priced(frame)' BY DEF Priced
    <3>5. Sourced(frame', csv_file) => Sourced(frame, csv_file)' BY <3>1 DEF Sourced
    <3>6. FromThePast' BY <2>4, <2>7, <3>2, <3>5 DEF FromThePast
    <3> QED BY <1>0, <3>1, <3>2, <3>3, <3>4, <3>6 DEF LoadInv
  <2> QED BY <2>8, <2>9
<1>3. CASE UNCHANGED loadVars
  BY <1>3 DEF loadVars, LoadInv, FromThePast, Ascending, StrictlyAscending, Priced, Sourced
<1> QED BY <1>1, <1>2, <1>3 DEF LoadNext

LEMMA LoadFree == ASSUME LoadInv PROVE FrameIsSound
<1>0. csv_file \in Seq(FileRows) /\ frame \in Seq(FileRows) BY DEF LoadInv
<1>1. FrameIsUsable
  <2>1. SUFFICES ASSUME load_step = "cleaned", options.remove_duplicates,
                        options.remove_non_positive
                 PROVE  /\ \A i \in 2..Len(frame) : frame[i - 1].time < frame[i].time
                        /\ \A i \in DOMAIN frame : IsPrice(frame[i].price)
    BY DEF FrameIsUsable
  <2>2. StrictlyAscending(frame) /\ Priced(frame) BY <2>1 DEF LoadInv
  <2>3. DOMAIN frame = 1..Len(frame) /\ Len(frame) \in Nat BY <1>0, FrameRows
  <2>4. \A i \in 2..Len(frame) : i - 1 \in DOMAIN frame /\ i \in DOMAIN frame /\ i - 1 < i
    BY <2>3
  <2> QED BY <2>2, <2>4 DEF StrictlyAscending, Priced
<1>2. NoFuturePrice
  <2>1. SUFFICES ASSUME Chronological, fill_method # "bfill" PROVE Sourced(frame, csv_file)
    BY DEF NoFuturePrice, Sourced
  <2>2. Ascending(csv_file) BY <1>0, <2>1, AscendingPairwise DEF Chronological
  <2> QED BY <2>1, <2>2 DEF LoadInv, FromThePast
<1> QED BY <1>1, <1>2 DEF FrameIsSound

(* For every file, fill method, threshold and options of the cleaner: the  *)
(* timestamps of a cleaned frame ascend, its prices are prices, and none   *)
(* of them is one that comes later in the file (Loading).                  *)
THEOREM LoadingCorrect == LoadSpec => []FrameIsSound
<1>1. LoadInit => LoadInv BY LoadStarts
<1>2. LoadInv /\ [LoadNext]_loadVars => LoadInv' BY LoadStep
<1>3. LoadInv => FrameIsSound BY LoadFree
<1> QED BY <1>1, <1>2, <1>3, PTL DEF LoadSpec
=============================================================================
