---------------------------- MODULE WalkForward ----------------------------
(***************************************************************************)
(* Walk-forward optimisation (aqc/research/): WalkForwardEngine cuts the   *)
(* bars into folds (walk_forward.py), an optimizer evaluates parameter     *)
(* sets on each fold's training bars and picks one (optimizer.py,          *)
(* parameter_space.py), which is then run on the fold's test bars.  Bars   *)
(* are numbered from 1.  What a backtest yields is any of a few values of  *)
(* the objective metric, or no finite one, or an exception.                *)
(***************************************************************************)
EXTENDS Integers, Sequences, FiniteSetsExt, SequencesExt

CONSTANTS
  Times,        \* the days of each symbol's bars, a set for every symbol
  Periods,      \* train_period and test_period, [unit |-> "bars" or "days", n |-> ...]
  FoldLimits,   \* n_folds, 0 for None
  ParamLists,   \* what parameter spaces are made of: sequences of the records below
  Optimizers,   \* "grid", "random"
  NIter,        \* n_iter of the random search
  Objectives,   \* "sharpe_ratio" for all whose value is better if greater, and
                \* "max_drawdown_pct"
  Metrics,      \* finite values of the objective metric
  MaxRuns       \* bound on the calls of run()

VARIABLES
  engine,       \* what __init__ was given, see Engines
  runs,         \* the calls of run() so far
  step,         \* what run() is about: idle, search, retrain, test, failed
  folds,        \* the folds done, with the parameters chosen for each
  pending,      \* parameter sets the optimizer has still to evaluate
  evaluations,  \* its EvaluationRecords: the parameters and the raw metric
  printing      \* whether ReportGenerator.print_report prints

walkVars == <<engine, runs, step, folds, pending, evaluations, printing>>

NoValue == -1000000000   \* what a metric that is not finite counts as

Engines == [mode : {"ROLLING", "EXPANDING"}, train : Periods, test : Periods,
            n_folds : FoldLimits, space : ParamLists, optimizer : Optimizers,
            objective : Objectives]

----------------------------------------------------------------------------
(* _get_common_index, the union of the symbols' days in order, and         *)
(* _period_to_bars: an offset counts the bars up to that many days after   *)
(* the first, both ends included.                                          *)
Days == UNION {Times[symbol] : symbol \in DOMAIN Times}
Bars == Cardinality(Days)
Index == [i \in 1..Bars |-> CHOOSE day \in Days : Cardinality({d \in Days : d <= day}) = i]

PeriodToBars(p) ==
  IF p.unit = "bars" THEN p.n
  ELSE Max({2, Cardinality({i \in 1..Bars : Index[i] <= Index[1] + p.n})})

(* _generate_folds: fold k (from 0) trains on the bars First..End and is   *)
(* tested on the next ones; there are as many as fit, or n_folds.          *)
TrainBars(e) == PeriodToBars(e.train)
TestBars(e) == PeriodToBars(e.test)
TrainStart(e, k) == IF e.mode = "ROLLING" THEN k * TestBars(e) + 1 ELSE 1
TrainEnd(e, k) == TrainBars(e) + k * TestBars(e)
TestEnd(e, k) == TrainEnd(e, k) + TestBars(e)

Fits(e, k) == TestEnd(e, k) <= Bars /\ (e.n_folds # 0 => k < e.n_folds)

(* (Slips that the checks must notice; none is part of the specification.) *)
FoldBarsShared(e, k) == [train |-> TrainStart(e, k)..TrainEnd(e, k),
                         test |-> TrainEnd(e, k)..TestEnd(e, k)]

FoldBars(e, k) == [train |-> TrainStart(e, k)..TrainEnd(e, k),
                   test |-> TrainEnd(e, k) + 1..TestEnd(e, k)]

(* _slice_data: the rows of a symbol that fall on some bars.               *)
SliceData(symbol, bars) == {i \in bars : Index[i] \in Times[symbol]}

(* IntParam, FloatParam (in units of 10 to the -10) and CategoricalParam:  *)
(* what their constructors accept, and the values of a grid; a float is    *)
(* sampled from the whole range.                                           *)
ValidParam(p) ==
  \/ p.kind = "int" /\ p.low <= p.high /\ p.step > 0
  \/ p.kind = "float" /\ p.low <= p.high /\ p.n_points >= 2
  \/ p.kind = "categorical" /\ p.choices # <<>>

Values(p) ==
  IF p.kind = "int"
  THEN [i \in 1..((p.high - p.low) \div p.step + 1) |-> p.low + (i - 1) * p.step]
  ELSE IF p.kind = "float"
  THEN [i \in 1..p.n_points |-> p.low + ((i - 1) * (p.high - p.low)) \div (p.n_points - 1)]
  ELSE p.choices

Sampled(p) == IF p.kind = "float" THEN p.low..p.high ELSE ToSet(Values(p))

(* ParameterSpace.add, one parameter after the other: a name once.         *)
ValidSpace(space) ==
  /\ \A i \in DOMAIN space : ValidParam(space[i])
  /\ \A i, j \in DOMAIN space : i # j => space[i].name # space[j].name

(* ParameterGrid: every combination, the last parameter turning fastest,   *)
(* built up by one parameter after the other; grid_size; and               *)
(* ParameterSpace.sample.                                                  *)
Combined(combos, p) ==
  LET n == Len(Values(p))
  IN  [k \in 1..Len(combos) * n |->
         Append(combos[(k - 1) \div n + 1], Values(p)[((k - 1) % n) + 1])]

Grid(space) == FoldLeft(Combined, <<<<>>>>, space)

Enlarged(size, p) == size * Len(Values(p))

GridSize(space) == FoldLeft(Enlarged, 1, space)

Samples(space) ==
  FoldLeft(LAMBDA some, p : {Append(s, v) : s \in some, v \in Sampled(p)}, {<<>>}, space)

(* _evaluate: the objective's value, and _build_result: the first          *)
(* evaluation none is greater than.                                        *)
ObjectiveValue(e, raw) == IF e.objective = "max_drawdown_pct" THEN -raw ELSE raw

BestOf(e, evals) ==
  evals[Min({i \in 1..Len(evals) : \A j \in 1..Len(evals) :
               ObjectiveValue(e, evals[j].raw) <= ObjectiveValue(e, evals[i].raw)})]

----------------------------------------------------------------------------
WalkInit ==
  /\ engine \in Engines /\ ValidSpace(engine.space)
  /\ runs = 0 /\ step = "idle" /\ folds = <<>>
  /\ pending = <<>> /\ evaluations = <<>>
  /\ printing = TRUE

(* What the optimizer of a fold is to evaluate.                            *)
StartFold ==
  /\ evaluations' = <<>>
  /\ IF engine.optimizer = "grid" THEN pending' = Grid(engine.space)
     ELSE \E s \in [1..NIter -> Samples(engine.space)] : pending' = s

(* run(), which raises if not a single fold fits.                          *)
Run ==
  /\ step = "idle" /\ runs < MaxRuns /\ Fits(engine, 0)
  /\ runs' = runs + 1 /\ folds' = <<>> /\ step' = "search"
  /\ StartFold
  /\ UNCHANGED <<engine, printing>>

(* A call of the backtest runner: print_report is replaced before the      *)
(* engine runs and put back after it, unless the engine raises; what is    *)
(* put back is what was found.  The strategy may raise before that, when   *)
(* it is built.                                                            *)
RunnerReturns == UNCHANGED printing

BacktestRaises ==
  /\ step \in {"search", "retrain", "test"}
  /\ step' = "failed" /\ printing' \in {printing, FALSE}
  /\ UNCHANGED <<engine, runs, folds, pending, evaluations>>

(* GridSearchOptimizer.run and RandomSearchOptimizer.run, one evaluation.  *)
Evaluate ==
  /\ step = "search" /\ pending # <<>>
  /\ \E raw \in Metrics \cup {NoValue} :
       evaluations' = Append(evaluations, [params |-> Head(pending), raw |-> raw])
  /\ pending' = Tail(pending) /\ RunnerReturns
  /\ UNCHANGED <<engine, runs, step, folds>>

(* _build_result ends the search; the training bars are run once more with *)
(* the best parameters.                                                    *)
Choose ==
  /\ step = "search" /\ pending = <<>> /\ evaluations # <<>>
  /\ LET bars == FoldBars(engine, Len(folds))
     IN  folds' = Append(folds, [train |-> bars.train, test |-> bars.test,
                                 best |-> BestOf(engine, evaluations)])
  /\ step' = "retrain"
  /\ UNCHANGED <<engine, runs, pending, evaluations, printing>>

Retrain ==
  /\ step = "retrain" /\ RunnerReturns /\ step' = "test"
  /\ UNCHANGED <<engine, runs, folds, pending, evaluations>>

(* The test run ends the fold, and run() with the last.                    *)
Test ==
  /\ step = "test" /\ RunnerReturns
  /\ IF Fits(engine, Len(folds))
     THEN step' = "search" /\ StartFold
     ELSE step' = "idle" /\ evaluations' = <<>> /\ UNCHANGED pending
  /\ UNCHANGED <<engine, runs, folds>>

(* The caller handles what run() raised, which leaves no result, and may   *)
(* call it again.                                                          *)
Recover ==
  /\ step = "failed" /\ step' = "idle"
  /\ folds' = <<>> /\ pending' = <<>> /\ evaluations' = <<>>
  /\ UNCHANGED <<engine, runs, printing>>

WalkNext == Run \/ Evaluate \/ Choose \/ Retrain \/ Test \/ BacktestRaises \/ Recover

WalkSpec == WalkInit /\ [][WalkNext]_walkVars

----------------------------------------------------------------------------
(* No fold's parameters have seen its test bars, nor any later bar; the    *)
(* test bars of the folds follow each other without a gap and without an   *)
(* overlap, so that combined_test_equity_curve never drops a bar; and with *)
(* n_folds left to the engine, a completed study has used all bars but     *)
(* fewer than a test period.  No symbol's row is in both slices of a fold, *)
(* and every row is in one of them or outside the fold's days.             *)
FoldsSeparate ==
  /\ \A k \in 1..Len(folds) :
       /\ folds[k].train # {} /\ folds[k].test # {}
       /\ folds[k].train \cup folds[k].test \subseteq 1..Bars
       /\ \A t \in folds[k].train, u \in folds[k].test : t < u
       /\ k > 1 => Min(folds[k].test) = Max(folds[k-1].test) + 1
       /\ \A symbol \in DOMAIN Times :
            /\ SliceData(symbol, folds[k].train) \cap SliceData(symbol, folds[k].test) = {}
            /\ Cardinality(SliceData(symbol, folds[k].train))
               + Cardinality(SliceData(symbol, folds[k].test))
               = Cardinality({day \in Times[symbol] : /\ Index[Min(folds[k].train)] <= day
                                                      /\ day <= Index[Max(folds[k].test)]})
  /\ step = "idle" /\ folds # <<>> /\ engine.n_folds = 0 =>
       Bars - Max(folds[Len(folds)].test) < TestBars(engine)

(* For every objective but the drawdown, the parameters of a fold are      *)
(* those of a best evaluation: no evaluation was better, and one without a *)
(* finite metric is only chosen if there is none with one.                 *)
NoneWasBetter ==
  step \in {"retrain", "test"} /\ engine.objective # "max_drawdown_pct" =>
    LET best == folds[Len(folds)].best
    IN  /\ \E i \in 1..Len(evaluations) : evaluations[i] = best
        /\ \A i \in 1..Len(evaluations) : evaluations[i].raw <= best.raw

(* When a grid search has chosen, it has evaluated as many parameter sets  *)
(* as grid_size promises, and every choice of one value per parameter is   *)
(* among them.                                                             *)
WholeGridSearched ==
  step \in {"retrain", "test"} /\ engine.optimizer = "grid" =>
    /\ Len(evaluations) = GridSize(engine.space)
    /\ \A choice \in [DOMAIN engine.space -> 1..GridSize(engine.space)] :
         (\A j \in DOMAIN engine.space : choice[j] <= Len(Values(engine.space[j]))) =>
           \E i \in 1..Len(evaluations) :
             evaluations[i].params = [j \in DOMAIN engine.space |->
                                        Values(engine.space[j])[choice[j]]]

(* No bar is both trained and tested on, or tested twice, and a fold is    *)
(* tested with its best parameters, found among all that were asked for.   *)
StudyIsSound == FoldsSeparate /\ NoneWasBetter /\ WholeGridSearched

(* "Drawdown is inherently negative - flip the sign so the optimizer       *)
(* treats higher values as better in all cases": the drawdown chosen is    *)
(* the mildest.                                                            *)
MildestDrawdownChosen ==
  step = "retrain" /\ engine.objective = "max_drawdown_pct" =>
    \A i \in 1..Len(evaluations) : evaluations[i].raw <= folds[Len(folds)].best.raw
=============================================================================
