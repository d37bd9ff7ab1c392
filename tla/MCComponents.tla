---------------------------- MODULE MCComponents ----------------------------
(***************************************************************************)
(* The components that share no state and call each other only through     *)
(* finished results, checked in one run: the first state says which part   *)
(* of the system the behaviour is about, the variables of the others stand *)
(* still.  The parts are extended, and their properties are the run's as   *)
(* they are; the scheduler, whose property needs fairness, is instantiated *)
(* and its property restated for the behaviours that are about it.         *)
(***************************************************************************)
EXTENDS Strategies, WalkForward, Regimes, Causality, Hypotheses, Alphas, AlphaMonitor, Capital,
        Loading

VARIABLES
  part,
  state, tasks, is_running, gathering, starts, orders, rejected, db

opsVars == <<state, tasks, is_running, gathering, starts, orders, rejected, db>>

----------------------------------------------------------------------------
(* Walk-forward: two instruments with bars on different days, parameters   *)
(* of each kind, one list that is refused, and metrics of two values.      *)
MCParamLists ==
  {<<[name |-> "period", kind |-> "int", low |-> 5, high |-> 8, step |-> 2],
     [name |-> "source", kind |-> "categorical", choices |-> <<"close">>]>>,
   <<[name |-> "threshold", kind |-> "float", low |-> 1, high |-> 3, n_points |-> 2]>>,
   <<[name |-> "period", kind |-> "int", low |-> 5, high |-> 5, step |-> 1],
     [name |-> "period", kind |-> "int", low |-> 6, high |-> 6, step |-> 1]>>}

MCTimes == [x |-> {1, 2, 6}, y |-> {1, 4, 6}]
MCPeriods == {[unit |-> "bars", n |-> 1], [unit |-> "days", n |-> 1]}
MCMetrics == {-20, 10}

(* Scheduler, persistence and health.                                      *)
Ops == INSTANCE LiveOps WITH
  Wrappers <- {"save", "report"}, Saver <- "save", MaxOrders <- 1, MaxRejected <- 0,
  MaxStarts <- 2, MaxRows <- 2

(* Deployment: evaluations on either side of its thresholds.               *)
Good == [sharpe |-> 160, ic |-> 5, hit |-> 60, pf |-> 15, dd |-> 5, turnover |-> 20,
         capacity |-> 0, halflife |-> 1000, signals |-> 1200]

MCEvaluations ==
  {Good, [Good EXCEPT !.dd = 20, !.signals = 600],
   [Good EXCEPT !.sharpe = 90, !.hit = 50, !.halflife = 30],
   [Good EXCEPT !.ic = 1000, !.sharpe = 0, !.signals = 100]}

MCTiers == [TIER_1 |-> 1, TIER_4 |-> 3]

(* Allocation: every limit binds for some weights.                         *)
MCSignals == {-3, 0, 1}
MCLimits ==
  [max_position_weight |-> 400, min_position_weight |-> 20, max_sector_exposure |-> 500,
   max_strategy_exposure |-> 450, max_gross_exposure |-> 800, max_net_exposure |-> 300,
   max_leverage |-> 700]

(* The alphas and their ensemble, and the coefficients of the monitor.     *)
MCTargets == {{-1, 0, 1}, {0, 1}}
MCDepthZ == {-30, 0}
MCSpreadZ == {-20, 30}
MCMicropriceZ == {-40, 15}
MCCachedMetrics == {[ratio |-> 5, dd |-> 4]}
MCIcs == {-30, -5, 3, 60}
MCCritical == -1

(* Loading: every file of up to two rows, and files of four rows with      *)
(* regular, repeated and descending timestamps.                            *)
MCFiles ==
  UNION {[1..n -> [time : {1, 2, 4}, price : {0, 7, 10001, 10002, 10003}]] : n \in 0..2}
  \cup {[i \in 1..4 |-> [time |-> t[i], price |-> p[i]]] :
          t \in {<<1, 2, 3, 5>>, <<1, 2, 2, 6>>, <<4, 3, 1, 2>>}, p \in [1..4 -> {0, 7, 10001}]}

----------------------------------------------------------------------------
Off == "off"

MCInit ==
  /\ part \in {"strategies", "walk", "regime", "causal", "lab", "ops", "deploy", "alphas",
               "alloc", "monitor", "load"}
  /\ Init /\ (part # "strategies" => kind = "sma" /\ exit_z = 40)
  /\ RegimeInit /\ RowsInit /\ LabInit /\ MonitorInit /\ DeployInit /\ AllocInit
  /\ WalkInit /\ (part # "walk" => engine = CHOOSE e \in Engines : ValidSpace(e.space))
  /\ AlphasInit /\ (part # "alphas" => method = "INVERSE_VOLATILITY")
  /\ IF part = "ops" THEN Ops!Init
     ELSE /\ state = Off /\ tasks = Off /\ is_running = Off /\ gathering = Off /\ starts = Off
          /\ orders = Off /\ rejected = Off /\ db = Off
  /\ LoadInit /\ (part # "load" => csv_file = <<>>)

Trading ==
  /\ part = "strategies" /\ Next
  /\ UNCHANGED <<part, walkVars, regimeVars, missing, labVars, opsVars, deployVars,
               alphasVars, allocVars, monitorVars, loadVars>>

Walking ==
  /\ part = "walk" /\ WalkNext
  /\ UNCHANGED <<part, vars, regimeVars, missing, labVars, opsVars, deployVars,
               alphasVars, allocVars, monitorVars, loadVars>>

Labelling ==
  /\ part = "regime" /\ RegimeNext
  /\ UNCHANGED <<part, vars, walkVars, missing, labVars, opsVars, deployVars,
               alphasVars, allocVars, monitorVars, loadVars>>

Computing ==
  /\ part = "causal" /\ NewRow
  /\ UNCHANGED <<part, vars, walkVars, regimeVars, labVars, opsVars, deployVars,
               alphasVars, allocVars, monitorVars, loadVars>>

Researching ==
  /\ part = "lab" /\ LabNext
  /\ UNCHANGED <<part, vars, walkVars, regimeVars, missing, opsVars, deployVars,
               alphasVars, allocVars, monitorVars, loadVars>>

Operating ==
  /\ part = "ops" /\ Ops!Next
  /\ UNCHANGED <<part, vars, walkVars, regimeVars, missing, labVars, deployVars,
               alphasVars, allocVars, monitorVars, loadVars>>

Deploying ==
  /\ part = "deploy" /\ DeployNext
  /\ UNCHANGED <<part, vars, walkVars, regimeVars, missing, labVars, opsVars,
               alphasVars, allocVars, monitorVars, loadVars>>

Blending ==
  /\ part = "alphas" /\ AlphasNext
  /\ UNCHANGED <<part, vars, walkVars, regimeVars, missing, labVars, opsVars,
               deployVars, allocVars, monitorVars, loadVars>>

Allocating ==
  /\ part = "alloc" /\ AllocNext
  /\ UNCHANGED <<part, vars, walkVars, regimeVars, missing, labVars, opsVars,
               deployVars, alphasVars, monitorVars, loadVars>>

Monitoring ==
  /\ part = "monitor" /\ MonitorNext
  /\ UNCHANGED <<part, vars, walkVars, regimeVars, missing, labVars, opsVars,
               deployVars, alphasVars, allocVars, loadVars>>

Loads ==
  /\ part = "load" /\ LoadNext
  /\ UNCHANGED <<part, vars, walkVars, regimeVars, missing, labVars, opsVars,
               deployVars, alphasVars, allocVars, monitorVars>>

MCNext == \/ Trading \/ Walking \/ Labelling \/ Computing \/ Researching \/ Operating
          \/ Deploying \/ Blending \/ Allocating \/ Monitoring \/ Loads

MCVars == <<part, vars, walkVars, regimeVars, missing, labVars, opsVars, deployVars, alphasVars,
            allocVars, monitorVars, loadVars>>

(* Only the scheduler's event loop is fair: it resumes a task whose sleep  *)
(* is over and cancels one that waits.                                     *)
MCFairness ==
  \A w \in {"save", "report"} : WF_opsVars(part = "ops" /\ Ops!TaskStep(w))

MCSpec == MCInit /\ [][MCNext]_MCVars /\ MCFairness

----------------------------------------------------------------------------
(* Scheduler: once stopped, every task ends, unless it is started again.   *)
TasksStop == part = "ops" /\ ~is_running ~>
               part = "ops" /\ (is_running \/ \A w \in {"save", "report"} : state[w] \in Ops!Idle)
=============================================================================
