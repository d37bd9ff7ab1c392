# A verification project for AQC

AQC (Alpha Quant Core) is a Python research and trading platform: an
event-driven backtester, a live paper-trading engine, and a large body of
research, validation and deployment tooling around them. This directory holds
TLA+ models of it, TLC configurations that check them on small
instances, and TLAPS proofs of the results that matter most. Paths below are
relative to the repository.

Run `tlc -config X.cfg M` on the modules named under [Runs](#runs), and
`tlapm M.tla` on `SumTheorems` and the modules whose names end in `_proofs`.

## Inventory

The event-driven core (queue, engine, portfolio, risk, live engine) keeps shared
state and has interleavings. Around it stand parts that are called from one
thread and hand each other finished results: strategies, studies, registries,
monitors, reports. Their hazards are long sequences of legal calls, thresholds,
missing values, and two pieces of code that reckon the same thing in two ways.
PROJECT.json lists every part with its files.

| Component (`aqc/`) | State it keeps | Operations | What makes it correct | Modelled by |
|---|---|---|---|---|
| `backtester/event_queue.py` | inner `queue.Queue`, two counters, a lock | put, get, put_priority, flush, stats | no event lost or doubled; counters agree with the queue; FIFO | `FifoQueue`, `EventQueue` |
| `backtester/portfolio.py` | positions, cash, commission, equity curve, trade log | three event handlers, summary | cash, cost, PnL, commission, log and curve account for each other | `Position`, `PositionLedger`, `Backtest`, `Trades`, `Performance` |
| `risk/risk_manager.py` | daily baseline and date | validate_order | a limit that is checked is a limit that holds | `RiskManager` (without the change of day) |
| `backtester/engine.py`, `execution.py`, `broker.py` | bar index, execution cache | run, _process_bar, _drain_queue, on_order_event, fills | every event of a bar is handled in it, in causal order; trading is never free | `Backtest`, `Execution` |
| `strategies/` (base, sample, intraday) | bar buffer, belief, entry price, bars held | generate_signals | the engines get only signals that fit the belief; stops and time exits hold | `SignalContract`, `Strategies` |
| `strategies/` (order book, liquidity, microprice), `ensemble/` | fitted targets, cached metrics, weights | fit, evaluate, generate_signal, blend | what is evaluated is what is traded; a blend is no further out than its parts | `Alphas` |
| `live/live_engine.py`, feeds | event queue, tasks, running and connected flags | start, stop, stream_bars, 4 handlers | no fill lost or doubled by stop or restart; all tasks end after a stop | `LiveTrading` |
| `live/` paper broker, order manager, fill simulator, router | orders by id, states, filled quantities | submit, sweep, fill, reject, route | filled never exceeds ordered; terminal states stay | `OrderManager`, `LiveTrading`, `Execution` |
| `live/` scheduler, persistence, health monitor | tasks, flag, sqlite tables | schedule, start, stop, save_snapshots | tasks end after a stop | `LiveOps` |
| `research/hypothesis_lab/`, `automation/`, `alpha_decay/` | registry and its file, experiment queue | register, update, run_next, run_all, retire | file and memory agree; no hypothesis stuck in TESTING | `Hypotheses` |
| `research/walk_forward.py`, `optimizer.py`, `parameter_space.py`, `validation.py` | folds, evaluations | run, optimise, reports | training precedes testing; the best is chosen; the measures of overfitting agree | `WalkForward`, `FoldReports` |
| `deployment/`, `live_capital/`, `research/tournament`, `scorecard` | metrics, deployed list, tiers, kill switches | evaluate, rank, deploy, allocate, kill | capital is never over-allocated; the dominated rank lower | `Deployment` |
| `live_validation/` | profiles, health history, governance state | validate, register, advise | worse metrics are never healthier | `LiveValidation` |
| `alpha/` | class registry, created alphas, CUSUM sums, ranker entries | register, create, fit, update, report | what is listed can be built; a decline is noticed; metrics agree | `AlphaRegistry`, `AlphaEvaluation`, `AlphaMonitor` |
| `regimes/`, `volatility/` | histories, last fits | detect, forecast, full series | one bar at a time labels as the whole series does | `Regimes`, `Causality` |
| `indicators/`, features | — | series | no value depends on a later row; what a bounded buffer can and cannot change | `Series`, `Causality` |
| `portfolio/`, position sizing | weights | the chain of limits, sizing | every limit holds at the end of the chain | `Allocation` |
| `data/` | — | load, clean | ascending index, usable prices, none from the future | `Loading` |
| `diagnostics/`, `analytics/`, regime transitions | — | reports on a finished run | separate scans of the same rows agree | `Trades`, `Performance`, `Diagnosis` |
| `orderbook/`, `microstructure/`, imbalance features | — | parse, features, trade signs | buyers and sellers are read alike | `Orderbook` |
| `execution/` | — | impact, slippage, planning | larger orders do not look cheaper | `Execution` |

### How the parts interact

`main.py` builds the engine: data per symbol, a strategy, a portfolio with a
risk manager, a broker. `BacktestEngine._run_loop` goes through the common
index. For each bar, `_process_bar` builds a `MarketEvent` per instrument that
has a row there, and hands it straight to the execution cache, the portfolio
(mark to market) and the strategy, whose `generate_signals` may put a
`SignalEvent` on the queue. Then `_drain_queue` takes events off until `get`
answers None or `max_iterations` rounds have been made, and routes each:
a signal to the portfolio, which asks the risk manager and may put an
`OrderEvent`; an order to the execution engine, which has the broker fill it at
the cached close and puts a `FillEvent`; a fill back to the portfolio, which
books it. Shared state is the queue and the portfolio (read by the risk
manager). Strategies are never told of fills or rejections.

Paper trading has the same events on the same queue class, and no engine loop
over bars: `start` streams the feed in the task that awaits it and creates a
second task, `_process_events`, that drains the queue. A market event goes to the
portfolio, the strategy and the paper broker, which sweeps every open order; a
signal to the router, which makes an order of 100 units without asking a risk
manager; an order to the broker, which registers it and sweeps; a fill to the
portfolio. The two tasks, and any task that calls `stop`, share the engine's
`is_running`, the feed's `is_connected` and the queue, and change places only
where they sleep.

The other parts pass finished results: a walk-forward study runs backtests fold by
fold and keeps their metrics; an alpha is registered, built and fitted, evaluated,
ranked, deployed with capital, watched by monitors and a kill switch; the diagnostics
read the log and the curve of a finished run. Nothing in these chains runs
concurrently with anything else, except the tasks of `LiveScheduler`, which
share the paper-trading engine's event loop.

### What is hard about it

- **Interleavings.** `EventQueue` is documented as thread-safe, but its lock
  covers only parts of its methods.
- **Check-then-act over the queue.** The risk manager reads the portfolio when a
  signal is handled, and the portfolio changes only when the fill comes back,
  after every other signal of the bar.
- **Two views of a position.** The strategy's belief is set on emission, the
  portfolio's on the fill; rejections, zero sizes and exits of shorts separate
  them.
- **Book-keeping over long sequences.** Opening, adding, reducing, closing and
  reversing take different paths through `apply_fill`; log, curve and analyser
  each tell the story again.
- **Tasks and sweeps.** `stop` takes effect only when the sleeping tasks wake, and
  `start` may come before that, in the engine and in the scheduler; an open
  order is swept at every bar and every order of any instrument.
- **Crashes.** The hypothesis file is emptied before it is written; the save task's
  tables are written one after another.
- **State that depends on who asked.** Regime engines and CUSUM monitors change with
  every question.
- **Edges.** Missing rows, divisions by nothing, thresholds met exactly, limits applied
  one after another.

PROJECT.json lists each hazard at its line, with the properties that would
catch it or a note on what is missing.

## Modules

| Module | Models | Uses |
|---|---|---|
| `FifoQueue` | what `event_queue.py`'s docstrings promise, each call one step | — |
| `EventQueue` | the queue's methods at the granularity of their atomic steps | `FifoQueue` (refinement) |
| `Position` | the `Position` class: `apply_fill`, `mark_to_market`, derived values | — |
| `PositionLedger` | one position and its cash under any bars and fills | `Position` |
| `Trades` | the trade log, its reconstruction into round trips and their attribution | `PositionLedger` |
| `Performance` | the equity curve, the summary and the metrics of a run | `Trades` |
| `RiskManager` | the five checks of `validate_order` | — |
| `Backtest` | engine, execution, broker, portfolio and strategy composed | `Position`, `RiskManager` |
| `Execution` | the brokers' cost models and the estimates made beforehand | `Position` (sides) |
| `SignalContract` | what the engines rely on a strategy for | — |
| `Strategies` | the seven bar strategies | `SignalContract` (refinement) |
| `OrderManager` | the life of an order: fills, rejections, the sweep | — |
| `LiveTrading` | live engine, feed, router, broker, portfolio and strategy composed | `OrderManager` |
| `LiveOps` | scheduler, save task and its tables, health monitor | — |
| `Hypotheses` | the research lab with crashes and restarts | — |
| `WalkForward`, `FoldReports` | a walk-forward study, and what is reported of it | — |
| `Regimes` | the regime and forecast engines and the order they are asked in | — |
| `Series`, `Causality` | pandas operations by the rows they depend on; every indicator and feature in their terms | `Selections` |
| `AlphaRegistry` | registry and factory | `Selections` |
| `AlphaEvaluation` | metrics, frontier and decay | `Selections` |
| `AlphaMonitor` | the CUSUM monitor | — |
| `Alphas` | the order-book alphas and their ensemble | — |
| `Deployment` | tournament, ranking, deployment, capital, kill switch, guard | — |
| `LiveValidation` | profiles, analysers, health, governance, advice | — |
| `Allocation` | the allocator's chain of limits, sizing, targeted orders | — |
| `Capital` | what capital is given to: the two before, side by side | `Deployment`, `Allocation` |
| `Selections` | the elements of a sequence at some of its places, as masks, filters and `dropna` leave them; sorting by a key | — |
| `Loading` | a CSV file on its way to a frame | `Selections` |
| `Diagnosis` | exposures, leverage, risk budget, drawdowns, regimes, tail risk | `Selections` |
| `Orderbook` | book parsing, queue places, features, trade signs | `Selections` |
| `SumTheorems` | lemmas about sums, greatest elements, induction over finite sets, folds over sequences, selections from them and sorting | `Selections` |
| `Position_proofs`, `Accounts_proofs`, `EventQueue_proofs`, `Backtest_proofs`, `LiveTrading_proofs`, `Strategies_proofs` | the theorems, see [Proofs](#proofs) | the module they are named after, `SumTheorems`; `Accounts_proofs`: `Trades`, `Performance`, `LiveValidation`, `Execution`, `AlphaRegistry`, `AlphaEvaluation`, `FoldReports`, `Diagnosis`; `Strategies_proofs`: `Orderbook` |
| `Components_proofs` | the theorems about studies, the lab, deployments, the allocation, the monitor, the regimes, the alphas, indicators, features and loading | `WalkForward`, `Hypotheses`, `Capital`, `AlphaMonitor`, `Regimes`, `Alphas`, `Causality`, `Loading`, `SumTheorems` |
| `MCBacktest`, `MCLiveTrading`, `MCExecution`, `MCWalkForward` | constants for TLC | — |
| `MCComponents`, `MCAccounts` | the parts without shared state, in one run | the modules above, extended or instantiated |

### EventQueue

`queue` is the inner `queue.Queue`, a sequence; each of its operations is atomic
in CPython. `pc[t]` says where thread `t` stands inside a call. The lock is a
variable only for `put_priority`, whose `with` block spans several steps; the
`with` blocks of `put` and `get` hold a single counter update and are one step
that needs `lock = NoThread`. The actions, by method:

- `put`: `PutCount` (counts, under the lock), `PutInsert` (after releasing it).
- `put_priority`: `PriorityLock`, `PriorityDrain` (one `get_nowait` into the
  local buffer), `PriorityDrained` (finds it empty), `PriorityInsert` (the
  control event), `PriorityRequeue` (one event back), `PriorityUnlock` (counts
  and releases).
- `get`: `GetWait` (a blocking call begins to wait), `GetTake`, `GetCount`
  (under the lock), `GetNone` (empty, or the timeout expired).
- `flush`: `FlushTake`, `FlushDone`.

`taken`, `dropped` and `overtaken` are history variables. `empty`, `qsize` and
`stats` only read and have no action; `DepthNotNegative` is about what `stats`
reports. The queue has no maximum size in the repository, so `put` never blocks.

### Position and PositionLedger

A `Position` record holds `quantity`, `cost` (`avg_cost * quantity`, kept as a
product so that an addition needs no division), `realised` and `last`. The
branches of `ApplyFill` are those of `apply_fill`: same side or flat adds;
otherwise the closed part is realised and what is left, if anything, is restated
at the fill price. `IsFlat` is `is_flat`; the code compares floats with a
tolerance of 1e-9, the model whole units with zero. `PositionLedger` adds
`cash` and `_total_commission` as `on_fill_event` keeps them. `kept` is a
history variable: every fill so far either did not reduce the position in part,
or did so at its average cost (`KeepsBooks`).

### RiskManager and Backtest

`RiskManager` states each check as a condition on the figures it reads;
`Approved` in `Backtest` feeds it the portfolio's. `next` is the position of the
`for` loop of `_process_bar`; past the end the bar is draining, and `iteration`
counts the rounds. The actions are `SkipSymbol` (no row for this bar),
`FeedSymbol` (cache, mark, strategy), `OnSignal`, `OnOrder`, `OnFill` (one round
of `_drain_queue` each, the routing of the engine and the whole handler),
and `EndBar`. The queue is a sequence here, since the backtest is one thread.

Each event record also carries the bar it stems from, which only the properties
read. `opened` is a history variable: the open positions as the bar began.
`Signals(b)` gives what a strategy that believes `b` may emit. Indicators decide
which of these a bar brings, and any of them may; so the model has every
behaviour of the sample and intraday strategies and more (`Strategies`, below, shows
it).

### OrderManager and LiveTrading

An order is a record of its instrument, side, filled quantity and state.
`Touched` is the set of orders a sweep of `_process_open_orders` comes upon,
`Swept` what it leaves of them, and `Fills` the fill events it puts on the queue,
in the order of registration. A random rejection is a free choice of a set
of touched orders. `caps` holds, for each instrument whose bar the broker has, the
tenth of its volume that one fill may be.

A session is a call of `start`. `feed[k]` and `loop[k]` say where session `k`'s
two tasks stand, and `running` is `is_running` and the feed's `is_connected`,
which change together. Tasks switch only where they sleep, so `turn` names the
`_process_events` that is draining the queue, if any, and every action of another
task needs `turn = 0`. The actions:

- `Start` (connect, create the event task, stream the first instant), `Stop`
  (another task's call), `FeedInstant` (the feed wakes and streams the next
  instant), `FeedEnds` (it wakes and has been disconnected, or has nothing left;
  `start` then calls `stop`), `FeedCancelled` (the task awaiting `start` is
  cancelled in its sleep);
- `Wake` (the event task wakes: on with its loop, or out of it), `Cancelled` (it is
  told of its cancellation), `Sleep` (the queue is empty);
- `OnMarket`, `OnMarketRaises` (the strategy raises; the broker does not see the
  bar), `OnSignal`, `OnOrder`, `OnFill`: one round of `_process_events` each, the
  whole handler with the sweep it makes.

`stopped` is a history variable. The queue outlives a session, as in the code: what
a stop leaves on it is handled by the next session.

### SignalContract and Strategies

`SignalContract` is the interface `Backtest` and `LiveTrading` are written against:
one signal a bar at most, in a direction that fits what the strategy believes, and a
belief that only its own signals change. `Strategies` is `on_market_event` of the
three sample and the four intraday strategies: the buffer and its warm-up
(`Lookback`, `MinBars`), then `Generate`. Z-scores and moving averages are computed
from the closes in integers; readings of the high, low, volume or whole buffer are
any of a few values on either side of their thresholds. `age` is a history
variable: how long the position has really lasted, beside `held`, what the
strategy counted.

### Trades, Performance and Execution

`Trades` extends the ledger with the log; `Reconstructed` is `TradeAnalyzer`'s pairing
of its rows. `Performance` adds the snapshots (after the mark, before the bar's
fills, as the engine takes them), the frame, the metrics and the summary. `whole`,
`kept` and `settled` are history variables that name the histories for which the
accounts are meant to agree. `Execution` has bars, orders of a broker with any of the
cost models, and the estimates of `aqc/execution/`; a backtest fills market orders on a bar it has,
paper trading an order of any type; `drift` is what the moves of the
close earned.

### LiveOps and Hypotheses

A task of the scheduler is `none`, `pending` (registered before the start), `ready`,
`calling`, `sleeping`, `cancelled` or `done`. `StopBegins` cancels what is listed and
waits, `StopReturns` strikes off the list what is on it by then. The save task may
raise, or the process end, after any of its five writes (`WrittenUpTo`). In
`Hypotheses` a save is two steps, emptying the file and writing it; `Crash` may come
between any two, `Restart` loads what the file holds; the write may also raise (`SaveRaises`), which is
logged, and the program goes on with a broken file. Two history variables: `cut`, the hypotheses whose
experiment a crash ended, and `unsaved`, whether the last save was given up.

### WalkForward and FoldReports

`StartFold` cuts the next fold by bars or days, rolling or expanding; `Evaluate` runs
one parameter set of the grid or sample on the training bars, `Choose` picks,
`Retrain` and `Test` run the chosen one, and any of them may raise, before or after the
printing was silenced for it. What a backtest
returns is a free choice among metrics, none finite, or an exception. `FoldReports`
takes any folds and gives the joined curve, the aggregates, stabilities, correlation
and overfitting score. Equity is given by its logarithm, so that a curve is rescaled by adding.

### Regimes, Series and Causality

`Regimes` asks an engine about each bar (`Detect`, `Forecast`), with calls for the
whole series in between; a label is the rank of a reading in the history the
detector keeps. Every fit may raise: that of the HMM leaves `detect` without an answer
(`DetectRaises`), that of the GARCH model is caught, answered once by the historical volatility, and
its last result stays. The history variable `raised` is the bar of the last refit that did. In
`Series` a value of a column is the set of rows it was computed from, so that two series are compared by what they depend on; `Causality` writes each
indicator and feature in these operations, with any rows missing.

### Alphas, AlphaRegistry, AlphaEvaluation, AlphaMonitor

`Alphas` fits and evaluates the imbalance, liquidity and microprice alphas and has
them and the ensemble emit signals (`Fit`, `Emit`). `AlphaRegistry` registers,
unregisters and clears, and builds by name, by category or all, with classes whose
constructor or fit raises. `AlphaEvaluation` has metrics from any predictions, the
Pareto frontier of any entries and the half-life of any coefficients by lag, which are
given by their logarithms (half of a coefficient is one less) or are not a number.
`AlphaMonitor` has observations, and reports at any moment, which move the two sums.

### Deployment, LiveValidation, Allocation

`Deployment` evaluates, ranks, deploys, routes to a tier, records PnL, checks the guard
and kills, in any order; allocations are functions of the deployed list. In
`LiveValidation` a report of a model's live metrics goes through the five analysers,
the health engine, the alerts, governance and the retraining advice, over a history.
`Allocation` takes any raw weights through the seven limits in the code's order,
and has the sizer's three methods, for one position and for a portfolio, and the targeted order. What
a method holds to differs: `SizesCapped` and `PortfolioSizesCapped` say it for each.

### Loading, Diagnosis, Orderbook

`Loading` follows one file through the loader's and the cleaner's steps, each with
its option (`load_step` says how far it is: `file`, `loaded`, `cleaned`, or `raised`, when no
row is left to load, or duplicates stand in the way of the grid). Sorting is written with
`Ordered`, the place that comes k-th in a stable order by a key, and what a mask keeps with
`Select`. `Diagnosis` adds any rows to a run, one by one, and gives what the code reads off those
there are; each row is looked at twice for transitions (`Looks`), once per kind of regime, and the
loop over the curve is a fold (`Scan`). `ByRegime` says whether the part raises, as it does when no
regime came twice. `Orderbook` takes any
snapshots: a row of each side's levels, best first and not crossed, with the trades and events of
its instant. `tape` keeps the prices of all trades so far, for the tick rule; everything else is
read off one snapshot. Mirroring a book swaps its sides and reflects its prices.

Definitions named as a slip (`GetTakeNewest`, `OnOrderPeeks`, ...) are not part of any
specification. Each is a plausible bug, put in place of the right definition to see
that a property notices.

## Runs

| Run | Module, config | Properties | What it shows |
|---|---|---|---|
| `queue_all` | `EventQueue`, `EventQueue_all.cfg` | `CountersBalance`, `DepthNotNegative`, `ExactlyOnce`, `PriorityOvertakesBuffered`, `RefinesFifo`, `EventuallyTaken` | All four methods interleaved under fair threads; until `put_priority` is called the queue implements the atomic FIFO queue of its docstring. |
| `backtest_queue` | `MCBacktest`, `Backtest_queue.cfg` | `DrainedEachBar`, `CausalOrder`, `FullBookAdmitsNone` | The bar protocol, with every kind of signal and binding limits. |
| `backtest_book` | `MCBacktest`, `Backtest_book.cfg` | `AccountBalances`, `BeliefIsBook`, `Drains` | The account of a long-only strategy that is never rejected, and the end of every drain loop. |
| `live_orders` | `MCLiveTrading`, `LiveTrading_orders.cfg` | `FilledAsOrdered`, `PositionIsFills`, `OneEventLoop`, `TerminalStays`, `DrainEnds`, `TasksEnd` | Paper trading with stops, restarts, cancellation, raising strategies, partial fills and rejections. |
| `components` | `MCComponents`, `MCComponents_all.cfg` | `ContractKept`, `ExitsHonoured`, `StudyIsSound`, `OnlineIsBatch`, `NoRepaint`, `ServedFromBuffer`, `TestingIsRunning`, `TasksStop`, `ScoredAsTraded`, `CapsHold`, `DegradationNoticed`, `FrameIsSound` | Strategies, studies, regimes, indicators, the lab, the scheduler, alphas, deployment, allocation, the alpha monitor and loading, each over all its histories. |
| `accounts` | `MCAccounts`, `MCAccounts_all.cfg` | `BooksAgree`, `TradesAddUp`, `ReportsAgree`, `ExecutionSound`, `WorseIsNoHealthier`, `StudySound`, `FactoryIsSound`, `EvaluationIsSound`, `DiagnosisSound`, `BookIsReadAlike` | What is reckoned from fills, folds, metrics, predictions, a finished run and an order book: two ways the code reckons one thing do not contradict each other. |
| `ledger_gain` | `PositionLedger`, `PositionLedger_gain.cfg` | `TotalPnlIsGain` (violated) | Finding 1. |
| `backtest_maxopen` | `MCBacktest`, `Backtest_maxopen.cfg` | `MaxOpenRespected` (violated) | Finding 2. |
| `backtest_exit` | `MCBacktest`, `Backtest_exit.cfg` | `FlatAfterExit` (violated) | Finding 3. |
| `live_restart` | `MCLiveTrading`, `LiveTrading_restart.cfg` | `StoppedFeedSilent` (violated) | Finding 4. |
| `walk_drawdown` | `MCWalkForward`, `WalkForward_drawdown.cfg` | `MildestDrawdownChosen` (violated) | Finding 5. |
| `paper_fill` | `MCExecution`, `Execution_paper.cfg` | `FreeModelsFillAtClose` (violated) | Finding 6. |

### Why many parts share a run

The parts in `components` and `accounts` share no variable and never run at the same
time, so their product would only multiply states. The first state chooses `part`,
and only that part takes steps; the variables of the others keep their initial values,
or stand at `Off` where a part has many. Some modules are extended, so that the
run checks the very properties the theorems are about: from `components` these are
`Strategies`, `WalkForward`, `Regimes`, `Causality`, `Hypotheses`, `Alphas`,
`AlphaMonitor`, `Capital` (with `Deployment` and `Allocation`) and `Loading`, from `accounts`
`Performance` (with `Trades` and `PositionLedger`), `Execution`, `LiveValidation`, `AlphaRegistry`,
`AlphaEvaluation`, `FoldReports`, `Diagnosis` and `Orderbook`.
Their specifications are named apart (`LabInit`, `LabNext`, `LabSpec`, `labVars`, and
so on). Only `LiveOps` is an instance with constants of its own; the run's property
restates its own for the behaviours that are about the part.

### Bounds, and why they are enough

- **Queue.** One producer, one controller, two consumers, one flusher, two calls
  each (`MaxCalls = 2`). Two events of one producer are the least that can be out of
  order, two consumers the least that can take out of turn, and a second
  `put_priority` can meet the leftovers of the first. Every safety property of the run
  is also proved for any number of threads and calls.
- **Ledger and trades.** Three prices, quantities 1 and 2, four fills: enough to open,
  add at another price, reduce, close, reverse and reopen. 60, 120 and 180 are
  divisible by every size a position can have when it is reduced (up to 6), so
  every average cost is whole. `Performance`: two prices, three fills, three bars, the
  fewest for which the metrics are computed.
- **Backtest.** Two instruments, two prices, three bars with every kind of
  signal and four with long-only ones. Two instruments are what it takes for
  orders of one bar to meet; three bars are enter, exit, and once more.
  Money is in twelfths of a dollar (`OneDollar = 12`). `MaxIterations = 6` is
  exactly three rounds per instrument, the room `DrainedEachBar` needs: with
  one round less it fails. The code's 10 000 has that room for up to 3 333
  instruments. Slippage of 1000 bps makes buying and selling prices differ from
  every close. In `backtest_queue` an instrument's second order exceeds
  `max_position_pct_equity`, losses reach the daily limit, and one position
  fills the book.
- **Live.** Two sessions, since what can go wrong with `start` and `stop` needs a
  session and its successor; a third adds no new pair. Two instants, one bar of each
  of two instruments, so each session sleeps between them. Orders of 3
  units meet caps of 2 and 3: a partial fill then the rest, or a fill at once. The
  bound on sessions is also the bound on the queue and the orders.

- **Strategies.** Three closes, windows of 4, a holding limit of 3 and a stop of 2
  percent: a close can reach the stop, a window can go flat, and all exits can fall
  due in one bar. The buffer is counted only to its warm-up, so histories have any length.
- **Walk-forward.** Two instruments with bars on days 1, 2, 6 and 1, 4, 6; periods of one
  bar and one day (which may hold no bar, or two); spaces of each parameter kind and
  one that is refused; metrics of two values, none or an exception.
- **Regimes.** Five bars of three readings; histories of 3, refits every 2, so that a
  history overflows and every model is refitted with questions in between; a refit that raises at
  the fourth bar leaves the model of the second to answer at the fifth. One slope and one ADX on
  either side of their thresholds.
- **Causality.** Period 3 and every pattern of missing values in up to seven rows:
  the longest chain, the volatility of volatility, has its first value in the seventh. Buffers of
  every length from the least the code keeps.
- **Lab, scheduler.** Two hypotheses, a queue of two, two crashes; two tasks, two starts,
  one order. A stop that overlaps a start needs just these.
- **Deployment.** Two alphas, four evaluations on either side of the thresholds, two
  deployments, which may be of one name. **Allocation.** Three instruments, volatilities and
  signals with a zero, quotes and volatilities for which each method of sizing passes the cap of the
  others, limits each of which binds for some weights. **Alphas.** Scores on either
  side of their thresholds. **Monitor.** Four reports of four coefficients: two bad ones
  make an alarm, which a good one before them
  cannot hide.
- **Loading.** Every file of up to two rows of any times and prices, and of four rows with
  regular, repeated and descending times.
- **Execution.** Two closes, quantities whose ratio to the volume lies around 1, 2, 5 and
  10 percent, eight brokers, two orders over two bars. **Live validation.** One model, two
  reports, which are compared with each other; each metric good, bad or missing.
  **Fold reports.** Three folds, since an empty one must have one on either side.
  **Registry.** Two names, two alphas, three classes: a sound one, one whose constructor
  raises and one whose fit does. **Evaluation.** Up to six rows (metrics start at five),
  three others, five lags, coefficients that may be missing. **Diagnosis.** Five bars, room for two
  drawdowns and the transitions between regimes. **Order book.** Two snapshots with sides of one to three
  levels, some without volume.

`CHECK_DEADLOCK FALSE` stands wherever a bound on the history ends the behaviour: the
backtest's last bar, the live sessions (nobody need start again), and the parts of
`components` and `accounts`. In the queue and the ledger some step is always possible.

### Fairness

`EventQueue`'s `Fairness` says that the operating system does not stop a thread
for ever inside a method, and that consumers keep asking, as a drain loop does.
Nobody need ever begin a `put`, `put_priority` or `flush`. `GetTake` and
`GetCount` are one weak-fairness condition, since a consumer is in one of them
at a time; `GetCount` waits for the lock, which is given up for good once the
controllers have made their `MaxCalls` calls. `Backtest`'s `FairSpec` is weak
fairness of `Next`: `run` is a loop in one thread that nothing suspends.

In `LiveTrading` the handlers are ordinary code that comes to an end, so they get
weak fairness. Each session's two tasks get strong fairness, because `turn`
disables them over and over: asyncio runs every task that is ready, and the sleeps
of the feed and of the event task come to an end. No fairness is assumed of
`Start`, `Stop` or `FeedCancelled`.

In `LiveOps` each task's own step (its turn, its cancellation, the return of its
function) is weakly fair: the asyncio loop resumes every task whose sleep is over, and
the functions return. `Start`, `StopBegins`, `SchedulePeriodic` and `Restart` are not.

## Proofs

All proofs are checked by TLAPS for every value of the constants, from the
assumptions named in the modules (`ThreadsAssumption`, `NoEventAssumption`,
`LedgerAssumption`, `BacktestAssumption`, `RiskAssumption`, `OrderAssumption`,
`LiveAssumption`, `StrategiesAssumption`, `RegistryAssumption`, `LoadingAssumption`,
`EvaluationAssumption`, `FoldsAssumption`, `BookAssumption`, `DiagnosisAssumption`), which
say what types the parameters have, that threads have one role each, that the keys of
a Python dict are distinct, that a snapshot's levels come best first and are not crossed, as
the feature engine takes them (`bid_px_1` is the best bid), and that the rows of a finished run
have no equity below 0 and no price or limit of 0: a percentage of a debt is none, and the
analysers divide by the others. The code checks neither; of a run that ended in debt nothing is
claimed. What a theorem needs beyond them stands in its own
`ASSUME`; the table at the end of this section lists every such hypothesis.

- **`SumTheorems`**: what `SumFunction` of the community modules returns, which adds in an
  order of `CHOOSE`'s making: adding, removing or changing an element, renaming, splitting,
  bounding, negating, and sums over sequences. The induction theorems of the library take an
  operator, which the provers cannot instantiate; `NatSetInduction` and
  `SubsetInduction` take the *set* of those that have the property, and are proved from
  the library's fact that a well-founded relation has minimal elements. That is enough for
  sums and for folds; `FoldExists` gives, for any operation, the sequence of the partial
  results of a `FoldLeft`, and `Chebyshev` that sums of products compare with products of sums.
  `SelectFacts` says of `Select` what a filter promises: each place that
  is kept comes up exactly once, and in order; `OrderedFacts` says of a sort that it is a
  permutation along which the keys ascend.

- **`EventQueue_proofs`**: `TypeCorrect`, `CountersCorrect`, `DepthCorrect`, `ImplementsFifo`,
  `EveryEventOnce`, `PriorityFirst`.
  `TypeOK` needs to know that a thread inside `put` has begun a call (`CallInv`)
  and that the lock is held just while its holder is inside the `with` block
  (`LockInv`). `DepthNotNegative` is not inductive: it follows from
  `CountersBalance`, for which everything that was counted out was either
  counted in or is the one priority event not counted yet (`Uncounted`); its
  taker cannot count it before the lock is released. Cardinalities of the sets of
  threads between two steps change by one with each step (`PuttingEnter` and the
  like). `ImplementsFifo` is the refinement of `FifoQueue`, one lemma (`FifoStep`): a step of
  `put` is an atomic put or a stutter, and so on; no lock is needed until `put_priority` is
  called. `ExactlyOnce` counts places; inductive is `PlacesInv`, which says the same of sets
  and positions: the queue, the buffer, what was taken and what was dropped hold no event
  twice or in common, and together just those inserted. `PriorityFirst` adds `OvertakenInv`:
  what the current call set aside is what is in the buffer until its event is inserted, and
  the buffer never holds that event itself.
- **`Position_proofs`, `Accounts_proofs`**: `FillKeepsBooks` is the algebra
  of `apply_fill` (every branch but the partial reduction conserves realised PnL
  less cost against cash), and `BooksCorrect` carries it over any history. The
  inductive invariant replaces `BooksAgree` by `CashAgrees`, which has the market
  value subtracted on both sides and so survives marking to market, and adds
  `FlatIsFree`: a flat position has no cost.
  `TradesCorrect` is about everything reckoned from the log. `Reconstructed` folds the
  analyser's loop over the whole log; `ReadEmpty` and `ReadAppend` unroll the fold, so that
  one more row is one more `Pair`. `TradesInv` then says, next to types, that the log's PnL is
  the ledger's, and that, as long as every exit closed all, the round trips read so far and the
  pending entry account for the position, its cost and the commissions (`Accounted`). That the
  attribution, the profit factor, the best and worst trade and the metrics' frame agree
  (`AttributionAddsUp`, `StatsAgree`, `FrameIsAll`) follows for any list of round trips.
  `ReportsCorrect` proves `ReportsAgree` of the run with its equity curve. `CurveInv` adds to
  `TradesInv` that the curve begins with the initial capital and, while no fill has come since
  its last row, ends with the equity; that the return is never below what the deepest
  drawdown took is a fact about any curve, and the rest follows from `BooksAgree`.
  `ValidationCorrect` proves `WorseIsNoHealthier`. Its invariant only says that each entry of
  a history is what the analysers make of some metrics; the work is in the arithmetic. Each
  of the five scores is a chain of divisions towards zero, absolute changes, clamps and
  penalties by threshold, and for each link there is a lemma that it keeps the order, which
  the next link needs as its premise.
  `ExecutionCorrect` proves both parts of `ExecutionSound`. `NothingForFree` is inductive
  once every fill is on the wrong side of the close (`WrongSide`): slippage, impact and
  participation are each added on that side, and one that takes at most half the price
  leaves a sale's price positive. `LargerCostsMore` needs no history but facts about roots: the
  integer root of any natural number exists (`RootExists`, by induction) and keeps order, and so
  do the products and quotients it is taken in.
  `RegistryCorrect` proves `FactoryIsSound`. `FactoryInv` says that the two dicts of the registry
  have the same keys and that whatever was built could be; that the categories share out the
  registered names is then a fact about selections from the list of names.
  `EvaluationCorrect` proves `EvaluationIsSound`. The variables only keep their types
  (`EvalInv`); what is claimed of them is arithmetic on any values they hold. No drawdown is
  deeper than all losses, since whatever is cumulated between a peak and a trough adds up to
  no less than its losses alone (`SumOfMore`); and since the curve begins with the first row,
  what that row lost is in no drawdown. Whoever dominates an entry by the greatest margin is on the frontier.
  And where ICs only fall, the rate is positive exactly if they fell at all: the slope is
  Chebyshev's inequality for sums of products (`Chebyshev`), which is strict as soon as two of the
  values differ (`SlopeFacts`).
  `StudyReportsCorrect` proves `StudySound`, of any folds at all. That the joined curve is one
  account is an induction over the folds joined so far (`JoinedWell`): besides what is claimed of
  the rows it says that `running` is the equity of the last of them, which the shift of the next
  curve relies on, and that no row stands beyond its fold's last bar, so that the next fold's come
  after it. Once the bars are known to ascend, dropping doubles and sorting leave the curve as it
  is (`CombinedIsConcatenated`). The sign of the covariance is Chebyshev's inequality again
  (`RisingTogether`, and for its converse `NeverTogether` the same with one side negated), and a
  mode is no rarer than its share since the folds inject into pairs of a value and a rank of at
  most the mode's count (`MostFrequent`).
  `DiagnosisCorrect` proves `DiagnosisSound`, of any rows a run has; each of its five parts is a
  lemma of its own. *Positions*: each analyser rounds at another place, once per symbol, once for
  longs and shorts, or once in all, and loses less than one each time (`SumOfFloors`); that few
  positions are concentrated is Chebyshev's inequality (`SquaresFacts`). *Drawdowns*: the scan is a
  fold, and after each row (`ScanStep`) its events together cover the rows under water so far, once
  each, and reach no further than the row; the deepest row of the curve is the trough of some
  event, and the report's order puts one of that depth first (`DeepestFirst`). *Regimes*: each
  column's transitions are the rows at which it changes, in order (`PathFacts`), nothing
  changes between two of them (`StaysBetween`), and up to any row a regime was entered and left
  equally often but for the first and the current one (`RegimesBalance`); sums over the rows are
  sums over the regimes of sums over theirs (`SumOfGroups`). *Tail*: a percentile is no less than
  the least (`PercentileFacts`) and a mean lies between two of its numbers (`MeanIsBetween`).
  *Score*: no violation, no penalty (`NoViolations`); penalties are bounded one by one
  (`PenaltiesGiven`), so that what keeps its marks for leverage and budget keeps 85 in all.
- **`Backtest_proofs`**: `TypeCorrect`, and, assuming `RoomToDrain`, `DrainCorrect`,
  `OrderOfEvents`, `OpeningBookJudges` and `FullBookIsClosed`. One inductive invariant `BInv`
  serves all four. Its heart is `Shape(m, n)`: the queue is `m` signals, then
  orders up to the `n`-th event, then fills, with no fill while a signal is left;
  and `iteration + Len(queue) + m + n <= 3 * (next - 1)`: a signal stands
  for three rounds, an order for two, a fill for one. At the end of the room this
  forces the queue to be empty. `BookInv` says the book is the opening one until
  the first fill, which the shape puts after the last signal; `AdmitInv` that a
  full book lets only orders for the instruments it already holds through.
  `AccountsCorrect` is the account over all instruments. `AccountBalances` equates sums of
  market values; inductive is `CashInv`, cash against the sum of realised PnL less cost, of
  which a fill changes one summand (`SumChange`) by what `FillKeepsBooks` says. It assumes that
  every fill about to be booked keeps its position's books (`FillsKeepBooks`), the condition
  finding 1 shows to be needed. `BeliefCorrect` and `FullSizeAccounts` are about long-only,
  full-size strategies that are never rejected. `Followed` says how far the book may be
  behind the belief: an instrument has one event on the queue at most, none before it is fed,
  and a purchase pends only for a flat position, a sale for a full one. So fills never
  reduce in part, and `FullSizeAccounts` needs no `FillsKeepBooks`: it derives it.

- **`LiveTrading_proofs`**: `TypeCorrect`, `OrdersCorrect`, `TerminalCorrect`,
  `OneLoopCorrect`, all from the inductive `LInv`: types, `FilledAsOrdered` and
  `LoopInv`. `FilledAsOrdered` is inductive once types are known, because an open
  order has something left (`FillFacts`); `Progress` says what one sweep may do to
  an order, and `TerminalStays` is `Progress` of every order at every step.
  `OneEventLoop` is not inductive: that a stop leaves no event task to go on needs
  `LoopInv`, only the task of the latest session can be asleep, and only while the
  engine runs. `PositionCorrect` proves `PositionIsFills`: what an
  instrument holds plus what is due to it on the queue is the sum over its orders. It is
  inductive (`Balanced`) once sums over the queue and the orders are taken apart: a sweep
  appends to the queue just what it adds to the orders it fills, whichever it fills.

- **`Strategies_proofs`**: `ContractCorrect`, `Spec => ContractKept`, that is `Contract!Spec`, for any prices,
  windows and thresholds. One lemma per way a bar can end (hold, exit, enter long, enter short)
  shows it is a step of the contract under the belief it needs; the strategies'
  branches supply that belief. The invariant is `Known`: the strategy is one of the
  seven and stays it. `ExitsCorrect` proves `ExitsHonoured` of the three whose exits can be
  promised. For the z-score strategy, which returns before its exits on a bar without a score,
  this rests on a fact about the score itself: `MovedInv`, the window still holds a move while
  a position is open. A window whose closes but the oldest agree has a score too small to enter
  by and small enough to exit by -- the case the thresholds' `Attainable` names -- so a
  position is left before its window goes flat.
  `BookCorrect` proves `BookIsReadAlike` of the order book, which the microstructure strategies
  trade on; of the variables it needs but their types. Mirroring
  commutes with what the features do to a side (filtering, taking the first levels), volumes
  stay and notionals change into `Reflection` times the volume less themselves (`MirrorFacts`,
  `VolumeFacts`), so that a quotient and its mirror image add up to the whole less at most one
  unit of rounding (`QuotientOpposed`): that is why deviations are opposite only up to one. The
  microprice is a mean weighed by the other side's volume and so leans away from it
  (`WeighedBetween`). The sets of levels ahead of an order grow with its price's distance from the
  best one (`AheadFacts`), in any book that `SortedFacts` says is sorted. The tick rule is a fold;
  by induction over the trades each sign is that of the last change (`TickRuleFacts`), and mirrored
  prices change the other way (`SignsAlike`).
- **`Components_proofs`**: `FoldsCorrect` proves `FoldsSeparate` of any study. `StudyInv` says each
  fold done is the one that fits at its place (`Fits`, `FoldBars`) and that a completed study
  stopped because the next one would not; that folds so placed are separate and gapless is
  arithmetic on bars or days, and that each row of a symbol is on one side follows from its
  being selected by date. `ChoiceCorrect` proves `NoneWasBetter`; `ChoiceInv` says
  that the fold under way took the `BestOf` its evaluations, and `ChoiceIsBest` that a CHOOSE
  over finitely many finite objectives finds a greatest. `GridCorrect` proves
  `WholeGridSearched`: `GridIsWhole` shows, by induction over the first parameters of a
  space, that each value added to each combination so far gives all combinations and as
  many as `grid_size` multiplies, the place of a combination in the grid being a number in
  mixed base; and `GridInv`, that what a fold has evaluated and what is still pending are
  together the grid in its order, so that nothing is skipped before it chooses.
  `StudyCorrect` joins the three into `StudyIsSound`.
  `LabCorrect` proves `TestingIsRunning`, which allows a file that differs from the registry only
  where it is broken, by a crash or a save that was given up, and says nothing of the file in the middle of a
  run; the inductive `LabInv` adds that a readable file's TESTING entries are excused too
  (`DiskInv`), since a restart loads them, and that nothing is current between
  experiments (`IdleInv`), so that the next one does not displace one that is running.
  `DeploymentCorrect` proves what `CapsHold` says of the deployments. Its invariant is just
  types and `GuardNeedsEvidence`; the work is in sums over a list that names an alpha more
  than once, of which each name is paid once (`SumDistinct`), and in the monotony of a
  score of eight terms.
  `AllocationCorrect` proves what `CapsHold` says of the allocation. Every step of the chain
  moves each weight towards zero and never past it (`Shrinks`), and sums of sizes of weights
  that shrink do not grow, so a later step never undoes what an earlier one limited; this
  carries the gross limits of any group of symbols, but not the net exposure, where smaller
  sizes can cancel less. The last step scales all weights alike and so keeps the net exposure
  too, up to the rounding of each weight to a whole number: `NetLimitHolds` allows two
  thousandths per symbol, since the weights are rounded twice. The code rounds to six decimals,
  so that what is allowed there is a thousandth of that.
  Of what is sized the theorem claims no more than the code keeps: `max_position_pct` for one
  position (five times that by inverse volatility) and for a portfolio by volatility targets; for a
  portfolio by inverse volatility only that all of it costs no more than the equity; by risk parity no
  cap of money at all, only an n-th of the target risk each.
  `CapitalCorrect` joins the two into `CapsHold`.
  `LoadingCorrect` proves `FrameIsSound` for any file. Rows are sorted because each place of the
  sorted frame is taken by just one row and places follow times (`OrderedFacts`); a
  selection keeps both the order and the source of each row; and the grid that gaps are filled
  on begins at a row, so that every time of it has a row at or before it to take the price
  from, and that row has its price from the past too (`Sourced`). `LoadInv` says which of these
  hold at which step; the outliers' step may remove any rows.
  `MonitorCorrect` proves `DegradationNoticed`: the CUSUM sum, which the code updates in place
  and cuts off at zero, is the greatest shortfall of any stretch of reports that ends with
  the last (`IsWorst`). One more report lengthens each stretch by one, or starts a new one.
  `RegimesCorrect` proves both parts of `OnlineIsBatch`, `LabelsAgree` and `ModelsFresh`. That labels agree needs the
  bounded histories to be the ends of what was read (`HistoryInv`), also after a call for the
  whole series refilled them; that models are fresh needs that no multiple of the
  refit interval passed since the fit, or since the last refit that raised (`FitInv`): only then
  does an older model still answer, and no longer than until the next refit is due.
  `AlphasCorrect` proves both parts of `ScoredAsTraded`, `DirectionsAgree` and `BlendIsConvex`. `AlphasInv` says that each
  signal is that of its alpha's last score and that the blend's parts are weights, not all of
  them zero; a weighted mean then lies between the least and the greatest, also when it is
  rounded towards zero (`RoundedMean`).
  `NoRepaintCorrect` proves `NoRepaint`. One relation, `Continues`, says that a column begins with
  another; a lemma for each operation of `Series` shows that it carries this from its input to
  its output, and the 27 indicators, volatilities and features are composed of
  them. Dropping rows moves those after them, so for `dropna` the lemma is about places: the
  `k`-th row kept stays the `k`-th when rows come (`NthStays`). `ServedCorrect` proves
  `ServedFromBuffer`. For features with a window a buffer of enough rows gives what the whole series
  gives, proved in the same way with the relation `EndsAs`: from its `a`-th row on, the
  column of a buffer is the end of the column of all rows. A window of `w` rows moves `a` by
  `w - 1`, a shift by its length, and the last row of each buffer is still behind `a`. The RSI, the EMAs
  and the VWAP's z-score are recursions or running sums (`Forgetful`): they weigh every row they are
  given, so that RSI mean reversion, the EMA strategy, VWAP reversion and the composite strategy
  decide on values that differ from those of the whole series by what came before the buffer. Of these the theorem claims
  that they use all rows of the buffer and none that the whole series would not.

| Hypothesis | Of | What it says, and why the code justifies it |
|---|---|---|
| `OneController` | `PriorityFirst` | One thread calls `put_priority`; with two it fails, since a consumer can take an overtaken event while the second call has the first one's event in its buffer. |
| `RoomToDrain` | the bar protocol | `MaxIterations >= 3 * Len(SymbolSeq)`: the code's 10 000 for up to 3 333 instruments. |
| `FullSizeLongOnly` | `BeliefCorrect`, `FullSizeAccounts` | Entries for the default quantity, no shorts: the sample strategies and the default portfolio. |
| `[]NoneRejected` | the same | No limit binds in the run. Strategies are not told of rejections, so belief and book part at the first. The constants of `backtest_book` satisfy it in every state. |
| `[]FillsKeepBooks` | `AccountsCorrect` | No partial reduction away from the average cost (finding 1); `FullSizeAccounts` shows a class of runs that satisfies it. |
| `StopPct > 0` | `ExitsCorrect` | A stop-loss of zero would be reached by the entry price itself; the defaults are 1.5 and 2 percent. |
| `CapitalIsPositive` | `ReportsCorrect` | The initial capital, which both reports divide by, is a positive number; the default is 100 000. |
| `DeploymentIsPosed` | `DeploymentCorrect`, `CapitalCorrect` | Finitely many alphas, evaluations that are numbers, without a capacity estimate: no evaluation sets one and the default is 0 (`alpha_base.py:169`). |
| `AllocationIsPosed` | `AllocationCorrect`, `CapitalCorrect` | Finitely many symbols; limits that are not negative, prices that are positive; and a forecast daily volatility of at most the whole price, above which the inverse of a volatility in thousandths would be rounded to 0. |
| `MetricsAreNumbers` | `ValidationCorrect` | Metrics, expected and reported, are integers in the model's units. |
| `ExecutionIsPosed` | `ExecutionCorrect` | Prices of at least 100 units (ten cents), sizes, volumes, spreads and rates that are not negative, and a slippage of at most 5 000 basis points; the defaults are 1 to 5. |
| `MonitorIsPosed` | `MonitorCorrect` | Coefficients and thresholds are numbers, and the threshold of the sum is not negative. |
| `RegimeIsPosed` | `RegimesCorrect` | Histories and refit intervals are not empty, and a model is refitted no sooner than there may be a forecast: the defaults are 60 and 30 bars. |
| `StudyIsPosed` | `FoldsCorrect`, `StudyCorrect` | Finitely many symbols and days, periods of at least one bar or day. |
| `Metrics \subseteq Int` | `ChoiceCorrect`, `StudyCorrect` | A finite objective is a number; one that is not finite counts as `NoValue`. |
| `SpacesArePosed` | `GridCorrect`, `StudyCorrect` | Spaces are lists of parameters whose bounds, steps and points are integers in the model's units and whose choices are lists. |
| `AlphasArePosed` | `AlphasCorrect` | Targets are finite sets of numbers, z-scores and metrics are numbers, drawdowns are not negative (`alpha_base.py:248` takes their size). |
| `PeriodIsPositive` | `NoRepaintCorrect` | Periods are at least 1; pandas refuses a window of a negative size. |
| `PeriodIsLong` | `ServedCorrect` | Periods are at least 2: a buffer of one row has no change from the row before. The alphas' lookback defaults to 20. |
| `None \notin Ids` | `LabCorrect` | The absence of a hypothesis is no id. |

`TypeOK` of the queue, the backtest and the live engine and `JudgedByOpeningBook` are
proved and not run, since the proofs hold for every instance.

Every invariant and action property of the passing runs is stated by a theorem. Only
model-checked are the liveness properties (`EventuallyTaken`, `Drains`, `DrainEnds`,
`TasksEnd`, `TasksStop`), which the prover does not do.

Proving corrected two properties that had held in the runs by their bounds only. The change of
the leverage may exceed the turnover by the rounding of each weight: it is less than the turnover
plus the number of symbols (`PositionsAgree`; with two symbols and the run's values the difference
never came up). And a limit of leverage below 100 percent can be exceeded by a run that is never
leveraged, which then has its marks taken off: `ScoreHasReasons` speaks of runs within both.

## Findings

1. `apply_fill` sets `avg_cost` to the fill price whenever the fill is on the
   other side and something is left (`portfolio.py:191`). That is right for
   a reversal, which the comment speaks of, and wrong for a partial close: the
   unrealised PnL of the units kept disappears from `total_pnl`, and is counted
   again, or never, when they are closed.
2. All signals of a bar are judged before any of its orders is filled
   (`JudgedByOpeningBook`), so two instruments bought in one bar can exceed
   `max_open_positions`.
3. Every EXIT sells (`portfolio.py:494`), so the exit of a short position doubles
   it.
4. `stop` ("Stop the live engine.", `live_engine.py:94`) cancels the event task but
   not the task that streams the feed, which looks at `is_connected` only when it
   wakes. If `start` is called before that, the stopped session streams on beside
   the new one, its bars out of order with the new one's, and when it comes to its
   end its `stop` stops the new session.
5. With `max_drawdown_pct` as the objective the optimizer negates a number that is
   already negative (`optimizer.py:256`, `metrics.py:216`), and picks the parameters
   that fall furthest.
6. The paper broker's fill simulator passes a volatility where `apply_slippage` takes a
   spread (`fill_simulator.py:82`, `slippage_model.py:54`): half of 0.02 is added to every
   price, also with models that charge nothing, and the volatility multiplier never
   sees a volatility.

Some promises of docstrings and guides are not what the code does. No run is needed to refute them,
since properties that hold state what is true instead, and proofs cover them:

- The overfitting score is documented to lie in [0, 1] (`validation.py:301`,
  `docs/walk_forward_guide.md:144`). It has no upper end: it is at least 1 where no fold earns anything
  in its test, and above 1 if all of them lose (`MeasuresAgree`).
- `n_signals` is the "Total number of signals generated" and the turnover a fraction of the bars
  (`alpha_base.py:157`, `:250`). The code counts changes of direction, none for an alpha that always
  predicts the same one, and a reversal twice in the turnover (`MetricsAgree`).
- The Pareto frontier is said to leave out only what is beaten "on *all* objectives"
  (`alpha_ranker.py:224`); it leaves out as well what is equal on one objective and worse on the other
  (`FrontierIsComplete`).
- The microprice is said to balance "towards the side with MORE volume" (`microprice.py:15`); it leans
  away from it (`MeasuresPointAlike`).
- `max_position_pct` is the "Max position as fraction of equity". It caps one position, five times as high by
  inverse volatility, and a portfolio sized by volatility targets; neither a portfolio by inverse
  volatility, of which one instrument may take all, nor one by risk parity, in which a calm
  instrument takes any multiple of the equity (`SizesCapped`, `PortfolioSizesCapped`).

Also met, without a run of their own; the properties name the case they leave out:

- `detect` names no trend below 60 rows, the series only below 30 (`trend_regime.py:105`, `:140`), so trend
  labels are not among those that agree. A GARCH refit that raises is caught and the old model
  answers on; the HMM's is not caught.
- The report by regime raises a `KeyError` when no regime came twice, and the parts after it are
  not made (`regime_analysis.py:70`). The expected shortfall takes the 0 of a value at risk that could
  not be had for a quantile (`portfolio_metrics.py:187`).
- A registry save that fails leaves its file truncated, and the program goes on
  (`hypothesis_registry.py:51`).
- `put_priority` puts back one event at a time while `put` inserts without the lock, so a
  newer event of the same thread can overtake an older one; and `get` answers None while
  the events are in its buffer. Outside the tests nobody calls `put_priority`.
- An instrument without a position is valued at 1.0 a unit by both value limits; orders
  of one bar are not counted in the gross exposure; the daily baseline follows the wall
  clock. A live EXIT always buys (`signal_router.py:83`).
- VWAP reversion looks at neither stop nor holding period on a bar without a z-score.
- A partial exit is paired as a full trade (`trade_analyzer.py:230`); `cagr` counts
  snapshots as bars, so several instruments stretch the period (`metrics.py:144`); the
  `exposure` metric never finds its column.
- `scheduler.stop` strikes off tasks that a `start` added while it waited. The orders table
  is replaced by what this process knows, the signals table appended to at each save.
- Instruments without a sector are never scaled to a sector limit (`allocation.py:300`).
- A NaN coefficient ranks as the best, and resets the CUSUM sums; an alpha that never
  predicted has the profit factor 999 of one that never lost.
- Missing prices are filled before the rows are sorted, so a file in descending order
  shows the next day's; the outlier threshold of 5.0 cannot be reached by 20 values
  (4.25 at most, `cleaner.py:12`).
- The order-flow alpha cannot be built (an abstract method is missing) and every signal of
  the regime-aware one raises; `extract` raises when it is given trades
  (`feature_engine.py:113`); `imb_top10` counts asks by the number of bids.
- The GARCH and HMM series are fitted to the whole sample, so they look ahead; they are not
  among the series `NoRepaint` is about.

## What is abstracted or left out

- Floats are whole numbers, in a unit each module's header names; divisions round down.
  `is_flat`'s tolerance of 1e-9 is equality with zero. Rounding errors of floating point
  are out of scope, and so are ratios to a standard deviation other than the z-score,
  of which at most the sign and the thresholds are kept.
- In `Backtest` and `LiveTrading` a strategy is any that keeps `SignalContract`. HOLD signals
  are not generated: no strategy emits one.
- The daily baseline is the initial capital, as `main.py` sets it, for the whole run; it
  would change if a run passed midnight. Equity curve and log are modelled for one
  instrument.
- Paper trading is modelled in quantities; prices and costs stand in `Execution`. Of the
  handlers only the strategy's may raise, as the others only compute. `SimulatedFeed` is the feed;
  the Yahoo feed polls the network in the same shape.
- Fits and estimators (GARCH, HMM, regressions, correlations) are free choices of what they
  may return, or left out where nothing is decided by them.

Not modelled, and why:

- **Paper validation** (`aqc/paper_validation/`) and **institutional readiness**: averages and
  scores of recorded numbers, without state or a caller that acts on them.
- **Utilities, dashboards, plots, text reports, entry points**: formatting, configuration and
  wiring.
- **Research statistics** (comparison, generalisation, stress tests, feature studies, forecast and return
  attribution, capacity and adverse selection): random resampling and third-party fits, one
  function of the data each, no decision to get wrong.
- **Bayesian search**: the library that chooses the points is not in the repository.
- **Nightly research job, trackers' counts, `CapitalValidator`, alerts, meta-alpha's optimiser**:
  nothing reads what they leave.
- **Column names, date parsing, resampling, the parquet store**: file formats.

## Plan

What is left, in order of importance:

1. The wall-clock day of the risk manager beside the bar's, and its gross exposure.
2. The equity curve and the log over several instruments, inside `Backtest`.
3. Abstract specification `BarBatch` of the backtest: a bar takes all decisions
   by the opening book and then books all fills; `Backtest` implements it.
