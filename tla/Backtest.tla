------------------------------ MODULE Backtest ------------------------------
(***************************************************************************)
(* The event-driven backtest: BacktestEngine's loop (engine.py) feeds the  *)
(* bars of each instrument to the execution cache (execution.py), the      *)
(* portfolio (portfolio.py) and the strategy (strategies/), and then       *)
(* drains the event queue, whose signals the portfolio turns into orders   *)
(* behind the risk manager's checks (risk_manager.py), whose orders the    *)
(* simulated broker (broker.py) fills at the close of the bar, and whose   *)
(* fills the portfolio books.  All of it runs in one thread: the queue is  *)
(* a sequence here (EventQueue.tla has its threads).                       *)
(***************************************************************************)
EXTENDS Position, RiskManager, Sequences, FiniteSets, Functions

CONSTANTS
  SymbolSeq,        \* the keys of BacktestEngine.data, in their order
  Prices,           \* the closing prices
  MaxBars,          \* len(_common_index)
  MaxIterations,    \* max_iterations, 10_000 in _drain_queue
  InitialCapital,
  DefaultQuantity,  \* Portfolio.default_quantity
  EntrySizes,       \* round(default_quantity * strength) of an entry signal
  AllowShort,       \* whether the strategy ever sells short
  SlippageBps,      \* FixedBpsSlippage.bps
  MinCommission, CommissionDivisor  \* PercentageCommission

Symbols == {SymbolSeq[i] : i \in 1..Len(SymbolSeq)}

ASSUME BacktestAssumption ==
  /\ SymbolSeq \in Seq(Symbols)
  /\ \A i, j \in 1..Len(SymbolSeq) : SymbolSeq[i] = SymbolSeq[j] => i = j
  /\ Prices \subseteq Int /\ EntrySizes \subseteq Int
  /\ DefaultQuantity \in Nat /\ InitialCapital \in Nat \ {0} /\ OneDollar \in Int
  /\ SlippageBps \in Nat /\ MinCommission \in Int /\ CommissionDivisor \in Nat \ {0}
  /\ MaxBars \in Nat /\ MaxIterations \in Nat /\ AllowShort \in BOOLEAN

VARIABLES
  bar,         \* _bar_count: the bars processed
  next,        \* the loop of _process_bar is at SymbolSeq[next]; past the end
               \* of SymbolSeq the bar's queue is being drained
  iteration,   \* the rounds of this bar's _drain_queue
  queue,       \* the event queue
  close,       \* close of _latest_bars, 0 for none
  positions,   \* Portfolio.positions; Flat for an instrument without an entry
  known,       \* the keys of Portfolio.positions
  cash, commission,  \* Portfolio.cash and _total_commission
  belief,      \* the strategy's own _position
  \* history:
  opened       \* the instruments with an open position when the bar began

account == <<positions, known, cash, commission>>
vars == <<bar, next, iteration, queue, close, account, belief, opened>>

----------------------------------------------------------------------------
(* The portfolio's derived figures.                                        *)
Open == {s \in Symbols : ~IsFlat(positions[s])}
Equity == cash + SumFunction([s \in Symbols |-> MarketValue(positions[s])])
GrossExposure == SumFunction([s \in Symbols |-> MagnitudeOf(MarketValue(positions[s]))])

(* validate_order.  The daily baseline is the initial capital, which every *)
(* program that builds an engine sets with reset_daily_state.              *)
Approved(symbol, qty) ==
  LET pos == positions[symbol]
  IN  /\ PositionSizeOK(qty)
      /\ PositionPctOK(qty, pos.last, Equity)
      /\ GrossExposureOK(qty, pos.last, GrossExposure, Equity)
      /\ DailyLossOK(InitialCapital, Equity)
      /\ MaxPositionsOK(IsFlat(pos), Cardinality(Open))

(* The signals a strategy that believes b may emit on a bar, each with the *)
(* belief it leaves: entries at a strength of the strategy's choosing, and *)
(* exits at full strength.  Which of them a bar brings depends on the      *)
(* indicators, and any may.  With AllowShort FALSE and DefaultQuantity the *)
(* only entry size these are the signals of SMACrossoverStrategy and       *)
(* EMAMomentumStrategy; the four intraday strategies enter on either side  *)
(* from no position and exit from both; RSIMeanReversionStrategy also goes *)
(* from short to long.                                                     *)
Signals(b) ==
     [direction : IF b # "LONG" THEN {"LONG"} ELSE {}, size : EntrySizes,
      belief : {"LONG"}]
  \cup
     [direction : IF AllowShort /\ b = "NONE" THEN {"SHORT"} ELSE {},
      size : EntrySizes, belief : {"SHORT"}]
  \cup
     [direction : IF b # "NONE" THEN {"EXIT"} ELSE {}, size : {DefaultQuantity},
      belief : {"NONE"}]

(* _signal_to_side: an EXIT sells, whatever it is to leave.  (The first    *)
(* definition is a slip the checks must notice, as are SkipSymbolUnguarded,*)
(* OnOrderPriority, OnOrderPeeks, OnFillFeeReversed and EndBarEarly below. *)
(* None of them is part of the specification.)                             *)
SideOfExitBuys(direction) == IF direction = "SHORT" THEN "SELL" ELSE "BUY"
SideOf(direction) == IF direction = "LONG" THEN "BUY" ELSE "SELL"

(* SimulatedBroker.execute_order: the close, worsened by the slippage, and *)
(* the commission on the result.                                           *)
FillPrice(side, price) == price + Signed(side, (price * SlippageBps) \div 10000)
CommissionOn(qty, price) ==
  LET rated == (qty * price) \div CommissionDivisor
  IN  IF rated < MinCommission THEN MinCommission ELSE rated

(* An event also carries the bar it stems from, for the properties.        *)
Signal(s, sig) == [type |-> "SIGNAL", symbol |-> s, direction |-> sig.direction,
                   size |-> sig.size, bar |-> bar]
Order(ev) == [type |-> "ORDER", symbol |-> ev.symbol, side |-> SideOf(ev.direction),
              size |-> ev.size, bar |-> ev.bar]
Fill(ev) == [type |-> "FILL", symbol |-> ev.symbol, side |-> ev.side, size |-> ev.size,
             price |-> FillPrice(ev.side, close[ev.symbol]), bar |-> ev.bar]

----------------------------------------------------------------------------
Init ==
  /\ bar = 0 /\ next = 1 /\ iteration = 0
  /\ queue = <<>>
  /\ close = [s \in Symbols |-> 0]
  /\ positions = [s \in Symbols |-> Flat] /\ known = {}
  /\ cash = InitialCapital /\ commission = 0
  /\ belief = [s \in Symbols |-> "NONE"]
  /\ opened = {}

Feeding == bar < MaxBars /\ next <= Len(SymbolSeq)
Draining == bar < MaxBars /\ next > Len(SymbolSeq) /\ iteration < MaxIterations

(* _process_bar for an instrument that has no row at this bar time.        *)
SkipSymbol ==
  /\ Feeding
  /\ next' = next + 1
  /\ opened' = IF next = 1 THEN Open ELSE opened
  /\ UNCHANGED <<bar, iteration, queue, close, account, belief>>

(* _process_bar for an instrument: the execution engine caches the bar,    *)
(* the portfolio marks the position if it has one, and the strategy may    *)
(* emit a signal.                                                          *)
FeedSymbol ==
  /\ Feeding
  /\ LET s == SymbolSeq[next] IN
       \E price \in Prices :
         /\ close' = [close EXCEPT ![s] = price]
         /\ positions' = IF s \in known
                         THEN [positions EXCEPT ![s] = MarkToMarket(@, price)]
                         ELSE positions
         /\ \/ UNCHANGED <<queue, belief>>
            \/ \E sig \in Signals(belief[s]) :
                 /\ queue' = Append(queue, Signal(s, sig))
                 /\ belief' = [belief EXCEPT ![s] = sig.belief]
  /\ next' = next + 1
  /\ opened' = IF next = 1 THEN Open ELSE opened
  /\ UNCHANGED <<bar, iteration, known, cash, commission>>

(* One round of _drain_queue: the event at the head is of the given type.  *)
Round(type) ==
  /\ Draining /\ queue # <<>> /\ Head(queue).type = type
  /\ iteration' = iteration + 1
  /\ UNCHANGED <<bar, next, close, belief, opened>>

(* Portfolio.on_signal_event: no order for a signal too weak to be worth a *)
(* unit, or for one the risk manager rejects.                              *)
OnSignal ==
  /\ Round("SIGNAL")
  /\ LET ev == Head(queue) IN
       queue' = IF ev.size > 0 /\ Approved(ev.symbol, ev.size)
                THEN Append(Tail(queue), Order(ev)) ELSE Tail(queue)
  /\ UNCHANGED account

(* ExecutionEngine.on_order_event and SimulatedBroker.execute_order.       *)
OnOrderPriority ==
  /\ Round("ORDER")
  /\ queue' = <<Fill(Head(queue))>> \o Tail(queue)
  /\ UNCHANGED account

OnOrderPeeks ==
  /\ Round("ORDER")
  /\ queue' = Append(queue, Fill(Head(queue)))
  /\ UNCHANGED account

OnOrder ==
  /\ Round("ORDER")
  /\ queue' = Append(Tail(queue), Fill(Head(queue)))
  /\ UNCHANGED account

(* Portfolio.on_fill_event.                                                *)
OnFillFeeReversed ==
  /\ Round("FILL")
  /\ LET ev == Head(queue)
         fee == CommissionOn(ev.size, ev.price)
     IN  /\ positions' = [positions EXCEPT ![ev.symbol] =
                            ApplyFill(@, ev.side, ev.size, ev.price)]
         /\ known' = known \cup {ev.symbol}
         /\ cash' = cash - Signed(ev.side, ev.size * ev.price + fee)
         /\ commission' = commission + fee
  /\ queue' = Tail(queue)

OnFill ==
  /\ Round("FILL")
  /\ LET ev == Head(queue)
         fee == CommissionOn(ev.size, ev.price)
     IN  /\ positions' = [positions EXCEPT ![ev.symbol] =
                            ApplyFill(@, ev.side, ev.size, ev.price)]
         /\ known' = known \cup {ev.symbol}
         /\ cash' = cash - Signed(ev.side, ev.size) * ev.price - fee
         /\ commission' = commission + fee
  /\ queue' = Tail(queue)

(* _drain_queue leaves its loop, with an empty queue or after              *)
(* MaxIterations rounds, and the bar is done.                              *)
EndBarEarly ==
  /\ bar < MaxBars /\ next > Len(SymbolSeq)
  /\ bar' = bar + 1 /\ next' = 1 /\ iteration' = 0
  /\ UNCHANGED <<queue, close, account, belief, opened>>

EndBar ==
  /\ bar < MaxBars /\ next > Len(SymbolSeq)
  /\ queue = <<>> \/ iteration >= MaxIterations
  /\ bar' = bar + 1 /\ next' = 1 /\ iteration' = 0
  /\ UNCHANGED <<queue, close, account, belief, opened>>

Next == SkipSymbol \/ FeedSymbol \/ OnSignal \/ OnOrder \/ OnFill \/ EndBar

Spec == Init /\ [][Next]_vars

(* run() is a loop in one thread: nothing but its end stops it.            *)
FairSpec == Spec /\ WF_vars(Next)

----------------------------------------------------------------------------
Events ==
  LET sides == Sides  sizes == EntrySizes \cup {DefaultQuantity}
  IN  [type : {"SIGNAL"}, symbol : Symbols, direction : {"LONG", "SHORT", "EXIT"},
       size : sizes, bar : 0..MaxBars]
      \cup [type : {"ORDER"}, symbol : Symbols, side : sides, size : sizes,
            bar : 0..MaxBars]
      \cup [type : {"FILL"}, symbol : Symbols, side : sides, size : sizes,
            price : Int, bar : 0..MaxBars]

TypeOK ==
  /\ bar \in 0..MaxBars /\ next \in 1..(Len(SymbolSeq) + 1)
  /\ iteration \in 0..MaxIterations
  /\ queue \in Seq(Events)
  /\ close \in [Symbols -> Int]
  /\ positions \in [Symbols -> Position] /\ known \in SUBSET Symbols
  /\ cash \in Int /\ commission \in Int
  /\ belief \in [Symbols -> {"NONE", "LONG", "SHORT"}]
  /\ opened \in SUBSET Symbols

BarBoundary == next = 1 /\ queue = <<>>

(* The events of type t that are queued, by their places.                  *)
Queued(t) == {i \in 1..Len(queue) : queue[i].type = t}

(* Three events at most come of one signal: with room for three rounds per *)
(* instrument (max_iterations is 10 000) the drain loop always empties the *)
(* queue, and no order is filled at a later bar's price than the one its   *)
(* signal was computed from: architecture.md's "Drain EventQueue until     *)
(* empty" and "Zero look-ahead bias".                                      *)
DrainedEachBar ==
  /\ next = 1 => queue = <<>>
  /\ \A i \in 1..Len(queue) : queue[i].bar = bar

(* The queue hands on a bar's signals, then its orders, then its fills:    *)
(* every signal is decided before any order is filled.                     *)
CausalOrder ==
  \A i, j \in 1..Len(queue) : i < j =>
    /\ queue[i].type = "FILL" => queue[j].type = "FILL"
    /\ queue[i].type = "ORDER" => queue[j].type # "SIGNAL"

(* So the risk manager judges every order of a bar by the positions that   *)
(* were open when the bar began, not by those the bar's other orders lead  *)
(* to.                                                                     *)
JudgedByOpeningBook == Queued("SIGNAL") # {} => Open = opened

(* A book that is full when a bar begins admits no further instrument in   *)
(* that bar, even if the bar closes one of those it holds.                 *)
FullBookAdmitsNone ==
  Cardinality(opened) < MaxOpenPositions \/ Open \subseteq opened

(* max_open_positions is the "Maximum number of simultaneously open        *)
(* positions" (RiskConfig).                                                *)
MaxOpenRespected == Cardinality(Open) <= MaxOpenPositions

(* Cash, costs, realised PnL and commissions account for each other over   *)
(* the whole portfolio: what summary() reports as final equity is the      *)
(* initial capital and total_pnl less total_commission.  It is checked     *)
(* where no position is ever reduced in part; PositionLedger says what     *)
(* happens when one is.                                                    *)
AccountBalances ==
  Equity = InitialCapital - commission
             + SumFunction([s \in Symbols |-> TotalPnl(positions[s])])

(* With full-size signals and no order rejected, what the strategy         *)
(* believes it holds at the end of a bar is what the portfolio holds.      *)
BeliefIsBook ==
  BarBoundary => \A s \in Symbols :
    positions[s].quantity = CASE belief[s] = "LONG" -> DefaultQuantity
                              [] belief[s] = "SHORT" -> -DefaultQuantity
                              [] belief[s] = "NONE" -> 0

(* A strategy that has exited believes the position gone, and the position *)
(* is: the stop-loss, the time exit ("Max bars before force exit") and the *)
(* reversion exit of the intraday strategies end a short position as they  *)
(* end a long one.                                                         *)
FlatAfterExit ==
  BarBoundary => \A s \in Symbols : belief[s] = "NONE" => IsFlat(positions[s])

(* Whatever is queued is dealt with, and the bar it belongs to ends with   *)
(* nothing left, before the iteration limit stops the drain loop.          *)
Drains == queue # <<>> ~> (queue = <<>> /\ next = 1)
=============================================================================
