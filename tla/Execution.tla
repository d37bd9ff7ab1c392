----------------------------- MODULE Execution -----------------------------
(***************************************************************************)
(* What trading costs: the orders SimulatedBroker accepts and the prices   *)
(* and commissions it executed them at (aqc/backtester/broker.py, event.py),  *)
(* the fill prices of paper trading (aqc/live/fill_simulator.py) and the   *)
(* cost models of aqc/execution/.                                          *)
(*                                                                         *)
(* A price of 1.0 is 1000; a participation (quantity by volume) is in      *)
(* percent, its square root too; every division is rounded down.           *)
(***************************************************************************)
EXTENDS Position, Sequences, FiniteSetsExt, SequencesExt

CONSTANTS
  Closes,      \* closing prices of a bar, multiples of 10,000
  Volumes,     \* its volumes
  DefaultAdv,  \* the daily volume taken where a bar has none
  OrderSizes,  \* order quantities; 0 is one OrderEvent refuses
  Brokers,     \* the brokers and their cost models, records as in Broker below
  Spreads,     \* spreads an estimate is asked for, in the units of a price
  MaxOrders, MaxMarketBars

VARIABLES
  broker,    \* the broker with its cost models
  bar,       \* the last bar of the instrument, or NoBar
  bars,      \* how many there were
  position, account,
  executed,  \* the FillEvents
  \* history:
  drift      \* what the moves of the close earned on the position

executionVars == <<broker, bar, bars, position, account, executed, drift>>

Unit == 1000
DailyVolatility == 2        \* percent, the 0.02 that PaperBroker passes
NoBar == [close |-> 0, volume |-> 0]

(* A broker: kind backtest with a fixed slippage in basis points, or paper *)
(* with a SlippageModel (fixed_bps, volatility_multiplier) and a           *)
(* SquareRootImpactModel (impact_coefficient, in percent); a commission    *)
(* model, its rate in thousandths.                                         *)
Broker(kind, bps, multiplier, impact, commission) ==
  [kind |-> kind, fixed_bps |-> bps, volatility_multiplier |-> multiplier,
   impact_coefficient |-> impact, commission |-> commission]

Percentage(rate, minimum) == [model |-> "percentage", rate |-> rate, minimum |-> minimum]
FlatFee(fee) == [model |-> "flat", fee |-> fee]
Zero == [model |-> "zero"]

----------------------------------------------------------------------------
(* OrderEvent.__post_init__ raises for any other order.                    *)
OrderTypes == {"MARKET", "LIMIT", "STOP", "STOP_LIMIT"}

Valid(order) ==
  /\ order.quantity > 0
  /\ order.order_type \in {"LIMIT", "STOP_LIMIT"} => order.limit_price # "None"
  /\ order.order_type \in {"STOP", "STOP_LIMIT"} => order.stop_price # "None"

(* FillEvent.gross_value and net_value.                                    *)
GrossValue(fill) == fill.quantity * fill.fill_price
NetValue(fill) == Signed(fill.side, GrossValue(fill)) + fill.commission

(* CommissionModel.calculate.                                              *)
Commission(model, quantity, price) ==
  IF model.model = "percentage" THEN Max({model.minimum, (quantity * price * model.rate) \div 1000})
  ELSE IF model.model = "flat" THEN model.fee ELSE 0

(* FixedBpsSlippage and ZeroSlippage (0 basis points).                     *)
FixedBpsSlippage(side, price, bps) == price + Signed(side, (price * bps) \div 10000)

----------------------------------------------------------------------------
(* Participation and its square root.                                      *)
Participation(quantity, adv) == (100 * quantity) \div adv
SqrtParticipation(quantity, adv) ==
  CHOOSE s \in 0..100 * (quantity \div adv + 1) :
    s * s * adv <= 10000 * quantity /\ 10000 * quantity < (s + 1) * (s + 1) * adv

(* SlippageModel.estimate_slippage: each part only where its argument is   *)
(* positive; the participation's from 1 percent on.                        *)
Crowding(price, size, adv) ==
  IF size <= 0 \/ adv <= 0 \/ 100 * size <= adv THEN 0
  ELSE (price * Participation(size, adv) * SqrtParticipation(size, adv)) \div 100000

EstimateSlippage(model, price, spread, volatility, size, adv) ==
  (price * model.fixed_bps) \div 10000 + spread \div 2
  + (price * volatility * model.volatility_multiplier) \div 100 + Crowding(price, size, adv)

(* SquareRootImpactModel.apply_impact.                                     *)
ImpactPrice(coefficient, price, quantity, volume, volatility) ==
  IF volume <= 0 THEN 0
  ELSE (price * coefficient * volatility * SqrtParticipation(quantity, volume)) \div 1000000

(* LiquidityModel.constrain_quantity, in thousandths of the daily volume.  *)
ConstrainQuantity(desired, volume, rate) ==
  LET most == (volume * rate) \div 1000
  IN  IF desired > most THEN most ELSE IF -desired > most THEN -most ELSE desired

----------------------------------------------------------------------------
(* FillSimulator.simulate_fill for the whole order, unless the simulated   *)
(* exchange rejects it.  The third argument of apply_slippage is its       *)
(* spread: the daily volatility of 0.02 is taken for a spread of 0.02, and *)
(* no volatility is passed at all.                                         *)
AdvOf(b) == IF b.volume > 0 THEN b.volume ELSE DefaultAdv
PaperQuantity(quantity) == Min({quantity, Max({AdvOf(bar) \div 10, 1})})

(* (Slip: the impact is always added.)                                     *)
PaperPriceUp(side, quantity) ==
  LET slipped == bar.close + Signed(side,
        EstimateSlippage(broker, bar.close, (DailyVolatility * Unit) \div 100, 0, 0, 1000000))
  IN  slipped + ImpactPrice(broker.impact_coefficient, slipped, quantity,
                            AdvOf(bar), DailyVolatility)

PaperPrice(side, quantity) ==
  LET slipped == bar.close + Signed(side,
        EstimateSlippage(broker, bar.close, (DailyVolatility * Unit) \div 100, 0, 0, 1000000))
  IN  slipped + Signed(side, ImpactPrice(broker.impact_coefficient, slipped, quantity,
                                         AdvOf(bar), DailyVolatility))

FillOf(order) ==
  LET quantity == IF broker.kind = "paper" THEN PaperQuantity(order.quantity) ELSE order.quantity
      price == IF broker.kind = "paper" THEN PaperPrice(order.side, quantity)
               ELSE FixedBpsSlippage(order.side, bar.close, broker.fixed_bps)
  IN  [side |-> order.side, quantity |-> quantity, fill_price |-> price,
       commission |-> Commission(broker.commission, quantity, price),
       status |-> IF quantity = order.quantity THEN "FILLED" ELSE "PARTIALLY_FILLED"]

----------------------------------------------------------------------------
ExecutionInit ==
  /\ broker \in Brokers /\ bar = NoBar /\ bars = 0
  /\ position = 0 /\ account = 0 /\ executed = <<>> /\ drift = 0

NewBar ==
  \E close \in Closes, volume \in Volumes :
    /\ bars < MaxMarketBars
    /\ bars' = bars + 1
    /\ bar' = [close |-> close, volume |-> volume]
    /\ drift' = drift + position * (close - bar.close)
    /\ UNCHANGED <<broker, position, account, executed>>

(* The broker executes an order.  Nothing comes of one that cannot be      *)
(* built, nor, in a backtest, of one that is not a market order or that    *)
(* finds no bar.  Paper trading fills orders of every type at the market.  *)
(* It keeps an order that comes before the first bar, and the rest of one  *)
(* it filled in part: each is, once filled, one of the orders here.        *)
Orders == [order_type : OrderTypes, side : Sides, quantity : OrderSizes,
           limit_price : {"None", "set"}, stop_price : {"None"}]

Executes(order) ==
  Valid(order) /\ bar # NoBar /\ (broker.kind = "paper" \/ order.order_type = "MARKET")

ExecuteOrder ==
  \E order \in Orders :
    /\ Len(executed) < MaxOrders
    /\ IF ~Executes(order) THEN UNCHANGED executionVars
       ELSE LET fill == FillOf(order)
            IN  /\ executed' = Append(executed, fill)
                /\ position' = position + Signed(fill.side, fill.quantity)
                /\ account' = account - Signed(fill.side, fill.quantity * fill.fill_price)
                                - fill.commission
                /\ UNCHANGED <<broker, bar, bars, drift>>

ExecutionNext == NewBar \/ ExecuteOrder

ExecutionSpec == ExecutionInit /\ [][ExecutionNext]_executionVars

----------------------------------------------------------------------------
(* MarketImpactModel, ExecutionCostEngine, ExecutionOptimizer and          *)
(* ExecutionSimulator, which estimate the cost of an order beforehand, in  *)
(* twentieths of a basis point.                                            *)
MarketImpact(quantity, adv, volatility, aggressive) ==
  IF adv <= 0 THEN 0
  ELSE (IF aggressive THEN 2 ELSE 1) * volatility * SqrtParticipation(quantity, adv)
       + volatility * Participation(quantity, adv)

EngineSlippage == [fixed_bps |-> 1, volatility_multiplier |-> 0]

TotalCost(price, quantity, adv, volatility, spread, aggressive) ==
  MarketImpact(quantity, adv, volatility, aggressive)
  + (IF price > 0
     THEN (2000 * EstimateSlippage(EngineSlippage, price, spread, volatility, quantity, adv))
          \div (price \div 100)
     ELSE 0)

OptimizeExecution(quantity, adv, urgency) ==
  LET p == IF adv > 0 THEN Participation(quantity, adv) ELSE 100
      Above(percent) == adv <= 0 \/ 100 * quantity > percent * adv
      Plan(strategy, target) == [best_strategy |-> strategy, target_participation_rate |-> target]
  IN  IF urgency = "HIGH" THEN Plan("AGGRESSIVE", Min({20, 2 * p}))
      ELSE IF urgency = "LOW" /\ Above(5) THEN Plan("TWAP", 5)
      ELSE IF Above(10) THEN Plan("VWAP", 10)
      ELSE IF Above(2) THEN Plan("POV", 5)
      ELSE Plan("PASSIVE", p)

SimulateOrder(quantity, price, adv, volatility, spread) ==
  LET aggressive == OptimizeExecution(quantity, adv, "NORMAL").best_strategy = "AGGRESSIVE"
  IN  [simulated_cost |-> TotalCost(price, quantity, adv, volatility, spread, aggressive),
       estimated_fill_rate |-> IF aggressive THEN 100 ELSE 95]

----------------------------------------------------------------------------
(* No sequence of orders gains anything from the broker: beyond what the   *)
(* moves of the close brought, the account never has more than it started  *)
(* with, whatever the sizes, sides and cost models -- each fill is on the  *)
(* trader's wrong side of the close.  And the events' net values account   *)
(* for all of the cash.                                                    *)
NothingForFree ==
  /\ account + position * bar.close <= drift
  /\ account + SumFunction([i \in DOMAIN executed |-> NetValue(executed[i])]) = 0

(* A larger order never looks cheaper per unit beforehand, on any bar, and *)
(* what LiquidityModel lets through of it is within the participation      *)
(* allowed and on its side.                                                *)
LargerCostsMore ==
  bar # NoBar =>
    \A small, large \in OrderSizes \ {0}, spread \in Spreads :
      small <= large =>
        /\ SimulateOrder(small, bar.close, bar.volume, DailyVolatility, spread).simulated_cost
             <= SimulateOrder(large, bar.close, bar.volume, DailyVolatility, spread).simulated_cost
        /\ LET allowed == ConstrainQuantity(-large, bar.volume, 100)
           IN  allowed <= 0 /\ -10 * allowed <= bar.volume /\ -allowed <= large

(* No order gains from the broker, and none is cheaper for being larger.   *)
ExecutionSound == NothingForFree /\ LargerCostsMore

(* With cost models that charge nothing a paper fill is at the close, as   *)
(* tests/test_paper_broker.py expects of them.                             *)
FreeModelsFillAtClose ==
  broker.fixed_bps = 0 /\ broker.volatility_multiplier = 0 /\ broker.impact_coefficient = 0 =>
    \A i \in DOMAIN executed : executed[i].fill_price \in Closes
=============================================================================
