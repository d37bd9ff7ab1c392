----------------------------- MODULE Allocation -----------------------------
(***************************************************************************)
(* How much of each instrument to hold: PortfolioAllocator                 *)
(* (aqc/portfolio/allocation.py) gives weights under a chain of limits,    *)
(* VolatilitySizer (aqc/volatility/volatility_metrics.py) whole quantities,*)
(* and VolatilityTargetedPortfolio (aqc/portfolio/volatility_portfolio.py) *)
(* turns the sizer's answer into an order.                                 *)
(*                                                                         *)
(* Weights are in thousandths of the equity.  What is divided is rounded   *)
(* towards zero; the allocator keeps six decimals, and rounds them, so its *)
(* limits hold to that precision.  Volatilities are daily, in thousandths. *)
(***************************************************************************)
EXTENDS Integers, FiniteSetsExt

CONSTANTS
  Symbols,
  Vols,           \* forecast volatilities; 0 for one that is missing
  Signals,        \* signals, of any sign
  Groups,         \* the names of the sectors, and of the strategies
  Limits,         \* AllocationConstraints: a record, in thousandths
  MaxPositionPct, \* the sizer's max_position_pct, in percent
  TargetVol,      \* its target_vol, daily, in thousandths
  RiskFraction,   \* its risk_fraction, in thousandths
  DefaultQuantity,\* the portfolio's default_quantity
  Quotes, Equities,
  MaxCalls        \* bound on the calls; none depends on an earlier one

NoGroup == "none"   \* a symbol without a sector, or strategy

VARIABLES
  allocated, \* the weights of the last allocation
  raw,       \* the weights before the limits
  sectors, strategies,  \* its groups
  sized,     \* what was sized last: how, for how much money, of what equity,
             \* and at what price, or for a portfolio at what volatilities
  calls      \* the calls so far

allocVars == <<allocated, raw, sectors, strategies, sized, calls>>

Methods == {"VOL_TARGET", "INVERSE_VOL", "RISK_PARITY"}
Whole == 1000
Nothing == [s \in Symbols |-> 0]
Unsized == [how |-> "none", money |-> 0, price |-> 1, equity |-> 0]

Absolute(x) == Max({x, -x})
Least(x, y) == IF x < y THEN x ELSE y
Quotient(x, y) == IF x < 0 THEN -((-x) \div y) ELSE x \div y

Sum(w) == SumFunction(w)
GrossOf(w, symbols) == SumFunction([s \in symbols |-> Absolute(w[s])])
Gross(w) == GrossOf(w, Symbols)

----------------------------------------------------------------------------
(* _fixed_weights, without signals and with some; signals that are all     *)
(* zero give no weight to anything.                                        *)
EvenWeights == [s \in Symbols |-> Whole \div Cardinality(Symbols)]
FixedWeights(signal) ==
  IF signal = Nothing THEN Nothing
  ELSE [s \in Symbols |-> Quotient(Whole * signal[s], Gross(signal))]

(* _inverse_vol_weights, and _risk_parity_weights, which is the same.      *)
InverseVolWeights(vol) ==
  LET inverse == [s \in Symbols |-> IF vol[s] > 0 THEN Whole \div vol[s] ELSE 0]
  IN  IF vol = Nothing THEN EvenWeights
      ELSE [s \in Symbols |-> (Whole * inverse[s]) \div Sum(inverse)]

VolTargetWeights(vol) ==
  [s \in Symbols |->
     IF vol[s] > 0 THEN (Whole * TargetVol) \div (Cardinality(Symbols) * vol[s])
     ELSE Whole \div Cardinality(Symbols)]

----------------------------------------------------------------------------
(* _apply_constraints, step by step, in its order.                         *)
PositionCapped(w) ==
  [s \in Symbols |-> Max({-Limits.max_position_weight, Min({Limits.max_position_weight, w[s]})})]

SmallDropped(w) ==
  [s \in Symbols |-> IF Absolute(w[s]) < Limits.min_position_weight THEN 0 ELSE w[s]]

(* A symbol in no group counts for the group "unknown", but is not scaled  *)
(* with it.                                                                *)
GroupOf(group, s) == IF group[s] = NoGroup THEN "unknown" ELSE group[s]
GroupTotal(w, group, g) == GrossOf(w, {s \in Symbols : GroupOf(group, s) = g})

(* (Slips that the checks must notice; none is part of the specification.) *)
GroupCappedNet(w, group, limit) ==
  [s \in Symbols |->
     LET total == Absolute(SumFunction([t \in {t \in Symbols : group[t] = group[s]} |-> w[t]]))
     IN  IF group[s] # NoGroup /\ total > limit THEN Quotient(w[s] * limit, total) ELSE w[s]]

GroupCapped(w, group, limit) ==
  [s \in Symbols |->
     LET total == GroupTotal(w, group, group[s])
     IN  IF group[s] # NoGroup /\ total > limit THEN Quotient(w[s] * limit, total) ELSE w[s]]

(* The gross exposure, the net exposure and the leverage: all weights are  *)
(* scaled by how much the total is too big.                                *)
Scaled(w, total, limit) ==
  IF total > limit THEN [s \in Symbols |-> Quotient(w[s] * limit, total)] ELSE w

NetCapped(w) == Scaled(w, Absolute(Sum(w)), Limits.max_net_exposure)

Constrained(w, sector, strategy) ==
  LET small == SmallDropped(PositionCapped(w))
      grouped == GroupCapped(GroupCapped(small, sector, Limits.max_sector_exposure),
                             strategy, Limits.max_strategy_exposure)
      net == NetCapped(Scaled(grouped, Gross(grouped), Limits.max_gross_exposure))
  IN  Scaled(net, Gross(net), Limits.max_leverage)

----------------------------------------------------------------------------
(* VolatilitySizer.size_position, with target_risk_per_trade unset.        *)
SizedPosition(method, price, vol, equity) ==
  LET cap == (equity * MaxPositionPct) \div (100 * price)
      weight == Least((Whole * TargetVol) \div vol, Least(MaxPositionPct * 50, Whole))
  IN  CASE method = "VOL_TARGET" -> Least((equity * RiskFraction) \div (vol * price), cap)
        [] method = "INVERSE_VOL" -> (equity * weight) \div (Whole * price)
        [] method = "RISK_PARITY" -> Least((equity * TargetVol) \div (vol * price), cap)

SizePosition(method, price, vol, equity) ==
  IF price <= 0 \/ vol <= 0 \/ equity <= 0 THEN 0 ELSE SizedPosition(method, price, vol, equity)

(* size_portfolio: the quantity of each symbol.  By volatility targets it  *)
(* is size_position's; by inverse volatility a share of the equity, which  *)
(* may be all of it; by risk parity what carries one nth of the target     *)
(* risk.  The last two do not look at max_position_pct.                    *)
SizePortfolio(method, price, vol, equity) ==
  [s \in Symbols |->
     IF vol[s] = 0 THEN 0
     ELSE CASE method = "VOL_TARGET" -> SizePosition(method, price[s], vol[s], equity)
            [] method = "INVERSE_VOL" ->
                 (equity * InverseVolWeights(vol)[s]) \div (Whole * price[s])
            [] method = "RISK_PARITY" ->
                 (equity * TargetVol) \div (Cardinality(Symbols) * vol[s] * price[s])]

(* VolatilityTargetedPortfolio._size_order: the fixed size while there is  *)
(* too little history, or no forecast; else the sizer's, but one unit at   *)
(* least, times the strength of the signal, in tenths here as the quantity.*)
SizeOrder(enough, price, vol, equity, strength) ==
  strength * IF enough /\ vol > 0 THEN Max({1, SizePosition("VOL_TARGET", price, vol, equity)})
             ELSE DefaultQuantity

----------------------------------------------------------------------------
AllocInit ==
  /\ allocated = Nothing /\ raw = Nothing
  /\ sectors = [s \in Symbols |-> NoGroup] /\ strategies = [s \in Symbols |-> NoGroup]
  /\ sized = Unsized /\ calls = 0

Called == calls < MaxCalls /\ calls' = calls + 1

(* allocate, by any of its four methods.                                   *)
RawWeights ==
  {EvenWeights} \cup {FixedWeights(signal) : signal \in [Symbols -> Signals]}
  \cup UNION {{InverseVolWeights(vol), VolTargetWeights(vol)} : vol \in [Symbols -> Vols]}

Allocate ==
  /\ Called
  /\ raw' \in RawWeights
  /\ sectors' \in [Symbols -> Groups \cup {NoGroup}]
  /\ strategies' \in [Symbols -> Groups \cup {NoGroup}]
  /\ allocated' = Constrained(raw', sectors', strategies')
  /\ UNCHANGED sized

Sized(how, money, price, equity) ==
  /\ Called
  /\ sized' = [how |-> how, money |-> money, price |-> price, equity |-> equity]
  /\ UNCHANGED <<allocated, raw, sectors, strategies>>

Size(method, price, vol, equity) ==
  Sized(method, price * SizePosition(method, price, vol, equity), price, equity)

SizeAll(method, price, vol, equity) ==
  /\ Called
  /\ sized' = [how |-> "portfolio", method |-> method, vol |-> vol, equity |-> equity,
               money |-> [s \in Symbols |->
                            price[s] * SizePortfolio(method, price, vol, equity)[s]]]
  /\ UNCHANGED <<allocated, raw, sectors, strategies>>

(* on_signal_event of VolatilityTargetedPortfolio, unless the regime       *)
(* filter blocks the signal, an EXIT like any other.                       *)
OnSignal(enough, price, vol, equity, strength) ==
  Sized(IF enough /\ vol > 0 THEN "order" ELSE "fixed order",
        price * SizeOrder(enough, price, vol, equity, strength), price, equity)

AllocNext ==
  \/ Allocate
  \/ \E method \in Methods, price \in Quotes \cup {0}, vol \in Vols, equity \in Equities :
       Size(method, price, vol, equity)
  \/ \E method \in Methods, price \in [Symbols -> Quotes], vol \in [Symbols -> Vols],
        equity \in Equities :
       SizeAll(method, price, vol, equity)
  \/ \E enough \in BOOLEAN, price \in Quotes, vol \in Vols, equity \in Equities, strength \in {0, 5, 10} :
       OnSignal(enough, price, vol, equity, strength)

AllocSpec == AllocInit /\ [][AllocNext]_allocVars

----------------------------------------------------------------------------
(* Every limit holds of the weights that come out, though each step of the *)
(* chain looks at one of them only and later steps move the weights again: *)
(* those of the position, of each named sector and strategy, gross, net    *)
(* and leverage; and no weight changes its sign.                           *)
Named(group, g) == GrossOf(allocated, {s \in Symbols : group[s] = g})

PositionLimitHolds ==
  \A s \in Symbols : /\ allocated[s] \in -Limits.max_position_weight..Limits.max_position_weight
                     /\ allocated[s] * raw[s] >= 0

GroupLimitsHold ==
  \A g \in Groups : /\ Named(sectors, g) <= Limits.max_sector_exposure
                    /\ Named(strategies, g) <= Limits.max_strategy_exposure

TotalLimitsHold == Gross(allocated) <= Least(Limits.max_gross_exposure, Limits.max_leverage)

(* The net exposure is scaled twice, and each weight rounded each time.    *)
NetLimitHolds ==
  Absolute(Sum(allocated)) <= Limits.max_net_exposure + 2 * Cardinality(Symbols)

WeightsCapped == PositionLimitHolds /\ GroupLimitsHold /\ TotalLimitsHold /\ NetLimitHolds

(* What the sizer holds to of its max_position_pct, "Max position as       *)
(* fraction of equity": a position sized alone costs no more, but by       *)
(* inverse volatility five times that.  Of a whole portfolio only the      *)
(* sizes by volatility targets keep it.  By inverse volatility all of them *)
(* together cost no more than the equity, which a single one may use up;   *)
(* by risk parity none carries more than its nth of the target risk, and   *)
(* calm markets make that any multiple of the equity.  A targeted order    *)
(* keeps it too, unless it is the one unit it is rounded up to.            *)
PortfolioSizesCapped ==
  /\ sized.method = "VOL_TARGET" =>
       \A s \in Symbols : 100 * sized.money[s] <= MaxPositionPct * sized.equity
  /\ sized.method = "INVERSE_VOL" => Sum(sized.money) <= sized.equity
  /\ sized.method = "RISK_PARITY" =>
       \A s \in Symbols :
         Cardinality(Symbols) * sized.vol[s] * sized.money[s] <= TargetVol * sized.equity

SizesCapped ==
  CASE sized.how \in {"VOL_TARGET", "RISK_PARITY"} -> 100 * sized.money <= MaxPositionPct * sized.equity
    [] sized.how = "INVERSE_VOL" -> 20 * sized.money <= MaxPositionPct * sized.equity
    [] sized.how = "portfolio" -> PortfolioSizesCapped
    [] sized.how = "order" ->
         10 * sized.money <= MaxPositionPct * sized.equity \/ sized.money <= 10 * sized.price
    [] OTHER -> TRUE

PortfolioCapped == WeightsCapped /\ SizesCapped
=============================================================================
