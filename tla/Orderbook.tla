----------------------------- MODULE Orderbook -----------------------------
(***************************************************************************)
(* What is read off an order book: the sorted book and a place in its      *)
(* queues (aqc/orderbook/), the signs of the trades (aqc/microstructure/)  *)
(* and the features of the imbalance alpha                                 *)
(* (strategies/orderbook_imbalance/feature_engine.py).                     *)
(*                                                                         *)
(* Prices are in ticks of 0.01, twice, so that a mid price is whole; a     *)
(* snapshot has its levels best first, some of them without volume, and    *)
(* the trades and the order events of its instant.  Ratios and prices      *)
(* within the spread are times Scale and round towards zero.                *)
(***************************************************************************)
EXTENDS Integers, Sequences, FiniteSetsExt, SequencesExt, Selections

CONSTANTS
  Snapshots,    \* [bid, ask, trades, events] there may be
  MaxSnapshots,
  Scale,
  Reflection    \* twice the price a book is mirrored at, above every price

BookPrices == 1..Reflection - 1
PriceLevels == {l \in [px : BookPrices, vol : Nat] : l.px % 2 = 0}
Incidents(kinds, sides) == [kind : kinds, side : sides, volume : Nat, price : BookPrices]

(* Levels come best first, and the book is not crossed.                    *)
ASSUME BookAssumption ==
  /\ Scale \in Nat \ {0} /\ Reflection \in Nat
  /\ \A s \in Snapshots :
       /\ s.bid \in Seq(PriceLevels) /\ s.ask \in Seq(PriceLevels)
       /\ \A i, j \in DOMAIN s.bid : i < j => s.bid[i].px > s.bid[j].px
       /\ \A i, j \in DOMAIN s.ask : i < j => s.ask[i].px < s.ask[j].px
       /\ s.bid # <<>> /\ s.ask # <<>> /\ s.bid[1].px <= s.ask[1].px
       /\ s.trades \in Seq(Incidents({"TRADE"}, {"BUY", "SELL"}))
       /\ s.events \in Seq(Incidents({"ARRIVAL", "CANCELLATION", "MODIFICATION"}, {"BID", "ASK"}))

VARIABLES
  snapshots,
  tape        \* prices of the trades so far

bookVars == <<snapshots, tape>>

BookInit == snapshots = <<>> /\ tape = <<>>

NewSnapshot ==
  \E s \in Snapshots :
    /\ Len(snapshots) < MaxSnapshots
    /\ snapshots' = Append(snapshots, s)
    /\ tape' = tape \o [i \in DOMAIN s.trades |-> s.trades[i].price]

BookSpec == BookInit /\ [][NewSnapshot]_bookVars

Apart(x, y) == IF x < y THEN y - x ELSE x - y
Ratio(a, b) == IF a < 0 THEN -((-a) \div b) ELSE a \div b
Top(s, n) == [i \in 1..Min({n, Len(s)}) |-> s[i]]
Volume(levels) == SumFunction([i \in DOMAIN levels |-> levels[i].vol])

(* (a - b) / (a + b), 0 where nothing is compared: the form of every       *)
(* imbalance there is.                                                     *)
Imbalance(a, b) == IF a + b > 0 THEN Ratio(Scale * (a - b), a + b) ELSE 0

----------------------------------------------------------------------------
(* OrderbookParser.parse_snapshot, of levels in any order; and             *)
(* QueuePosition.estimate_position: the volume at better prices and at the *)
(* first level of the order's own.                                         *)
Key(side, px) == IF side = "BUY" THEN -px ELSE px

SortedLevels(levels, side) ==
  LET key == [i \in DOMAIN levels |-> Key(side, levels[i].px)]
  IN  [k \in DOMAIN levels |-> levels[Ordered(key, k)]]

ParseSnapshot(bids, asks) ==
  [bids |-> SortedLevels(bids, "BUY"), asks |-> SortedLevels(asks, "SELL")]

AheadOf(order_price, side, levels) ==
  {i \in DOMAIN levels :
     /\ Key(side, levels[i].px) <= Key(side, order_price)
     /\ \A j \in DOMAIN levels : levels[j].px = order_price => i <= j}

EstimatePosition(order_price, side, bids, asks) ==
  LET levels == IF side = "BUY" THEN bids ELSE asks
  IN  SumFunction([i \in AheadOf(order_price, side, levels) |-> levels[i].vol])

(* TradeSigner.apply_tick_rule: the first trade is a BUY, its price being  *)
(* above 0.0, and one at the price before has the sign of the one before.  *)
SignTrade(sofar, price) ==
  LET sign == IF price > sofar.last_price THEN "BUY"
              ELSE IF price < sofar.last_price THEN "SELL" ELSE sofar.last_sign
  IN  [last_price |-> price, last_sign |-> sign, signs |-> Append(sofar.signs, sign)]

TickRule(prices) ==
  FoldLeft(SignTrade, [last_price |-> 0, last_sign |-> "BUY", signs |-> <<>>], prices).signs

----------------------------------------------------------------------------
(* The features of a snapshot.  Levels without a price or volume are left  *)
(* out of all but the microprice, which takes the first of the row.        *)
ExtractLevels(side) == Select(side, {i \in DOMAIN side : side[i].px > 0 /\ side[i].vol > 0})

ComputeImbalance(bids, asks, levels) ==
  Imbalance(Volume(Top(bids, levels)), Volume(Top(asks, levels)))

Imbalances(bids, asks) ==
  [imb_top1 |-> ComputeImbalance(bids, asks, 1),
   imb_top5 |-> ComputeImbalance(bids, asks, 5),
   imb_top10 |-> ComputeImbalance(bids, asks, Min({10, Len(bids)})),
   depth_imbalance |-> Imbalance(Volume(bids), Volume(asks))]

Mid(s) == (s.bid[1].px + s.ask[1].px) \div 2

(* calculate_microprice, less the mid price.  (Slip: each price is weighed *)
(* by its own side's volume.)                                              *)
MicropriceOfOwnSide(bid, ask) ==
  IF bid.vol + ask.vol = 0 THEN Scale * ((bid.px + ask.px) \div 2)
  ELSE (Scale * (bid.px * bid.vol + ask.px * ask.vol)) \div (bid.vol + ask.vol)

Microprice(bid, ask) ==
  IF bid.vol + ask.vol = 0 THEN Scale * ((bid.px + ask.px) \div 2)
  ELSE (Scale * (bid.px * ask.vol + ask.px * bid.vol)) \div (bid.vol + ask.vol)

MicropriceDeviation(s) == Microprice(s.bid[1], s.ask[1]) - Scale * Mid(s)

Notional(levels) == SumFunction([i \in DOMAIN levels |-> levels[i].px * levels[i].vol])

FairValue(bids, asks, levels) ==
  LET volume == Volume(Top(bids, levels)) + Volume(Top(asks, levels))
      notional == Notional(Top(bids, levels)) + Notional(Top(asks, levels))
  IN  IF volume = 0 THEN 0 ELSE (Scale * notional) \div volume

(* OrderbookFeatures.compute_features; a side without levels has price 0.  *)
Best(levels) == IF levels = <<>> THEN 0 ELSE levels[1].px
Pressure(levels) ==
  SumFunction([i \in DOMAIN levels |->
                 (Scale * levels[i].vol) \div (Apart(Best(levels), levels[i].px) \div 2 + 1)])

SpreadDepth(bids, asks) ==
  [spread |-> Best(asks) - Best(bids), total_depth |-> Volume(bids) + Volume(asks),
   bid_pressure |-> Pressure(bids), ask_pressure |-> Pressure(asks)]

(* _compute_trade_flow and _compute_event_features.                        *)
VolumeOf(list, kind, side) ==
  SumFunction([i \in {i \in DOMAIN list : list[i].kind = kind /\ list[i].side = side} |->
                 list[i].volume])

FlowImbalance(s) ==
  Imbalance(VolumeOf(s.trades, "TRADE", "BUY"), VolumeOf(s.trades, "TRADE", "SELL"))

EventFeatures(s) ==
  [arrival_imbalance |-> Imbalance(VolumeOf(s.events, "ARRIVAL", "BID"),
                                   VolumeOf(s.events, "ARRIVAL", "ASK")),
   cancellation_imbalance |-> Imbalance(VolumeOf(s.events, "CANCELLATION", "BID"),
                                        VolumeOf(s.events, "CANCELLATION", "ASK")),
   modification_rate |->
     IF s.events = <<>> THEN 0
     ELSE Ratio(Scale * Cardinality({i \in DOMAIN s.events : s.events[i].kind = "MODIFICATION"}),
                Len(s.events))]

(* LiquidityRegimes.detect_regime, of the spread in ticks, the depth and   *)
(* the flow imbalance for an impact.                                       *)
DetectRegime(spread, depth, impact) ==
  IF spread > 2 * 10 /\ impact * 20 > Scale THEN "CRISIS"
  ELSE IF spread > 2 * 5 \/ depth < 1000 THEN "THIN"
  ELSE IF impact * 50 > Scale THEN "STRESS"
  ELSE "NORMAL"

(* extract, given trades, raises: their frame has a column trade_intensity *)
(* as that of compute_features has.  So there is no flow imbalance where a *)
(* regime is detected.                                                     *)
ExtractRaises == \E i \in DOMAIN snapshots : snapshots[i].trades # <<>>

Extract(s) ==
  LET bids == ExtractLevels(s.bid)  asks == ExtractLevels(s.ask)
      depth == SpreadDepth(bids, asks)
  IN  [imbalances |-> Imbalances(bids, asks), deviation |-> MicropriceDeviation(s),
       fair_value_gap |-> FairValue(bids, asks, 5) - Scale * Mid(s), depth |-> depth,
       events |-> EventFeatures(s), regime |-> DetectRegime(depth.spread, depth.total_depth, 0)]

(* ImbalancePredictor.predict of a predictor that is not trained.          *)
Predict(imbalance) ==
  LET prob_up == Scale + imbalance IN [prob_up |-> prob_up, prob_down |-> 2 * Scale - prob_up]

----------------------------------------------------------------------------
(* The same book seen from the other side of the market.                   *)
Opposite == [BUY |-> "SELL", SELL |-> "BUY", BID |-> "ASK", ASK |-> "BID"]
Mirror(levels) == [i \in DOMAIN levels |-> [levels[i] EXCEPT !.px = Reflection - @]]
Flipped(list) == [i \in DOMAIN list |-> [list[i] EXCEPT !.side = Opposite[@]]]
Mirrored(s) == [bid |-> Mirror(s.ask), ask |-> Mirror(s.bid),
                trades |-> Flipped(s.trades), events |-> Flipped(s.events)]

Negates(x, y) == x + y \in -1..1

(* Buyers and sellers are treated alike: the features that have a sign     *)
(* change it with the sides of the book, the others do not.  (Not so where *)
(* a side has no level, whose price is then 0.0, nor imb_top10 where the   *)
(* sides have different numbers of levels: it looks at as many asks as     *)
(* there are bids.)                                                        *)
SidesAlike ==
  \A i \in DOMAIN snapshots :
    LET s == snapshots[i]
        f == Extract(s)  g == Extract(Mirrored(s))
        bids == ExtractLevels(s.bid)  asks == ExtractLevels(s.ask)
    IN  /\ FlowImbalance(s) = -FlowImbalance(Mirrored(s))
        /\ ~ExtractRaises /\ bids # <<>> /\ asks # <<>> =>
             /\ \A name \in DOMAIN f.imbalances :
                  name # "imb_top10" \/ Len(bids) = Len(asks) =>
                    /\ f.imbalances[name] = -g.imbalances[name]
                    /\ Predict(f.imbalances[name]).prob_up = Predict(g.imbalances[name]).prob_down
             /\ Negates(f.deviation, g.deviation) /\ Negates(f.fair_value_gap, g.fair_value_gap)
             /\ f.depth.spread = g.depth.spread /\ f.depth.bid_pressure = g.depth.ask_pressure
             /\ f.events.arrival_imbalance = -g.events.arrival_imbalance
             /\ f.events.cancellation_imbalance = -g.events.cancellation_imbalance
             /\ f.regime = g.regime

(* Every measure of where the price will go points the same way: the       *)
(* microprice stays within the spread and leans to where the imbalance of  *)
(* the best levels points, if both of the row's best levels have volume.   *)
(* That is away from the side with more volume: the comment on the formula *)
(* in calculate_microprice, which has it balance the price towards that    *)
(* side, does not hold.                                                    *)
MeasuresPointAlike ==
  \A i \in DOMAIN snapshots :
    LET s == snapshots[i]  f == Extract(s)
    IN  ~ExtractRaises /\ s.bid[1].vol > 0 /\ s.ask[1].vol > 0 =>
          /\ Apart(f.deviation, 0) <= Scale * (s.ask[1].px - Mid(s))
          /\ f.imbalances.imb_top1 > 0 => f.deviation >= 0
          /\ f.imbalances.imb_top1 < 0 => f.deviation <= 0
          /\ s.ask[1].px > s.bid[1].px /\ f.deviation > 0 => f.imbalances.imb_top1 >= 0

(* In a parsed book no order has less volume ahead of it than one at a     *)
(* better price, nor more than its side's depth, however the levels        *)
(* arrived.                                                                *)
QueuesAreOrdered ==
  \A i \in DOMAIN snapshots :
    LET s == snapshots[i]
        book == ParseSnapshot(Reverse(s.bid), Reverse(s.ask))
        prices == {l.px : l \in ToSet(s.bid \o s.ask)}
        Ahead(px, side) == EstimatePosition(px, side, book.bids, book.asks)
    IN  \A p, q \in prices :
          /\ p >= q => /\ Ahead(p, "BUY") <= Ahead(q, "BUY")
                       /\ Ahead(q, "SELL") <= Ahead(p, "SELL")
          /\ Ahead(p, "BUY") <= Volume(s.bid) /\ Ahead(p, "SELL") <= Volume(s.ask)

(* The tick rule signs rises and falls alike: once the price has changed,  *)
(* trades at mirrored prices have the opposite signs.                      *)
TickRuleAlike ==
  LET signs == TickRule(tape)
      mirrored == TickRule([k \in DOMAIN tape |-> Reflection - tape[k]])
  IN  \A k \in DOMAIN tape :
        (\E j \in 1..k : tape[j] # tape[1]) => mirrored[k] = Opposite[signs[k]]

(* All of the above.                                                       *)
BookIsReadAlike == SidesAlike /\ MeasuresPointAlike /\ QueuesAreOrdered /\ TickRuleAlike
=============================================================================
