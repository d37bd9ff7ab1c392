---------------------------- MODULE OrderManager ----------------------------
(***************************************************************************)
(* The life of an order in paper trading: LiveOrder and OrderManager       *)
(* (aqc/live/order_manager.py), the size FillSimulator fills               *)
(* (fill_simulator.py) and the sweep of the open orders that PaperBroker   *)
(* makes whenever a bar or an order arrives (paper_broker.py).  Prices and *)
(* commissions are left out: no decision here depends on them.             *)
(***************************************************************************)
EXTENDS Integers, Sequences, FiniteSets

CONSTANTS Symbols,
          OrderQty   \* the 100 units of every order that SignalRouter makes

ASSUME OrderAssumption == OrderQty \in Nat \ {0}

Sides == {"BUY", "SELL"}
Signed(side, qty) == IF side = "BUY" THEN qty ELSE -qty

(* The states an order rests in.  NEW lasts only until submit_order's next *)
(* line, and nothing cancels an order.                                     *)
OrderStates == {"SUBMITTED", "PARTIALLY_FILLED", "FILLED", "REJECTED"}
LiveOrder == [symbol : Symbols, side : Sides, filled : Nat, state : OrderStates]

(* register_order and update_state(SUBMITTED).                             *)
Submitted(symbol, side) ==
  [symbol |-> symbol, side |-> side, filled |-> 0, state |-> "SUBMITTED"]

(* get_open_orders: the orders that are not terminal.  (IsOpenIfRejected,  *)
(* FillSizeIgnoringFills, FillsOfWholeOrders and FillsOfAllOrders are      *)
(* slips the checks must notice; they are used nowhere.)                   *)
IsOpenIfRejected(order) == order.state # "FILLED"
IsOpen(order) == order.state \notin {"FILLED", "REJECTED"}

(* simulate_fill: what remains, up to a tenth of the bar's volume (at      *)
(* least one unit), which `cap` is.                                        *)
FillSizeIgnoringFills(order, cap) == IF OrderQty < cap THEN OrderQty ELSE cap
FillSize(order, cap) ==
  LET remaining == OrderQty - order.filled
  IN  IF remaining < cap THEN remaining ELSE cap

(* update_fill.                                                            *)
WithFill(order, qty) ==
  [order EXCEPT !.filled = @ + qty,
                !.state = IF order.filled + qty >= OrderQty
                          THEN "FILLED" ELSE "PARTIALLY_FILLED"]

(* The orders a sweep touches: open ones for an instrument whose bar the   *)
(* broker has.  caps[s] is 0 for an instrument without a bar.              *)
Touched(orders, caps) ==
  {i \in 1..Len(orders) : IsOpen(orders[i]) /\ caps[orders[i].symbol] > 0}

(* _process_open_orders on the orders given: those in `rejected` meet the  *)
(* simulated exchange's random rejection, the other touched ones a fill.   *)
Swept(orders, caps, rejected) ==
  [i \in 1..Len(orders) |->
     IF i \notin Touched(orders, caps) THEN orders[i]
     ELSE IF i \in rejected THEN [orders[i] EXCEPT !.state = "REJECTED"]
     ELSE WithFill(orders[i], FillSize(orders[i], caps[orders[i].symbol]))]

(* The numbers in S, in ascending order: a set of one sequence.            *)
Ascending(S) ==
  {f \in [1..Cardinality(S) -> S] : \A j, k \in 1..Cardinality(S) : j < k => f[j] < f[k]}

(* ... and the fill events it puts on the queue, in the order of the       *)
(* orders: the one member of this set.                                     *)
Fill(order, qty) ==
  [type |-> "FILL", symbol |-> order.symbol, side |-> order.side, qty |-> qty]

FillsOfWholeOrders(orders, caps, rejected) ==
  {[k \in DOMAIN f |-> Fill(orders[f[k]], OrderQty)] :
     f \in Ascending(Touched(orders, caps) \ rejected)}

Fills(orders, caps, rejected) ==
  {[k \in DOMAIN f |->
      LET order == orders[f[k]] IN Fill(order, FillSize(order, caps[order.symbol]))] :
     f \in Ascending(Touched(orders, caps) \ rejected)}
=============================================================================
