------------------------------ MODULE Position ------------------------------
(***************************************************************************)
(* The book-keeping of one instrument: Position.mark_to_market and         *)
(* Position.apply_fill of aqc/backtester/portfolio.py.                     *)
(*                                                                         *)
(* Money and quantities are integers.  A position is kept with its signed  *)
(* cost, quantity * avg_cost, in place of avg_cost: it determines avg_cost *)
(* for a position that is not flat, and every amount the code computes     *)
(* from avg_cost is linear in it.  Only a fill that closes part of a       *)
(* position divides; a model-checked instance takes its prices from the    *)
(* multiples of a number that every quantity it reaches divides, and the   *)
(* division is exact.                                                      *)
(***************************************************************************)
EXTENDS Integers

Position == [quantity : Int, cost : Int, realised : Int, last : Int]

Flat == [quantity |-> 0, cost |-> 0, realised |-> 0, last |-> 0]

IsFlat(pos) == pos.quantity = 0

MagnitudeOf(n) == IF n < 0 THEN -n ELSE n

(* BUY adds to the signed quantity, SELL takes from it.                    *)
Sides == {"BUY", "SELL"}
Signed(side, qty) == IF side = "BUY" THEN qty ELSE -qty

(* market_value, unrealised_pnl and total_pnl.  The code stores the second *)
(* whenever the price, the quantity or the cost changes.                   *)
MarketValue(pos) == pos.quantity * pos.last
Unrealised(pos) == MarketValue(pos) - pos.cost
TotalPnl(pos) == pos.realised + Unrealised(pos)

MarkToMarket(pos, price) == [pos EXCEPT !.last = price]

SameDirection(m, n) == (m > 0 /\ n > 0) \/ (m < 0 /\ n < 0)

(* The part of the position that a fill in the other direction closes,     *)
(* with the position's sign: min(|fill|, |position|).                      *)
Closed(held, signed) ==
  IF MagnitudeOf(signed) < MagnitudeOf(held) THEN -signed ELSE held

(* The cost of a part of the position, at the position's average cost.     *)
CostOf(pos, part) ==
  IF part = pos.quantity THEN pos.cost
  ELSE (pos.cost * MagnitudeOf(part)) \div MagnitudeOf(pos.quantity)

(* apply_fill.  Whatever part of the position the fill leaves, or opens on *)
(* the other side, is kept at the fill price.  (The definition before it   *)
(* is a slip the checks must notice and is used nowhere: a fill that       *)
(* realises PnL on more units than are held.)                              *)
ApplyFillOvercloses(pos, side, qty, price) ==
  LET signed == Signed(side, qty)
      after  == pos.quantity + signed
  IN  IF IsFlat(pos) \/ SameDirection(pos.quantity, signed)
      THEN [pos EXCEPT !.quantity = after, !.cost = @ + signed * price, !.last = price]
      ELSE [pos EXCEPT !.realised = @ - signed * price - CostOf(pos, -signed),
                       !.quantity = after, !.cost = after * price, !.last = price]

ApplyFill(pos, side, qty, price) ==
  LET signed == Signed(side, qty)
      after  == pos.quantity + signed
      closed == Closed(pos.quantity, signed)
  IN  IF IsFlat(pos)
      THEN [pos EXCEPT !.quantity = signed, !.cost = signed * price, !.last = price]
      ELSE IF SameDirection(pos.quantity, signed)
      THEN [pos EXCEPT !.quantity = after, !.cost = @ + signed * price, !.last = price]
      ELSE [pos EXCEPT !.realised = @ + closed * price - CostOf(pos, closed),
                       !.quantity = after, !.cost = after * price, !.last = price]

(* A fill that closes a part of the position only.                         *)
Reduces(pos, side, qty) ==
  /\ ~IsFlat(pos) /\ ~SameDirection(pos.quantity, Signed(side, qty))
  /\ qty < MagnitudeOf(pos.quantity)

(* A fill after which the books still add up: one that reduces a position  *)
(* restates the cost of the rest at the fill price, which is harmless only *)
(* at the average cost.                                                    *)
KeepsBooks(pos, side, qty, price) ==
  Reduces(pos, side, qty) => pos.cost = pos.quantity * price
=============================================================================
