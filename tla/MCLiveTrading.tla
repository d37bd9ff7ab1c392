--------------------------- MODULE MCLiveTrading ---------------------------
(* Instances of LiveTrading for TLC: a bar whose cap is below an order's   *)
(* size, and one whose cap is not.                                         *)
EXTENDS LiveTrading, TLC

CONSTANTS a, b

Bar(s, c) == [symbol |-> s, cap |-> c]

TwoInstants == <<<<Bar(a, 2)>>, <<Bar(b, 3)>>>>
=============================================================================
