---------------------------- MODULE MCWalkForward ----------------------------
(* An instance of WalkForward for TLC.                                      *)
EXTENDS WalkForward

OneSymbol == [s |-> 1..4]
TwoBars == {[unit |-> "bars", n |-> 2]}
OneParameter == {<<[name |-> "period", kind |-> "int", low |-> 5, high |-> 10, step |-> 5]>>}
Drawdowns == {-20, -10}
=============================================================================
