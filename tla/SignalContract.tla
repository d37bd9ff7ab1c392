--------------------------- MODULE SignalContract ---------------------------
(***************************************************************************)
(* What the backtest and the live engine rely on a strategy for: at most   *)
(* one signal per bar, and the direction of a signal fits what the         *)
(* strategy itself believes it holds (its _position), which only its own   *)
(* signals change.  Backtest's Signals and LiveTrading's Signals are the   *)
(* values of `Permitted' with their sizes; Strategies shows that the seven *)
(* strategies keep to it.                                                  *)
(***************************************************************************)
VARIABLES
  mayShort,  \* whether the strategy ever sells short; it never changes
  belief,    \* its _position, NONE for None
  signal     \* the direction of the last bar's signal, or none

(* The belief a signal leaves, and the signals a belief permits.           *)
BeliefAfter(direction) == IF direction = "EXIT" THEN "NONE" ELSE direction

Permitted(b) ==
  (IF b # "LONG" THEN {"LONG"} ELSE {})
  \cup (IF mayShort /\ b = "NONE" THEN {"SHORT"} ELSE {})
  \cup (IF b # "NONE" THEN {"EXIT"} ELSE {})

Init == mayShort \in BOOLEAN /\ belief = "NONE" /\ signal = "none"

Quiet == signal' = "none" /\ UNCHANGED belief

Emit == \E direction \in Permitted(belief) :
          signal' = direction /\ belief' = BeliefAfter(direction)

Next == (Quiet \/ Emit) /\ UNCHANGED mayShort

Spec == Init /\ [][Next]_<<mayShort, belief, signal>>
=============================================================================
