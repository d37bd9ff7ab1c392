---------------------------- MODULE RiskManager ----------------------------
(***************************************************************************)
(* The checks of RiskManager.validate_order (aqc/risk/risk_manager.py), as *)
(* conditions on an order and on the figures they read from the portfolio. *)
(* The code evaluates all of them and reports the first that fails; only   *)
(* whether one fails matters here.  Percentages are whole.                 *)
(***************************************************************************)
EXTENDS Integers

CONSTANTS MaxPositionSize,   \* max_position_size, in units
          MaxPositionPct,    \* max_position_pct_equity
          MaxGrossPct,       \* max_gross_exposure_pct
          MaxDailyLossPct,   \* max_daily_loss_pct
          MaxOpenPositions,  \* max_open_positions
          OneDollar          \* 1.0 in the model's unit of money

ASSUME RiskAssumption == MaxOpenPositions \in Nat

(* The price an order is valued at: the last one its position was marked   *)
(* at, and 1.0 for an instrument that has no position yet.                 *)
ReferencePrice(last) == IF last > 0 THEN last ELSE OneDollar

PositionSizeOK(qty) == qty <= MaxPositionSize

PositionPctOK(qty, last, equity) ==
  equity > 0 => qty * ReferencePrice(last) * 100 <= MaxPositionPct * equity

(* The order counts as additional exposure whichever side it is on.        *)
GrossExposureOK(qty, last, gross, equity) ==
  equity > 0 => (gross + qty * ReferencePrice(last)) * 100 <= MaxGrossPct * equity

DailyLossOK(start_equity, equity) ==
  (start_equity - equity) * 100 <= MaxDailyLossPct * start_equity

(* An order for a position that is open is always allowed.  (The first     *)
(* definition is a slip the checks must notice; it is used nowhere.)       *)
MaxPositionsInclusive(flat, num_open) == flat => num_open <= MaxOpenPositions
MaxPositionsOK(flat, num_open) == flat => num_open < MaxOpenPositions
=============================================================================
