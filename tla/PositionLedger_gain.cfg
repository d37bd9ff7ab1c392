\* The fourth fill reduces a position of at most 6 units, and 60 is a multiple of
\* 1 to 6: every average cost is whole.
CONSTANTS
  Prices = {60, 120, 180}
  Quantities = {1, 2}
  Commissions = {0, 1}
  MaxFills = 4
SPECIFICATION Spec
INVARIANTS
  TotalPnlIsGain
