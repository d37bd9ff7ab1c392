--------------------------- MODULE PositionLedger ---------------------------
(***************************************************************************)
(* One instrument's position and the cash it was traded for: the part of   *)
(* Portfolio.on_fill_event and on_market_event (aqc/backtester/portfolio.py)*)
(* that keeps books, under any sequence of bars and fills.                 *)
(***************************************************************************)
EXTENDS Position

CONSTANTS Prices,       \* the prices a bar or a fill can have
          Quantities,   \* the quantities a fill can have; FillEvent's are positive
          Commissions,  \* the commissions a fill can be charged
          MaxFills      \* bound on the number of fills

ASSUME LedgerAssumption == /\ Prices \subseteq Int /\ Commissions \subseteq Int
                           /\ Quantities \subseteq Nat \ {0}
                           /\ MaxFills \in Nat

VARIABLES pos,         \* positions[symbol]
          cash,        \* Portfolio.cash, counted from the initial capital
          commission,  \* _total_commission
          fills,       \* len(trade_log)
          \* history:
          kept         \* every fill so far was one that KeepsBooks

vars == <<pos, cash, commission, fills, kept>>

Init == pos = Flat /\ cash = 0 /\ commission = 0 /\ fills = 0 /\ kept = TRUE

(* on_market_event marks the position.                                     *)
OnMarket == \E price \in Prices :
              /\ pos' = MarkToMarket(pos, price)
              /\ UNCHANGED <<cash, commission, fills, kept>>

(* on_fill_event.                                                          *)
Fill(side, qty, price, fee) ==
  /\ fills < MaxFills
  /\ fills' = fills + 1
  /\ pos' = ApplyFill(pos, side, qty, price)
  /\ cash' = cash - Signed(side, qty) * price - fee
  /\ commission' = commission + fee
  /\ kept' = (kept /\ KeepsBooks(pos, side, qty, price))

OnFill == \E side \in Sides, qty \in Quantities, price \in Prices, fee \in Commissions :
            Fill(side, qty, price, fee)

Next == OnMarket \/ OnFill

Spec == Init /\ [][Next]_vars

(* The amounts stay whole, and no more fills are booked than the bound.    *)
TypeOK == /\ pos \in Position /\ cash \in Int /\ commission \in Int
          /\ fills \in 0..MaxFills /\ kept \in BOOLEAN

(* Equity, cash and the market value, is the initial capital plus the      *)
(* total PnL reported less the commissions paid, through openings,         *)
(* additions, closings and reversals at any prices -- as long as no fill   *)
(* reduced a position away from its average cost.                          *)
BooksAgree == kept => cash + MarketValue(pos) = TotalPnl(pos) - commission

(* What the docstrings promise, and what BooksAgree needs `kept` for:      *)
(* apply_fill "uses an average-cost accounting model", "Reducing / Closing:*)
(* realise PnL proportional to shares closed", and total_pnl is realised   *)
(* and unrealised PnL together, so it is what the account has gained.      *)
TotalPnlIsGain == cash + MarketValue(pos) = TotalPnl(pos) - commission

=============================================================================
