----------------------------- MODULE Strategies -----------------------------
(***************************************************************************)
(* The strategies of aqc/strategies/: BaseStrategy's buffer of bars and    *)
(* warm-up (base_strategy.py), the three of sample_strategy.py and the     *)
(* four of strategies/intraday/.  One instance trades one instrument here: *)
(* a strategy keeps its state per symbol and never mixes two.              *)
(*                                                                         *)
(* The readings that a short window of closes determines (the z-score, the *)
(* two moving averages) are computed from the closes, in integers; those   *)
(* that depend on the high, the low, the volume or the whole buffer may    *)
(* have any of a few values on either side of their thresholds.            *)
(***************************************************************************)
EXTENDS Integers, Sequences, FiniteSetsExt, SequencesExt

CONSTANTS
  Kinds,         \* the strategies to be run
  Prices,        \* closing prices
  Window,        \* the windows of the four intraday strategies, rsi_period, and
                 \* the slow (long) period of the crossover strategies
  VolLookback,   \* ZScoreReversionStrategy.vol_lookback
  MaxHolding,    \* max_holding_bars, 0 for no limit
  StopPct,       \* stop_loss_pct, in percent
  EntryZ,        \* entry threshold of the VWAP z-score, in percent
  ExitZs,        \* exit thresholds of the z-scores, in percent
  EntryZs        \* what adaptive_threshold may return, in percent

Intraday == {"vwap", "zscore", "volume", "composite"}
Sample == {"sma", "rsi", "ema"}

ASSUME StrategiesAssumption ==
  /\ Kinds \subseteq Intraday \cup Sample
  /\ Prices \subseteq Nat \ {0}
  /\ Window \in Nat \ {0, 1} /\ VolLookback \in Nat \ {0} /\ MaxHolding \in Nat
  /\ StopPct \in 0..100 /\ EntryZ \in Nat /\ ExitZs \subseteq Nat /\ EntryZs \subseteq Nat

VARIABLES
  kind,      \* the strategy's class
  exit_z,    \* its exit threshold
  seen,      \* bars in the buffer, counted up to the warm-up
  closes,    \* the last closes of the buffer, at most Window + 1
  position,  \* _position: NONE for None
  entry,     \* _entry_price
  held,      \* _bars_held
  signal,    \* the direction of the signal this bar emitted, or none
  \* history:
  age        \* the bars since the entry, counted to one beyond max_holding_bars

vars == <<kind, exit_z, seen, closes, position, entry, held, signal, age>>

LastOf(s, n) == SubSeq(s, Len(s) - n + 1, Len(s))

----------------------------------------------------------------------------
(* The length of the buffer and the bars a strategy waits for.  A strategy *)
(* whose buffer is shorter than its warm-up is never asked for a signal.   *)
Lookback(k) ==
  CASE k = "vwap" -> Max({Window * 3, 100})
    [] k = "zscore" -> Max({VolLookback * 2, Window * 4})
    [] k = "volume" -> Window * 3
    [] k = "composite" -> Window * 4
    [] k = "rsi" -> Window * 3
    [] OTHER -> Window + 10

MinBars(k) ==
  CASE k = "zscore" -> VolLookback + 5
    [] k \in {"vwap", "volume"} -> Window + 5
    [] k = "composite" -> Window + 10
    [] k = "sma" -> Window + 1
    [] k = "rsi" -> Window * 2
    [] k = "ema" -> Window + 2

(* sma over the last n closes up to the one `back' before the last, times  *)
(* n.                                                                      *)
Total(s) == FoldSeq(+, 0, s)
SmaSum(s, n, back) == Total(LastOf(SubSeq(s, 1, Len(s) - back), n))

(* compute_zscore at the last bar: NaN where the window is not full or its *)
(* standard deviation is 0 (replaced by NaN); else compared with a         *)
(* threshold t, in percent, by the squares.                                *)
ZScoreDev(s) == Window * Last(s) - Total(LastOf(s, Window))
ZScoreVar(s) ==
  LET w == LastOf(s, Window)
  IN  Total([i \in 1..Window |-> (Window * w[i] - Total(w)) * (Window * w[i] - Total(w))])
ZScoreUndefined(s) == Len(s) < Window \/ ZScoreVar(s) = 0
Beyond(s, t) ==
  10000 * ZScoreDev(s) * ZScoreDev(s) * (Window - 1) > t * t * ZScoreVar(s)

(* A z-score as a strategy sees it: whether there is one, whether it is    *)
(* above or below the entry threshold (up, down), and whether still above  *)
(* or below the exit threshold.                                            *)
ZScoreReading(s, threshold) ==
  [isna |-> ZScoreUndefined(s),
   up |-> ZScoreDev(s) > 0 /\ Beyond(s, threshold),
   down |-> ZScoreDev(s) < 0 /\ Beyond(s, threshold),
   above |-> ZScoreDev(s) > 0 /\ Beyond(s, exit_z),
   below |-> ZScoreDev(s) < 0 /\ Beyond(s, exit_z)]

VwapScores == {0, exit_z, -exit_z, EntryZ, -EntryZ, EntryZ + 1, -EntryZ - 1}

(* compute_vwap_zscore depends on the volumes and typical prices of the    *)
(* whole buffer: any score z, in percent, may come with any close, and     *)
(* NaN, where the deviation has not changed over the window or no volume   *)
(* has been traded.                                                        *)
VwapReadings ==
  [isna : {TRUE}, up : {FALSE}, down : {FALSE}, above : {FALSE}, below : {FALSE}]
  \cup {[isna |-> FALSE, up |-> z > EntryZ, down |-> z < -EntryZ,
         above |-> z > exit_z, below |-> z < -exit_z] : z \in VwapScores}

----------------------------------------------------------------------------
(* What generate_signal does to the strategy, and the bar's signal.        *)
EnterForgetful(direction, price) ==   \* a slip: the belief stays
  /\ entry' = price /\ held' = 0 /\ signal' = direction /\ UNCHANGED position

Enter(direction, price) ==
  /\ position' = direction /\ entry' = price /\ held' = 0
  /\ signal' = direction

Exit ==
  /\ position' = "NONE" /\ entry' = 0 /\ held' = 0
  /\ signal' = "EXIT"

Hold(bars) == held' = bars /\ signal' = "none" /\ UNCHANGED <<position, entry>>

(* The exits all four intraday strategies share, in their order before the *)
(* strategy's own.                                                         *)
TimeUp(bars) == MaxHolding > 0 /\ bars >= MaxHolding
Stopped(price) ==
  \/ position = "LONG" /\ price * 100 <= entry * (100 - StopPct)
  \/ position = "SHORT" /\ price * 100 >= entry * (100 + StopPct)

(* (A slip that the checks must notice; no part of the specification.)     *)
ExitOrHoldInTime(price, own) ==
  IF TimeUp(held + 1) \/ own THEN Exit ELSE Hold(held + 1)

ExitOrHold(price, own) ==
  IF TimeUp(held + 1) \/ Stopped(price) \/ own THEN Exit ELSE Hold(held + 1)

(* VWAPReversionStrategy and ZScoreReversionStrategy: nothing at all       *)
(* happens on a bar whose z-score is NaN.                                  *)
Revert(z, price) ==
  IF z.isna THEN Hold(held)
  ELSE IF position # "NONE"
  THEN ExitOrHold(price, \/ position = "LONG" /\ ~z.below
                         \/ position = "SHORT" /\ ~z.above)
  ELSE IF z.down THEN Enter("LONG", price)
  ELSE IF z.up THEN Enter("SHORT", price)
  ELSE Hold(0)

VwapReversion(price) == \E z \in VwapReadings : Revert(z, price)

ZScoreReversion(price) ==
  \E threshold \in EntryZs : Revert(ZScoreReading(closes', threshold), price)

(* VolumeExhaustionStrategy: a volume spike whose breakout failed,         *)
(* rejected by the wick if require_wick_rejection; the exit is a volume    *)
(* back to normal.                                                         *)
VolumeExhaustion(price) ==
  IF position # "NONE"
  THEN \E normalised \in BOOLEAN : ExitOrHold(price, normalised)
  ELSE \/ Enter("SHORT", price)
       \/ Enter("LONG", price)
       \/ Hold(0)

(* CompositeMeanReversionStrategy: the three scores in [-1, 1], in tenths, *)
(* weighted 0.4, 0.3 and 0.3; an entry wants an alpha beyond 0.3 and two   *)
(* scores agreeing, and the position is left when alpha is back within     *)
(* 0.1.                                                                    *)
Scores == {-10, -2, 0, 2, 10}
Alpha(v) == 4 * v[1] + 3 * v[2] + 3 * v[3]
Bullish(v) == Cardinality({i \in 1..3 : v[i] > 1})
Bearish(v) == Cardinality({i \in 1..3 : v[i] < -1})

CompositeReversion(price) ==
  \E v \in Scores \X Scores \X Scores :
    IF position # "NONE"
    THEN ExitOrHold(price, \/ position = "LONG" /\ Alpha(v) < 10
                           \/ position = "SHORT" /\ Alpha(v) > -10)
    ELSE IF Alpha(v) > 30 /\ Bullish(v) >= 2 THEN Enter("LONG", price)
    ELSE IF Alpha(v) < -30 /\ Bearish(v) >= 2 THEN Enter("SHORT", price)
    ELSE Hold(0)

(* SMACrossoverStrategy with a fast period of one bar less than the slow.  *)
Fast(back) == Window * SmaSum(closes', Window - 1, back)
Slow(back) == (Window - 1) * SmaSum(closes', Window, back)

SMACrossover(price) ==
  IF Fast(1) <= Slow(1) /\ Fast(0) > Slow(0) /\ position # "LONG"
  THEN Enter("LONG", price)
  ELSE IF Fast(1) >= Slow(1) /\ Fast(0) < Slow(0) /\ position = "LONG"
  THEN Exit ELSE Hold(0)

(* RSIMeanReversionStrategy, with allow_short: the RSI of this bar and of  *)
(* the one before are below, between or above the two levels; the RSI is   *)
(* NaN while the buffer holds no loss.                                     *)
Levels == {"oversold", "middle", "overbought", "NaN"}

RSIMeanReversion(price) ==
  \E prev, rsi \in Levels :
    IF rsi = "oversold" /\ prev \in {"middle", "overbought"} /\ position # "LONG"
    THEN Enter("LONG", price)
    ELSE IF rsi = "overbought" /\ position = "LONG" THEN Exit
    ELSE IF rsi = "overbought" /\ prev \in {"oversold", "middle"} /\ position = "NONE"
    THEN Enter("SHORT", price)
    ELSE IF rsi = "oversold" /\ prev \in {"oversold", "NaN"} /\ position = "SHORT" THEN Exit
    ELSE Hold(0)

(* EMAMomentumStrategy: aligned says that the three averages and the price *)
(* are in line upwards and were not a bar ago; crossed that the short one  *)
(* is below the medium one.                                                *)
EMAMomentum(price) ==
  \E reading \in {"aligned", "crossed", "neither"} :
    IF reading = "aligned" /\ position # "LONG" THEN Enter("LONG", price)
    ELSE IF reading = "crossed" /\ position = "LONG" THEN Exit
    ELSE Hold(0)

Generate(price) ==
  \/ kind = "vwap" /\ VwapReversion(price)
  \/ kind = "zscore" /\ ZScoreReversion(price)
  \/ kind = "volume" /\ VolumeExhaustion(price)
  \/ kind = "composite" /\ CompositeReversion(price)
  \/ kind = "sma" /\ SMACrossover(price)
  \/ kind = "rsi" /\ RSIMeanReversion(price)
  \/ kind = "ema" /\ EMAMomentum(price)

----------------------------------------------------------------------------
Init ==
  /\ kind \in Kinds /\ exit_z \in ExitZs
  /\ seen = 0 /\ closes = <<>>
  /\ position = "NONE" /\ entry = 0 /\ held = 0
  /\ signal = "none" /\ age = 0

(* The bars the buffer can show: one that is never full enough stays so.   *)
Shown == Min({seen + 1, Lookback(kind), MinBars(kind)})

(* on_market_event: the bar is buffered, and the strategy is asked for a   *)
(* signal once the buffer holds enough.                                    *)
OnMarketEvent(price) ==
  /\ closes' = LastOf(Append(closes, price), Min({Len(closes) + 1, Window + 1}))
  /\ seen' = Shown
  /\ IF Shown < MinBars(kind) THEN Hold(held) ELSE Generate(price)
  /\ age' = IF position' = "NONE" \/ position' # position THEN 0
             ELSE Min({age + 1, MaxHolding + 1})
  /\ UNCHANGED <<kind, exit_z>>

Next == \E price \in Prices : OnMarketEvent(price)

Spec == Init /\ [][Next]_vars

----------------------------------------------------------------------------
(* The seven strategies give the signals the engines are modelled for:     *)
(* what SignalContract permits, changing their belief only as it says.     *)
Contract == INSTANCE SignalContract WITH mayShort <- kind \notin {"sma", "ema"},
                                         belief <- position
ContractKept == Contract!Spec

(* The stop-loss holds at the end of every bar: whatever the strategy was  *)
(* shown, it is not left in a position whose stop the close has reached.   *)
(* For the z-score strategy that takes an argument: a bar without a        *)
(* z-score is not looked at at all, but then the close has not moved since *)
(* the bar before.                                                         *)
StopLossHonoured == kind \in {"zscore", "volume", "composite"} => ~Stopped(Last(closes))

(* No position of the volume and composite strategies outlives             *)
(* max_holding_bars; nor does one of the z-score strategy if none of its   *)
(* thresholds is below 1 / sqrt(z_window), as in every default and         *)
(* example.  Before a window can have become flat, with no z-score and so  *)
(* without the bar being counted, all its closes but one are equal: the    *)
(* z-score is 1 / sqrt(z_window) then, which opens no position and ends    *)
(* the one there is.                                                       *)
Attainable(threshold) == threshold * threshold * Window >= 10000

CountsEveryBar ==
  \/ kind \in {"volume", "composite"}
  \/ /\ kind = "zscore" /\ Attainable(exit_z)
     /\ \A threshold \in EntryZs : Attainable(threshold)

TimeExit ==
  CountsEveryBar /\ MaxHolding > 0 /\ position # "NONE" => age < MaxHolding

(* No bar leaves a position whose stop-loss it has reached, nor one that   *)
(* has lasted max_holding_bars.                                            *)
ExitsHonoured == StopLossHonoured /\ TimeExit
=============================================================================
