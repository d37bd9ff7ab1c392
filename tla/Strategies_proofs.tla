-------------------------- MODULE Strategies_proofs --------------------------
(***************************************************************************)
(* The strategies implement SignalContract, for any prices, windows and    *)
(* thresholds: the engines, which are modelled over every signal the       *)
(* contract permits, are never sent another one.  And the three            *)
(* strategies whose exits can be promised keep the promise: ExitInv is the *)
(* inductive invariant, and what it rests on is what a flat, or nearly     *)
(* flat, window does to a z-score.  The order book the microstructure      *)
(* strategies trade on reads alike from either side of the market          *)
(* (Orderbook).                                                            *)
(***************************************************************************)
EXTENDS Strategies, Orderbook, SumTheorems, SequenceTheorems

MayShort == kind \notin {"sma", "ema"}
Known == kind \in Intraday \cup Sample

(* What a bar of a strategy may do, in the terms of the contract.          *)
Kept == Contract!Next \/ UNCHANGED <<kind, position, signal>>

LEMMA HoldIsQuiet ==
  ASSUME NEW bars, Hold(bars), kind' = kind
  PROVE  Kept
BY DEF Hold, Kept, Contract!Next, Contract!Quiet

LEMMA ExitIsPermitted ==
  ASSUME Exit, position # "NONE", kind' = kind
  PROVE  Kept
BY DEF Exit, Kept, Contract!Next, Contract!Emit, Contract!Permitted, Contract!BeliefAfter

LEMMA LongIsPermitted ==
  ASSUME NEW price, Enter("LONG", price), position # "LONG", kind' = kind
  PROVE  Kept
BY DEF Enter, Kept, Contract!Next, Contract!Emit, Contract!Permitted, Contract!BeliefAfter

LEMMA ShortIsPermitted ==
  ASSUME NEW price, Enter("SHORT", price), position = "NONE", MayShort, kind' = kind
  PROVE  Kept
BY DEF Enter, MayShort, Kept, Contract!Next, Contract!Emit, Contract!Permitted,
       Contract!BeliefAfter

(* The exits the intraday strategies share are only asked for while there  *)
(* is a position.                                                          *)
LEMMA ExitOrHoldIsPermitted ==
  ASSUME NEW price, NEW own, ExitOrHold(price, own), position # "NONE", kind' = kind
  PROVE  Kept
BY HoldIsQuiet, ExitIsPermitted DEF ExitOrHold

LEMMA RevertIsPermitted ==
  ASSUME NEW z, NEW price, Revert(z, price), MayShort, kind' = kind
  PROVE  Kept
<1>1. CASE z.isna
  BY <1>1, HoldIsQuiet DEF Revert
<1>2. CASE ~z.isna /\ position # "NONE"
  BY <1>2, ExitOrHoldIsPermitted DEF Revert
<1>3. CASE ~z.isna /\ position = "NONE"
  BY <1>3, LongIsPermitted, ShortIsPermitted, HoldIsQuiet DEF Revert
<1> QED BY <1>1, <1>2, <1>3

LEMMA GenerateIsPermitted ==
  ASSUME NEW price, Known, Generate(price), kind' = kind
  PROVE  Kept
<1>1. CASE kind = "vwap"
  BY <1>1, RevertIsPermitted DEF Generate, VwapReversion, MayShort
<1>2. CASE kind = "zscore"
  BY <1>2, RevertIsPermitted DEF Generate, ZScoreReversion, MayShort
<1>3. CASE kind = "volume"
  <2>1. CASE position # "NONE"
    BY <1>3, <2>1, ExitOrHoldIsPermitted DEF Generate, VolumeExhaustion
  <2>2. CASE position = "NONE"
    BY <1>3, <2>2, LongIsPermitted, ShortIsPermitted, HoldIsQuiet
       DEF Generate, VolumeExhaustion, MayShort
  <2> QED BY <2>1, <2>2
<1>4. CASE kind = "composite"
  <2>1. CASE position # "NONE"
    BY <1>4, <2>1, ExitOrHoldIsPermitted DEF Generate, CompositeReversion
  <2>2. CASE position = "NONE"
    BY <1>4, <2>2, LongIsPermitted, ShortIsPermitted, HoldIsQuiet
       DEF Generate, CompositeReversion, MayShort
  <2> QED BY <2>1, <2>2
<1>5. CASE kind = "sma"
  BY <1>5, LongIsPermitted, ExitIsPermitted, HoldIsQuiet DEF Generate, SMACrossover
<1>6. CASE kind = "rsi"
  BY <1>6, LongIsPermitted, ShortIsPermitted, ExitIsPermitted, HoldIsQuiet
     DEF Generate, RSIMeanReversion, MayShort
<1>7. CASE kind = "ema"
  BY <1>7, LongIsPermitted, ExitIsPermitted, HoldIsQuiet DEF Generate, EMAMomentum
<1> QED BY <1>1, <1>2, <1>3, <1>4, <1>5, <1>6, <1>7 DEF Known, Intraday, Sample

(* A bar either comes before the warm-up is over, and signals nothing, or  *)
(* is handed to the strategy.                                              *)
LEMMA StepIsPermitted ==
  ASSUME Known, [Next]_vars
  PROVE  Kept
<1>1. CASE Next
  <2> PICK price \in Prices : OnMarketEvent(price)
    BY <1>1 DEF Next
  <2>1. kind' = kind
    BY DEF OnMarketEvent
  <2>2. CASE Shown < MinBars(kind)
    BY <2>1, <2>2, HoldIsQuiet DEF OnMarketEvent
  <2>3. CASE ~(Shown < MinBars(kind))
    BY <2>1, <2>3, GenerateIsPermitted DEF OnMarketEvent
  <2> QED BY <2>2, <2>3
<1>2. CASE UNCHANGED vars
  BY <1>2 DEF vars, Kept
<1> QED BY <1>1, <1>2

(* The seven strategies, over any bars, only ever emit the signals         *)
(* SignalContract permits for what they believe they hold, and change that *)
(* belief only as it says: what the engines may rely on.                   *)
THEOREM ContractCorrect == Spec => ContractKept
<1>1. Init => Contract!Init
  BY DEF Init, Contract!Init
<1>2. Init => Known
  BY StrategiesAssumption DEF Init, Known
<1>3. Known /\ [Next]_vars => Known'
  BY DEF Known, Next, OnMarketEvent, vars
<1>4. Known /\ [Next]_vars => [Contract!Next]_<<kind \notin {"sma", "ema"}, position, signal>>
  BY StepIsPermitted DEF Kept
<1> QED BY <1>1, <1>2, <1>3, <1>4, PTL DEF Spec, ContractKept, Contract!Spec

----------------------------------------------------------------------------
(* The buffer and the z-score's window over it.                            *)
LEMMA LeastOfTwo ==
  ASSUME NEW x \in Int, NEW y \in Int
  PROVE  Min({x, y}) = IF x <= y THEN x ELSE y
  BY DEF Min

LEMMA LeastOfThree ==
  ASSUME NEW x \in Int, NEW y \in Int, NEW z \in Int
  PROVE  /\ Min({x, y, z}) \in {x, y, z}
         /\ Min({x, y, z}) <= x /\ Min({x, y, z}) <= y /\ Min({x, y, z}) <= z
  <1>1. \E m \in {x, y, z} : \A n \in {x, y, z} : m <= n
    <2>1. CASE x <= y /\ x <= z BY <2>1
    <2>2. CASE y <= x /\ y <= z BY <2>2
    <2>3. CASE z <= x /\ z <= y BY <2>3
    <2> QED BY <2>1, <2>2, <2>3
  <1> QED BY <1>1 DEF Min

LEMMA LastOfFacts ==
  ASSUME NEW S, NEW s \in Seq(S), NEW n \in Nat, n <= Len(s)
  PROVE  /\ LastOf(s, n) \in Seq(S) /\ Len(LastOf(s, n)) = n
         /\ \A i \in 1..n : LastOf(s, n)[i] = s[Len(s) - n + i]
  <1> DEFINE m == Len(s) - n + 1
             L == Len(s)
  <1>1. L \in Nat /\ m \in Int /\ L - m + 1 = n OBVIOUS
  <1>2. \A i \in m..L : s[i] \in S
    <2>1. \A i \in 1..L : s[i] \in S OBVIOUS
    <2>2. m..L \subseteq 1..L OBVIOUS
    <2> QED BY <2>1, <2>2
  <1>3. LastOf(s, n) = SubSeq(s, m, L) BY DEF LastOf
  <1>4. n = IF m <= L THEN L - m + 1 ELSE 0 OBVIOUS
  <1>5. \A i \in 1..n : m + i - 1 = L - n + i OBVIOUS
  <1> HIDE DEF m, L
  <1>6. /\ SubSeq(s, m, L) \in Seq(S)
        /\ Len(SubSeq(s, m, L)) = IF m <= L THEN L - m + 1 ELSE 0
        /\ \A i \in 1..(L - m + 1) : SubSeq(s, m, L)[i] = s[m + i - 1]
    BY <1>1, <1>2, SubSeqProperties
  <1> QED BY <1>1, <1>3, <1>4, <1>5, <1>6 DEF L

(* The buffer after a bar: the bar's close at its end, before it what the  *)
(* buffer ended in.                                                        *)
Buffered(price) == LastOf(Append(closes, price), Min({Len(closes) + 1, Window + 1}))

LEMMA BufferedFacts ==
  ASSUME closes \in Seq(Prices), Len(closes) <= Window + 1, NEW price \in Prices
  PROVE  LET after == Buffered(price)
             L == Len(closes)
             M == Len(after)
         IN  /\ after \in Seq(Prices)
             /\ M = IF L <= Window THEN L + 1 ELSE Window + 1
             /\ after[M] = price
             /\ \A i \in 1..(M - 1) : after[i] = closes[L + 1 - M + i]
  <1> DEFINE L == Len(closes)
             n == IF L <= Window THEN L + 1 ELSE Window + 1
             s == Append(closes, price)
  <1>1. /\ L \in Nat /\ Window \in Nat /\ n \in Nat /\ n <= L + 1 /\ n > 0
        /\ L <= Window + 1
    BY StrategiesAssumption
  <1>2. /\ s \in Seq(Prices) /\ Len(s) = L + 1 /\ s[L + 1] = price
        /\ \A i \in 1..L : s[i] = closes[i]
    OBVIOUS
  <1>3. Min({Len(closes) + 1, Window + 1}) = n
    <2>1. Min({L + 1, Window + 1}) = IF L + 1 <= Window + 1 THEN L + 1 ELSE Window + 1
      BY <1>1, LeastOfTwo
    <2> QED BY <1>1, <2>1
  <1>4. Buffered(price) = LastOf(s, n) BY <1>3 DEF Buffered
  <1> HIDE DEF s, n, L
  <1>9. s \in Seq(Prices) /\ n \in Nat /\ n <= Len(s) BY <1>1, <1>2
  <1>5. LastOf(s, n) \in Seq(Prices) /\ Len(LastOf(s, n)) = n
    BY <1>9, LastOfFacts
  <1>6. \A i \in 1..n : LastOf(s, n)[i] = s[Len(s) - n + i]
    BY <1>9, LastOfFacts, Zenon
  <1>7. LastOf(s, n)[n] = price
    <2>1. n \in 1..n /\ Len(s) - n + n = L + 1 BY <1>1, <1>2
    <2> QED BY <1>2, <1>6, <2>1
  <1>8. \A i \in 1..(n - 1) : LastOf(s, n)[i] = closes[L + 1 - n + i]
    <2> SUFFICES ASSUME NEW i \in 1..(n - 1)
                 PROVE  LastOf(s, n)[i] = closes[L + 1 - n + i]
      OBVIOUS
    <2>1. i \in 1..n /\ L + 1 - n + i \in 1..L BY <1>1
    <2>2. LastOf(s, n)[i] = s[Len(s) - n + i] BY <1>6, <2>1
    <2>3. Len(s) - n + i = L + 1 - n + i BY <1>1, <1>2
    <2> QED BY <1>2, <2>1, <2>2, <2>3
  <1> QED BY <1>4, <1>5, <1>7, <1>8 DEF n, L

LEMMA TotalIsSum == ASSUME NEW s PROVE Total(s) = SumFunction(s)
  BY Zenon DEF Total, FoldSeq, FoldFunction, SumFunction, SumFunctionOnSet

Squares(w) ==
  [i \in 1..Window |-> (Window * w[i] - Total(w)) * (Window * w[i] - Total(w))]

LEMMA WindowFacts ==
  ASSUME NEW s \in Seq(Prices), Len(s) >= Window
  PROVE  LET w == LastOf(s, Window)
         IN  /\ w \in Amounts(1..Window) /\ Total(w) \in Int
             /\ Squares(w) \in Amounts(1..Window)
             /\ \A i \in 1..Window : w[i] = s[Len(s) - Window + i] /\ w[i] \in Int
             /\ ZScoreVar(s) = SumFunction(Squares(w))
             /\ ZScoreDev(s) = Window * w[Window] - Total(w)
             /\ IsFiniteSet(1..Window)
  <1> DEFINE w == LastOf(s, Window)
  <1>1. Window \in Nat /\ Window >= 2 /\ Prices \subseteq Int /\ Len(s) \in Nat
    BY StrategiesAssumption
  <1>2. /\ w \in Seq(Prices) /\ Len(w) = Window
        /\ \A i \in 1..Window : w[i] = s[Len(s) - Window + i]
    BY <1>1, LastOfFacts
  <1>3. IsFiniteSet(1..Window) BY <1>1, FS_Interval
  <1>4. w \in Amounts(1..Window)
    <2>1. \A v \in Seq(Prices) : v \in [1..Len(v) -> Prices] OBVIOUS
    <2> HIDE DEF w
    <2>2. w \in [1..Window -> Prices] BY <1>2, <2>1, Zenon
    <2> QED BY <1>1, <2>2 DEF Amounts
  <1> HIDE DEF w
  <1>5. Total(w) \in Int BY <1>3, <1>4, SumType, TotalIsSum
  <1>6. \A i \in 1..Window : w[i] \in Int BY <1>4 DEF Amounts
  <1>7. Squares(w) \in Amounts(1..Window)
    BY <1>1, <1>5, <1>6 DEF Squares, Amounts
  <1>8. ZScoreVar(s) = SumFunction(Squares(w))
    BY TotalIsSum DEF ZScoreVar, Squares, w
  <1>9. s[Len(s)] = w[Window]
    <2>1. Window \in 1..Window /\ Len(s) - Window + Window = Len(s) BY <1>1
    <2> QED BY <1>2, <2>1
  <1>10. ZScoreDev(s) = Window * w[Window] - Total(w)
    BY <1>9 DEF ZScoreDev, Last, w
  <1> QED BY <1>2, <1>3, <1>4, <1>5, <1>6, <1>7, <1>8, <1>10 DEF w

LEMMA SquareFacts ==
  ASSUME NEW x \in Int
  PROVE  x * x >= 0 /\ (x * x = 0 => x = 0)
  OBVIOUS

(* A window without a z-score is flat.                                     *)
LEMMA FlatWindow ==
  ASSUME NEW s \in Seq(Prices), Len(s) >= Window, ZScoreVar(s) = 0
  PROVE  \A i, j \in 1..Window : s[Len(s) - Window + i] = s[Len(s) - Window + j]
  <1> DEFINE w == LastOf(s, Window)
             dev(i) == Window * w[i] - Total(w)
  <1>1. /\ Total(w) \in Int /\ Squares(w) \in Amounts(1..Window)
        /\ IsFiniteSet(1..Window) /\ SumFunction(Squares(w)) = 0
        /\ \A i \in 1..Window : w[i] = s[Len(s) - Window + i] /\ w[i] \in Int
    BY WindowFacts
  <1>2. Window \in Nat /\ Window >= 2 BY StrategiesAssumption
  <1> HIDE DEF w
  <1>3. \A i \in 1..Window : dev(i) \in Int /\ Squares(w)[i] = dev(i) * dev(i)
    BY <1>1, <1>2 DEF Squares
  <1> HIDE DEF dev
  <1>4. \A i \in 1..Window : Squares(w)[i] >= 0 BY <1>3, SquareFacts
  <1>5. \A i \in 1..Window : Squares(w)[i] = 0 BY <1>1, <1>4, SumOfNothing
  <1>6. \A i \in 1..Window : dev(i) = 0 BY <1>3, <1>5, SquareFacts
  <1>7. \A i, j \in 1..Window : Window * w[i] = Window * w[j]
    BY <1>1, <1>2, <1>6 DEF dev
  <1>8. \A x, y \in Int : Window * x = Window * y => x = y BY <1>2
  <1> QED BY <1>1, <1>7, <1>8

(* A window that is flat but for its oldest close has a z-score no         *)
(* attainable threshold is below.                                          *)
LEMMA NearlyFlatWindow ==
  ASSUME NEW s \in Seq(Prices), Len(s) >= Window, NEW t \in Nat, Attainable(t),
         \A i, j \in 2..Window : s[Len(s) - Window + i] = s[Len(s) - Window + j]
  PROVE  ~Beyond(s, t)
  <1> DEFINE w == LastOf(s, Window)
             x == w[1]
             c == w[Window]
             W == Window
             d == c - x
             e == W - 1
  <1>1. /\ Total(w) \in Int /\ Squares(w) \in Amounts(1..W) /\ w \in Amounts(1..W)
        /\ IsFiniteSet(1..W) /\ ZScoreVar(s) = SumFunction(Squares(w))
        /\ ZScoreDev(s) = W * w[W] - Total(w)
        /\ \A i \in 1..W : w[i] = s[Len(s) - W + i] /\ w[i] \in Int
    BY WindowFacts
  <1>2. W \in Nat /\ W >= 2 /\ e \in Nat /\ e >= 1 /\ W = e + 1 BY StrategiesAssumption
  <1>3. 1 \in 1..W /\ W \in 1..W /\ \A i \in 2..W : i \in 1..W /\ W \in 2..W BY <1>2
  <1>4. x \in Int /\ c \in Int /\ d \in Int /\ \A i \in (1..W) \ {1} : w[i] = c
    <2>1. x \in Int /\ c \in Int /\ d \in Int BY <1>1, <1>3
    <2>2. ASSUME NEW i \in (1..W) \ {1} PROVE w[i] = c
      <3>1. i \in 2..W /\ W \in 2..W BY <1>2
      <3>2. s[Len(s) - W + i] = s[Len(s) - W + W] BY <3>1
      <3>3. w[i] = s[Len(s) - W + i] /\ w[W] = s[Len(s) - W + W] BY <1>1, <1>3, <3>1
      <3> QED BY <3>2, <3>3
    <2> QED BY <2>1, <2>2
  <1> HIDE DEF w, x, c, e, W
  <1>5. Total(w) = W * c - c + x
    <2> DEFINE f == [i \in 1..W |-> c]
    <2>1. f \in Amounts(1..W) /\ \A i \in 1..W : f[i] = c BY <1>4 DEF Amounts
    <2> HIDE DEF f
    <2>2. SumFunction(f) = W * c BY <1>2, <1>4, <2>1, SumConstant
    <2>3. SumFunction(w) = SumFunction(f) - f[1] + w[1]
      <3> DEFINE S == 1..W
      <3>1. \A i \in S \ {1} : w[i] = f[i] BY <1>4, <2>1
      <3>2. IsFiniteSet(S) /\ f \in Amounts(S) /\ w \in Amounts(S) /\ 1 \in S
        BY <1>1, <1>3, <2>1
      <3> HIDE DEF S
      <3> QED BY <3>1, <3>2, SumChange
    <2> QED BY <1>3, <2>1, <2>2, <2>3, TotalIsSum DEF x
  <1>6. ZScoreDev(s) = d BY <1>1, <1>2, <1>4, <1>5 DEF c
  <1>7. \A i \in (1..W) \ {1} : Squares(w)[i] = d * d
    <2>1. W * c - Total(w) = d BY <1>2, <1>4, <1>5
    <2> QED BY <1>4, <2>1 DEF Squares, W
  <1>8. Squares(w)[1] = (e * d) * (e * d)
    <2>1. W * x - Total(w) = -(e * d) BY <1>2, <1>4, <1>5
    <2>2. Squares(w)[1] = (W * x - Total(w)) * (W * x - Total(w))
      BY <1>3 DEF Squares, x, W
    <2>3. e * d \in Int BY <1>2, <1>4
    <2> QED BY <2>1, <2>2, <2>3
  <1>9. ZScoreVar(s) = W * (e * (d * d))
    <2> DEFINE q == d * d
               f == [i \in 1..W |-> q]
    <2>1. q \in Int BY <1>4
    <2>2. f \in Amounts(1..W) /\ \A i \in 1..W : f[i] = q BY <2>1 DEF Amounts
    <2> HIDE DEF f
    <2>3. SumFunction(f) = W * q BY <1>2, <2>1, <2>2, SumConstant
    <2>4. SumFunction(Squares(w)) = SumFunction(f) - f[1] + Squares(w)[1]
      <3> DEFINE S == 1..W
      <3>1. \A i \in S \ {1} : Squares(w)[i] = f[i] BY <1>7, <2>2
      <3>2. IsFiniteSet(S) /\ f \in Amounts(S) /\ Squares(w) \in Amounts(S) /\ 1 \in S
        BY <1>1, <1>3, <2>2
      <3> HIDE DEF S
      <3> QED BY <3>1, <3>2, SumChange
    <2>5. (e * d) * (e * d) = e * (e * q) BY <1>2, <1>4
    <2>6. SumFunction(Squares(w)) = W * q - q + e * (e * q)
      BY <1>3, <1>8, <2>2, <2>3, <2>4, <2>5
    <2> HIDE DEF q
    <2>7. W * q - q = e * q /\ W * (e * q) = e * q + e * (e * q)
      BY <1>2, <2>1
    <2> QED BY <1>1, <2>6, <2>7 DEF q
  <1>10. 10000 * d * d * e <= t * t * ZScoreVar(s)
    <2> DEFINE r == e * (d * d)
    <2>1. r \in Int /\ r >= 0
      <3>1. d * d \in Int /\ d * d >= 0 BY <1>4, SquareFacts
      <3> HIDE DEF d
      <3> QED BY <1>2, <3>1
    <2>2. t * t * W >= 10000 /\ t * t * W \in Int BY <1>2 DEF Attainable, W
    <2>3. 10000 * d * d * e = 10000 * r BY <1>2, <1>4
    <2>4. t * t * (W * r) = (t * t * W) * r BY <1>2, <2>1
    <2> HIDE DEF r
    <2>5. 10000 * r <= (t * t * W) * r
      <3> DEFINE k == t * t * W
      <3>1. k \in Int /\ k >= 10000 BY <2>2
      <3> HIDE DEF k
      <3>2. k * r = 10000 * r + (k - 10000) * r BY <2>1, <3>1
      <3>3. (k - 10000) * r >= 0 BY <2>1, <3>1
      <3>4. (k - 10000) * r \in Int /\ 10000 * r \in Int BY <2>1, <3>1
      <3>5. 10000 * r <= k * r
        <4> DEFINE a == 10000 * r
                   b == (k - 10000) * r
        <4>1. a \in Int /\ b \in Int /\ b >= 0 /\ k * r = a + b BY <3>2, <3>3, <3>4
        <4> HIDE DEF a, b
        <4>2. a <= k * r BY <4>1
        <4> QED BY <4>2 DEF a
      <3> QED BY <3>5 DEF k
    <2> QED BY <1>9, <2>3, <2>4, <2>5 DEF r
  <1>11. 10000 * d * d * e \in Int /\ t * t * ZScoreVar(s) \in Int
    <2>1. 10000 * d * d * e \in Int BY <1>2, <1>4
    <2>2. W * (e * (d * d)) \in Int BY <1>2, <1>4
    <2> HIDE DEF d
    <2> QED BY <1>9, <2>1, <2>2
  <1>12. Beyond(s, t) <=> 10000 * d * d * e > t * t * ZScoreVar(s)
    BY <1>6 DEF Beyond, e, W
  <1> DEFINE p == 10000 * d * d * e
             q == t * t * ZScoreVar(s)
  <1>13. p \in Int /\ q \in Int /\ p <= q /\ (Beyond(s, t) <=> p > q)
    BY <1>10, <1>11, <1>12
  <1> HIDE DEF p, q
  <1> QED BY <1>13

----------------------------------------------------------------------------
(* The exits.  The strategies of which ExitsHonoured speaks, and what a    *)
(* bar they are asked about may do: they see nothing, stay without a       *)
(* position, enter one, leave it, or keep it for another bar.              *)
Exiting == {"zscore", "volume", "composite"}

Blind == kind = "zscore" /\ ZScoreUndefined(closes') /\ Hold(held)
Idle == position = "NONE" /\ Hold(0)
Entered(price) == position = "NONE" /\ \E direction \in {"LONG", "SHORT"} : Enter(direction, price)
Stayed(price) ==
  position # "NONE" /\ Hold(held + 1) /\ ~TimeUp(held + 1) /\ ~Stopped(price)

(* The z-score strategy is only in a position when the window was full and *)
(* the score beyond a threshold.                                           *)
Scored ==
  kind = "zscore" =>
    /\ Len(closes') >= Window
    /\ CountsEveryBar => \E t \in Nat : Attainable(t) /\ Beyond(closes', t)

LEMMA ExitOrHoldDecides ==
  ASSUME NEW price, NEW own \in BOOLEAN, ExitOrHold(price, own), position # "NONE"
  PROVE  Exit \/ (Stayed(price) /\ ~own)
BY DEF ExitOrHold, Stayed

LEMMA ReversionDecides ==
  ASSUME NEW price, kind = "zscore", exit_z \in Nat, NEW threshold \in EntryZs,
         position \in {"NONE", "LONG", "SHORT"}, closes' \in Seq(Prices),
         Revert(ZScoreReading(closes', threshold), price)
  PROVE  \/ Blind \/ Idle \/ Exit
         \/ Entered(price) /\ Scored
         \/ Stayed(price) /\ Scored
  <1> DEFINE z == ZScoreReading(closes', threshold)
             own == \/ position = "LONG" /\ ~z.below
                    \/ position = "SHORT" /\ ~z.above
  <1>1. /\ z.isna = ZScoreUndefined(closes')
        /\ z.up = (ZScoreDev(closes') > 0 /\ Beyond(closes', threshold))
        /\ z.down = (ZScoreDev(closes') < 0 /\ Beyond(closes', threshold))
        /\ z.above = (ZScoreDev(closes') > 0 /\ Beyond(closes', exit_z))
        /\ z.below = (ZScoreDev(closes') < 0 /\ Beyond(closes', exit_z))
    BY DEF ZScoreReading
  <1>2. EntryZs \subseteq Nat BY StrategiesAssumption
  <1>9. Len(closes') \in Nat /\ Window \in Nat BY StrategiesAssumption
  <1>3. ASSUME ~z.isna, Beyond(closes', threshold) PROVE Scored
    <2>1. ~(Len(closes') < Window) BY <1>1, <1>3, Zenon DEF ZScoreUndefined
    <2>3. Len(closes') >= Window BY <1>9, <2>1
    <2>2. CountsEveryBar => Attainable(threshold) BY DEF CountsEveryBar
    <2> QED BY <1>2, <1>3, <2>2, <2>3 DEF Scored
  <1>4. ASSUME ~z.isna, Beyond(closes', exit_z) PROVE Scored
    <2>1. ~(Len(closes') < Window) BY <1>1, <1>4, Zenon DEF ZScoreUndefined
    <2>3. Len(closes') >= Window BY <1>9, <2>1
    <2>2. CountsEveryBar => Attainable(exit_z) BY DEF CountsEveryBar
    <2> QED BY <1>4, <2>2, <2>3 DEF Scored
  <1>5. Revert(z, price) OBVIOUS
  <1> HIDE DEF z
  <1>6. CASE z.isna
    BY <1>1, <1>5, <1>6 DEF Revert, Blind
  <1>7. CASE ~z.isna /\ position # "NONE"
    <2>1. ExitOrHold(price, own) BY <1>5, <1>7 DEF Revert
    <2>2. own \in BOOLEAN OBVIOUS
    <2>3. ~own => Beyond(closes', exit_z) BY <1>1, <1>7
    <2> HIDE DEF own
    <2>4. Exit \/ (Stayed(price) /\ ~own) BY <1>7, <2>1, <2>2, ExitOrHoldDecides
    <2> QED BY <1>4, <1>7, <2>3, <2>4
  <1>8. CASE ~z.isna /\ position = "NONE"
    <2>1. \/ z.down /\ Enter("LONG", price)
          \/ z.up /\ Enter("SHORT", price)
          \/ Hold(0)
      BY <1>5, <1>8 DEF Revert
    <2>2. z.down \/ z.up => Scored BY <1>1, <1>3, <1>8
    <2> QED BY <1>8, <2>1, <2>2 DEF Entered, Idle
  <1> QED BY <1>6, <1>7, <1>8

LEMMA BarDecides ==
  ASSUME NEW price, kind \in Exiting, exit_z \in Nat,
         position \in {"NONE", "LONG", "SHORT"}, closes' \in Seq(Prices),
         Generate(price)
  PROVE  \/ Blind \/ Idle \/ Exit
         \/ Entered(price) /\ Scored
         \/ Stayed(price) /\ Scored
  <1>1. CASE kind = "zscore"
    BY <1>1, ReversionDecides DEF Generate, ZScoreReversion
  <1>2. CASE kind = "volume"
    <2>0. Scored BY <1>2 DEF Scored
    <2>1. CASE position # "NONE"
      BY <1>2, <2>0, <2>1, ExitOrHoldDecides DEF Generate, VolumeExhaustion
    <2>2. CASE position = "NONE"
      BY <1>2, <2>0, <2>2 DEF Generate, VolumeExhaustion, Entered, Idle
    <2> QED BY <2>1, <2>2
  <1>3. CASE kind = "composite"
    <2>0. Scored BY <1>3 DEF Scored
    <2>1. CASE position # "NONE"
      BY <1>3, <2>0, <2>1, ExitOrHoldDecides DEF Generate, CompositeReversion
    <2>2. CASE position = "NONE"
      BY <1>3, <2>0, <2>2 DEF Generate, CompositeReversion, Entered, Idle
    <2> QED BY <2>1, <2>2
  <1> QED BY <1>1, <1>2, <1>3 DEF Exiting

(* The warm-up: the bars the buffer has shown, which never exceed what it  *)
(* can hold nor what the strategy waits for.                               *)
LEMMA WarmUpFacts ==
  ASSUME kind \in Exiting
  PROVE  MinBars(kind) \in Nat /\ Lookback(kind) \in Nat
  <1>1. VolLookback \in Nat /\ Window \in Nat BY StrategiesAssumption
  <1>2. Max({VolLookback * 2, Window * 4}) \in Nat
    <2> DEFINE x == VolLookback * 2
               y == Window * 4
    <2>1. x \in Nat /\ y \in Nat BY <1>1
    <2> HIDE DEF x, y
    <2>2. \E m \in {x, y} : \A n \in {x, y} : m >= n
      <3>1. CASE x >= y BY <2>1, <3>1
      <3>2. CASE y >= x BY <2>1, <3>2
      <3> QED BY <2>1, <3>1, <3>2
    <2>3. Max({x, y}) \in {x, y} BY <2>2 DEF Max
    <2>4. Max({x, y}) \in Nat BY <2>1, <2>3
    <2> QED BY <2>4 DEF x, y
  <1> QED BY <1>1, <1>2 DEF Exiting, MinBars, Lookback

LEMMA ShownFacts ==
  ASSUME kind \in Exiting, seen \in Nat
  PROVE  /\ Shown \in Nat /\ Shown <= MinBars(kind) /\ Shown <= Lookback(kind)
         /\ Shown \in {seen + 1, Lookback(kind), MinBars(kind)}
  <1> DEFINE x == seen + 1
             y == Lookback(kind)
             z == MinBars(kind)
  <1>1. x \in Nat /\ y \in Nat /\ z \in Nat BY WarmUpFacts
  <1>2. Shown = Min({x, y, z}) BY DEF Shown
  <1> HIDE DEF x, y, z
  <1>5. x \in Int /\ y \in Int /\ z \in Int BY <1>1
  <1>3. /\ Min({x, y, z}) \in {x, y, z}
        /\ Min({x, y, z}) <= x /\ Min({x, y, z}) <= y /\ Min({x, y, z}) <= z
    BY <1>5, LeastOfThree, Zenon
  <1>4. /\ Shown \in Nat /\ Shown <= z /\ Shown <= y /\ Shown \in {x, y, z}
    BY <1>1, <1>2, <1>3
  <1> QED BY <1>4 DEF x, y, z

(* The inductive invariant.                                                *)
ExitTypes ==
  /\ exit_z \in Nat /\ seen \in Nat
  /\ closes \in Seq(Prices) /\ Len(closes) <= Window + 1
  /\ position \in {"NONE", "LONG", "SHORT"} /\ entry \in Nat /\ held \in Nat

(* A position is only held once the warm-up is over, and by the z-score    *)
(* strategy once its window is full.                                       *)
WarmInv ==
  /\ seen <= MinBars(kind) /\ seen <= Lookback(kind)
  /\ position # "NONE" => seen = MinBars(kind)
  /\ position # "NONE" /\ kind = "zscore" => Len(closes) >= Window

(* The window of the next bar cannot become flat while there is a position.*)
MovedInv ==
  CountsEveryBar /\ kind = "zscore" /\ position # "NONE" =>
    \E i, j \in 2..Window : closes[Len(closes) - Window + i] # closes[Len(closes) - Window + j]

StopInv == position # "NONE" => Len(closes) > 0 /\ ~Stopped(closes[Len(closes)])

HeldInv ==
  CountsEveryBar /\ MaxHolding > 0 /\ position # "NONE" => age = held /\ held < MaxHolding

ExitInv == ExitTypes /\ WarmInv /\ MovedInv /\ StopInv /\ HeldInv

LEMMA InitExits == Init /\ kind \in Exiting => ExitInv
  <1> SUFFICES ASSUME Init, kind \in Exiting PROVE ExitInv
    OBVIOUS
  <1>1. MinBars(kind) \in Nat /\ Lookback(kind) \in Nat BY WarmUpFacts
  <1>2. ExitTypes BY StrategiesAssumption DEF Init, ExitTypes
  <1> QED BY <1>1, <1>2 DEF Init, ExitInv, WarmInv, MovedInv, StopInv, HeldInv

(* A bar that keeps a position or opens one leaves it short of its stop.   *)
LEMMA EnterShortOfStop ==
  ASSUME StopPct > 0, NEW price \in Prices, Entered(price)
  PROVE  ~Stopped(price)'
  <1>1. /\ price \in Nat /\ price > 0 /\ StopPct \in Nat /\ price' = price
        /\ StopPct' = StopPct
    BY StrategiesAssumption
  <1>2. entry' = price BY DEF Entered, Enter
  <1>3. price * StopPct > 0 BY <1>1
  <1>4. /\ price * (100 - StopPct) = price * 100 - price * StopPct
        /\ price * (100 + StopPct) = price * 100 + price * StopPct
    BY <1>1
  <1>5. price * StopPct \in Int /\ price * 100 \in Int BY <1>1
  <1>6. ~(price * 100 <= price * (100 - StopPct)) /\ ~(price * 100 >= price * (100 + StopPct))
    BY <1>3, <1>4, <1>5
  <1> QED BY <1>1, <1>2, <1>6 DEF Stopped

(* A window that was not flat but for its oldest close is not flat after   *)
(* the next bar.                                                           *)
LEMMA MovedStaysDefined ==
  ASSUME ExitTypes, NEW price \in Prices, closes' = Buffered(price),
         Len(closes) >= Window,
         NEW i \in 2..Window, NEW j \in 2..Window,
         closes[Len(closes) - Window + i] # closes[Len(closes) - Window + j]
  PROVE  ZScoreVar(closes') # 0
  <1> DEFINE L == Len(closes)
             M == Len(closes')
  <1>1. closes \in Seq(Prices) /\ L <= Window + 1 /\ L \in Nat /\ Window \in Nat /\ Window >= 2
    BY StrategiesAssumption DEF ExitTypes
  <1>2. /\ closes' \in Seq(Prices)
        /\ M = IF L <= Window THEN L + 1 ELSE Window + 1
        /\ \A m \in 1..(M - 1) : closes'[m] = closes[L + 1 - M + m]
    BY <1>1, BufferedFacts
  <1>3. M = Window + 1 BY <1>1, <1>2
  <1>4. closes'[M - Window + (i - 1)] = closes[L - Window + i]
    <2>1. M - Window + (i - 1) = i /\ i \in 1..(M - 1) BY <1>1, <1>3
    <2>2. L + 1 - M + i = L - Window + i BY <1>1, <1>3
    <2> QED BY <1>2, <2>1, <2>2
  <1>5. closes'[M - Window + (j - 1)] = closes[L - Window + j]
    <2>1. M - Window + (j - 1) = j /\ j \in 1..(M - 1) BY <1>1, <1>3
    <2>2. L + 1 - M + j = L - Window + j BY <1>1, <1>3
    <2> QED BY <1>2, <2>1, <2>2
  <1>6. i - 1 \in 1..Window /\ j - 1 \in 1..Window BY <1>1
  <1>7. Len(closes') >= Window BY <1>1, <1>3
  <1>8. SUFFICES ASSUME ZScoreVar(closes') = 0 PROVE FALSE
    OBVIOUS
  <1> HIDE DEF L, M
  <1>9. \A k, l \in 1..Window : closes'[M - Window + k] = closes'[M - Window + l]
    BY <1>2, <1>7, <1>8, FlatWindow DEF M
  <1>10. closes[L - Window + i] = closes[L - Window + j]
    BY <1>4, <1>5, <1>6, <1>9
  <1> QED BY <1>10 DEF L

(* A bar without a z-score has the close of the bar before.                *)
LEMMA BlindCloseStays ==
  ASSUME ExitTypes, NEW price \in Prices, closes' = Buffered(price),
         Len(closes) >= Window, ZScoreVar(closes') = 0
  PROVE  price = closes[Len(closes)]
  <1> DEFINE L == Len(closes)
             M == Len(closes')
  <1>1. closes \in Seq(Prices) /\ L <= Window + 1 /\ L \in Nat /\ Window \in Nat /\ Window >= 2
    BY StrategiesAssumption DEF ExitTypes
  <1>0. closes' \in Seq(Prices) /\ closes'[M] = price BY <1>1, BufferedFacts
  <1>2. M = IF L <= Window THEN L + 1 ELSE Window + 1
    BY <1>1, BufferedFacts
  <1>a. \A m \in 1..(M - 1) : closes'[m] = closes[L + 1 - M + m]
    BY <1>1, BufferedFacts
  <1>3. M = Window + 1 BY <1>1, <1>2
  <1>4. closes'[Window] = closes[L]
    <2>1. Window \in 1..(M - 1) /\ L + 1 - M + Window = L BY <1>1, <1>3
    <2> QED BY <1>a, <2>1
  <1>5. Window - 1 \in 1..Window /\ Window \in 1..Window BY <1>1
  <1>6. M - Window + (Window - 1) = Window /\ M - Window + Window = M BY <1>1, <1>3
  <1>7. Len(closes') >= Window BY <1>1, <1>3
  <1> HIDE DEF L, M
  <1>8. \A k, l \in 1..Window : closes'[M - Window + k] = closes'[M - Window + l]
    BY <1>0, <1>7, FlatWindow DEF M
  <1>9. closes'[Window] = closes'[M]
    BY <1>5, <1>6, <1>8
  <1> QED BY <1>0, <1>4, <1>9 DEF L

(* A score beyond an attainable threshold is one of a window that has      *)
(* moved.                                                                  *)
LEMMA ScoredHasMoved ==
  ASSUME CountsEveryBar, kind = "zscore", Scored, closes' \in Seq(Prices)
  PROVE  \E i, j \in 2..Window :
           closes'[Len(closes') - Window + i] # closes'[Len(closes') - Window + j]
  <1>1. Len(closes') >= Window BY DEF Scored
  <1>2. PICK t \in Nat : Attainable(t) /\ Beyond(closes', t) BY DEF Scored
  <1> QED BY <1>1, <1>2, NearlyFlatWindow

LEMMA StepExits ==
  ASSUME StopPct > 0, ExitInv, kind \in Exiting, NEW price \in Prices, OnMarketEvent(price)
  PROVE  ExitInv'
  <1> DEFINE L == Len(closes)
             M == Len(closes')
             Held == position' = position /\ entry' = entry
  <1>1. /\ closes' = Buffered(price) /\ seen' = Shown /\ kind' = kind /\ exit_z' = exit_z
        /\ CountsEveryBar' = CountsEveryBar
    BY DEF OnMarketEvent, Buffered, CountsEveryBar, Attainable
  <1>2. ExitTypes /\ closes \in Seq(Prices) /\ Len(closes) <= Window + 1
    BY DEF ExitInv, ExitTypes
  <1>3. /\ closes' \in Seq(Prices) /\ closes'[M] = price
        /\ M = IF L <= Window THEN L + 1 ELSE Window + 1
    BY <1>1, <1>2, BufferedFacts
  <1>4. /\ L \in Nat /\ M \in Nat /\ M > 0 /\ M <= Window + 1 /\ L <= M
        /\ Window \in Nat /\ Window >= 2 /\ price \in Nat
    BY <1>2, <1>3, StrategiesAssumption
  <1>5. /\ MinBars(kind) \in Nat /\ Lookback(kind) \in Nat
        /\ Shown \in Nat /\ Shown <= MinBars(kind) /\ Shown <= Lookback(kind)
        /\ Shown \in {seen + 1, Lookback(kind), MinBars(kind)}
    BY WarmUpFacts, ShownFacts DEF ExitInv, ExitTypes
  <1>6. position # "NONE" => Shown = MinBars(kind)
    BY <1>5 DEF ExitInv, WarmInv, ExitTypes
  <1>7. \/ position = "NONE" /\ Hold(held)
        \/ Blind \/ Idle \/ Exit
        \/ Entered(price) /\ Scored /\ Shown = MinBars(kind)
        \/ Stayed(price) /\ Scored
    <2>1. CASE Shown < MinBars(kind)
      BY <1>5, <1>6, <2>1 DEF OnMarketEvent
    <2>2. CASE ~(Shown < MinBars(kind))
      <3>1. Generate(price) BY <2>2 DEF OnMarketEvent
      <3>2. Shown = MinBars(kind) BY <1>5, <2>2
      <3> QED BY <1>2, <1>3, <3>1, <3>2, BarDecides DEF ExitTypes
    <2> QED BY <2>1, <2>2
  <1>8. position' # "NONE" => seen' = MinBars(kind)'
    <2>1. MinBars(kind)' = MinBars(kind) BY <1>1 DEF MinBars
    <2> QED BY <1>1, <1>6, <1>7, <2>1 DEF Blind, Idle, Exit, Stayed, Hold
  <1>9. /\ position' \in {"NONE", "LONG", "SHORT"} /\ entry' \in Nat /\ held' \in Nat
    BY <1>2, <1>4, <1>7
       DEF ExitTypes, Blind, Idle, Exit, Entered, Stayed, Enter, Hold
  <1>10. ExitTypes'
    BY <1>1, <1>2, <1>3, <1>4, <1>5, <1>9 DEF ExitTypes
  <1> HIDE DEF L, M
  <1>11. WarmInv'
    <2>1. seen' <= MinBars(kind)' /\ seen' <= Lookback(kind)'
      BY <1>1, <1>5 DEF MinBars, Lookback
    <2>2. ASSUME position' # "NONE", kind' = "zscore" PROVE M >= Window
      <3>1. CASE position # "NONE"
        BY <1>1, <1>4, <2>2, <3>1 DEF ExitInv, WarmInv, L
      <3>2. CASE position = "NONE"
        <4>1. Scored BY <1>7, <2>2, <3>2 DEF Blind, Idle, Exit, Stayed, Hold
        <4> QED BY <1>1, <2>2, <4>1 DEF Scored, M
      <3> QED BY <3>1, <3>2
    <2> QED BY <1>8, <2>1, <2>2 DEF WarmInv, M
  <1>12. ASSUME CountsEveryBar, position # "NONE" PROVE ~Blind
    <2>1. SUFFICES ASSUME Blind PROVE FALSE
      OBVIOUS
    <2>2. kind = "zscore" /\ ZScoreUndefined(closes') BY <2>1 DEF Blind
    <2>3. Len(closes) >= Window BY <1>12, <2>2 DEF ExitInv, WarmInv
    <2>4. PICK i, j \in 2..Window :
            closes[Len(closes) - Window + i] # closes[Len(closes) - Window + j]
      BY <1>12, <2>2 DEF ExitInv, MovedInv
    <2>5. ZScoreVar(closes') # 0 BY <1>1, <1>2, <2>3, <2>4, MovedStaysDefined
    <2>6. ~(Len(closes') < Window) BY <1>4, <2>3 DEF L, M
    <2> QED BY <2>2, <2>5, <2>6 DEF ZScoreUndefined
  <1>13. MovedInv'
    <2>1. SUFFICES ASSUME CountsEveryBar, kind = "zscore", position' # "NONE"
                   PROVE  \E i, j \in 2..Window :
                            closes'[M - Window + i] # closes'[M - Window + j]
      BY <1>1 DEF MovedInv, M
    <2>2. Scored
      BY <1>7, <1>12, <2>1 DEF Blind, Idle, Exit, Hold
    <2> QED BY <1>3, <2>1, <2>2, ScoredHasMoved DEF M
  <1>14. StopInv'
    <2>1. SUFFICES ASSUME position' # "NONE" PROVE ~Stopped(price)'
      <3>1. price' = price /\ closes'[Len(closes')] = price /\ Len(closes') > 0
        BY <1>3, <1>4 DEF M
      <3> QED BY <3>1 DEF StopInv, Stopped
    <2>2. CASE Entered(price) BY <2>2, EnterShortOfStop
    <2>3. CASE Stayed(price) BY <2>3 DEF Stayed, Hold, Stopped
    <2>4. CASE Blind /\ position # "NONE"
      <3>1. Len(closes) >= Window /\ ZScoreVar(closes') = 0
        <4>1. Len(closes) >= Window BY <2>4 DEF ExitInv, WarmInv, Blind
        <4>2. ~(Len(closes') < Window) BY <1>4, <4>1 DEF L, M
        <4> QED BY <2>4, <4>1, <4>2 DEF Blind, ZScoreUndefined
      <3>2. price = closes[Len(closes)] BY <1>1, <1>2, <3>1, BlindCloseStays
      <3>3. ~Stopped(price) BY <2>4, <3>2 DEF ExitInv, StopInv
      <3> QED BY <2>4, <3>3 DEF Blind, Hold, Stopped
    <2> QED BY <1>7, <2>1, <2>2, <2>3, <2>4 DEF Blind, Idle, Exit, Hold
  <1>15. HeldInv'
    <2>1. SUFFICES ASSUME CountsEveryBar, MaxHolding > 0, position' # "NONE"
                   PROVE  age' = held' /\ held' < MaxHolding
      BY <1>1 DEF HeldInv
    <2>2. MaxHolding \in Nat BY StrategiesAssumption
    <2>3. CASE Entered(price)
      BY <2>1, <2>2, <2>3 DEF Entered, Enter, OnMarketEvent
    <2>4. CASE Stayed(price)
      <3>1. /\ position' = position /\ held' = held + 1 /\ ~(held + 1 >= MaxHolding)
            /\ age = held /\ held \in Nat
        BY <2>1, <2>4 DEF Stayed, Hold, TimeUp, ExitInv, HeldInv, ExitTypes
      <3>2. age' = Min({age + 1, MaxHolding + 1})
        BY <2>1, <3>1 DEF OnMarketEvent
      <3> DEFINE x == age + 1
                 y == MaxHolding + 1
      <3>3. x \in Int /\ y \in Int /\ x <= y BY <2>2, <3>1
      <3> HIDE DEF x, y
      <3>4. Min({x, y}) = x BY <3>3, LeastOfTwo
      <3> QED BY <2>2, <3>1, <3>2, <3>4 DEF x, y
    <2> QED BY <1>7, <1>12, <2>1, <2>3, <2>4 DEF Blind, Idle, Exit, Hold
  <1> QED BY <1>10, <1>11, <1>13, <1>14, <1>15 DEF ExitInv

LEMMA NextExits ==
  ASSUME StopPct > 0, kind \in Exiting => ExitInv, [Next]_vars
  PROVE  (kind \in Exiting => ExitInv)'
  <1>1. CASE Next
    <2>1. PICK price \in Prices : OnMarketEvent(price) BY <1>1 DEF Next
    <2>2. kind' = kind BY <2>1 DEF OnMarketEvent
    <2> QED BY <2>1, <2>2, StepExits
  <1>2. CASE UNCHANGED vars
    BY <1>2 DEF vars, ExitInv, ExitTypes, WarmInv, MovedInv, StopInv, HeldInv,
                CountsEveryBar, Attainable, Stopped
  <1> QED BY <1>1, <1>2

LEMMA ExitsFollow ==
  ASSUME kind \in Exiting => ExitInv
  PROVE  ExitsHonoured
  <1>1. StopLossHonoured
    BY DEF StopLossHonoured, Exiting, ExitInv, StopInv, Stopped, Last
  <1>2. TimeExit
    BY DEF TimeExit, CountsEveryBar, Exiting, ExitInv, HeldInv
  <1> QED BY <1>1, <1>2 DEF ExitsHonoured

(* With a stop-loss that is not zero percent, no bar leaves a position     *)
(* whose stop its close has reached, nor one that has lasted               *)
(* max_holding_bars, in any of the three strategies, for any prices: the   *)
(* z-score strategy too, which ignores the bars without a z-score.         *)
THEOREM ExitsCorrect ==
  ASSUME StopPct > 0
  PROVE  Spec => []ExitsHonoured
<1>1. Init => (kind \in Exiting => ExitInv)
  BY InitExits
<1>2. (kind \in Exiting => ExitInv) /\ [Next]_vars => (kind \in Exiting => ExitInv)'
  BY NextExits
<1>3. (kind \in Exiting => ExitInv) => ExitsHonoured
  BY ExitsFollow
<1> QED BY <1>1, <1>2, <1>3, PTL DEF Spec

----------------------------------------------------------------------------
(* Levels of a book, and what mirroring them does.                         *)
BookRows == [px : BookPrices, vol : Nat]

LEMMA RowFacts ==
  ASSUME NEW levels \in Seq(BookRows)
  PROVE  /\ Len(levels) \in Nat /\ DOMAIN levels = 1..Len(levels) /\ IsFiniteSet(DOMAIN levels)
         /\ \A i \in DOMAIN levels : /\ levels[i] \in BookRows /\ levels[i].px \in 1..Reflection - 1
                                   /\ levels[i].px \in Int /\ levels[i].vol \in Nat
  <1>1. Len(levels) \in Nat /\ DOMAIN levels = 1..Len(levels) BY LenProperties
  <1>2. IsFiniteSet(DOMAIN levels) BY <1>1, FS_Interval
  <1>3. \A i \in DOMAIN levels : levels[i] \in BookRows BY <1>1, ElementOfSeq
  <1>4. \A r \in BookRows : r.px \in 1..Reflection - 1 /\ r.px \in Int /\ r.vol \in Nat
    BY BookAssumption DEF BookRows, BookPrices
  <1> QED BY <1>1, <1>2, <1>3, <1>4

LEMMA MirrorFacts ==
  ASSUME NEW levels \in Seq(BookRows)
  PROVE  /\ Mirror(levels) \in Seq(BookRows) /\ DOMAIN Mirror(levels) = DOMAIN levels
         /\ Len(Mirror(levels)) = Len(levels)
         /\ \A i \in DOMAIN levels : /\ Mirror(levels)[i].px = Reflection - levels[i].px
                                   /\ Mirror(levels)[i].vol = levels[i].vol
                                   /\ Mirror(levels)[i] = [levels[i] EXCEPT !.px = Reflection - levels[i].px]
  <1>1. PICK m : m = Mirror(levels) OBVIOUS
  <1>2. DOMAIN m = DOMAIN levels
        /\ \A i \in DOMAIN levels : m[i] = [levels[i] EXCEPT !.px = Reflection - levels[i].px]
    BY <1>1 DEF Mirror
  <1>3. ASSUME NEW i \in DOMAIN levels
        PROVE  m[i] \in BookRows /\ m[i].px = Reflection - levels[i].px /\ m[i].vol = levels[i].vol
    <2>1. levels[i] \in BookRows /\ levels[i].px \in 1..Reflection - 1 /\ levels[i].vol \in Nat BY RowFacts
    <2>2. PICK p : p = Reflection - levels[i].px OBVIOUS
    <2>3. p \in BookPrices BY <2>1, <2>2, BookAssumption DEF BookPrices
    <2>4. m[i] = [levels[i] EXCEPT !.px = p] BY <1>2, <2>2
    <2> QED BY <2>1, <2>2, <2>3, <2>4 DEF BookRows
  <1>4. m \in Seq(BookRows) /\ Len(m) = Len(levels)
    <2>1. m = [i \in 1..Len(levels) |-> m[i]] BY <1>1, RowFacts DEF Mirror
    <2>2. m \in [1..Len(levels) -> BookRows] BY <1>3, <2>1, RowFacts
    <2> QED BY <2>2, RowFacts
  <1> QED BY <1>1, <1>2, <1>3, <1>4

LEMMA TopFacts ==
  ASSUME NEW levels \in Seq(BookRows), NEW n \in Nat
  PROVE  /\ Top(levels, n) \in Seq(BookRows) /\ Top(Mirror(levels), n) = Mirror(Top(levels, n))
         /\ Len(Top(levels, n)) = IF n <= Len(levels) THEN n ELSE Len(levels)
         /\ \A i \in 1..Len(Top(levels, n)) : i \in DOMAIN levels /\ Top(levels, n)[i] = levels[i]
  <1>1. PICK l \in Nat : l = Min({n, Len(levels)})
    <2>1. Len(levels) \in Int /\ Len(levels) \in Nat BY RowFacts
    <2>2. Min({n, Len(levels)}) = IF n <= Len(levels) THEN n ELSE Len(levels) BY <2>1, LesserOfTwo
    <2> QED BY <2>1, <2>2
  <1>2. l <= Len(levels) /\ l = IF n <= Len(levels) THEN n ELSE Len(levels)
    <2>1. Len(levels) \in Int BY RowFacts
    <2>2. Min({n, Len(levels)}) = IF n <= Len(levels) THEN n ELSE Len(levels) BY <2>1, LesserOfTwo
    <2> QED BY <1>1, <2>1, <2>2
  <1>3. PICK t : t = Top(levels, n) OBVIOUS
  <1>4. t = [i \in 1..l |-> levels[i]] BY <1>1, <1>3 DEF Top
  <1>5. \A i \in 1..l : i \in DOMAIN levels BY <1>2, RowFacts
  <1>6. t \in [1..l -> BookRows] BY <1>4, <1>5, RowFacts
  <1>7. t \in Seq(BookRows) /\ Len(t) = l /\ DOMAIN t = 1..l BY <1>6
  <1>8. PICK u : u = Mirror(t) OBVIOUS
  <1>9. u = [i \in 1..l |-> [levels[i] EXCEPT !.px = Reflection - levels[i].px]]
    <2>1. u = [i \in 1..l |-> [t[i] EXCEPT !.px = Reflection - t[i].px]] BY <1>7, <1>8 DEF Mirror
    <2>2. \A i \in 1..l : t[i] = levels[i] BY <1>4
    <2> QED BY <2>1, <2>2, Zenon
  <1>10. PICK m : m = Mirror(levels) OBVIOUS
  <1>11. Top(m, n) = [i \in 1..l |-> m[i]] BY <1>1, <1>10, MirrorFacts DEF Top
  <1>12. \A i \in 1..l : m[i] = [levels[i] EXCEPT !.px = Reflection - levels[i].px] BY <1>5, <1>10, MirrorFacts
  <1>13. Top(m, n) = u BY <1>9, <1>11, <1>12, Zenon
  <1> QED BY <1>2, <1>3, <1>4, <1>5, <1>7, <1>8, <1>10, <1>13

LEMMA ExtractedFacts ==
  ASSUME NEW levels \in Seq(BookRows)
  PROVE  /\ ExtractLevels(levels) \in Seq(BookRows)
         /\ \A i \in DOMAIN ExtractLevels(levels) : ExtractLevels(levels)[i].vol > 0
         /\ ExtractLevels(Mirror(levels)) = Mirror(ExtractLevels(levels))
         /\ levels # <<>> /\ levels[1].vol > 0 =>
              ExtractLevels(levels) # <<>> /\ ExtractLevels(levels)[1] = levels[1]
  <1>1. PICK keep : keep = {i \in DOMAIN levels : levels[i].px > 0 /\ levels[i].vol > 0} OBVIOUS
  <1>2. keep \in SUBSET Nat /\ IsFiniteSet(keep) /\ keep \subseteq DOMAIN levels
    <2>1. keep \subseteq DOMAIN levels BY <1>1
    <2> QED BY <2>1, RowFacts, FS_Subset
  <1>3. \A i \in keep : levels[i] \in BookRows /\ levels[i].vol > 0 BY <1>1, RowFacts
  <1>4. PICK e : e = Select(levels, keep) OBVIOUS
  <1>5. ExtractLevels(levels) = e BY <1>1, <1>4 DEF ExtractLevels
  <1>6. e \in Seq(BookRows) /\ Len(e) = Cardinality(keep) BY <1>2, <1>3, <1>4, SelectIn
  <1>7. PICK n \in Nat : n = Cardinality(keep) BY <1>2, FS_CardinalityType
  <1>8. e = [k \in 1..n |-> levels[Nth(keep, k)]] /\ \A k \in 1..n : Nth(keep, k) \in keep
    BY <1>2, <1>4, <1>7, SelectFacts
  <1>9. \A i \in DOMAIN e : e[i].vol > 0 BY <1>3, <1>8
  <1>10. PICK m : m = Mirror(levels) OBVIOUS
  <1>11. {i \in DOMAIN m : m[i].px > 0 /\ m[i].vol > 0} = keep
    <2>1. \A i \in DOMAIN levels : levels[i].px > 0 /\ Reflection - levels[i].px > 0
      <3> TAKE i \in DOMAIN levels
      <3>1. levels[i].px \in 1..Reflection - 1 BY RowFacts
      <3> QED BY <3>1, BookAssumption
    <2>2. DOMAIN m = DOMAIN levels BY <1>10, MirrorFacts
    <2>3. \A i \in DOMAIN levels : m[i].px > 0 /\ m[i].vol = levels[i].vol BY <1>10, <2>1, MirrorFacts
    <2> QED BY <1>1, <2>1, <2>2, <2>3
  <1>12. ExtractLevels(m) = [k \in 1..n |-> m[Nth(keep, k)]]
    <2>1. ExtractLevels(m) = Select(m, keep) BY <1>11 DEF ExtractLevels
    <2> QED BY <1>2, <1>7, <2>1, SelectFacts
  <1>13. \A k \in 1..n : m[Nth(keep, k)] = [e[k] EXCEPT !.px = Reflection - e[k].px]
    <2> TAKE k \in 1..n
    <2>1. e[k] = levels[Nth(keep, k)] /\ Nth(keep, k) \in DOMAIN levels BY <1>2, <1>8
    <2> QED BY <1>10, <2>1, MirrorFacts
  <1>14. Mirror(e) = [k \in 1..n |-> [e[k] EXCEPT !.px = Reflection - e[k].px]]
    <2>1. DOMAIN e = 1..n BY <1>8
    <2> QED BY <2>1 DEF Mirror
  <1>15. ExtractLevels(m) = Mirror(e) BY <1>12, <1>13, <1>14, Zenon
  <1>16. ASSUME levels # <<>>, levels[1].vol > 0 PROVE e # <<>> /\ e[1] = levels[1]
    <2>1. Len(levels) # 0 BY <1>16, EmptySeq
    <2>2. 1 \in DOMAIN levels /\ 1 \in keep
      <3>1. 1 \in DOMAIN levels BY <2>1, RowFacts
      <3>2. levels[1].px \in 1..Reflection - 1 BY <3>1, RowFacts
      <3> QED BY <1>1, <1>16, <3>1, <3>2
    <2>3. n # 0 BY <1>2, <1>7, <2>2, FS_EmptySet
    <2>4. 1 \in 1..n BY <2>3
    <2>5. Nth(keep, 1) = 1
      <3>1. PICK k \in 1..n : Nth(keep, k) = 1 BY <1>2, <1>7, <2>2, NthOnto
      <3>2. 1 < k => Nth(keep, 1) < Nth(keep, k) BY <1>2, <1>7, <2>4, NthOrdered
      <3>3. Nth(keep, 1) \in keep BY <1>8, <2>4
      <3>4. \A i \in DOMAIN levels : i >= 1 BY RowFacts
      <3>5. Nth(keep, 1) >= 1 /\ Nth(keep, 1) \in Nat BY <1>2, <3>3, <3>4
      <3> QED BY <3>1, <3>2, <3>5
    <2>6. e[1] = levels[1] BY <1>8, <2>4, <2>5
    <2>7. Len(e) # 0 BY <1>6, <1>7, <2>3
    <2> QED BY <1>6, <2>6, <2>7, EmptySeq
  <1> QED BY <1>5, <1>6, <1>9, <1>10, <1>15, <1>16

LEMMA VolumeFacts ==
  ASSUME NEW levels \in Seq(BookRows)
  PROVE  /\ Volume(levels) \in Nat /\ Volume(Mirror(levels)) = Volume(levels)
         /\ Notional(levels) \in Int
         /\ Notional(Mirror(levels)) = Reflection * Volume(levels) - Notional(levels)
         /\ levels # <<>> /\ levels[1].vol > 0 => Volume(levels) > 0
  <1>1. PICK D : D = DOMAIN levels OBVIOUS
  <1>2. IsFiniteSet(D) BY <1>1, RowFacts
  <1>3. PICK v : v = [i \in D |-> levels[i].vol] OBVIOUS
  <1>4. PICK w : w = [i \in D |-> levels[i].px * levels[i].vol] OBVIOUS
  <1>5. PICK m : m = Mirror(levels) OBVIOUS
  <1>6. PICK u : u = [i \in D |-> m[i].px * m[i].vol] OBVIOUS
  <1>7. \A i \in D : levels[i].vol \in Nat /\ levels[i].px \in Int BY <1>1, RowFacts
  <1>8. DOMAIN m = D /\ \A i \in D : m[i].vol = levels[i].vol /\ m[i].px = Reflection - levels[i].px
    BY <1>1, <1>5, MirrorFacts
  <1>9. PICK R \in Nat : R = Reflection BY BookAssumption
  <1>10. PICK x : x = [i \in D |-> R * levels[i].vol] OBVIOUS
  <1>11. PICK z : z = [i \in D |-> -(levels[i].px * levels[i].vol)] OBVIOUS
  <1>12. v \in Amounts(D) /\ \A i \in D : v[i] = levels[i].vol /\ v[i] >= 0 BY <1>3, <1>7 DEF Amounts
  <1>13. w \in Amounts(D) /\ z \in Amounts(D) /\ x \in Amounts(D)
    <2>1. \A i \in D : levels[i].px * levels[i].vol \in Int /\ R * levels[i].vol \in Int BY <1>7
    <2> QED BY <1>4, <1>10, <1>11, <2>1 DEF Amounts
  <1>14. \A i \in D : u[i] = x[i] + z[i]
    <2> TAKE i \in D
    <2>1. PICK p \in Int : p = levels[i].px BY <1>7
    <2>2. PICK q \in Int : q = levels[i].vol BY <1>7
    <2>3. u[i] = (R - p) * q BY <1>6, <1>8, <1>9, <2>1, <2>2
    <2>4. x[i] = R * q /\ z[i] = -(p * q) BY <1>10, <1>11, <2>1, <2>2
    <2>5. (R - p) * q = R * q + -(p * q) OBVIOUS
    <2> QED BY <2>3, <2>4, <2>5
  <1>15. u \in Amounts(D)
    <2>1. \A i \in D : m[i].px * m[i].vol \in Int
      <3> TAKE i \in D
      <3>1. m[i].px \in Int /\ m[i].vol \in Int BY <1>7, <1>8, <1>9
      <3> QED BY <3>1
    <2> QED BY <1>6, <2>1 DEF Amounts
  <1>16. SumFunction(u) = SumFunction(x) + SumFunction(z) BY <1>2, <1>13, <1>14, <1>15, SumPlus
  <1>17. SumFunction(x) = R * SumFunction(v)
    <2>1. \A i \in D : x[i] = R * v[i] BY <1>10, <1>12
    <2> QED BY <1>2, <1>12, <1>13, <2>1, SumScaled
  <1>18. SumFunction(z) = -SumFunction(w)
    <2>1. \A i \in D : z[i] = -w[i] BY <1>4, <1>11
    <2> QED BY <1>2, <1>13, <2>1, SumNegated
  <1>19. Volume(levels) = SumFunction(v) /\ Notional(levels) = SumFunction(w)
    BY <1>1, <1>3, <1>4 DEF Volume, Notional
  <1>20. Volume(m) = SumFunction(v)
    <2>1. [i \in DOMAIN m |-> m[i].vol] = v BY <1>3, <1>8
    <2> QED BY <2>1 DEF Volume
  <1>21. Notional(m) = SumFunction(u) BY <1>6, <1>8 DEF Notional
  <1>22. SumFunction(v) \in Int /\ SumFunction(w) \in Int BY <1>2, <1>12, <1>13, SumType
  <1>23. SumFunction(v) >= 0 BY <1>2, <1>12, SumOfNaturals
  <1>24. Notional(m) = R * Volume(levels) - Notional(levels)
    <2>1. PICK a \in Int : a = R * SumFunction(v) BY <1>22
    <2>2. PICK b \in Int : b = SumFunction(w) BY <1>22
    <2>3. Notional(m) = a + -b BY <1>16, <1>17, <1>18, <1>21, <2>1, <2>2
    <2> QED BY <1>19, <2>1, <2>2, <2>3
  <1>25. ASSUME levels # <<>>, levels[1].vol > 0 PROVE SumFunction(v) > 0
    <2>1. Len(levels) # 0 BY <1>25, EmptySeq
    <2>2. 1 \in D BY <1>1, <2>1, RowFacts
    <2>3. v[1] > 0 BY <1>12, <1>25, <2>2
    <2>4. SumFunction(v) # 0
      <3>1. SUFFICES ASSUME SumFunction(v) = 0 PROVE FALSE OBVIOUS
      <3>2. v[1] = 0 BY <1>2, <1>12, <2>2, <3>1, SumOfNothing
      <3> QED BY <2>3, <3>2
    <2> QED BY <1>22, <1>23, <2>4
  <1> QED BY <1>5, <1>9, <1>19, <1>20, <1>22, <1>23, <1>24, <1>25

(* An imbalance has no preferred side, and the sign of the difference.     *)
LEMMA ImbalanceFacts ==
  ASSUME NEW a \in Nat, NEW b \in Nat
  PROVE  /\ Imbalance(a, b) \in Int /\ Imbalance(a, b) = -Imbalance(b, a)
         /\ Imbalance(a, b) > 0 => a > b
         /\ Imbalance(a, b) < 0 => a < b
  <1>1. PICK c \in Nat \ {0} : c = Scale BY BookAssumption
  <1>2. CASE a + b = 0
    <2>1. Imbalance(a, b) = 0 /\ Imbalance(b, a) = 0 BY <1>2 DEF Imbalance
    <2>2. PICK p \in Int : p = Imbalance(a, b) BY <2>1
    <2>3. PICK q \in Int : q = Imbalance(b, a) BY <2>1
    <2>4. q + p = 0 /\ ~(p > 0) /\ ~(p < 0) BY <2>1, <2>2, <2>3
    <2>5. p = -q BY <2>4, NegativeIs
    <2> QED BY <2>2, <2>3, <2>4, <2>5
  <1>3. CASE a + b # 0
    <2>1. PICK d \in Nat \ {0} : d = a + b BY <1>3
    <2>2. PICK x \in Int : x = c * (a - b) OBVIOUS
    <2>3. c * (b - a) = -x BY <2>2
    <2>4. Imbalance(a, b) = Ratio(x, d) BY <1>1, <2>1, <2>2 DEF Imbalance
    <2>5. Imbalance(b, a) = Ratio(-x, d)
      <3>1. b + a = d BY <2>1
      <3> QED BY <1>1, <2>1, <2>3, <3>1 DEF Imbalance
    <2>6. PICK q \in Int : q = x \div d BY DivFloor
    <2>7. PICK r \in Int : r = (-x) \div d BY DivFloor
    <2>8. Imbalance(a, b) = IF x < 0 THEN -r ELSE q BY <2>4, <2>6, <2>7 DEF Ratio
    <2>9. Imbalance(b, a) = IF -x < 0 THEN -q ELSE r
      <3>1. -(-x) = x OBVIOUS
      <3> QED BY <2>5, <2>6, <2>7, <3>1 DEF Ratio
    <2>10. x = 0 => q = 0 /\ r = 0
      <3>1. d * q <= x /\ x < d * q + d /\ d * r <= -x /\ -x < d * r + d BY <2>6, <2>7, DivFloor
      <3>2. ASSUME x = 0 PROVE q = 0 /\ r = 0
        <4>1. PICK y \in Int : y = -x OBVIOUS
        <4>2. x + y = 0 BY <4>1, NegativeIs
        <4>3. y = 0 BY <3>2, <4>2
        <4>4. 0 \div d = 0 OBVIOUS
        <4> QED BY <2>6, <2>7, <3>2, <4>1, <4>3, <4>4
      <3> QED BY <3>2
    <2>11. x > 0 => a > b
      <3>1. a <= b => c * (a - b) <= 0 OBVIOUS
      <3> QED BY <2>2, <3>1
    <2>12. x < 0 => a < b
      <3>1. a >= b => c * (a - b) >= 0 OBVIOUS
      <3> QED BY <2>2, <3>1
    <2>13. x < 0 => r >= 0
      <3>1. -x < d * r + d BY <2>7, DivFloor
      <3>2. ASSUME x < 0, r < 0 PROVE FALSE
        <4>1. r + 1 <= 0 BY <3>2
        <4>2. d * (r + 1) <= d * 0 BY <4>1, TimesOrdered
        <4>3. d * (r + 1) = d * r + d OBVIOUS
        <4>4. d * r + d \in Int OBVIOUS
        <4> QED BY <3>1, <3>2, <4>2, <4>3, <4>4
      <3> QED BY <3>2
    <2>14. x >= 0 => q >= 0
      <3>1. x < d * q + d BY <2>6, DivFloor
      <3>2. ASSUME x >= 0, q < 0 PROVE FALSE
        <4>1. q + 1 <= 0 BY <3>2
        <4>2. d * (q + 1) <= d * 0 BY <4>1, TimesOrdered
        <4>3. d * (q + 1) = d * q + d OBVIOUS
        <4>4. d * q + d \in Int OBVIOUS
        <4> QED BY <3>1, <3>2, <4>2, <4>3, <4>4
      <3> QED BY <3>2
    <2>15. Imbalance(a, b) = -Imbalance(b, a) BY <2>8, <2>9, <2>10
    <2>16. Imbalance(a, b) \in Int BY <2>8
    <2>17. Imbalance(a, b) > 0 => x > 0 BY <2>8, <2>10, <2>13
    <2>18. Imbalance(a, b) < 0 => x < 0 BY <2>8, <2>14
    <2> QED BY <2>11, <2>12, <2>15, <2>16, <2>17, <2>18
  <1> QED BY <1>2, <1>3

LEMMA SnapshotFacts ==
  ASSUME NEW s \in Snapshots
  PROVE  /\ s.bid \in Seq(BookRows) /\ s.ask \in Seq(BookRows)
         /\ s.bid # <<>> /\ s.ask # <<>> /\ 1 \in DOMAIN s.bid /\ 1 \in DOMAIN s.ask
         /\ s.bid[1].px \in Int /\ s.ask[1].px \in Int /\ s.bid[1].vol \in Nat /\ s.ask[1].vol \in Nat
         /\ s.bid[1].px % 2 = 0 /\ s.ask[1].px % 2 = 0 /\ s.bid[1].px <= s.ask[1].px
         /\ s.trades \in Seq(Incidents({"TRADE"}, {"BUY", "SELL"}))
         /\ s.events \in Seq(Incidents({"ARRIVAL", "CANCELLATION", "MODIFICATION"}, {"BID", "ASK"}))
  <1>1. /\ s.bid \in Seq(PriceLevels) /\ s.ask \in Seq(PriceLevels)
        /\ s.bid # <<>> /\ s.ask # <<>> /\ s.bid[1].px <= s.ask[1].px
        /\ s.trades \in Seq(Incidents({"TRADE"}, {"BUY", "SELL"}))
        /\ s.events \in Seq(Incidents({"ARRIVAL", "CANCELLATION", "MODIFICATION"}, {"BID", "ASK"}))
    BY BookAssumption
  <1>2. ASSUME NEW levels \in Seq(PriceLevels), levels # <<>>
        PROVE  /\ levels \in Seq(BookRows) /\ 1 \in DOMAIN levels
               /\ levels[1].px \in Int /\ levels[1].vol \in Nat /\ levels[1].px % 2 = 0
    <2>1. Len(levels) \in Nat /\ DOMAIN levels = 1..Len(levels) /\ Len(levels) # 0 BY <1>2, LenProperties, EmptySeq
    <2>2. \A i \in 1..Len(levels) : levels[i] \in PriceLevels BY ElementOfSeq
    <2>3. \A i \in 1..Len(levels) : levels[i] \in BookRows BY <2>2 DEF PriceLevels, BookRows
    <2>4. levels \in Seq(BookRows)
      <3>1. levels = [i \in 1..Len(levels) |-> levels[i]] BY <2>1
      <3>2. levels \in [1..Len(levels) -> BookRows] BY <2>3, <3>1
      <3> QED BY <2>1, <3>2
    <2>5. 1 \in DOMAIN levels BY <2>1
    <2>6. levels[1].px % 2 = 0
      <3>1. levels[1] \in PriceLevels BY <2>1, <2>2, <2>5
      <3> QED BY <3>1 DEF PriceLevels
    <2> QED BY <2>4, <2>5, <2>6, RowFacts
  <1> QED BY <1>1, <1>2

LEMMA PressureFacts ==
  ASSUME NEW levels \in Seq(BookRows), levels # <<>>
  PROVE  /\ Best(levels) \in Int /\ Best(Mirror(levels)) = Reflection - Best(levels) /\ Mirror(levels) # <<>>
         /\ Pressure(Mirror(levels)) = Pressure(levels)
  <1>1. PICK m : m = Mirror(levels) OBVIOUS
  <1>2. m \in Seq(BookRows) /\ DOMAIN m = DOMAIN levels /\ Len(m) = Len(levels)
        /\ \A i \in DOMAIN levels : m[i].px = Reflection - levels[i].px /\ m[i].vol = levels[i].vol
    BY <1>1, MirrorFacts
  <1>3. Len(levels) # 0 BY EmptySeq
  <1>4. 1 \in DOMAIN levels BY <1>3, RowFacts
  <1>5. m # <<>> BY <1>2, <1>3, EmptySeq
  <1>6. PICK a \in Int : a = levels[1].px BY <1>4, RowFacts
  <1>7. Best(levels) = a BY <1>6 DEF Best
  <1>8. Best(m) = Reflection - a BY <1>2, <1>4, <1>5, <1>6 DEF Best
  <1>9. PICK R \in Int : R = Reflection BY BookAssumption
  <1>10. \A i \in DOMAIN levels : Apart(R - a, m[i].px) = Apart(a, levels[i].px)
    <2> TAKE i \in DOMAIN levels
    <2>1. PICK b \in Int : b = levels[i].px BY RowFacts
    <2>2. m[i].px = R - b BY <1>2, <1>9, <2>1
    <2>3. Apart(R - a, R - b) = Apart(a, b) BY DEF Apart
    <2> QED BY <2>1, <2>2, <2>3
  <1>11. Pressure(levels) =
           SumFunction([i \in DOMAIN levels |->
                          (Scale * levels[i].vol) \div (Apart(a, levels[i].px) \div 2 + 1)])
    BY <1>7 DEF Pressure
  <1>12. Pressure(m) =
           SumFunction([i \in DOMAIN levels |->
                          (Scale * m[i].vol) \div (Apart(R - a, m[i].px) \div 2 + 1)])
    BY <1>2, <1>8, <1>9, Zenon DEF Pressure
  <1>13. \A i \in DOMAIN levels : m[i].vol = levels[i].vol BY <1>2
  <1>14. Pressure(m) = Pressure(levels) BY <1>10, <1>11, <1>12, <1>13, Zenon
  <1> QED BY <1>1, <1>5, <1>7, <1>8, <1>14

LEMMA ImbalancesFacts ==
  ASSUME NEW b \in Seq(BookRows), NEW a \in Seq(BookRows), NEW f, NEW g,
         f = Imbalances(b, a), g = Imbalances(Mirror(a), Mirror(b))
  PROVE  \A name \in DOMAIN f :
           (name # "imb_top10" \/ Len(b) = Len(a)) => f[name] = -g[name] /\ f[name] \in Int /\ g[name] \in Int
  <1>1. ASSUME NEW n \in Nat
        PROVE  /\ ComputeImbalance(b, a, n) = -ComputeImbalance(Mirror(a), Mirror(b), n)
               /\ ComputeImbalance(b, a, n) \in Int /\ ComputeImbalance(Mirror(a), Mirror(b), n) \in Int
    <2>1. PICK v \in Nat : v = Volume(Top(b, n)) BY TopFacts, VolumeFacts
    <2>2. PICK w \in Nat : w = Volume(Top(a, n)) BY TopFacts, VolumeFacts
    <2>3. Volume(Top(Mirror(b), n)) = v BY <2>1, TopFacts, VolumeFacts
    <2>4. Volume(Top(Mirror(a), n)) = w BY <2>2, TopFacts, VolumeFacts
    <2>5. ComputeImbalance(b, a, n) = Imbalance(v, w) BY <2>1, <2>2 DEF ComputeImbalance
    <2>6. ComputeImbalance(Mirror(a), Mirror(b), n) = Imbalance(w, v)
      BY <2>3, <2>4 DEF ComputeImbalance
    <2> QED BY <2>5, <2>6, ImbalanceFacts
  <1>2. PICK v \in Nat : v = Volume(b) BY VolumeFacts
  <1>3. PICK w \in Nat : w = Volume(a) BY VolumeFacts
  <1>4. f = [imb_top1 |-> ComputeImbalance(b, a, 1), imb_top5 |-> ComputeImbalance(b, a, 5),
             imb_top10 |-> ComputeImbalance(b, a, Min({10, Len(b)})),
             depth_imbalance |-> Imbalance(v, w)]
    BY <1>2, <1>3 DEF Imbalances
  <1>5. g = [imb_top1 |-> ComputeImbalance(Mirror(a), Mirror(b), 1),
             imb_top5 |-> ComputeImbalance(Mirror(a), Mirror(b), 5),
             imb_top10 |-> ComputeImbalance(Mirror(a), Mirror(b), Min({10, Len(a)})),
             depth_imbalance |-> Imbalance(w, v)]
    BY <1>2, <1>3, VolumeFacts, MirrorFacts DEF Imbalances
  <1>6. PICK n \in Nat : n = Min({10, Len(b)})
    <2>1. Len(b) \in Nat BY RowFacts
    <2>2. Min({10, Len(b)}) = IF 10 <= Len(b) THEN 10 ELSE Len(b) BY <2>1, LesserOfTwo
    <2> QED BY <2>1, <2>2
  <1>7. f.imb_top1 = -g.imb_top1 /\ f.imb_top1 \in Int /\ g.imb_top1 \in Int BY <1>1, <1>4, <1>5
  <1>8. f.imb_top5 = -g.imb_top5 /\ f.imb_top5 \in Int /\ g.imb_top5 \in Int BY <1>1, <1>4, <1>5
  <1>9. Len(b) = Len(a) => f.imb_top10 = -g.imb_top10 /\ f.imb_top10 \in Int /\ g.imb_top10 \in Int
    BY <1>1, <1>4, <1>5, <1>6
  <1>10. f.depth_imbalance = -g.depth_imbalance /\ f.depth_imbalance \in Int /\ g.depth_imbalance \in Int
    <2>1. f.depth_imbalance = Imbalance(v, w) /\ g.depth_imbalance = Imbalance(w, v) BY <1>4, <1>5
    <2> QED BY <2>1, ImbalanceFacts
  <1>11. DOMAIN f = {"imb_top1", "imb_top5", "imb_top10", "depth_imbalance"} BY <1>4
  <1> QED BY <1>7, <1>8, <1>9, <1>10, <1>11

(* The microprice of mirrored levels.                                      *)
LEMMA DeviationFacts ==
  ASSUME NEW s \in Snapshots
  PROVE  /\ MicropriceDeviation(s) \in Int
         /\ Negates(MicropriceDeviation(s), MicropriceDeviation(Mirrored(s)))
         /\ Mid(s) \in Int /\ Mid(Mirrored(s)) = Reflection - Mid(s)
         /\ 2 * Mid(s) = s.bid[1].px + s.ask[1].px
  <1>1. PICK b \in Int : b = s.bid[1].px BY SnapshotFacts
  <1>2. PICK a \in Int : a = s.ask[1].px BY SnapshotFacts
  <1>3. PICK v \in Nat : v = s.bid[1].vol BY SnapshotFacts
  <1>4. PICK w \in Nat : w = s.ask[1].vol BY SnapshotFacts
  <1>5. PICK R \in Int : R = Reflection BY BookAssumption
  <1>6. PICK c \in Int : c = Scale BY BookAssumption
  <1>7. b % 2 = 0 /\ a % 2 = 0 BY <1>1, <1>2, SnapshotFacts
  <1>8. PICK m \in Int : a + b = 2 * m /\ (b + a) \div 2 = m /\ (a + b) \div 2 = m
    <2>1. (a + b) % 2 = 0 BY <1>7
    <2>2. 2 * ((a + b) \div 2) = a + b /\ (a + b) \div 2 \in Int BY <2>1
    <2> QED BY <2>2
  <1>9. Mid(s) = m BY <1>1, <1>2, <1>8 DEF Mid
  <1>10. PICK t : t = Mirrored(s) OBVIOUS
  <1>11. t.bid = Mirror(s.ask) /\ t.ask = Mirror(s.bid) BY <1>10 DEF Mirrored
  <1>12. t.bid[1].px = R - a /\ t.bid[1].vol = w
    <2>1. s.ask \in Seq(BookRows) /\ 1 \in DOMAIN s.ask BY SnapshotFacts
    <2>2. Mirror(s.ask)[1].px = Reflection - s.ask[1].px /\ Mirror(s.ask)[1].vol = s.ask[1].vol
      BY <2>1, MirrorFacts
    <2> QED BY <1>2, <1>4, <1>5, <1>11, <2>2
  <1>13. t.ask[1].px = R - b /\ t.ask[1].vol = v
    <2>1. s.bid \in Seq(BookRows) /\ 1 \in DOMAIN s.bid BY SnapshotFacts
    <2>2. Mirror(s.bid)[1].px = Reflection - s.bid[1].px /\ Mirror(s.bid)[1].vol = s.bid[1].vol
      BY <2>1, MirrorFacts
    <2> QED BY <1>1, <1>3, <1>5, <1>11, <2>2
  <1>14. Mid(t) = R - m
    <2>1. (R - a) + (R - b) = 2 * (R - m) BY <1>8
    <2>2. R - m \in Int OBVIOUS
    <2>3. \A k \in Int : (2 * k) \div 2 = k OBVIOUS
    <2> QED BY <1>12, <1>13, <2>1, <2>2, <2>3 DEF Mid
  <1>15. CASE v + w = 0
    <2>1. Microprice(s.bid[1], s.ask[1]) = c * m BY <1>1, <1>2, <1>3, <1>4, <1>6, <1>8, <1>15 DEF Microprice
    <2>2. MicropriceDeviation(s) = 0
      <3>1. c * m - c * m = 0 OBVIOUS
      <3> QED BY <1>6, <1>9, <2>1, <3>1 DEF MicropriceDeviation
    <2>3. Microprice(t.bid[1], t.ask[1]) = c * (R - m)
      <3>1. w + v = 0 BY <1>15
      <3>2. Microprice(t.bid[1], t.ask[1]) = c * (((R - a) + (R - b)) \div 2)
        BY <1>6, <1>12, <1>13, <3>1 DEF Microprice
      <3>3. ((R - a) + (R - b)) \div 2 = R - m BY <1>12, <1>13, <1>14 DEF Mid
      <3> QED BY <3>2, <3>3
    <2>4. MicropriceDeviation(t) = 0
      <3>1. c * (R - m) - c * (R - m) = 0 OBVIOUS
      <3> QED BY <1>6, <1>14, <2>3, <3>1 DEF MicropriceDeviation
    <2> QED BY <1>1, <1>2, <1>5, <1>8, <1>9, <1>10, <1>14, <2>2, <2>4 DEF Negates
  <1>16. CASE v + w # 0
    <2>1. PICK d \in Nat \ {0} : d = v + w BY <1>16
    <2>2. PICK x \in Int : x = c * (b * w + a * v) OBVIOUS
    <2>3. PICK y \in Int : y = c * ((R - a) * v + (R - b) * w) OBVIOUS
    <2>4. y = (c * R) * d - x
      <3>1. (R - a) * v + (R - b) * w = R * d - (b * w + a * v)
        <4>1. (R - a) * v = R * v - a * v /\ (R - b) * w = R * w - b * w OBVIOUS
        <4>2. R * d = R * v + R * w BY <2>1
        <4>3. R * v \in Int /\ R * w \in Int /\ a * v \in Int /\ b * w \in Int OBVIOUS
        <4> QED BY <4>1, <4>2, <4>3
      <3>2. PICK k \in Int : k = b * w + a * v OBVIOUS
      <3>3. c * (R * d - k) = (c * R) * d - c * k BY SMT
      <3> QED BY <2>2, <2>3, <3>1, <3>2, <3>3
    <2>5. PICK q \in Int : q = x \div d BY DivFloor
    <2>6. PICK r \in Int : r = y \div d BY DivFloor
    <2>7. PICK k \in Int : k = c * R OBVIOUS
    <2>8. q + r - k \in -1..0 BY <2>4, <2>5, <2>6, <2>7, QuotientOpposed
    <2>9. MicropriceDeviation(s) = q - c * m
      <3>1. Microprice(s.bid[1], s.ask[1]) = x \div d
        BY <1>1, <1>2, <1>3, <1>4, <1>6, <1>16, <2>1, <2>2 DEF Microprice
      <3> QED BY <1>6, <1>9, <2>5, <3>1 DEF MicropriceDeviation
    <2>10. MicropriceDeviation(t) = r - c * (R - m)
      <3>1. w + v = d /\ w + v # 0 BY <2>1
      <3>2. Microprice(t.bid[1], t.ask[1]) = y \div d
        BY <1>6, <1>12, <1>13, <2>3, <3>1 DEF Microprice
      <3> QED BY <1>6, <1>14, <2>6, <3>2 DEF MicropriceDeviation
    <2>11. c * (R - m) = k - c * m BY <2>7
    <2>12. PICK z \in Int : z = c * m OBVIOUS
    <2>13. MicropriceDeviation(s) = q - z /\ MicropriceDeviation(t) = r - (k - z)
      BY <2>9, <2>10, <2>11, <2>12
    <2>14. MicropriceDeviation(s) + MicropriceDeviation(t) \in -1..1
      <3>1. (q - z) + (r - (k - z)) = q + r - k OBVIOUS
      <3> QED BY <2>8, <2>13, <3>1
    <2> QED BY <1>1, <1>2, <1>5, <1>8, <1>9, <1>10, <1>14, <2>13, <2>14 DEF Negates
  <1> QED BY <1>15, <1>16

(* The fair value of mirrored sides.                                       *)
LEMMA FairFacts ==
  ASSUME NEW s \in Snapshots, NEW b \in Seq(BookRows), NEW a \in Seq(BookRows),
         b # <<>>, b[1].vol > 0
  PROVE  Negates(FairValue(b, a, 5) - Scale * Mid(s),
                 FairValue(Mirror(a), Mirror(b), 5) - Scale * Mid(Mirrored(s)))
  <1>1. PICK n \in Nat : n = 5 OBVIOUS
  <1>2. PICK tb \in Seq(BookRows) : tb = Top(b, n) BY TopFacts
  <1>3. PICK ta \in Seq(BookRows) : ta = Top(a, n) BY TopFacts
  <1>4. Top(Mirror(b), n) = Mirror(tb) /\ Top(Mirror(a), n) = Mirror(ta) BY <1>2, <1>3, TopFacts
  <1>5. PICK v \in Nat : v = Volume(tb) /\ Volume(Mirror(tb)) = v BY VolumeFacts
  <1>6. PICK w \in Nat : w = Volume(ta) /\ Volume(Mirror(ta)) = w BY VolumeFacts
  <1>7. PICK R \in Int : R = Reflection BY BookAssumption
  <1>8. PICK c \in Int : c = Scale BY BookAssumption
  <1>9. PICK p \in Int : p = Notional(tb) /\ Notional(Mirror(tb)) = R * v - p BY <1>5, <1>7, VolumeFacts
  <1>10. PICK o \in Int : o = Notional(ta) /\ Notional(Mirror(ta)) = R * w - o BY <1>6, <1>7, VolumeFacts
  <1>11. v > 0
    <2>1. Len(b) # 0 /\ Len(b) \in Nat BY EmptySeq, RowFacts
    <2>2. Len(tb) = IF n <= Len(b) THEN n ELSE Len(b) BY <1>2, TopFacts
    <2>3. Len(tb) # 0 /\ Len(tb) \in Nat BY <1>1, <2>1, <2>2
    <2>4. 1 \in 1..Len(tb) BY <2>3
    <2>5. tb[1] = b[1] BY <1>2, <2>4, TopFacts
    <2>6. tb # <<>> BY <2>3, EmptySeq
    <2> QED BY <1>5, <2>5, <2>6, VolumeFacts
  <1>12. PICK d \in Nat \ {0} : d = v + w BY <1>11
  <1>13. PICK x \in Int : x = c * (p + o) OBVIOUS
  <1>14. PICK y \in Int : y = c * ((R * w - o) + (R * v - p)) OBVIOUS
  <1>15. y = (c * R) * d - x
    <2>1. (R * w - o) + (R * v - p) = R * d - (p + o)
      <3>1. R * d = R * v + R * w BY <1>12
      <3>2. R * v \in Int /\ R * w \in Int OBVIOUS
      <3> QED BY <3>1, <3>2
    <2>2. PICK k \in Int : k = p + o OBVIOUS
    <2>3. c * (R * d - k) = (c * R) * d - c * k BY SMT
    <2> QED BY <1>13, <1>14, <2>1, <2>2, <2>3
  <1>16. PICK q \in Int : q = x \div d BY DivFloor
  <1>17. PICK r \in Int : r = y \div d BY DivFloor
  <1>18. PICK k \in Int : k = c * R OBVIOUS
  <1>19. q + r - k \in -1..0 BY <1>15, <1>16, <1>17, <1>18, QuotientOpposed
  <1>20. FairValue(b, a, n) = q
    <2>1. FairValue(b, a, n) = IF v + w = 0 THEN 0 ELSE (Scale * (p + o)) \div (v + w)
      BY <1>2, <1>3, <1>5, <1>6, <1>9, <1>10 DEF FairValue
    <2> QED BY <1>8, <1>12, <1>13, <1>16, <2>1
  <1>21. FairValue(Mirror(a), Mirror(b), n) = r
    <2>1. FairValue(Mirror(a), Mirror(b), n) =
            IF w + v = 0 THEN 0 ELSE (Scale * ((R * w - o) + (R * v - p))) \div (w + v)
      BY <1>4, <1>5, <1>6, <1>9, <1>10 DEF FairValue
    <2>2. w + v = d BY <1>12
    <2> QED BY <1>8, <1>14, <1>17, <2>1, <2>2
  <1>22. PICK m \in Int : m = Mid(s) /\ Mid(Mirrored(s)) = R - m BY <1>7, DeviationFacts
  <1>23. c * (R - m) = k - c * m BY <1>18
  <1>24. PICK z \in Int : z = c * m OBVIOUS
  <1>25. (q - z) + (r - (k - z)) \in -1..1
    <2>1. (q - z) + (r - (k - z)) = q + r - k OBVIOUS
    <2> QED BY <1>19, <2>1
  <1>26. Negates(q - c * m, r - c * (R - m)) BY <1>23, <1>24, <1>25 DEF Negates
  <1> QED BY <1>1, <1>8, <1>20, <1>21, <1>22, <1>26

(* The volumes of the other side's incidents.                              *)
LEMMA FlippedFacts ==
  ASSUME NEW kinds, NEW sides, NEW list \in Seq(Incidents(kinds, sides)),
         sides \subseteq {"BUY", "SELL", "BID", "ASK"},
         NEW sort, NEW side \in {"BUY", "SELL", "BID", "ASK"}
  PROVE  /\ VolumeOf(list, sort, side) \in Nat
         /\ VolumeOf(Flipped(list), sort, Opposite[side]) = VolumeOf(list, sort, side)
  <1>1. Len(list) \in Nat /\ DOMAIN list = 1..Len(list) BY LenProperties
  <1>2. \A i \in DOMAIN list : list[i] \in Incidents(kinds, sides) BY <1>1, ElementOfSeq
  <1>3. \A i \in DOMAIN list : list[i].volume \in Nat /\ list[i].side \in {"BUY", "SELL", "BID", "ASK"}
    BY <1>2 DEF Incidents
  <1>4. PICK f : f = Flipped(list) OBVIOUS
  <1>5. DOMAIN f = DOMAIN list
        /\ \A i \in DOMAIN list : f[i] = [list[i] EXCEPT !.side = Opposite[list[i].side]]
    BY <1>4 DEF Flipped
  <1>6. \A i \in DOMAIN list : /\ f[i].kind = list[i].kind /\ f[i].volume = list[i].volume
                               /\ f[i].side = Opposite[list[i].side]
    BY <1>2, <1>5 DEF Incidents
  <1>7. \A x \in {"BUY", "SELL", "BID", "ASK"} : Opposite[x] = Opposite[side] <=> x = side
    BY DEF Opposite
  <1>8. PICK S : S = {i \in DOMAIN list : list[i].kind = sort /\ list[i].side = side} OBVIOUS
  <1>9. {i \in DOMAIN f : f[i].kind = sort /\ f[i].side = Opposite[side]} = S
    BY <1>3, <1>5, <1>6, <1>7, <1>8
  <1>10. S \subseteq DOMAIN list /\ IsFiniteSet(S)
    <2>1. IsFiniteSet(DOMAIN list) BY <1>1, FS_Interval
    <2> QED BY <1>8, <2>1, FS_Subset
  <1>11. PICK v : v = [i \in S |-> list[i].volume] OBVIOUS
  <1>12. v \in Amounts(S) /\ \A i \in S : v[i] >= 0 BY <1>3, <1>10, <1>11 DEF Amounts
  <1>13. VolumeOf(list, sort, side) = SumFunction(v) BY <1>8, <1>11 DEF VolumeOf
  <1>14. [i \in S |-> f[i].volume] = v BY <1>6, <1>10, <1>11
  <1>15. VolumeOf(f, sort, Opposite[side]) = SumFunction(v) BY <1>9, <1>14 DEF VolumeOf
  <1>16. SumFunction(v) \in Int /\ SumFunction(v) >= 0 BY <1>10, <1>12, SumType, SumOfNaturals
  <1> QED BY <1>4, <1>13, <1>15, <1>16

LEMMA FlowFacts ==
  ASSUME NEW s \in Snapshots
  PROVE  /\ FlowImbalance(s) = -FlowImbalance(Mirrored(s))
         /\ EventFeatures(s).arrival_imbalance = -EventFeatures(Mirrored(s)).arrival_imbalance
         /\ EventFeatures(s).cancellation_imbalance = -EventFeatures(Mirrored(s)).cancellation_imbalance
  <1>1. PICK t : t = Mirrored(s) OBVIOUS
  <1>2. t.trades = Flipped(s.trades) /\ t.events = Flipped(s.events) BY <1>1 DEF Mirrored
  <1>3. /\ Opposite["BUY"] = "SELL" /\ Opposite["SELL"] = "BUY"
        /\ Opposite["BID"] = "ASK" /\ Opposite["ASK"] = "BID"
    BY DEF Opposite
  <1>4. ASSUME NEW side \in {"BUY", "SELL"}
        PROVE  /\ VolumeOf(s.trades, "TRADE", side) \in Nat
               /\ VolumeOf(t.trades, "TRADE", Opposite[side]) = VolumeOf(s.trades, "TRADE", side)
    <2>1. s.trades \in Seq(Incidents({"TRADE"}, {"BUY", "SELL"})) BY SnapshotFacts
    <2>2. {"BUY", "SELL"} \subseteq {"BUY", "SELL", "BID", "ASK"} OBVIOUS
    <2> QED BY <1>2, <2>1, <2>2, FlippedFacts
  <1>5. ASSUME NEW sort, NEW side \in {"BID", "ASK"}
        PROVE  /\ VolumeOf(s.events, sort, side) \in Nat
               /\ VolumeOf(t.events, sort, Opposite[side]) = VolumeOf(s.events, sort, side)
    <2>1. s.events \in Seq(Incidents({"ARRIVAL", "CANCELLATION", "MODIFICATION"}, {"BID", "ASK"}))
      BY SnapshotFacts
    <2>2. {"BID", "ASK"} \subseteq {"BUY", "SELL", "BID", "ASK"} OBVIOUS
    <2> QED BY <1>2, <2>1, <2>2, FlippedFacts
  <1>6. FlowImbalance(s) = -FlowImbalance(t)
    <2>1. PICK v \in Nat : v = VolumeOf(s.trades, "TRADE", "BUY") BY <1>4
    <2>2. PICK w \in Nat : w = VolumeOf(s.trades, "TRADE", "SELL") BY <1>4
    <2>3. VolumeOf(t.trades, "TRADE", "SELL") = v BY <1>3, <1>4, <2>1
    <2>4. VolumeOf(t.trades, "TRADE", "BUY") = w BY <1>3, <1>4, <2>2
    <2>5. FlowImbalance(s) = Imbalance(v, w) /\ FlowImbalance(t) = Imbalance(w, v)
      BY <2>1, <2>2, <2>3, <2>4 DEF FlowImbalance
    <2> QED BY <2>5, ImbalanceFacts
  <1>7. ASSUME NEW sort
        PROVE  Imbalance(VolumeOf(s.events, sort, "BID"), VolumeOf(s.events, sort, "ASK"))
                 = -Imbalance(VolumeOf(t.events, sort, "BID"), VolumeOf(t.events, sort, "ASK"))
    <2>1. PICK v \in Nat : v = VolumeOf(s.events, sort, "BID") BY <1>5
    <2>2. PICK w \in Nat : w = VolumeOf(s.events, sort, "ASK") BY <1>5
    <2>3. VolumeOf(t.events, sort, "ASK") = v BY <1>3, <1>5, <2>1
    <2>4. VolumeOf(t.events, sort, "BID") = w BY <1>3, <1>5, <2>2
    <2>5. Imbalance(v, w) = -Imbalance(w, v) BY ImbalanceFacts
    <2> QED BY <2>1, <2>2, <2>3, <2>4, <2>5
  <1>8. \A x \in {s, t} :
          /\ EventFeatures(x).arrival_imbalance =
               Imbalance(VolumeOf(x.events, "ARRIVAL", "BID"), VolumeOf(x.events, "ARRIVAL", "ASK"))
          /\ EventFeatures(x).cancellation_imbalance =
               Imbalance(VolumeOf(x.events, "CANCELLATION", "BID"), VolumeOf(x.events, "CANCELLATION", "ASK"))
    BY DEF EventFeatures
  <1>9. EventFeatures(s).arrival_imbalance = -EventFeatures(t).arrival_imbalance BY <1>7, <1>8
  <1>10. EventFeatures(s).cancellation_imbalance = -EventFeatures(t).cancellation_imbalance
    BY <1>7, <1>8
  <1> QED BY <1>1, <1>6, <1>9, <1>10

(* Both sides' depth, read from either side.                               *)
LEMMA DepthFacts ==
  ASSUME NEW b \in Seq(BookRows), NEW a \in Seq(BookRows), b # <<>>, a # <<>>
  PROVE  /\ SpreadDepth(b, a).spread = SpreadDepth(Mirror(a), Mirror(b)).spread
         /\ SpreadDepth(b, a).total_depth = SpreadDepth(Mirror(a), Mirror(b)).total_depth
         /\ SpreadDepth(b, a).bid_pressure = SpreadDepth(Mirror(a), Mirror(b)).ask_pressure
  <1>1. PICK x \in Int : x = Best(b) BY PressureFacts
  <1>2. PICK y \in Int : y = Best(a) BY PressureFacts
  <1>3. PICK R \in Int : R = Reflection BY BookAssumption
  <1>4. Best(Mirror(b)) = R - x /\ Best(Mirror(a)) = R - y BY <1>1, <1>2, <1>3, PressureFacts
  <1>5. PICK v \in Nat : v = Volume(b) /\ Volume(Mirror(b)) = v BY VolumeFacts
  <1>6. PICK w \in Nat : w = Volume(a) /\ Volume(Mirror(a)) = w BY VolumeFacts
  <1>7. SpreadDepth(b, a).spread = y - x /\ SpreadDepth(Mirror(a), Mirror(b)).spread = (R - x) - (R - y)
    BY <1>1, <1>2, <1>4 DEF SpreadDepth
  <1>8. SpreadDepth(b, a).total_depth = v + w /\ SpreadDepth(Mirror(a), Mirror(b)).total_depth = w + v
    BY <1>5, <1>6 DEF SpreadDepth
  <1>9. SpreadDepth(b, a).bid_pressure = Pressure(b)
        /\ SpreadDepth(Mirror(a), Mirror(b)).ask_pressure = Pressure(Mirror(b))
    BY DEF SpreadDepth
  <1>10. Pressure(Mirror(b)) = Pressure(b) BY PressureFacts
  <1> QED BY <1>7, <1>8, <1>9, <1>10

LEMMA SidesFacts ==
  ASSUME NEW s \in Snapshots
  PROVE  LET f == Extract(s)  g == Extract(Mirrored(s))
             bids == ExtractLevels(s.bid)  asks == ExtractLevels(s.ask)
         IN  /\ FlowImbalance(s) = -FlowImbalance(Mirrored(s))
             /\ bids # <<>> /\ asks # <<>> =>
                  /\ \A name \in DOMAIN f.imbalances :
                       name # "imb_top10" \/ Len(bids) = Len(asks) =>
                         /\ f.imbalances[name] = -g.imbalances[name]
                         /\ Predict(f.imbalances[name]).prob_up = Predict(g.imbalances[name]).prob_down
                  /\ Negates(f.deviation, g.deviation) /\ Negates(f.fair_value_gap, g.fair_value_gap)
                  /\ f.depth.spread = g.depth.spread /\ f.depth.bid_pressure = g.depth.ask_pressure
                  /\ f.events.arrival_imbalance = -g.events.arrival_imbalance
                  /\ f.events.cancellation_imbalance = -g.events.cancellation_imbalance
                  /\ f.regime = g.regime
  <1>1. PICK f : f = Extract(s) OBVIOUS
  <1>2. PICK t : t = Mirrored(s) OBVIOUS
  <1>3. PICK g : g = Extract(t) OBVIOUS
  <1>4. s.bid \in Seq(BookRows) /\ s.ask \in Seq(BookRows) BY SnapshotFacts
  <1>5. PICK b \in Seq(BookRows) : b = ExtractLevels(s.bid) BY <1>4, ExtractedFacts
  <1>6. PICK a \in Seq(BookRows) : a = ExtractLevels(s.ask) BY <1>4, ExtractedFacts
  <1>7. t.bid = Mirror(s.ask) /\ t.ask = Mirror(s.bid) BY <1>2 DEF Mirrored
  <1>8. ExtractLevels(t.bid) = Mirror(a) /\ ExtractLevels(t.ask) = Mirror(b)
    BY <1>4, <1>5, <1>6, <1>7, ExtractedFacts
  <1>9. /\ f.imbalances = Imbalances(b, a) /\ f.deviation = MicropriceDeviation(s)
        /\ f.fair_value_gap = FairValue(b, a, 5) - Scale * Mid(s)
        /\ f.depth = SpreadDepth(b, a) /\ f.events = EventFeatures(s)
        /\ f.regime = DetectRegime(SpreadDepth(b, a).spread, SpreadDepth(b, a).total_depth, 0)
    BY <1>1, <1>5, <1>6 DEF Extract
  <1>10. PICK mb : mb = Mirror(b) OBVIOUS
  <1>11. PICK ma : ma = Mirror(a) OBVIOUS
  <1>12. /\ g.imbalances = Imbalances(ma, mb) /\ g.deviation = MicropriceDeviation(t)
         /\ g.fair_value_gap = FairValue(ma, mb, 5) - Scale * Mid(t)
         /\ g.depth = SpreadDepth(ma, mb) /\ g.events = EventFeatures(t)
         /\ g.regime = DetectRegime(SpreadDepth(ma, mb).spread, SpreadDepth(ma, mb).total_depth, 0)
    BY <1>3, <1>8, <1>10, <1>11 DEF Extract
  <1>13. FlowImbalance(s) = -FlowImbalance(t) BY <1>2, FlowFacts
  <1>14. ASSUME NEW name \in DOMAIN f.imbalances, name # "imb_top10" \/ Len(b) = Len(a)
         PROVE  /\ f.imbalances[name] = -g.imbalances[name]
                /\ Predict(f.imbalances[name]).prob_up = Predict(g.imbalances[name]).prob_down
    <2>1. PICK h : h = f.imbalances OBVIOUS
    <2>2. PICK k : k = g.imbalances OBVIOUS
    <2>3. h = Imbalances(b, a) /\ k = Imbalances(Mirror(a), Mirror(b))
      BY <1>9, <1>10, <1>11, <1>12, <2>1, <2>2
    <2>4. name \in DOMAIN h BY <1>14, <2>1
    <2>5. h[name] = -k[name] /\ h[name] \in Int /\ k[name] \in Int
      BY <1>14, <2>3, <2>4, ImbalancesFacts
    <2>6. PICK x \in Int : x = h[name] BY <2>5
    <2>7. PICK y \in Int : y = k[name] BY <2>5
    <2>8. PICK c \in Int : c = Scale BY BookAssumption
    <2>9. Predict(x).prob_up = c + x BY <2>8 DEF Predict
    <2>10. Predict(y).prob_down = 2 * c - (c + y) BY <2>8 DEF Predict
    <2>11. x = -y BY <2>5, <2>6, <2>7
    <2>12. c + x = 2 * c - (c + y)
      <3>1. y + x = 0 BY <2>11, NegativeIs
      <3> QED BY <3>1
    <2> QED BY <2>1, <2>2, <2>5, <2>6, <2>7, <2>9, <2>10, <2>12
  <1>15. Negates(f.deviation, g.deviation) BY <1>2, <1>9, <1>12, DeviationFacts
  <1>16. ASSUME b # <<>>, a # <<>> PROVE Negates(f.fair_value_gap, g.fair_value_gap)
    <2>1. b[1].vol > 0
      <3>1. Len(b) # 0 BY <1>16, EmptySeq
      <3>2. 1 \in DOMAIN b BY <3>1, RowFacts
      <3> QED BY <1>4, <1>5, <3>2, ExtractedFacts
    <2>2. Negates(FairValue(b, a, 5) - Scale * Mid(s),
                  FairValue(Mirror(a), Mirror(b), 5) - Scale * Mid(Mirrored(s)))
      BY <1>16, <2>1, FairFacts
    <2> QED BY <1>2, <1>9, <1>10, <1>11, <1>12, <2>2
  <1>17. ASSUME b # <<>>, a # <<>>
         PROVE  /\ f.depth.spread = g.depth.spread /\ f.depth.bid_pressure = g.depth.ask_pressure
                /\ f.regime = g.regime
    <2>1. /\ SpreadDepth(b, a).spread = SpreadDepth(ma, mb).spread
          /\ SpreadDepth(b, a).total_depth = SpreadDepth(ma, mb).total_depth
          /\ SpreadDepth(b, a).bid_pressure = SpreadDepth(ma, mb).ask_pressure
      BY <1>10, <1>11, <1>17, DepthFacts
    <2> QED BY <1>9, <1>12, <2>1
  <1>18. /\ f.events.arrival_imbalance = -g.events.arrival_imbalance
         /\ f.events.cancellation_imbalance = -g.events.cancellation_imbalance
    BY <1>2, <1>9, <1>12, FlowFacts
  <1>19. b # <<>> /\ a # <<>> =>
           /\ \A name \in DOMAIN f.imbalances :
                name # "imb_top10" \/ Len(b) = Len(a) =>
                  /\ f.imbalances[name] = -g.imbalances[name]
                  /\ Predict(f.imbalances[name]).prob_up = Predict(g.imbalances[name]).prob_down
           /\ Negates(f.deviation, g.deviation) /\ Negates(f.fair_value_gap, g.fair_value_gap)
           /\ f.depth.spread = g.depth.spread /\ f.depth.bid_pressure = g.depth.ask_pressure
           /\ f.events.arrival_imbalance = -g.events.arrival_imbalance
           /\ f.events.cancellation_imbalance = -g.events.cancellation_imbalance
           /\ f.regime = g.regime
    BY <1>14, <1>15, <1>16, <1>17, <1>18, Zenon
  <1> QED BY <1>1, <1>2, <1>3, <1>5, <1>6, <1>13, <1>19, Zenon

(* The first level's volume, and its part of the imbalances.               *)
LEMMA TopOne ==
  ASSUME NEW levels \in Seq(BookRows), levels # <<>>, levels[1].vol > 0
  PROVE  Volume(Top(ExtractLevels(levels), 1)) = levels[1].vol
  <1>1. PICK e \in Seq(BookRows) : e = ExtractLevels(levels) BY ExtractedFacts
  <1>2. e # <<>> /\ e[1] = levels[1] BY <1>1, ExtractedFacts
  <1>3. Len(e) # 0 /\ Len(e) \in Nat BY <1>2, EmptySeq, RowFacts
  <1>4. PICK t \in Seq(BookRows) : t = Top(e, 1) BY TopFacts
  <1>5. PICK n \in Nat : n = 1 OBVIOUS
  <1>6. Len(t) = IF n <= Len(e) THEN n ELSE Len(e) BY <1>4, <1>5, TopFacts
  <1>7. Len(t) = n /\ DOMAIN t = 1..n BY <1>3, <1>5, <1>6, RowFacts
  <1>8. 1 \in 1..Len(t) BY <1>5, <1>7
  <1>9. t[1] = levels[1] BY <1>2, <1>4, <1>5, <1>8, TopFacts
  <1>10. PICK c \in Nat : c = levels[1].vol
    <2>1. 1 \in DOMAIN e BY <1>3, RowFacts
    <2> QED BY <1>2, <2>1, RowFacts
  <1>11. PICK f : f = [i \in 1..n |-> t[i].vol] OBVIOUS
  <1>12. \A i \in 1..n : f[i] = c
    <2>1. \A i \in 1..n : i = 1 BY <1>5
    <2> QED BY <1>9, <1>10, <1>11, <2>1
  <1>13. f \in Amounts(1..n) BY <1>11, <1>12 DEF Amounts
  <1>14. SumFunction(f) = n * c
    <2>1. c \in Int OBVIOUS
    <2> QED BY <1>12, <1>13, <2>1, SumConstant, Zenon
  <1>15. Volume(t) = SumFunction(f) BY <1>7, <1>11 DEF Volume
  <1> QED BY <1>1, <1>4, <1>5, <1>10, <1>14, <1>15

LEMMA PointingFacts ==
  ASSUME NEW s \in Snapshots, s.bid[1].vol > 0, s.ask[1].vol > 0
  PROVE  LET f == Extract(s)
         IN  /\ Apart(f.deviation, 0) <= Scale * (s.ask[1].px - Mid(s))
             /\ f.imbalances.imb_top1 > 0 => f.deviation >= 0
             /\ f.imbalances.imb_top1 < 0 => f.deviation <= 0
             /\ s.ask[1].px > s.bid[1].px /\ f.deviation > 0 => f.imbalances.imb_top1 >= 0
  <1>1. PICK b \in Int : b = s.bid[1].px BY SnapshotFacts
  <1>2. PICK a \in Int : a = s.ask[1].px BY SnapshotFacts
  <1>3. PICK v \in Nat \ {0} : v = s.bid[1].vol BY SnapshotFacts
  <1>4. PICK w \in Nat \ {0} : w = s.ask[1].vol BY SnapshotFacts
  <1>5. PICK c \in Nat \ {0} : c = Scale BY BookAssumption
  <1>6. PICK m \in Int : m = Mid(s) BY DeviationFacts
  <1>7. 2 * m = b + a BY <1>1, <1>2, <1>6, DeviationFacts
  <1>8. b <= a BY <1>1, <1>2, SnapshotFacts
  <1>9. PICK d \in Nat \ {0} : d = v + w OBVIOUS
  <1>10. PICK k \in Int : k = b * w + a * v OBVIOUS
  <1>11. d * b <= k /\ k <= d * a /\ (v >= w => d * m <= k) /\ (v <= w => k <= d * m)
    BY <1>7, <1>8, <1>9, <1>10, WeighedBetween
  <1>12. PICK x \in Int : x = c * k OBVIOUS
  <1>13. ASSUME NEW p \in Int PROVE /\ d * p <= k => d * (c * p) <= x
                                    /\ k <= d * p => x <= d * (c * p)
    <2>1. c * (d * p) = d * (c * p) /\ d * p \in Int OBVIOUS
    <2>2. d * p <= k => c * (d * p) <= c * k BY <2>1, TimesOrdered
    <2>3. k <= d * p => c * k <= c * (d * p) BY <2>1, TimesOrdered
    <2> QED BY <1>12, <2>1, <2>2, <2>3
  <1>14. PICK q \in Int : q = x \div d BY DivFloor
  <1>15. PICK cb \in Int : cb = c * b OBVIOUS
  <1>16. PICK ca \in Int : ca = c * a OBVIOUS
  <1>17. PICK cm \in Int : cm = c * m OBVIOUS
  <1>18. d * cb <= x /\ x <= d * ca /\ (v >= w => d * cm <= x) /\ (v <= w => x <= d * cm)
    BY <1>11, <1>13, <1>15, <1>16, <1>17
  <1>19. cb <= q /\ q <= ca BY <1>14, <1>18, QuotientBetween
  <1>20. d * cm <= x => cm <= q
    <2>1. cm <= ca
      <3>1. m <= a BY <1>7, <1>8
      <3> QED BY <1>16, <1>17, <3>1, TimesOrdered
    <2>2. ASSUME d * cm <= x PROVE cm <= q BY <1>14, <1>18, <2>2, QuotientBetween
    <2> QED BY <2>2
  <1>21. x <= d * cm => q <= cm
    <2>1. ASSUME x <= d * cm PROVE q <= cm BY <1>14, <1>18, <2>1, QuotientBetween
    <2> QED BY <2>1
  <1>22. PICK dev \in Int : dev = q - cm OBVIOUS
  <1>23. MicropriceDeviation(s) = dev
    <2>1. v + w # 0 OBVIOUS
    <2>2. Microprice(s.bid[1], s.ask[1]) = x \div d
      BY <1>1, <1>2, <1>3, <1>4, <1>5, <1>9, <1>10, <1>12, <2>1 DEF Microprice
    <2> QED BY <1>5, <1>6, <1>14, <1>17, <1>22, <2>2 DEF MicropriceDeviation
  <1>24. Apart(dev, 0) <= c * (a - m)
    <2>1. c * (a - m) = ca - cm BY <1>16, <1>17
    <2>2. cm - cb = ca - cm
      <3>1. c * (2 * m) = 2 * cm BY <1>17
      <3>2. c * (b + a) = cb + ca BY <1>15, <1>16
      <3>3. cb + ca = 2 * cm BY <1>7, <3>1, <3>2
      <3> QED BY <3>3
    <2>3. dev <= ca - cm /\ -dev <= ca - cm BY <1>19, <1>22, <2>2
    <2>4. Apart(dev, 0) = IF dev < 0 THEN 0 - dev ELSE dev - 0 BY DEF Apart
    <2> QED BY <2>1, <2>3, <2>4
  <1>25. PICK f : f = Extract(s) OBVIOUS
  <1>26. PICK e \in Seq(BookRows) : e = ExtractLevels(s.bid)
    <2>1. s.bid \in Seq(BookRows) BY SnapshotFacts
    <2> QED BY <2>1, ExtractedFacts
  <1>27. PICK g \in Seq(BookRows) : g = ExtractLevels(s.ask)
    <2>1. s.ask \in Seq(BookRows) BY SnapshotFacts
    <2> QED BY <2>1, ExtractedFacts
  <1>28. f.deviation = dev /\ f.imbalances = Imbalances(e, g)
    BY <1>23, <1>25, <1>26, <1>27 DEF Extract
  <1>29. Volume(Top(e, 1)) = v
    <2>1. s.bid \in Seq(BookRows) /\ s.bid # <<>> BY SnapshotFacts
    <2> QED BY <1>3, <1>26, <2>1, TopOne
  <1>30. Volume(Top(g, 1)) = w
    <2>1. s.ask \in Seq(BookRows) /\ s.ask # <<>> BY SnapshotFacts
    <2> QED BY <1>4, <1>27, <2>1, TopOne
  <1>31. f.imbalances.imb_top1 = Imbalance(v, w)
    <2>1. Imbalances(e, g).imb_top1 = ComputeImbalance(e, g, 1) BY DEF Imbalances
    <2>2. ComputeImbalance(e, g, 1) = Imbalance(v, w) BY <1>29, <1>30 DEF ComputeImbalance
    <2> QED BY <1>28, <2>1, <2>2
  <1>32. PICK i \in Int : i = Imbalance(v, w) /\ (i > 0 => v > w) /\ (i < 0 => v < w) BY ImbalanceFacts
  <1>33. (i > 0 => dev >= 0) /\ (i < 0 => dev <= 0) BY <1>18, <1>20, <1>21, <1>22, <1>32
  <1>34. dev > 0 => i >= 0 BY <1>33
  <1> QED BY <1>2, <1>5, <1>6, <1>24, <1>25, <1>28, <1>31, <1>32, <1>33, <1>34

(* Rows taken in another order have the same volume.                       *)
LEMMA ReorderedFacts ==
  ASSUME NEW levels \in Seq(BookRows), NEW to \in Bijection(DOMAIN levels, DOMAIN levels),
         NEW taken, taken = [k \in DOMAIN levels |-> levels[to[k]]]
  PROVE  taken \in Seq(BookRows) /\ DOMAIN taken = DOMAIN levels /\ Volume(taken) = Volume(levels)
  <1>1. PICK D : D = DOMAIN levels /\ IsFiniteSet(D) BY RowFacts
  <1>2. to \in [D -> D] BY <1>1 DEF Bijection, Injection
  <1>3. DOMAIN taken = D /\ \A k \in D : taken[k] = levels[to[k]] /\ to[k] \in D BY <1>1, <1>2
  <1>4. taken \in Seq(BookRows)
    <2>1. taken \in [1..Len(levels) -> BookRows] BY <1>1, <1>3, RowFacts
    <2> QED BY <2>1, RowFacts
  <1>5. PICK f : f = [i \in D |-> levels[i].vol] OBVIOUS
  <1>6. PICK h : h = [i \in D |-> taken[i].vol] OBVIOUS
  <1>7. f \in Amounts(D) /\ h \in Amounts(D) BY <1>1, <1>3, <1>4, <1>5, <1>6, RowFacts DEF Amounts
  <1>8. \A i \in D : h[i] = f[to[i]] BY <1>3, <1>5, <1>6
  <1>9. to \in Bijection(D, D) BY <1>1
  <1>10. SumFunction(h) = SumFunction(f) BY <1>1, <1>7, <1>8, <1>9, SumRename
  <1>11. Volume(levels) = SumFunction(f) /\ Volume(taken) = SumFunction(h)
    BY <1>1, <1>3, <1>5, <1>6 DEF Volume
  <1> QED BY <1>1, <1>3, <1>4, <1>10, <1>11

LEMMA ReverseFacts ==
  ASSUME NEW levels \in Seq(BookRows)
  PROVE  Reverse(levels) \in Seq(BookRows) /\ Volume(Reverse(levels)) = Volume(levels)
  <1>1. PICK n \in Nat : n = Len(levels) /\ DOMAIN levels = 1..n BY RowFacts
  <1>2. PICK D : D = 1..n /\ IsFiniteSet(D) BY <1>1, RowFacts
  <1>3. PICK to : to = [k \in D |-> n - k + 1] OBVIOUS
  <1>4. to \in Injection(D, D)
    <2>1. to \in [D -> D] BY <1>2, <1>3
    <2>2. \A k, l \in D : to[k] = to[l] => k = l BY <1>2, <1>3
    <2> QED BY <2>1, <2>2 DEF Injection, IsInjective
  <1>5. to \in Surjection(D, D) BY <1>2, <1>4, FS_Injection
  <1>6. to \in Bijection(DOMAIN levels, DOMAIN levels) BY <1>1, <1>2, <1>4, <1>5 DEF Bijection
  <1>7. PICK taken : taken = [k \in DOMAIN levels |-> levels[to[k]]] OBVIOUS
  <1>8. Reverse(levels) = taken
    <2>1. Reverse(levels) = [k \in D |-> levels[(n - k) + 1]] BY <1>1, <1>2 DEF Reverse
    <2>2. \A k \in D : to[k] = (n - k) + 1 BY <1>3
    <2> QED BY <1>1, <1>2, <1>7, <2>1, <2>2, Zenon
  <1> QED BY <1>6, <1>7, <1>8, ReorderedFacts

(* A sorted side has its best levels first, and the volume it had.         *)
LEMMA SortedFacts ==
  ASSUME NEW levels \in Seq(BookRows), NEW side \in {"BUY", "SELL"}
  PROVE  /\ SortedLevels(levels, side) \in Seq(BookRows)
         /\ Volume(SortedLevels(levels, side)) = Volume(levels)
         /\ \A i, j \in DOMAIN SortedLevels(levels, side) :
              i < j => Key(side, SortedLevels(levels, side)[i].px) <= Key(side, SortedLevels(levels, side)[j].px)
  <1>1. PICK n \in Nat : n = Len(levels) /\ DOMAIN levels = 1..n BY RowFacts
  <1>2. PICK key : key = [i \in 1..n |-> Key(side, levels[i].px)] OBVIOUS
  <1>3. key \in [1..n -> Int] BY <1>1, <1>2, RowFacts DEF Key
  <1>4. PICK to : to = [k \in 1..n |-> Ordered(key, k)] OBVIOUS
  <1>5. to \in Bijection(1..n, 1..n) BY <1>3, <1>4, OrderedFacts
  <1>6. to \in Bijection(DOMAIN levels, DOMAIN levels) BY <1>1, <1>5
  <1>7. PICK taken : taken = [k \in DOMAIN levels |-> levels[to[k]]] OBVIOUS
  <1>8. SortedLevels(levels, side) = taken
    <2>1. SortedLevels(levels, side) = [k \in 1..n |-> levels[Ordered(key, k)]]
      BY <1>1, <1>2, Zenon DEF SortedLevels
    <2> QED BY <1>1, <1>4, <1>7, <2>1
  <1>9. taken \in Seq(BookRows) /\ DOMAIN taken = DOMAIN levels /\ Volume(taken) = Volume(levels)
    BY <1>6, <1>7, ReorderedFacts
  <1>10. \A k, l \in 1..n : k < l => key[Ordered(key, k)] <= key[Ordered(key, l)] BY <1>3, OrderedFacts
  <1>11. \A k \in 1..n : Ordered(key, k) \in 1..n BY <1>3, OrderedFacts
  <1>12. \A k \in 1..n : Key(side, taken[k].px) = key[Ordered(key, k)]
    BY <1>1, <1>2, <1>4, <1>7, <1>11
  <1> QED BY <1>1, <1>8, <1>9, <1>10, <1>12

(* The further back a price is, the more levels are ahead.                 *)
LEMMA AheadFacts ==
  ASSUME NEW levels \in Seq(BookRows), NEW side \in {"BUY", "SELL"},
         \A i, j \in DOMAIN levels : i < j => Key(side, levels[i].px) <= Key(side, levels[j].px),
         NEW p \in Int, NEW q \in Int, Key(side, p) <= Key(side, q)
  PROVE  /\ SumFunction([i \in AheadOf(p, side, levels) |-> levels[i].vol])
              <= SumFunction([i \in AheadOf(q, side, levels) |-> levels[i].vol])
         /\ SumFunction([i \in AheadOf(q, side, levels) |-> levels[i].vol]) <= Volume(levels)
  <1>1. PICK D : D = DOMAIN levels /\ IsFiniteSet(D) BY RowFacts
  <1>2. \A i \in D : Key(side, levels[i].px) \in Int /\ i \in Int
    BY <1>1, RowFacts DEF Key
  <1>3. Key(side, p) \in Int /\ Key(side, q) \in Int BY DEF Key
  <1>4. PICK U : U = AheadOf(p, side, levels) OBVIOUS
  <1>5. PICK T : T = AheadOf(q, side, levels) OBVIOUS
  <1>6. T \subseteq D BY <1>1, <1>5 DEF AheadOf
  <1>7. U \subseteq T
    <2> SUFFICES ASSUME NEW i \in U PROVE i \in T OBVIOUS
    <2>1. /\ i \in D /\ Key(side, levels[i].px) <= Key(side, p)
          /\ \A j \in D : levels[j].px = p => i <= j
      BY <1>1, <1>4 DEF AheadOf
    <2>2. Key(side, levels[i].px) <= Key(side, q) BY <1>2, <1>3, <2>1
    <2>3. ASSUME NEW j \in D, levels[j].px = q PROVE i <= j
      <3>1. CASE p = q BY <2>1, <2>3, <3>1
      <3>2. CASE p # q
        <4>1. Key(side, p) # Key(side, q) BY <3>2 DEF Key
        <4>2. Key(side, levels[i].px) < Key(side, levels[j].px) BY <1>2, <1>3, <2>1, <2>3, <4>1
        <4>3. ~(j < i) BY <1>1, <1>2, <2>1, <4>2
        <4> QED BY <1>2, <2>1, <4>3
      <3> QED BY <3>1, <3>2
    <2> QED BY <1>1, <1>5, <2>1, <2>2, <2>3 DEF AheadOf
  <1>8. PICK f : f = [i \in D |-> levels[i].vol] OBVIOUS
  <1>9. f \in Amounts(D) /\ \A i \in D : f[i] >= 0 BY <1>1, <1>8, RowFacts DEF Amounts
  <1>10. [i \in U |-> levels[i].vol] = Restrict(f, U) /\ [i \in T |-> levels[i].vol] = Restrict(f, T)
    BY <1>6, <1>7, <1>8 DEF Restrict
  <1>11. SumFunction(Restrict(f, U)) <= SumFunction(Restrict(f, T))
         /\ SumFunction(Restrict(f, T)) <= SumFunction(f)
    BY <1>1, <1>6, <1>7, <1>9, SumOfPart
  <1>12. Volume(levels) = SumFunction(f) BY <1>1, <1>8 DEF Volume
  <1> QED BY <1>4, <1>5, <1>10, <1>11, <1>12

LEMMA QueuesFacts ==
  ASSUME NEW s \in Snapshots
  PROVE  LET book == ParseSnapshot(Reverse(s.bid), Reverse(s.ask))
             prices == {l.px : l \in ToSet(s.bid \o s.ask)}
             Ahead(px, side) == EstimatePosition(px, side, book.bids, book.asks)
         IN  \A p, q \in prices :
               /\ p >= q => /\ Ahead(p, "BUY") <= Ahead(q, "BUY")
                            /\ Ahead(q, "SELL") <= Ahead(p, "SELL")
               /\ Ahead(p, "BUY") <= Volume(s.bid) /\ Ahead(p, "SELL") <= Volume(s.ask)
  <1>1. s.bid \in Seq(BookRows) /\ s.ask \in Seq(BookRows) BY SnapshotFacts
  <1>2. PICK book : book = ParseSnapshot(Reverse(s.bid), Reverse(s.ask)) OBVIOUS
  <1>3. PICK bs : bs = SortedLevels(Reverse(s.bid), "BUY") OBVIOUS
  <1>4. PICK as : as = SortedLevels(Reverse(s.ask), "SELL") OBVIOUS
  <1>5. book.bids = bs /\ book.asks = as BY <1>2, <1>3, <1>4 DEF ParseSnapshot
  <1>6. bs \in Seq(BookRows) /\ Volume(bs) = Volume(s.bid)
        /\ \A i, j \in DOMAIN bs : i < j => Key("BUY", bs[i].px) <= Key("BUY", bs[j].px)
    <2>1. Reverse(s.bid) \in Seq(BookRows) /\ Volume(Reverse(s.bid)) = Volume(s.bid)
      BY <1>1, ReverseFacts
    <2> QED BY <1>3, <2>1, SortedFacts
  <1>7. as \in Seq(BookRows) /\ Volume(as) = Volume(s.ask)
        /\ \A i, j \in DOMAIN as : i < j => Key("SELL", as[i].px) <= Key("SELL", as[j].px)
    <2>1. Reverse(s.ask) \in Seq(BookRows) /\ Volume(Reverse(s.ask)) = Volume(s.ask)
      BY <1>1, ReverseFacts
    <2> QED BY <1>4, <2>1, SortedFacts
  <1>8. PICK prices : prices = {l.px : l \in ToSet(s.bid \o s.ask)} OBVIOUS
  <1>9. prices \subseteq Int
    <2>1. PICK both : both = s.bid \o s.ask OBVIOUS
    <2>2. both \in Seq(BookRows) BY <1>1, <2>1
    <2>3. \A i \in DOMAIN both : both[i].px \in Int BY <2>2, RowFacts
    <2>4. prices = {l.px : l \in {both[i] : i \in DOMAIN both}} BY <1>8, <2>1 DEF ToSet
    <2> QED BY <2>3, <2>4
  <1>10. \A p : /\ EstimatePosition(p, "BUY", book.bids, book.asks) =
                     SumFunction([i \in AheadOf(p, "BUY", bs) |-> bs[i].vol])
                /\ EstimatePosition(p, "SELL", book.bids, book.asks) =
                     SumFunction([i \in AheadOf(p, "SELL", as) |-> as[i].vol])
    <2>1. ("BUY" = "BUY") /\ ~("SELL" = "BUY") OBVIOUS
    <2> QED BY <1>5, <2>1 DEF EstimatePosition
  <1>11. ASSUME NEW p \in Int, NEW q \in Int
         PROVE  /\ p >= q => SumFunction([i \in AheadOf(p, "BUY", bs) |-> bs[i].vol])
                               <= SumFunction([i \in AheadOf(q, "BUY", bs) |-> bs[i].vol])
                /\ p >= q => SumFunction([i \in AheadOf(q, "SELL", as) |-> as[i].vol])
                               <= SumFunction([i \in AheadOf(p, "SELL", as) |-> as[i].vol])
                /\ SumFunction([i \in AheadOf(p, "BUY", bs) |-> bs[i].vol]) <= Volume(s.bid)
                /\ SumFunction([i \in AheadOf(p, "SELL", as) |-> as[i].vol]) <= Volume(s.ask)
    <2>1. p >= q => Key("BUY", p) <= Key("BUY", q) /\ Key("SELL", q) <= Key("SELL", p) BY DEF Key
    <2>2. Key("BUY", p) <= Key("BUY", p) /\ Key("SELL", p) <= Key("SELL", p) BY DEF Key
    <2>3. "BUY" \in {"BUY", "SELL"} /\ "SELL" \in {"BUY", "SELL"} OBVIOUS
    <2>4. ASSUME p >= q PROVE SumFunction([i \in AheadOf(p, "BUY", bs) |-> bs[i].vol])
                               <= SumFunction([i \in AheadOf(q, "BUY", bs) |-> bs[i].vol])
      BY <1>6, <2>1, <2>3, <2>4, AheadFacts
    <2>5. ASSUME p >= q PROVE SumFunction([i \in AheadOf(q, "SELL", as) |-> as[i].vol])
                               <= SumFunction([i \in AheadOf(p, "SELL", as) |-> as[i].vol])
      BY <1>7, <2>1, <2>3, <2>5, AheadFacts
    <2>6. SumFunction([i \in AheadOf(p, "BUY", bs) |-> bs[i].vol]) <= Volume(bs)
      BY <1>6, <2>2, <2>3, AheadFacts
    <2>7. SumFunction([i \in AheadOf(p, "SELL", as) |-> as[i].vol]) <= Volume(as)
      BY <1>7, <2>2, <2>3, AheadFacts
    <2> QED BY <1>6, <1>7, <2>4, <2>5, <2>6, <2>7
  <1>12. \A p, q \in prices :
           /\ p >= q => /\ EstimatePosition(p, "BUY", book.bids, book.asks)
                             <= EstimatePosition(q, "BUY", book.bids, book.asks)
                        /\ EstimatePosition(q, "SELL", book.bids, book.asks)
                             <= EstimatePosition(p, "SELL", book.bids, book.asks)
           /\ EstimatePosition(p, "BUY", book.bids, book.asks) <= Volume(s.bid)
           /\ EstimatePosition(p, "SELL", book.bids, book.asks) <= Volume(s.ask)
    BY <1>9, <1>10, <1>11
  <1> QED BY <1>2, <1>8, <1>12, Zenon

(* The trades signed so far, one after the other.                          *)
TradeSigns == {"BUY", "SELL"}
SignStates == [last_price : Int, last_sign : TradeSigns, signs : Seq(TradeSigns)]

Signing(prices, D, g) ==
  g = [s \in D |-> IF s = {} THEN [last_price |-> 0, last_sign |-> "BUY", signs |-> <<>>]
                   ELSE SignTrade(g[s \ {Max(s)}], prices[Max(s)])]

Signings(prices) == CHOOSE g : Signing(prices, SUBSET DOMAIN prices, g)

LEMMA TickRuleIsLast ==
  ASSUME NEW prices PROVE TickRule(prices) = Signings(prices)[DOMAIN prices].signs
  BY Zenon DEF TickRule, FoldLeft, MapThenFoldSet, Signings, Signing

LEMMA SignStays ==
  ASSUME NEW c \in SignStates, NEW p \in Int
  PROVE  SignTrade(c, p) \in SignStates
  <1>1. PICK sign \in TradeSigns :
          sign = IF p > c.last_price THEN "BUY" ELSE IF p < c.last_price THEN "SELL" ELSE c.last_sign
    BY DEF SignStates, TradeSigns
  <1>2. SignTrade(c, p) = [last_price |-> p, last_sign |-> sign, signs |-> Append(c.signs, sign)]
    BY <1>1 DEF SignTrade
  <1>3. Append(c.signs, sign) \in Seq(TradeSigns)
    <2>1. c.signs \in Seq(TradeSigns) BY DEF SignStates
    <2> QED BY <2>1, AppendProperties
  <1> QED BY <1>2, <1>3 DEF SignStates

LEMMA SigningSteps ==
  ASSUME NEW n \in Nat, NEW prices \in [1..n -> Int]
  PROVE  /\ Signings(prices)[{}] = [last_price |-> 0, last_sign |-> "BUY", signs |-> <<>>]
         /\ \A m \in Nat : m + 1 <= n =>
              Signings(prices)[1..(m + 1)] = SignTrade(Signings(prices)[1..m], prices[m + 1])
  <1>1. PICK D : D = SUBSET (1..n) OBVIOUS
  <1>2. DOMAIN prices = 1..n /\ \A i \in 1..n : prices[i] \in Int OBVIOUS
  <1>3. PICK base : base = [last_price |-> 0, last_sign |-> "BUY", signs |-> <<>>] OBVIOUS
  <1>4. base \in SignStates BY <1>3 DEF SignStates, TradeSigns
  <1>5. PICK F : F = [i \in 1..n |-> [c \in SignStates |-> SignTrade(c, prices[i])]] OBVIOUS
  <1>6. F \in [1..n -> [SignStates -> SignStates]]
    <2>1. \A i \in 1..n, c \in SignStates : SignTrade(c, prices[i]) \in SignStates BY <1>2, SignStays
    <2> QED BY <1>5, <2>1
  <1>7. \A i \in 1..n, c \in SignStates : F[i][c] = SignTrade(c, prices[i]) BY <1>5
  <1>8. PICK g \in [SUBSET (1..n) -> SignStates] : IsFold(g, n, base, F)
    BY <1>4, <1>6, FoldExists, Zenon
  <1>9. \A s \in D : s # {} => Max(s) \in 1..n /\ s \ {Max(s)} \in D
    <2> SUFFICES ASSUME NEW s \in SUBSET (1..n), s # {}
                 PROVE  Max(s) \in 1..n /\ s \ {Max(s)} \in SUBSET (1..n)
      BY <1>1
    <2>1. Max(s) \in s /\ s \ {Max(s)} \in SUBSET (1..n) BY SmallerSets
    <2> QED BY <2>1
  <1>10. g \in [D -> SignStates] BY <1>1, <1>8
  <1>11. \A s \in D : g[s] = IF s = {} THEN base ELSE SignTrade(g[s \ {Max(s)}], prices[Max(s)])
    <2>1. \A s \in D : g[s] = IF s = {} THEN base ELSE F[Max(s)][g[s \ {Max(s)}]]
      BY <1>1, <1>8, Zenon DEF IsFold
    <2>2. ASSUME NEW s \in D, s # {}
          PROVE  F[Max(s)][g[s \ {Max(s)}]] = SignTrade(g[s \ {Max(s)}], prices[Max(s)])
      <3>1. PICK x : x = Max(s) OBVIOUS
      <3>2. PICK y : y = g[s \ {Max(s)}] OBVIOUS
      <3>3. x \in 1..n /\ y \in SignStates BY <1>9, <1>10, <2>2, <3>1, <3>2
      <3>4. F[x][y] = SignTrade(y, prices[x]) BY <1>7, <3>3
      <3> QED BY <3>1, <3>2, <3>4, Zenon
    <2> QED BY <2>1, <2>2, Zenon
  <1>12. g = [s \in D |-> IF s = {} THEN base ELSE SignTrade(g[s \ {Max(s)}], prices[Max(s)])]
    <2>1. g = [s \in D |-> g[s]] BY <1>10
    <2> QED BY <1>11, <2>1, Zenon
  <1>13. Signing(prices, D, g) BY <1>3, <1>12, Zenon DEF Signing
  <1>14. PICK G : G = Signings(prices) OBVIOUS
  <1>15. Signing(prices, D, G)
    <2>1. D = SUBSET DOMAIN prices BY <1>1, <1>2
    <2>2. G = CHOOSE h : Signing(prices, D, h) BY <1>14, <2>1, Zenon DEF Signings
    <2>3. \E h : Signing(prices, D, h) BY <1>13, Zenon
    <2> QED BY <2>2, <2>3, Zenon
  <1>16. G = [s \in D |-> IF s = {} THEN base ELSE SignTrade(G[s \ {Max(s)}], prices[Max(s)])]
    BY <1>3, <1>15, Zenon DEF Signing
  <1>17. \A s \in D : G[s] = IF s = {} THEN base ELSE SignTrade(G[s \ {Max(s)}], prices[Max(s)])
    BY <1>16, Zenon
  <1>18. G[{}] = base
    <2>1. {} \in D BY <1>1
    <2> QED BY <1>17, <2>1, Zenon
  <1>19. ASSUME NEW m \in Nat, m + 1 <= n PROVE G[1..(m + 1)] = SignTrade(G[1..m], prices[m + 1])
    <2>1. PICK s : s = 1..(m + 1) OBVIOUS
    <2>2. s \in D /\ s # {} /\ Max(s) = m + 1 /\ s \ {m + 1} = 1..m BY <1>1, <1>19, <2>1, FirstPlaces
    <2>3. G[s] = SignTrade(G[s \ {Max(s)}], prices[Max(s)]) BY <1>17, <2>2, Zenon
    <2>4. G[s] = SignTrade(G[1..m], prices[m + 1]) BY <2>2, <2>3, Zenon
    <2> QED BY <2>1, <2>4, Zenon
  <1> QED BY <1>3, <1>14, <1>18, <1>19, Zenon

(* Every trade after the first signed by the price before it.              *)
SignOf(prices, signs, k) ==
  IF prices[k] > prices[k - 1] THEN "BUY"
  ELSE IF prices[k] < prices[k - 1] THEN "SELL" ELSE signs[k - 1]

SignsWell(prices, signs, m) ==
  /\ signs \in Seq(TradeSigns) /\ Len(signs) = m
  /\ m > 0 => signs[1] = "BUY"
  /\ \A k \in 2..m : signs[k] = SignOf(prices, signs, k)

SignedWell(prices, c, m) ==
  /\ c \in SignStates /\ SignsWell(prices, c.signs, m)
  /\ c.last_price = IF m = 0 THEN 0 ELSE prices[m]
  /\ c.last_sign = IF m = 0 THEN "BUY" ELSE c.signs[m]

LEMMA SignedStep ==
  ASSUME NEW n \in Nat, NEW prices \in [1..n -> Int], \A i \in 1..n : prices[i] > 0,
         NEW m \in Nat, m + 1 <= n, NEW c, SignedWell(prices, c, m)
  PROVE  SignedWell(prices, SignTrade(c, prices[m + 1]), m + 1)
  <1>1. c \in SignStates /\ SignsWell(prices, c.signs, m) BY DEF SignedWell
  <1>2. PICK old \in Seq(TradeSigns) : old = c.signs BY <1>1 DEF SignStates
  <1>3. Len(old) = m /\ DOMAIN old = 1..m /\ \A i \in 1..m : old[i] \in TradeSigns
    <2>1. Len(old) = m BY <1>1, <1>2 DEF SignsWell
    <2> QED BY <2>1, LenProperties, ElementOfSeq
  <1>4. m + 1 \in 1..n OBVIOUS
  <1>5. PICK p \in Int : p = prices[m + 1] /\ p > 0 BY <1>4
  <1>6. PICK was \in Int : was = c.last_price BY <1>1 DEF SignStates
  <1>7. PICK last \in TradeSigns : last = c.last_sign BY <1>1 DEF SignStates
  <1>8. was = (IF m = 0 THEN 0 ELSE prices[m]) /\ last = (IF m = 0 THEN "BUY" ELSE old[m])
    BY <1>2, <1>6, <1>7 DEF SignedWell
  <1>9. PICK sign \in TradeSigns : sign = IF p > was THEN "BUY" ELSE IF p < was THEN "SELL" ELSE last
    BY DEF TradeSigns
  <1>10. PICK new : new = Append(old, sign) OBVIOUS
  <1>11. /\ new \in Seq(TradeSigns) /\ Len(new) = m + 1 /\ new[m + 1] = sign
         /\ \A i \in 1..m : new[i] = old[i]
    BY <1>3, <1>10, AppendProperties
  <1>12. PICK d : d = SignTrade(c, p) OBVIOUS
  <1>13. d = [last_price |-> p, last_sign |-> sign, signs |-> new]
    BY <1>2, <1>6, <1>7, <1>9, <1>10, <1>12 DEF SignTrade
  <1>14. d.last_price = p /\ d.last_sign = sign /\ d.signs = new BY <1>13
  <1>15. d \in SignStates BY <1>11, <1>13 DEF SignStates
  <1>16. new[1] = "BUY"
    <2>1. CASE m = 0
      <3>1. sign = "BUY" BY <1>5, <1>8, <1>9, <2>1
      <3> QED BY <1>11, <2>1, <3>1
    <2>2. CASE m # 0
      <3>1. old[1] = "BUY" BY <1>1, <1>2, <2>2 DEF SignsWell
      <3>2. 1 \in 1..m BY <2>2
      <3> QED BY <1>11, <3>1, <3>2
    <2> QED BY <2>1, <2>2
  <1>17. ASSUME NEW k \in 2..m + 1 PROVE new[k] = SignOf(prices, new, k)
    <2>1. CASE k = m + 1
      <3>1. m # 0 /\ m \in 1..m /\ k - 1 = m BY <2>1
      <3>2. was = prices[m] /\ last = new[m] BY <1>8, <1>11, <3>1
      <3> QED BY <1>5, <1>9, <1>11, <2>1, <3>1, <3>2 DEF SignOf
    <2>2. CASE k # m + 1
      <3>1. k \in 2..m /\ k \in 1..m /\ k - 1 \in 1..m BY <2>2
      <3>2. old[k] = SignOf(prices, old, k) BY <1>1, <1>2, <3>1 DEF SignsWell
      <3>3. new[k] = old[k] /\ new[k - 1] = old[k - 1] BY <1>11, <3>1
      <3> QED BY <3>2, <3>3 DEF SignOf
    <2> QED BY <2>1, <2>2
  <1>18. SignsWell(prices, new, m + 1) BY <1>11, <1>16, <1>17 DEF SignsWell
  <1>19. m + 1 # 0 OBVIOUS
  <1>20. SignedWell(prices, d, m + 1) BY <1>5, <1>11, <1>14, <1>15, <1>18, <1>19 DEF SignedWell
  <1> QED BY <1>5, <1>12, <1>20

(* By induction over the trades.                                           *)
LEMMA TickRuleFacts ==
  ASSUME NEW n \in Nat, NEW prices \in [1..n -> Int], \A i \in 1..n : prices[i] > 0
  PROVE  SignsWell(prices, TickRule(prices), n)
  <1>1. PICK G : G = Signings(prices) OBVIOUS
  <1>2. G[{}] = [last_price |-> 0, last_sign |-> "BUY", signs |-> <<>>]
        /\ \A m \in Nat : m + 1 <= n => G[1..(m + 1)] = SignTrade(G[1..m], prices[m + 1])
    BY <1>1, SigningSteps
  <1>3. PICK N : N = {m \in Nat : m <= n => SignedWell(prices, G[1..m], m)} OBVIOUS
  <1>4. 0 \in N
    <2>1. 1..0 = {} OBVIOUS
    <2>2. PICK c : c = G[1..0] OBVIOUS
    <2>3. c = [last_price |-> 0, last_sign |-> "BUY", signs |-> <<>>] BY <1>2, <2>1, <2>2
    <2>4. c.last_price = 0 /\ c.last_sign = "BUY" /\ c.signs = <<>> BY <2>3
    <2>5. c \in SignStates BY <2>3 DEF SignStates, TradeSigns
    <2>6. SignsWell(prices, c.signs, 0)
      <3>1. <<>> \in Seq(TradeSigns) /\ Len(<<>>) = 0 OBVIOUS
      <3>2. \A k : k \notin 2..0 OBVIOUS
      <3> QED BY <2>4, <3>1, <3>2 DEF SignsWell
    <2>7. SignedWell(prices, c, 0) BY <2>4, <2>5, <2>6 DEF SignedWell
    <2> QED BY <1>3, <2>2, <2>7
  <1>5. ASSUME NEW m \in Nat, m \in N PROVE m + 1 \in N
    <2>1. ASSUME m + 1 <= n PROVE SignedWell(prices, G[1..(m + 1)], m + 1)
      <3>1. SignedWell(prices, G[1..m], m) BY <1>3, <1>5, <2>1
      <3>2. PICK c : c = G[1..m] OBVIOUS
      <3>3. SignedWell(prices, c, m) BY <3>1, <3>2
      <3>4. SignedWell(prices, SignTrade(c, prices[m + 1]), m + 1) BY <2>1, <3>3, SignedStep
      <3>5. G[1..(m + 1)] = SignTrade(c, prices[m + 1]) BY <1>2, <2>1, <3>2
      <3> QED BY <3>4, <3>5
    <2> QED BY <1>3, <2>1
  <1>6. n \in N BY <1>4, <1>5, NatSetInduction
  <1>7. SignedWell(prices, G[1..n], n) BY <1>3, <1>6
  <1>8. TickRule(prices) = G[1..n].signs
    <2>1. DOMAIN prices = 1..n OBVIOUS
    <2> QED BY <1>1, <2>1, TickRuleIsLast, Zenon
  <1> QED BY <1>7, <1>8 DEF SignedWell

LEMMA SignsAlike ==
  ASSUME NEW n \in Nat, NEW prices \in [1..n -> Int], NEW R \in Int,
         \A i \in 1..n : 0 < prices[i] /\ prices[i] < R
  PROVE  LET signs == TickRule(prices)
             mirrored == TickRule([k \in 1..n |-> R - prices[k]])
         IN  \A k \in 1..n :
               (\E j \in 1..k : prices[j] # prices[1]) => mirrored[k] = Opposite[signs[k]]
  <1>1. PICK other : other = [k \in 1..n |-> R - prices[k]] OBVIOUS
  <1>2. other \in [1..n -> Int] /\ \A i \in 1..n : other[i] > 0 BY <1>1
  <1>3. PICK signs : signs = TickRule(prices) OBVIOUS
  <1>4. PICK mirrored : mirrored = TickRule(other) OBVIOUS
  <1>5. SignsWell(prices, signs, n) BY <1>3, TickRuleFacts
  <1>6. SignsWell(other, mirrored, n) BY <1>2, <1>4, TickRuleFacts
  <1>7. Opposite["BUY"] = "SELL" /\ Opposite["SELL"] = "BUY" BY DEF Opposite
  <1>8. PICK N : N = {k \in Nat : k \in 1..n /\ (\E j \in 1..k : prices[j] # prices[1]) =>
                                  mirrored[k] = Opposite[signs[k]]}
    OBVIOUS
  <1>9. 0 \in N BY <1>8
  <1>10. ASSUME NEW m \in Nat, m \in N PROVE m + 1 \in N
    <2> SUFFICES ASSUME m + 1 \in 1..n, NEW j \in 1..(m + 1), prices[j] # prices[1]
                 PROVE  mirrored[m + 1] = Opposite[signs[m + 1]]
      BY <1>8
    <2>1. m # 0
      <3>1. m = 0 => j = 1 OBVIOUS
      <3> QED BY <3>1
    <2>2. m \in 1..n /\ m + 1 \in 2..n /\ (m + 1) - 1 = m BY <2>1
    <2>3. PICK p \in Int : p = prices[m] BY <2>2
    <2>4. PICK q \in Int : q = prices[m + 1] BY <2>2
    <2>5. other[m] = R - p /\ other[m + 1] = R - q BY <1>1, <2>2, <2>3, <2>4
    <2>6. signs[m + 1] = IF q > p THEN "BUY" ELSE IF q < p THEN "SELL" ELSE signs[m]
      BY <1>5, <2>2, <2>3, <2>4 DEF SignsWell, SignOf
    <2>7. mirrored[m + 1] = IF R - q > R - p THEN "BUY"
                            ELSE IF R - q < R - p THEN "SELL" ELSE mirrored[m]
      BY <1>6, <2>2, <2>5 DEF SignsWell, SignOf
    <2>8. CASE p # q BY <1>7, <2>6, <2>7, <2>8
    <2>9. CASE p = q
      <3>1. \E l \in 1..m : prices[l] # prices[1]
        <4>1. CASE j = m + 1
          <5>1. prices[m] # prices[1] /\ m \in 1..m BY <2>1, <2>3, <2>4, <2>9, <4>1
          <5> QED BY <5>1
        <4>2. CASE j # m + 1
          <5>1. j \in 1..m BY <4>2
          <5> QED BY <5>1
        <4> QED BY <4>1, <4>2
      <3>2. mirrored[m] = Opposite[signs[m]] BY <1>8, <1>10, <2>2, <3>1
      <3>3. mirrored[m + 1] = mirrored[m] /\ signs[m + 1] = signs[m] BY <2>6, <2>7, <2>9
      <3> QED BY <3>2, <3>3
    <2> QED BY <2>8, <2>9
  <1>11. ASSUME NEW k \in 1..n, \E j \in 1..k : prices[j] # prices[1]
         PROVE mirrored[k] = Opposite[signs[k]]
    <2>1. k \in Nat OBVIOUS
    <2>2. k \in N BY <1>9, <1>10, <2>1, NatSetInduction
    <2> QED BY <1>8, <1>11, <2>2
  <1> QED BY <1>1, <1>3, <1>4, <1>11, Zenon

(* What is kept of the book: snapshots there may be, and prices.           *)
BookWell == snapshots \in Seq(Snapshots) /\ tape \in Seq(BookPrices)

LEMMA BookWellInit == BookInit => BookWell
  BY DEF BookInit, BookWell

LEMMA BookWellNext ==
  ASSUME BookWell, [NewSnapshot]_bookVars PROVE BookWell'
  <1>1. CASE NewSnapshot
    <2>1. PICK s \in Snapshots :
            /\ snapshots' = Append(snapshots, s)
            /\ tape' = tape \o [i \in DOMAIN s.trades |-> s.trades[i].price]
      BY <1>1 DEF NewSnapshot
    <2>2. snapshots' \in Seq(Snapshots) BY <2>1, AppendProperties DEF BookWell
    <2>3. PICK list : list = s.trades OBVIOUS
    <2>4. list \in Seq(Incidents({"TRADE"}, {"BUY", "SELL"})) BY <2>3, SnapshotFacts
    <2>5. PICK n \in Nat : n = Len(list) /\ DOMAIN list = 1..n BY <2>4, LenProperties
    <2>6. \A i \in 1..n : list[i] \in Incidents({"TRADE"}, {"BUY", "SELL"}) BY <2>4, <2>5, ElementOfSeq
    <2>7. \A i \in 1..n : list[i].price \in BookPrices BY <2>6 DEF Incidents
    <2>8. PICK more : more = [i \in DOMAIN list |-> list[i].price] OBVIOUS
    <2>9. more \in [1..n -> BookPrices] BY <2>5, <2>7, <2>8
    <2>10. more \in Seq(BookPrices) BY <2>9
    <2>11. tape \in Seq(BookPrices) BY DEF BookWell
    <2>12. tape \o more \in Seq(BookPrices) BY <2>10, <2>11, ConcatProperties
    <2>13. tape' = tape \o more BY <2>1, <2>3, <2>8
    <2> QED BY <2>2, <2>12, <2>13 DEF BookWell
  <1>2. CASE UNCHANGED bookVars BY <1>2 DEF BookWell, bookVars
  <1> QED BY <1>1, <1>2

LEMMA BookWellIsReadAlike ==
  ASSUME BookWell PROVE BookIsReadAlike
  <1>1. \A i \in DOMAIN snapshots : snapshots[i] \in Snapshots
    BY LenProperties, ElementOfSeq DEF BookWell
  <1>2. SidesAlike
    <2>1. ASSUME NEW i \in DOMAIN snapshots, NEW s, s = snapshots[i]
          PROVE  LET f == Extract(s)  g == Extract(Mirrored(s))
                     bids == ExtractLevels(s.bid)  asks == ExtractLevels(s.ask)
                 IN  /\ FlowImbalance(s) = -FlowImbalance(Mirrored(s))
                     /\ bids # <<>> /\ asks # <<>> =>
                          /\ \A name \in DOMAIN f.imbalances :
                               name # "imb_top10" \/ Len(bids) = Len(asks) =>
                                 /\ f.imbalances[name] = -g.imbalances[name]
                                 /\ Predict(f.imbalances[name]).prob_up = Predict(g.imbalances[name]).prob_down
                          /\ Negates(f.deviation, g.deviation) /\ Negates(f.fair_value_gap, g.fair_value_gap)
                          /\ f.depth.spread = g.depth.spread /\ f.depth.bid_pressure = g.depth.ask_pressure
                          /\ f.events.arrival_imbalance = -g.events.arrival_imbalance
                          /\ f.events.cancellation_imbalance = -g.events.cancellation_imbalance
                          /\ f.regime = g.regime
      <3>1. s \in Snapshots BY <1>1, <2>1
      <3> QED BY <3>1, SidesFacts, Zenon
    <2> QED BY <2>1, Zenon DEF SidesAlike
  <1>3. MeasuresPointAlike
    <2>1. ASSUME NEW i \in DOMAIN snapshots, NEW s, s = snapshots[i],
                 s.bid[1].vol > 0, s.ask[1].vol > 0
          PROVE  LET f == Extract(s)
                 IN  /\ Apart(f.deviation, 0) <= Scale * (s.ask[1].px - Mid(s))
                     /\ f.imbalances.imb_top1 > 0 => f.deviation >= 0
                     /\ f.imbalances.imb_top1 < 0 => f.deviation <= 0
                     /\ s.ask[1].px > s.bid[1].px /\ f.deviation > 0 => f.imbalances.imb_top1 >= 0
      <3>1. s \in Snapshots BY <1>1, <2>1
      <3> QED BY <2>1, <3>1, PointingFacts, Zenon
    <2> QED BY <2>1, Zenon DEF MeasuresPointAlike
  <1>4. QueuesAreOrdered BY <1>1, QueuesFacts, Zenon DEF QueuesAreOrdered
  <1>5. TickRuleAlike
    <2>1. PICK n \in Nat : n = Len(tape) /\ DOMAIN tape = 1..n BY LenProperties DEF BookWell
    <2>2. \A i \in 1..n : tape[i] \in BookPrices BY <2>1, ElementOfSeq DEF BookWell
    <2>3. PICK R \in Int : R = Reflection BY BookAssumption
    <2>4. \A i \in 1..n : tape[i] \in Int /\ 0 < tape[i] /\ tape[i] < R BY <2>2, <2>3 DEF BookPrices
    <2>5. tape \in [1..n -> Int]
      <3>1. tape = [i \in 1..n |-> tape[i]] BY <2>1 DEF BookWell
      <3> QED BY <2>4, <3>1
    <2>6. PICK other : other = [k \in 1..n |-> R - tape[k]] OBVIOUS
    <2>7. \A k \in 1..n : (\E j \in 1..k : tape[j] # tape[1]) =>
                             TickRule(other)[k] = Opposite[TickRule(tape)[k]]
      BY <2>4, <2>5, <2>6, SignsAlike
    <2>8. [k \in DOMAIN tape |-> Reflection - tape[k]] = other BY <2>1, <2>3, <2>6
    <2> QED BY <2>1, <2>7, <2>8, Zenon DEF TickRuleAlike
  <1> QED BY <1>2, <1>3, <1>4, <1>5 DEF BookIsReadAlike

(* Whatever snapshots arrive, buyers and sellers are read alike, the       *)
(* measures of where the price goes agree, no order has more ahead of it   *)
(* than one behind it, and rises and falls are signed alike.               *)
THEOREM BookCorrect == BookSpec => []BookIsReadAlike
  <1>1. BookInit => BookWell BY BookWellInit
  <1>2. BookWell /\ [NewSnapshot]_bookVars => BookWell' BY BookWellNext
  <1>3. BookWell => BookIsReadAlike BY BookWellIsReadAlike
  <1> QED BY <1>1, <1>2, <1>3, PTL DEF BookSpec

=============================================================================
