-------------------------- MODULE Backtest_proofs --------------------------
(***************************************************************************)
(* The bar protocol of the backtest, for any instruments, prices, signal   *)
(* sizes and risk limits: a bar's events are handled in causal order, its  *)
(* orders are judged by the book the bar began with, and nothing is left   *)
(* over for the next bar.  Then the account over all instruments, and when *)
(* the book follows what the strategy believes.                            *)
(***************************************************************************)
EXTENDS Backtest, Position_proofs, SumTheorems

(* Appending to, and taking the head of, a sequence.                       *)
LEMMA SequenceFacts ==
  ASSUME NEW S, NEW s \in Seq(S)
  PROVE  /\ Len(s) \in Nat
         /\ \A i \in 1..Len(s) : s[i] \in S
         /\ \A e \in S : /\ Append(s, e) \in Seq(S)
                         /\ Len(Append(s, e)) = Len(s) + 1
                         /\ Append(s, e)[Len(s) + 1] = e
                         /\ \A i \in 1..Len(s) : Append(s, e)[i] = s[i]
         /\ s # <<>> => /\ Len(s) > 0 /\ Head(s) = s[1] /\ Head(s) \in S
                        /\ Tail(s) \in Seq(S) /\ Len(Tail(s)) = Len(s) - 1
                        /\ \A i \in 1..(Len(s) - 1) : Tail(s)[i] = s[i + 1]
  OBVIOUS

LEMMA SymbolFacts ==
  /\ Len(SymbolSeq) \in Nat
  /\ \A i \in 1..Len(SymbolSeq) : SymbolSeq[i] \in Symbols
  BY BacktestAssumption DEF Symbols

(* The events a handler enqueues are events.                               *)
LEMMA SignalType ==
  ASSUME TypeOK, NEW s \in Symbols, NEW sig \in Signals(belief[s])
  PROVE  /\ Signal(s, sig) \in Events /\ Signal(s, sig).type = "SIGNAL"
         /\ Signal(s, sig).bar = bar
         /\ sig.belief \in {"NONE", "LONG", "SHORT"}
  BY DEF TypeOK, Signals, Signal, Events

LEMMA OrderEventType ==
  ASSUME NEW ev \in Events, ev.type = "SIGNAL"
  PROVE  /\ Order(ev) \in Events /\ Order(ev).type = "ORDER"
         /\ Order(ev).symbol = ev.symbol /\ Order(ev).bar = ev.bar
         /\ ev.symbol \in Symbols
  BY DEF Events, Order, SideOf, Sides

LEMMA FillEventType ==
  ASSUME TypeOK, NEW ev \in Events, ev.type = "ORDER"
  PROVE  /\ Fill(ev) \in Events /\ Fill(ev).type = "FILL"
         /\ Fill(ev).symbol = ev.symbol /\ Fill(ev).bar = ev.bar
  <1>1. /\ ev.symbol \in Symbols /\ ev.side \in Sides
        /\ ev.size \in EntrySizes \cup {DefaultQuantity} /\ ev.bar \in 0..MaxBars
    BY DEF Events
  <1>2. FillPrice(ev.side, close[ev.symbol]) \in Int
    BY <1>1, BacktestAssumption DEF TypeOK, FillPrice, Signed
  <1> QED BY <1>1, <1>2 DEF Fill, Events

LEMMA FillFields ==
  ASSUME NEW ev \in Events, ev.type = "FILL"
  PROVE  /\ ev.symbol \in Symbols /\ ev.side \in Sides /\ ev.size \in Int
         /\ ev.price \in Int /\ CommissionOn(ev.size, ev.price) \in Int
         /\ Signed(ev.side, ev.size) * ev.price \in Int
  <1>0. /\ ev.symbol \in Symbols /\ ev.side \in Sides /\ ev.price \in Int
        /\ ev.size \in EntrySizes \cup {DefaultQuantity}
    BY DEF Events
  <1>1. /\ ev.symbol \in Symbols /\ ev.side \in Sides /\ ev.price \in Int
        /\ ev.size \in Int
    <2>1. EntrySizes \subseteq Int /\ DefaultQuantity \in Int
      BY BacktestAssumption
    <2> QED BY <1>0, <2>1
  <1>2. Signed(ev.side, ev.size) \in Int
    BY <1>1 DEF Signed
  <1>3. ASSUME NEW x \in Int PROVE x \div CommissionDivisor \in Int
    BY BacktestAssumption
  <1>4. CommissionOn(ev.size, ev.price) \in Int
    <2> DEFINE x == ev.size * ev.price
               rated == x \div CommissionDivisor
    <2>1. x \in Int BY <1>1
    <2>2. rated \in Int
      <3> HIDE DEF x
      <3> QED BY <1>3, <2>1
    <2>3. CommissionOn(ev.size, ev.price) \in {MinCommission, rated}
      <3> HIDE DEF rated
      <3> QED BY DEF CommissionOn, rated
    <2> HIDE DEF rated
    <2> QED BY <2>2, <2>3, BacktestAssumption
  <1>5. Signed(ev.side, ev.size) * ev.price \in Int
    BY <1>1, <1>2
  <1> QED BY <1>1, <1>4, <1>5

----------------------------------------------------------------------------
LEMMA TypeInit == Init => TypeOK
  BY BacktestAssumption, SymbolFacts DEF Init, TypeOK, Flat, Position

LEMMA TypeStep ==
  ASSUME TypeOK, [Next]_vars
  PROVE  TypeOK'
  <1> USE BacktestAssumption, SymbolFacts
  <1>q. /\ Len(queue) \in Nat
        /\ \A e \in Events : Append(queue, e) \in Seq(Events)
        /\ queue # <<>> => Head(queue) \in Events /\ Tail(queue) \in Seq(Events)
    BY SequenceFacts DEF TypeOK
  <1>1. CASE SkipSymbol
    BY <1>1 DEF SkipSymbol, Feeding, account, TypeOK, Open
  <1>2. CASE FeedSymbol
    <2> DEFINE s == SymbolSeq[next]
    <2>1. s \in Symbols /\ next' \in 1..(Len(SymbolSeq) + 1)
      BY <1>2 DEF FeedSymbol, Feeding, TypeOK
    <2>2. PICK price \in Prices :
            /\ close' = [close EXCEPT ![s] = price]
            /\ positions' = IF s \in known
                            THEN [positions EXCEPT ![s] = MarkToMarket(@, price)]
                            ELSE positions
            /\ \/ UNCHANGED <<queue, belief>>
               \/ \E sig \in Signals(belief[s]) :
                    /\ queue' = Append(queue, Signal(s, sig))
                    /\ belief' = [belief EXCEPT ![s] = sig.belief]
      BY <1>2 DEF FeedSymbol
    <2>3. close' \in [Symbols -> Int]
      BY <2>1, <2>2 DEF TypeOK
    <2>4. positions' \in [Symbols -> Position]
      <3>1. positions[s] \in Position BY <2>1 DEF TypeOK
      <3>2. MarkToMarket(positions[s], price) \in Position
        BY <3>1 DEF MarkToMarket, Position
      <3> QED BY <2>2, <3>2 DEF TypeOK
    <2>5. queue' \in Seq(Events) /\ belief' \in [Symbols -> {"NONE", "LONG", "SHORT"}]
      <3>1. CASE UNCHANGED <<queue, belief>> BY <3>1 DEF TypeOK
      <3>2. ASSUME NEW sig \in Signals(belief[s]),
                   queue' = Append(queue, Signal(s, sig)),
                   belief' = [belief EXCEPT ![s] = sig.belief]
            PROVE  /\ queue' \in Seq(Events)
                   /\ belief' \in [Symbols -> {"NONE", "LONG", "SHORT"}]
        <4>1. Signal(s, sig) \in Events /\ sig.belief \in {"NONE", "LONG", "SHORT"}
          BY <2>1, SignalType
        <4> QED BY <1>q, <3>2, <4>1 DEF TypeOK
      <3> QED BY <2>2, <3>1, <3>2
    <2>6. opened' \in SUBSET Symbols
      BY <1>2 DEF FeedSymbol, TypeOK, Open
    <2> QED BY <1>2, <2>1, <2>3, <2>4, <2>5, <2>6 DEF FeedSymbol, TypeOK
  <1>3. CASE OnSignal
    <2>1. queue' \in Seq(Events)
      <3>1. Head(queue) \in Events /\ Tail(queue) \in Seq(Events)
            /\ Head(queue).type = "SIGNAL"
        BY <1>3, <1>q DEF OnSignal, Round
      <3>2. Append(Tail(queue), Order(Head(queue))) \in Seq(Events)
        BY <3>1, OrderEventType, SequenceFacts
      <3> QED BY <1>3, <3>1, <3>2 DEF OnSignal
    <2> QED BY <1>3, <2>1 DEF OnSignal, Round, Draining, account, TypeOK
  <1>4. CASE OnOrder
    <2>1. queue' \in Seq(Events)
      <3>1. Head(queue) \in Events /\ Tail(queue) \in Seq(Events)
            /\ Head(queue).type = "ORDER"
        BY <1>4, <1>q DEF OnOrder, Round
      <3> QED BY <1>4, <3>1, FillEventType, SequenceFacts DEF OnOrder
    <2> QED BY <1>4, <2>1 DEF OnOrder, Round, Draining, account, TypeOK
  <1>5. CASE OnFill
    <2> DEFINE ev == Head(queue)
    <2>1. ev \in Events /\ ev.type = "FILL" /\ Tail(queue) \in Seq(Events)
      BY <1>5, <1>q DEF OnFill, Round
    <2>2. /\ ev.symbol \in Symbols /\ ev.side \in Sides /\ ev.size \in Int
          /\ ev.price \in Int /\ CommissionOn(ev.size, ev.price) \in Int
          /\ Signed(ev.side, ev.size) * ev.price \in Int
      BY <2>1, FillFields
    <2>3. positions' \in [Symbols -> Position]
      <3>1. positions[ev.symbol] \in Position BY <2>2 DEF TypeOK
      <3>2. ApplyFill(positions[ev.symbol], ev.side, ev.size, ev.price) \in Position
        BY <2>2, <3>1, FillType
      <3> QED BY <1>5, <3>2 DEF OnFill, TypeOK
    <2>4. cash' \in Int /\ commission' \in Int /\ known' \in SUBSET Symbols
      <3> DEFINE paid == Signed(ev.side, ev.size) * ev.price
                 fee == CommissionOn(ev.size, ev.price)
      <3>1. /\ known' = known \cup {ev.symbol}
            /\ cash' = cash - paid - fee
            /\ commission' = commission + fee
        BY <1>5 DEF OnFill
      <3>3. paid \in Int /\ fee \in Int /\ ev.symbol \in Symbols BY <2>2
      <3>2. cash \in Int /\ commission \in Int /\ known \in SUBSET Symbols
        BY DEF TypeOK
      <3> HIDE DEF paid, fee, ev
      <3>4. cash' \in Int /\ commission' \in Int BY <3>1, <3>2, <3>3
      <3>5. known' \in SUBSET Symbols
        <4>1. known' = known \cup {ev.symbol} BY <3>1
        <4>2. known \subseteq Symbols BY <3>2
        <4>3. ev.symbol \in Symbols BY <3>3
        <4> QED BY ONLY <4>1, <4>2, <4>3
      <3> QED BY ONLY <3>4, <3>5
    <2>5. queue' \in Seq(Events) BY <1>5, <2>1 DEF OnFill
    <2>6. Round("FILL") BY <1>5 DEF OnFill
    <2>7. /\ UNCHANGED <<bar, next, close, belief, opened>>
          /\ iteration' = iteration + 1 /\ iteration < MaxIterations
      BY <2>6 DEF Round, Draining
    <2> QED BY <2>3, <2>4, <2>5, <2>7 DEF TypeOK
  <1>6. CASE EndBar
    BY <1>6 DEF EndBar, account, TypeOK
  <1>7. CASE UNCHANGED vars
    BY <1>7 DEF vars, account, TypeOK
  <1> QED BY <1>1, <1>2, <1>3, <1>4, <1>5, <1>6, <1>7 DEF Next

(* Every variable keeps its type.                                          *)
THEOREM TypeCorrect == Spec => []TypeOK
  BY TypeInit, TypeStep, PTL DEF Spec

----------------------------------------------------------------------------
(* The queue is m signals, then orders up to the n-th event, then fills;   *)
(* fills appear only when no signal is left.  Each signal stands for three *)
(* rounds of the drain loop, each order for two and each fill for one, and *)
(* together with the rounds made they are at most three for each           *)
(* instrument fed.                                                         *)
TypeAt(i, m, n) == IF i <= m THEN "SIGNAL" ELSE IF i <= n THEN "ORDER" ELSE "FILL"

Count(m, n) ==
  /\ m \in Nat /\ n \in Nat /\ m <= n /\ n <= Len(queue)
  /\ m > 0 => n = Len(queue)
  /\ iteration + Len(queue) + m + n <= 3 * (next - 1)

Shape(m, n) ==
  Count(m, n) /\ \A i \in 1..Len(queue) : queue[i].type = TypeAt(i, m, n)

Batch == \E m, n \in Nat : Shape(m, n)

(* While the bar is fed nothing is drained, and no event outlives its bar. *)
FeedInv == next <= Len(SymbolSeq) =>
             iteration = 0 /\ \A i \in 1..Len(queue) : queue[i].type = "SIGNAL"
BarInv == \A i \in 1..Len(queue) : queue[i].bar = bar

(* Until the first fill of the bar is booked, the book is the opening one. *)
BookInv == /\ next > 1 /\ iteration = 0 => Open = opened
           /\ Queued("SIGNAL") # {} => Open = opened

(* A full book lets only orders for the instruments it holds pass.         *)
AdmitInv == \/ Cardinality(opened) < MaxOpenPositions
            \/ /\ Open \subseteq opened
               /\ \A i \in 1..Len(queue) :
                    queue[i].type # "SIGNAL" => queue[i].symbol \in opened

Protocol == Batch /\ FeedInv /\ BarInv /\ BookInv /\ AdmitInv

BInv == TypeOK /\ Protocol

(* Marking to market opens and closes nothing.                             *)
LEMMA MarkKeepsOpen ==
  ASSUME TypeOK, NEW s \in Symbols, NEW price,
         positions' = IF s \in known
                      THEN [positions EXCEPT ![s] = MarkToMarket(@, price)]
                      ELSE positions
  PROVE  Open' = Open
  BY DEF TypeOK, Open, IsFlat, MarkToMarket, Position

(* The queue after a step that takes its head, and after one that takes    *)
(* its head and appends an event.                                          *)
LEMMA TailFacts ==
  ASSUME TypeOK, queue # <<>>
  PROVE  /\ Len(queue) \in Nat \ {0} /\ Head(queue) = queue[1]
         /\ Len(Tail(queue)) = Len(queue) - 1
         /\ \A i \in 1..(Len(queue) - 1) : Tail(queue)[i] = queue[i + 1]
         /\ \A e \in Events :
              /\ Len(Append(Tail(queue), e)) = Len(queue)
              /\ Append(Tail(queue), e)[Len(queue)] = e
              /\ \A i \in 1..(Len(queue) - 1) :
                   Append(Tail(queue), e)[i] = queue[i + 1]
  <1>1. queue \in Seq(Events) BY DEF TypeOK
  <1>2. Tail(queue) \in Seq(Events) /\ Len(Tail(queue)) = Len(queue) - 1
    BY <1>1, SequenceFacts
  <1>3. \A e \in Events : /\ Len(Append(Tail(queue), e)) = Len(queue)
                         /\ Append(Tail(queue), e)[Len(queue)] = e
                         /\ \A i \in 1..(Len(queue) - 1) :
                              Append(Tail(queue), e)[i] = Tail(queue)[i]
    BY <1>1, <1>2, SequenceFacts
  <1> QED BY <1>1, <1>2, <1>3, SequenceFacts

(* Feeding: the bar's first instrument fixes the opening book, and a       *)
(* signal joins signals.                                                   *)
LEMMA SkipStep ==
  ASSUME BInv, SkipSymbol
  PROVE  Protocol'
  <1> USE SymbolFacts DEF BInv, Protocol
  <1>1. /\ iteration = 0 /\ next \in 1..Len(SymbolSeq) /\ next' = next + 1
        /\ UNCHANGED <<queue, bar, iteration, positions>>
        /\ \A i \in 1..Len(queue) : queue[i].type = "SIGNAL"
    BY DEF SkipSymbol, Feeding, FeedInv, account, TypeOK
  <1>2. Batch'
    <2>1. PICK m, n \in Nat : Shape(m, n) BY DEF Batch
    <2>2. Shape(m, n)' BY <1>1, <2>1 DEF Shape, Count
    <2> QED BY <2>2 DEF Batch
  <1>3. Open' = Open /\ opened' = Open
    <2>1. Open' = Open BY <1>1 DEF Open
    <2>2. opened' = IF next = 1 THEN Open ELSE opened BY DEF SkipSymbol
    <2>3. next # 1 => Open = opened BY <1>1 DEF BookInv
    <2> QED BY <2>1, <2>2, <2>3
  <1>4. FeedInv' /\ BarInv' BY <1>1 DEF FeedInv, BarInv
  <1>5. BookInv' /\ AdmitInv' BY <1>1, <1>3 DEF BookInv, AdmitInv, Queued
  <1> QED BY <1>2, <1>4, <1>5

LEMMA FeedStep ==
  ASSUME BInv, FeedSymbol
  PROVE  Protocol'
  <1> USE SymbolFacts DEF BInv, Protocol
  <1> DEFINE s == SymbolSeq[next]
  <1>1. /\ iteration = 0 /\ next \in 1..Len(SymbolSeq) /\ next' = next + 1
        /\ UNCHANGED <<bar, iteration>> /\ s \in Symbols
        /\ \A i \in 1..Len(queue) : queue[i].type = "SIGNAL"
    BY DEF FeedSymbol, Feeding, FeedInv, TypeOK
  <1>2. Open' = Open /\ opened' = Open
    <2>1. Open' = Open BY <1>1, MarkKeepsOpen DEF FeedSymbol
    <2>2. opened' = IF next = 1 THEN Open ELSE opened BY DEF FeedSymbol
    <2>3. next # 1 => Open = opened BY <1>1 DEF BookInv
    <2> QED BY <2>1, <2>2, <2>3
  <1>3. \/ queue' = queue
        \/ /\ queue' \in Seq(Events) /\ Len(queue') = Len(queue) + 1
           /\ queue'[Len(queue) + 1].type = "SIGNAL"
           /\ queue'[Len(queue) + 1].bar = bar
           /\ \A i \in 1..Len(queue) : queue'[i] = queue[i]
    <2>1. \/ queue' = queue
          \/ \E sig \in Signals(belief[s]) : queue' = Append(queue, Signal(s, sig))
      BY DEF FeedSymbol
    <2>2. queue \in Seq(Events) BY DEF TypeOK
    <2>3. ASSUME NEW sig \in Signals(belief[s]),
                 queue' = Append(queue, Signal(s, sig))
          PROVE  /\ queue' \in Seq(Events) /\ Len(queue') = Len(queue) + 1
                 /\ queue'[Len(queue) + 1] = Signal(s, sig)
                 /\ \A i \in 1..Len(queue) : queue'[i] = queue[i]
                 /\ Signal(s, sig).type = "SIGNAL" /\ Signal(s, sig).bar = bar
      <3>1. /\ Signal(s, sig) \in Events /\ Signal(s, sig).type = "SIGNAL"
            /\ Signal(s, sig).bar = bar
        BY <1>1, SignalType
      <3> HIDE DEF s
      <3> QED BY <2>2, <2>3, <3>1, SequenceFacts
    <2> QED BY <2>1, <2>3
  <1>4. Len(queue) \in Nat BY SequenceFacts DEF TypeOK
  <1>5. Len(queue') \in Nat /\ \A i \in 1..Len(queue') :
          queue'[i].type = "SIGNAL" /\ queue'[i].bar = bar
    BY <1>1, <1>3, <1>4 DEF BarInv
  <1>6. Batch'
    <2>1. PICK m, n \in Nat : Shape(m, n) BY DEF Batch
    <2>2. m = Len(queue) /\ n = Len(queue)
      <3>1. m = Len(queue)
        <4>1. SUFFICES ASSUME m < Len(queue) PROVE FALSE
          BY <1>4, <2>1 DEF Shape, Count
        <4>2. Len(queue) \in 1..Len(queue) BY <1>4, <4>1
        <4>3. queue[Len(queue)].type # "SIGNAL"
          BY <1>4, <2>1, <4>1, <4>2 DEF Shape, TypeAt
        <4> QED BY <1>1, <4>2, <4>3
      <3> QED BY <1>4, <2>1, <3>1 DEF Shape, Count
    <2>3. PICK k \in Nat : k = Len(queue') BY <1>5
    <2>4. k <= Len(queue) + 1
      BY <1>3, <1>4, <2>3
    <2>5. 0 + k + k + k <= 3 * next
      <3>1. iteration + Len(queue) + m + n <= 3 * (next - 1)
        BY <2>1 DEF Shape, Count
      <3> QED BY <1>1, <1>4, <2>2, <2>4, <3>1
    <2>6. Count(k, k)'
      <3>1. iteration' = 0 /\ next' - 1 = next
        BY <1>1
      <3> QED BY <2>3, <2>5, <3>1 DEF Count
    <2>7. \A i \in 1..Len(queue') : queue'[i].type = TypeAt(i, k, k)
      BY <1>5, <2>3 DEF TypeAt
    <2>8. Shape(k, k)' BY <2>6, <2>7 DEF Shape
    <2> QED BY <2>4, <2>8 DEF Batch
  <1>7. FeedInv' /\ BarInv' BY <1>1, <1>5 DEF FeedInv, BarInv
  <1>8. BookInv' /\ AdmitInv' BY <1>2, <1>5 DEF BookInv, AdmitInv, Queued
  <1> QED BY <1>6, <1>7, <1>8

(* What every round of the drain loop shares: the head is taken, and the   *)
(* bar has been fed.                                                       *)
LEMMA RoundFacts ==
  ASSUME BInv, NEW type, Round(type)
  PROVE  /\ queue # <<>> /\ queue[1].type = type /\ queue[1] \in Events
         /\ Head(queue) = queue[1] /\ Len(queue) \in Nat \ {0}
         /\ iteration \in Nat /\ iteration' = iteration + 1
         /\ next > Len(SymbolSeq) /\ next \in Nat
         /\ UNCHANGED <<bar, next, opened>>
  <1>1. queue # <<>> /\ Head(queue).type = type /\ next > Len(SymbolSeq)
    BY DEF Round, Draining
  <1>2. Head(queue) = queue[1] /\ Head(queue) \in Events /\ Len(queue) \in Nat \ {0}
    BY <1>1, SequenceFacts, TailFacts DEF BInv, TypeOK
  <1> QED BY <1>1, <1>2 DEF Round, BInv, TypeOK

(* A signal is decided: the tail, or the tail and an order after signals   *)
(* and orders only.                                                        *)
LEMMA SignalStep ==
  ASSUME BInv, OnSignal
  PROVE  Protocol'
  <1> USE SymbolFacts DEF BInv, Protocol
  <1> DEFINE ev == queue[1]
             L == Len(queue)
  <1>1. Round("SIGNAL") BY DEF OnSignal
  <1>r. /\ queue # <<>> /\ ev.type = "SIGNAL" /\ ev \in Events
        /\ Head(queue) = ev /\ L \in Nat \ {0} /\ 1 \in 1..L
        /\ iteration \in Nat /\ iteration' = iteration + 1
        /\ next > Len(SymbolSeq) /\ next \in Nat
        /\ UNCHANGED <<bar, next, opened>>
    BY <1>1, RoundFacts
  <1>2. Open' = Open /\ Open = opened /\ UNCHANGED positions
    <2>1. UNCHANGED positions BY DEF OnSignal, account
    <2>2. 1 \in Queued("SIGNAL") BY <1>r DEF Queued
    <2> QED BY <2>1, <2>2 DEF BookInv, Open
  <1>3. /\ ev.bar = bar /\ ev.symbol \in Symbols
        /\ Order(ev) \in Events /\ Order(ev).type = "ORDER"
        /\ Order(ev).symbol = ev.symbol /\ Order(ev).bar = bar
    BY <1>r, OrderEventType DEF BarInv
  <1>4. PICK m, n \in Nat : Shape(m, n) BY DEF Batch
  <1>5. m > 0 /\ n = L
    <2>1. m > 0 BY <1>r, <1>4 DEF Shape, TypeAt
    <2> QED BY <1>4, <2>1 DEF Shape, Count
  <1>6. CASE ev.size > 0 /\ Approved(ev.symbol, ev.size)
    <2>1. queue' = Append(Tail(queue), Order(ev)) BY <1>6, <1>r DEF OnSignal
    <2>2. /\ Len(queue') = L /\ queue'[L] = Order(ev)
          /\ \A i \in 1..(L - 1) : queue'[i] = queue[i + 1]
      BY <1>r, <1>3, <2>1, TailFacts
    <2>3. Batch'
      <3>1. ASSUME NEW i \in 1..L
            PROVE  queue'[i].type = TypeAt(i, m - 1, n)
        <4>1. CASE i = L
          <5>1. queue'[i].type = "ORDER" BY <1>3, <2>2, <4>1
          <5>2. m <= n BY <1>4 DEF Shape, Count
          <5>3. TypeAt(i, m - 1, n) = "ORDER"
            <6> HIDE DEF L
            <6> QED BY <1>r, <1>5, <4>1, <5>2 DEF TypeAt
          <5> QED BY <5>1, <5>3
        <4>2. CASE i # L
          <5>1. i \in 1..(L - 1) /\ i + 1 \in 1..L BY <1>r, <4>2
          <5>2. queue'[i].type = TypeAt(i + 1, m, n)
            BY <1>4, <2>2, <5>1 DEF Shape
          <5> QED BY <1>5, <4>2, <5>1, <5>2, <1>r DEF TypeAt
        <4> QED BY <4>1, <4>2
      <3>2. Count(m - 1, n)'
        <4>1. iteration + L + m + n <= 3 * (next - 1) BY <1>4 DEF Shape, Count
        <4>2. m - 1 \in Nat /\ m <= n BY <1>4, <1>5 DEF Shape, Count
        <4> HIDE DEF L
        <4>3. (iteration + 1) + L + (m - 1) + n <= 3 * (next - 1)
          BY <1>r, <4>1
        <4>4. Len(queue') = L /\ iteration' = iteration + 1 /\ next' = next
          BY <1>r, <2>2
        <4>5. n = L /\ L \in Nat BY <1>r, <1>5
        <4>6. m - 1 <= n /\ n <= L BY <4>2, <4>5
        <4>7. iteration' + Len(queue') + (m - 1) + n <= 3 * (next' - 1)
          BY <4>3, <4>4
        <4> QED BY <4>2, <4>4, <4>5, <4>6, <4>7 DEF Count
      <3>3. Shape(m - 1, n)' BY <2>2, <3>1, <3>2 DEF Shape
      <3>4. m - 1 \in Nat BY <1>5
      <3> QED BY <3>3, <3>4 DEF Batch
    <2>4. FeedInv' BY <1>r DEF FeedInv
    <2>5. BarInv' BY <1>r, <1>3, <2>2 DEF BarInv
    <2>6. BookInv' BY <1>r, <1>2 DEF BookInv
    <2>7. AdmitInv'
      <3>1. Cardinality(opened) < MaxOpenPositions \/ ev.symbol \in opened
        BY <1>2, <1>3, <1>6 DEF Approved, MaxPositionsOK, Open
      <3> QED BY <1>r, <1>2, <1>3, <2>2, <3>1 DEF AdmitInv
    <2> QED BY <2>3, <2>4, <2>5, <2>6, <2>7
  <1>7. CASE ~(ev.size > 0 /\ Approved(ev.symbol, ev.size))
    <2>1. queue' = Tail(queue) BY <1>7, <1>r DEF OnSignal
    <2>2. /\ Len(queue') = L - 1
          /\ \A i \in 1..(L - 1) : queue'[i] = queue[i + 1]
      BY <1>r, <2>1, TailFacts
    <2>3. Batch'
      <3>1. \A i \in 1..Len(queue') : queue'[i].type = TypeAt(i, m - 1, n - 1)
        BY <1>r, <1>4, <1>5, <2>2 DEF Shape, TypeAt
      <3>2. Count(m - 1, n - 1)'
        BY <1>r, <1>4, <1>5, <2>2 DEF Shape, Count
      <3> QED BY <1>r, <1>5, <3>1, <3>2 DEF Shape, Batch
    <2>4. FeedInv' BY <1>r DEF FeedInv
    <2>5. BarInv' BY <1>r, <2>2 DEF BarInv
    <2>6. BookInv' BY <1>r, <1>2 DEF BookInv
    <2>7. AdmitInv' BY <1>r, <1>2, <2>2 DEF AdmitInv
    <2> QED BY <2>3, <2>4, <2>5, <2>6, <2>7
  <1> QED BY <1>6, <1>7

(* An order is executed once every signal is decided, and its fill joins   *)
(* the fills.                                                              *)
LEMMA OrderStep ==
  ASSUME BInv, OnOrder
  PROVE  Protocol'
  <1> USE SymbolFacts DEF BInv, Protocol
  <1> DEFINE ev == queue[1]
             L == Len(queue)
  <1>1. Round("ORDER") BY DEF OnOrder
  <1>r. /\ queue # <<>> /\ ev.type = "ORDER" /\ ev \in Events
        /\ Head(queue) = ev /\ L \in Nat \ {0} /\ 1 \in 1..L
        /\ iteration \in Nat /\ iteration' = iteration + 1
        /\ next > Len(SymbolSeq) /\ next \in Nat
        /\ UNCHANGED <<bar, next, opened>>
    BY <1>1, RoundFacts
  <1>2. Open' = Open BY DEF OnOrder, account, Open
  <1>3. /\ Fill(ev) \in Events /\ Fill(ev).type = "FILL"
        /\ Fill(ev).symbol = ev.symbol /\ Fill(ev).bar = bar
    BY <1>r, FillEventType DEF BarInv
  <1>4. PICK m, n \in Nat : Shape(m, n) BY DEF Batch
  <1>5. m = 0 /\ n > 0 /\ n <= L
    BY <1>r, <1>4 DEF Shape, Count, TypeAt
  <1>6. queue' = Append(Tail(queue), Fill(ev)) BY <1>r DEF OnOrder
  <1>7. /\ Len(queue') = L /\ queue'[L] = Fill(ev)
        /\ \A i \in 1..(L - 1) : queue'[i] = queue[i + 1]
    BY <1>r, <1>3, <1>6, TailFacts
  <1>8. ASSUME NEW i \in 1..L
        PROVE  /\ queue'[i].type = TypeAt(i, 0, n - 1)
               /\ queue'[i].bar = bar /\ queue'[i].type # "SIGNAL"
    <2>1. CASE i = L
      <3>1. queue'[i].type = "FILL" /\ queue'[i].bar = bar
        BY <1>3, <1>7, <2>1
      <3>2. TypeAt(i, 0, n - 1) = "FILL"
        <4> HIDE DEF L
        <4> QED BY <1>r, <1>5, <2>1 DEF TypeAt
      <3> QED BY <3>1, <3>2
    <2>2. CASE i # L
      <3>1. i \in 1..(L - 1) /\ i + 1 \in 1..L BY <1>r, <2>2
      <3>2. queue'[i].type = TypeAt(i + 1, m, n) /\ queue'[i].bar = bar
        BY <1>4, <1>7, <3>1 DEF Shape, BarInv
      <3> QED BY <1>5, <2>2, <3>1, <3>2, <1>r DEF TypeAt
    <2> QED BY <2>1, <2>2
  <1>9. Batch'
    <2>1. iteration' + Len(queue') + 0 + (n - 1) <= 3 * (next' - 1)
      <3>1. iteration + L + m + n <= 3 * (next - 1) BY <1>4 DEF Shape, Count
      <3>2. Len(queue') = L /\ iteration' = iteration + 1 /\ next' = next
        BY <1>r, <1>7
      <3> HIDE DEF L
      <3> QED BY <1>r, <1>5, <3>1, <3>2
    <2>2. n - 1 \in Nat /\ n - 1 <= Len(queue') BY <1>r, <1>5, <1>7
    <2>3. Count(0, n - 1)' BY <2>1, <2>2 DEF Count
    <2>4. Shape(0, n - 1)' BY <1>7, <1>8, <2>3 DEF Shape
    <2> QED BY <2>2, <2>4 DEF Batch
  <1>10. FeedInv' BY <1>r DEF FeedInv
  <1>11. BarInv' BY <1>r, <1>7, <1>8 DEF BarInv
  <1>12. BookInv'
    <2>1. Queued("SIGNAL")' = {} BY <1>7, <1>8 DEF Queued
    <2> QED BY <1>r, <2>1 DEF BookInv
  <1>13. AdmitInv' BY <1>r, <1>2, <1>3, <1>7 DEF AdmitInv
  <1> QED BY <1>9, <1>10, <1>11, <1>12, <1>13

(* A fill is booked when nothing but fills is left; at most its own        *)
(* instrument is opened by it.                                             *)
LEMMA FillStep ==
  ASSUME BInv, OnFill
  PROVE  Protocol'
  <1> USE SymbolFacts DEF BInv, Protocol
  <1> DEFINE ev == queue[1]
             L == Len(queue)
  <1>1. Round("FILL") BY DEF OnFill
  <1>r. /\ queue # <<>> /\ ev.type = "FILL" /\ ev \in Events
        /\ Head(queue) = ev /\ L \in Nat \ {0} /\ 1 \in 1..L
        /\ iteration \in Nat /\ iteration' = iteration + 1
        /\ next > Len(SymbolSeq) /\ next \in Nat
        /\ UNCHANGED <<bar, next, opened>>
    BY <1>1, RoundFacts
  <1>2. Open' \subseteq Open \cup {ev.symbol}
    <2>1. positions' = [positions EXCEPT ![ev.symbol] =
                          ApplyFill(@, ev.side, ev.size, ev.price)]
      BY <1>r DEF OnFill
    <2> HIDE DEF ev
    <2> QED BY <2>1 DEF Open, TypeOK
  <1>4. PICK m, n \in Nat : Shape(m, n) BY DEF Batch
  <1>5. m = 0 /\ n = 0
    BY <1>r, <1>4 DEF Shape, Count, TypeAt
  <1>6. queue' = Tail(queue) BY DEF OnFill
  <1>7. /\ Len(queue') = L - 1
        /\ \A i \in 1..(L - 1) : queue'[i] = queue[i + 1]
    BY <1>r, <1>6, TailFacts
  <1>8. \A i \in 1..(L - 1) : queue'[i].type = "FILL" /\ queue'[i].bar = bar
    <2>1. \A i \in 1..L : queue[i].type = "FILL" /\ queue[i].bar = bar
      BY <1>4, <1>5 DEF Shape, TypeAt, BarInv
    <2> QED BY <1>r, <1>7, <2>1
  <1>9. Batch'
    <2>1. iteration' + Len(queue') + 0 + 0 <= 3 * (next' - 1)
      <3>1. iteration + L + m + n <= 3 * (next - 1) BY <1>4 DEF Shape, Count
      <3>2. Len(queue') = L - 1 /\ iteration' = iteration + 1 /\ next' = next
        BY <1>r, <1>7
      <3> HIDE DEF L
      <3> QED BY <1>r, <1>5, <3>1, <3>2
    <2>2. Count(0, 0)' BY <1>r, <1>7, <2>1 DEF Count
    <2>3. \A i \in 1..Len(queue') : queue'[i].type = TypeAt(i, 0, 0)
      BY <1>7, <1>8 DEF TypeAt
    <2> QED BY <2>2, <2>3 DEF Shape, Batch
  <1>10. FeedInv' BY <1>r DEF FeedInv
  <1>11. BarInv' BY <1>r, <1>7, <1>8 DEF BarInv
  <1>12. BookInv'
    <2>1. Queued("SIGNAL")' = {} BY <1>7, <1>8 DEF Queued
    <2> QED BY <1>r, <2>1 DEF BookInv
  <1>13. AdmitInv'
    <2>1. CASE Cardinality(opened) < MaxOpenPositions
      BY <1>r, <2>1 DEF AdmitInv
    <2>2. CASE ~(Cardinality(opened) < MaxOpenPositions)
      <3>1. ev.symbol \in opened /\ Open \subseteq opened
        BY <1>r, <2>2 DEF AdmitInv
      <3>2. \A i \in 1..(L - 1) :
              queue'[i].type # "SIGNAL" => queue'[i].symbol \in opened
        BY <1>r, <1>7, <2>2 DEF AdmitInv
      <3> QED BY <1>r, <1>2, <1>7, <3>1, <3>2 DEF AdmitInv
    <2> QED BY <2>1, <2>2
  <1> QED BY <1>9, <1>10, <1>11, <1>12, <1>13

(* The drain loop makes every round the queue needs.                       *)
RoomToDrain == MaxIterations >= 3 * Len(SymbolSeq)

LEMMA EndStep ==
  ASSUME BInv, EndBar, RoomToDrain
  PROVE  Protocol'
  <1> USE SymbolFacts DEF BInv, Protocol
  <1>1. /\ next' = 1 /\ iteration' = 0 /\ bar' = bar + 1
        /\ UNCHANGED <<queue, positions, opened>>
    BY DEF EndBar, account
  <1>2. queue \in Seq(Events) /\ Len(queue) \in Nat BY SequenceFacts DEF TypeOK
  <1>3. PICK m, n \in Nat : Shape(m, n) BY DEF Batch
  <1>4. Len(queue) = 0
    <2>1. CASE queue = <<>> BY <2>1
    <2>2. CASE iteration >= MaxIterations
      <3>1. iteration + Len(queue) + m + n <= 3 * (next - 1)
        BY <1>3 DEF Shape, Count
      <3>2. next \in 1..(Len(SymbolSeq) + 1) /\ iteration \in 0..MaxIterations
        BY DEF TypeOK
      <3> QED BY <1>2, <2>2, <3>1, <3>2, BacktestAssumption DEF RoomToDrain
    <2> QED BY <2>1, <2>2 DEF EndBar
  <1>5. Batch'
    <2>1. Count(0, 0)' BY <1>1, <1>4 DEF Count
    <2> QED BY <1>1, <1>4, <2>1 DEF Shape, Batch
  <1>6. FeedInv' /\ BarInv' BY <1>1, <1>4 DEF FeedInv, BarInv
  <1>7. BookInv' BY <1>1, <1>4 DEF BookInv, Queued
  <1>8. AdmitInv' BY <1>1, <1>4 DEF AdmitInv, Open
  <1> QED BY <1>5, <1>6, <1>7, <1>8

LEMMA ProtocolInit == Init => BInv
  <1> SUFFICES ASSUME Init PROVE BInv OBVIOUS
  <1>1. TypeOK BY TypeInit
  <1>2. Len(queue) = 0 /\ next = 1 /\ iteration = 0 BY DEF Init
  <1>3. Batch
    <2>1. Count(0, 0) BY <1>2 DEF Count
    <2> QED BY <1>2, <2>1 DEF Shape, Batch
  <1>4. FeedInv /\ BarInv BY <1>2 DEF FeedInv, BarInv
  <1>5. BookInv BY <1>2 DEF BookInv, Queued
  <1>6. AdmitInv
    <2>1. Open = {} BY DEF Init, Open, IsFlat, Flat
    <2> QED BY <1>2, <2>1 DEF AdmitInv
  <1> QED BY <1>1, <1>3, <1>4, <1>5, <1>6 DEF BInv, Protocol

LEMMA ProtocolStep ==
  ASSUME BInv, [Next]_vars, RoomToDrain
  PROVE  BInv'
  <1>1. TypeOK' BY TypeStep DEF BInv
  <1>2. CASE UNCHANGED vars
    BY <1>1, <1>2 DEF vars, account, BInv, Protocol, Batch, Shape, Count, FeedInv,
                      BarInv, BookInv, AdmitInv, Open, Queued
  <1> QED BY <1>1, <1>2, SkipStep, FeedStep, SignalStep, OrderStep, FillStep, EndStep
          DEF Next, BInv

LEMMA ProtocolKept ==
  ASSUME RoomToDrain PROVE Spec => []BInv
  BY ProtocolInit, ProtocolStep, PTL DEF Spec

LEMMA DrainedAtLast == BInv => DrainedEachBar
  <1> SUFFICES ASSUME BInv PROVE DrainedEachBar OBVIOUS
  <1> USE DEF BInv, Protocol
  <1>1. queue \in Seq(Events) /\ Len(queue) \in Nat BY SequenceFacts DEF TypeOK
  <1>2. ASSUME next = 1 PROVE queue = <<>>
    <2>1. PICK m, n \in Nat : Shape(m, n) BY DEF Batch
    <2>2. iteration + Len(queue) + m + n <= 0 /\ iteration \in Nat
      BY <1>2, <2>1 DEF Shape, Count, TypeOK
    <2>3. Len(queue) = 0 BY <1>1, <2>2
    <2> QED BY <1>1, <2>3
  <1> QED BY <1>2 DEF DrainedEachBar, BarInv

(* Nothing outlives its bar: whatever the strategies signal and the risk   *)
(* manager decides, the queue is empty when _process_bar returns.          *)
THEOREM DrainCorrect ==
  ASSUME RoomToDrain PROVE Spec => []DrainedEachBar
  BY DrainedAtLast, ProtocolKept, PTL

(* Signals before orders before fills, in every drain.                     *)
THEOREM OrderOfEvents ==
  ASSUME RoomToDrain PROVE Spec => []CausalOrder
  <1>1. ASSUME BInv PROVE CausalOrder
    <2>1. PICK m, n \in Nat : Shape(m, n) BY <1>1 DEF BInv, Protocol, Batch
    <2>2. SUFFICES ASSUME NEW i \in 1..Len(queue), NEW j \in 1..Len(queue), i < j
                   PROVE  /\ queue[i].type = "FILL" => queue[j].type = "FILL"
                          /\ queue[i].type = "ORDER" => queue[j].type # "SIGNAL"
      BY DEF CausalOrder
    <2>3. Len(queue) \in Nat BY <1>1, SequenceFacts DEF BInv, TypeOK
    <2>4. /\ queue[i].type = TypeAt(i, m, n) /\ queue[j].type = TypeAt(j, m, n)
          /\ m <= n
      BY <2>1 DEF Shape, Count
    <2> QED BY <2>2, <2>3, <2>4 DEF TypeAt
  <1> QED BY <1>1, ProtocolKept, PTL

(* Every order of a bar is judged by the positions open when it began.     *)
THEOREM OpeningBookJudges ==
  ASSUME RoomToDrain PROVE Spec => []JudgedByOpeningBook
  <1>1. BInv => JudgedByOpeningBook
    BY DEF BInv, Protocol, BookInv, JudgedByOpeningBook
  <1> QED BY <1>1, ProtocolKept, PTL

(* A book at max_open_positions takes in no further instrument that bar.   *)
THEOREM FullBookIsClosed ==
  ASSUME RoomToDrain PROVE Spec => []FullBookAdmitsNone
  <1>1. BInv => FullBookAdmitsNone
    BY DEF BInv, Protocol, AdmitInv, FullBookAdmitsNone
  <1> QED BY <1>1, ProtocolKept, PTL

----------------------------------------------------------------------------
(* The whole account.  AccountBalances is an equation between sums over    *)
(* the instruments; the market values are on both sides of it, and what is *)
(* left relates cash and commissions to the realised PnL less the cost of  *)
(* every position.  A fill moves that difference of its own instrument by  *)
(* what it moves in cash (FillKeepsBooks), and no other's.                 *)
NetOf(p) == p.realised - p.cost
Nets == [s \in Symbols |-> NetOf(positions[s])]

CashInv == cash = InitialCapital - commission + SumFunction(Nets)
FreeInv == \A s \in Symbols : FlatIsFree(positions[s])
(* No order is made of a signal without a size.                            *)
SizeInv == \A i \in 1..Len(queue) : queue[i].type # "SIGNAL" => queue[i].size > 0

AccountInv == TypeOK /\ SizeInv /\ FreeInv /\ CashInv

(* No fill that is about to be booked reduces a position away from its     *)
(* average cost: the condition PositionLedger shows to be needed.          *)
FillsKeepBooks ==
  queue # <<>> /\ Head(queue).type = "FILL" =>
    LET ev == Head(queue)
    IN  KeepsBooks(positions[ev.symbol], ev.side, ev.size, ev.price)

LEMMA SymbolsFinite == IsFiniteSet(Symbols)
  <1>1. IsFiniteSet(1..Len(SymbolSeq)) BY SymbolFacts, FS_Interval
  <1>2. SymbolSeq \in Surjection(1..Len(SymbolSeq), Symbols)
    BY BacktestAssumption, SymbolFacts DEF Symbols, Surjection
  <1> QED BY <1>1, <1>2, FS_Surjection

LEMMA NetsType ==
  ASSUME TypeOK
  PROVE  Nets \in Amounts(Symbols) /\ SumFunction(Nets) \in Int
  <1>1. \A s \in Symbols : NetOf(positions[s]) \in Int
    BY DEF TypeOK, Position, NetOf
  <1>2. Nets \in Amounts(Symbols) BY <1>1 DEF Nets, Amounts
  <1> QED BY <1>2, SymbolsFinite, SumType

(* The queue after a round of the drain loop.                              *)
LEMMA SizesOfTail ==
  ASSUME TypeOK, SizeInv, queue # <<>>, queue' = Tail(queue)
  PROVE  SizeInv'
  BY TailFacts DEF SizeInv

LEMMA SizesOfMore ==
  ASSUME TypeOK, SizeInv, queue # <<>>, NEW e \in Events, e.size > 0,
         queue' = Append(Tail(queue), e)
  PROVE  SizeInv'
  <1> DEFINE L == Len(queue)
  <1>1. /\ L \in Nat \ {0} /\ Len(queue') = L /\ queue'[L] = e
        /\ \A i \in 1..(L - 1) : queue'[i] = queue[i + 1]
    BY TailFacts
  <1>2. ASSUME NEW i \in 1..L, queue'[i].type # "SIGNAL" PROVE queue'[i].size > 0
    <2>1. CASE i = L BY <1>1, <2>1
    <2>2. CASE i # L
      <3>1. i \in 1..(L - 1) /\ i + 1 \in 1..L
        <4> HIDE DEF L
        <4> QED BY <1>1, <2>2
      <3> QED BY <1>1, <1>2, <3>1 DEF SizeInv
    <2> QED BY <2>1, <2>2
  <1> QED BY <1>1, <1>2 DEF SizeInv

LEMMA AccountFill ==
  ASSUME AccountInv, FillsKeepBooks, OnFill
  PROVE  FreeInv' /\ CashInv'
  <1> DEFINE ev == Head(queue)
             s == ev.symbol
             p == positions[s]
             paid == Signed(ev.side, ev.size) * ev.price
             fee == CommissionOn(ev.size, ev.price)
  <1>1. /\ queue # <<>> /\ ev.type = "FILL"
        /\ positions' = [positions EXCEPT ![s] =
                           ApplyFill(@, ev.side, ev.size, ev.price)]
        /\ cash' = cash - paid - fee
        /\ commission' = commission + fee
    BY DEF OnFill, Round
  <1>2. ev = queue[1] /\ ev \in Events /\ 1 \in 1..Len(queue)
    <2>1. queue \in Seq(Events) BY DEF AccountInv, TypeOK
    <2>2. Head(queue) = queue[1] /\ Head(queue) \in Events
      BY <1>1, <2>1, SequenceFacts
    <2>3. Len(queue) \in Nat \ {0} BY <1>1, TailFacts DEF AccountInv
    <2> QED BY <2>2, <2>3
  <1>3. /\ s \in Symbols /\ ev.side \in Sides /\ ev.size \in Nat \ {0}
        /\ ev.price \in Int /\ fee \in Int /\ paid \in Int
    <2>1. /\ s \in Symbols /\ ev.side \in Sides /\ ev.size \in Int
          /\ ev.price \in Int /\ fee \in Int /\ paid \in Int
      BY <1>1, <1>2, FillFields
    <2>2. ev.size > 0 BY <1>1, <1>2 DEF AccountInv, SizeInv
    <2> HIDE DEF ev, paid, fee
    <2> QED BY <2>1, <2>2
  <1>4. p \in Position /\ FlatIsFree(p)
    BY <1>3 DEF AccountInv, TypeOK, FreeInv
  <1>5. KeepsBooks(p, ev.side, ev.size, ev.price)
    BY <1>1 DEF FillsKeepBooks
  <1> DEFINE n == ApplyFill(p, ev.side, ev.size, ev.price)
  <1>6. n \in Position /\ FlatIsFree(n) /\ NetOf(n) = NetOf(p) - paid
    <2>1. /\ n \in Position /\ FlatIsFree(n)
          /\ KeepsBooks(p, ev.side, ev.size, ev.price) =>
               n.realised - n.cost = p.realised - p.cost - paid
      BY <1>3, <1>4, FillKeepsBooks
    <2> QED BY <1>5, <2>1 DEF NetOf
  <1>7. /\ positions \in [Symbols -> Position] /\ cash \in Int /\ commission \in Int
        /\ cash = InitialCapital - commission + SumFunction(Nets)
    BY DEF AccountInv, TypeOK, CashInv
  <1>8. positions' = [positions EXCEPT ![s] = n] BY <1>1
  <1> HIDE DEF ev, s, p, paid, fee, n
  <1>9. \A t \in Symbols : positions'[t] = IF t = s THEN n ELSE positions[t]
    BY <1>3, <1>7, <1>8
  <1>10. positions' \in [Symbols -> Position] BY <1>6, <1>7, <1>8
  <1>11. FreeInv' BY <1>6, <1>9 DEF FreeInv, AccountInv
  <1>12. CashInv'
    <2>1. Nets \in Amounts(Symbols) /\ SumFunction(Nets) \in Int
      BY NetsType DEF AccountInv
    <2>2. \A t \in Symbols : NetOf(positions'[t]) \in Int
      BY <1>10 DEF Position, NetOf
    <2>3. Nets' \in Amounts(Symbols) BY <2>2 DEF Nets, Amounts
    <2>4. /\ Nets[s] = NetOf(p) /\ Nets'[s] = NetOf(n)
          /\ \A t \in Symbols \ {s} : Nets'[t] = Nets[t]
      BY <1>3, <1>9 DEF Nets, p
    <2>5. SumFunction(Nets') = SumFunction(Nets) - Nets[s] + Nets'[s]
      BY <1>3, <2>1, <2>3, <2>4, SymbolsFinite, SumChange
    <2>6. NetOf(p) \in Int BY <1>4 DEF NetOf, Position
    <2>7. SumFunction(Nets') = SumFunction(Nets) - paid
      BY <1>3, <1>6, <2>1, <2>4, <2>5, <2>6
    <2>8. InitialCapital \in Int BY BacktestAssumption
    <2>9. cash' = InitialCapital - commission' + SumFunction(Nets')
      BY <1>1, <1>3, <1>7, <2>1, <2>7, <2>8 DEF paid, fee
    <2> QED BY <2>9 DEF CashInv
  <1> QED BY <1>11, <1>12

LEMMA AccountInit == Init => AccountInv
  <1> SUFFICES ASSUME Init PROVE AccountInv OBVIOUS
  <1>1. TypeOK BY TypeInit
  <1>2. SizeInv /\ FreeInv
    BY DEF Init, SizeInv, FreeInv, FlatIsFree, IsFlat, Flat
  <1>3. SumFunction(Nets) = 0
    <2>1. \A s \in Symbols : Nets[s] = 0 BY DEF Init, Nets, NetOf, Flat
    <2>2. Nets \in Amounts(Symbols) BY <1>1, NetsType
    <2>3. SumFunction(Nets) = SumFunction(Restrict(Nets, {}))
      BY <2>1, <2>2, SymbolsFinite, SumSupport
    <2>4. SumFunction(Restrict(Nets, {})) = 0 BY <2>2, SumOfNone
    <2> QED BY <2>3, <2>4
  <1>4. CashInv BY <1>3, BacktestAssumption DEF Init, CashInv
  <1> QED BY <1>1, <1>2, <1>4 DEF AccountInv

LEMMA AccountStep ==
  ASSUME AccountInv, FillsKeepBooks, [Next]_vars
  PROVE  AccountInv'
  <1> USE SymbolFacts DEF AccountInv
  <1>t. TypeOK' BY TypeStep
  <1>a. ASSUME UNCHANGED account PROVE FreeInv' /\ CashInv'
    BY <1>a DEF account, FreeInv, CashInv, Nets
  <1>1. CASE SkipSymbol
    <2>1. SizeInv' BY <1>1 DEF SkipSymbol, SizeInv
    <2> QED BY <1>t, <1>a, <1>1, <2>1 DEF SkipSymbol
  <1>2. CASE FeedSymbol
    <2> DEFINE s == SymbolSeq[next]
    <2>1. s \in Symbols /\ UNCHANGED <<cash, commission>>
      BY <1>2 DEF FeedSymbol, Feeding, TypeOK
    <2>2. PICK price \in Prices :
            positions' = IF s \in known
                         THEN [positions EXCEPT ![s] = MarkToMarket(@, price)]
                         ELSE positions
      BY <1>2 DEF FeedSymbol
    <2>3. \A t \in Symbols : /\ positions'[t].quantity = positions[t].quantity
                             /\ positions'[t].cost = positions[t].cost
                             /\ positions'[t].realised = positions[t].realised
      BY <2>1, <2>2 DEF TypeOK, Position, MarkToMarket
    <2>4. FreeInv' BY <2>3 DEF FreeInv, FlatIsFree, IsFlat
    <2>5. CashInv'
      <3>1. Nets' = Nets BY <2>3 DEF Nets, NetOf
      <3> QED BY <2>1, <3>1 DEF CashInv
    <2>6. SizeInv'
      <3>1. queue \in Seq(Events) /\ Len(queue) \in Nat
        BY SequenceFacts DEF TypeOK
      <3>2. CASE UNCHANGED queue BY <3>2 DEF SizeInv
      <3>3. ASSUME NEW sig \in Signals(belief[s]),
                   queue' = Append(queue, Signal(s, sig))
            PROVE  SizeInv'
        <4>1. Signal(s, sig) \in Events /\ Signal(s, sig).type = "SIGNAL"
          BY <2>1, SignalType
        <4>2. /\ Len(queue') = Len(queue) + 1
              /\ queue'[Len(queue) + 1].type = "SIGNAL"
              /\ \A i \in 1..Len(queue) : queue'[i] = queue[i]
          BY <3>1, <3>3, <4>1, SequenceFacts
        <4> QED BY <3>1, <4>2 DEF SizeInv
      <3>4. \/ UNCHANGED queue
            \/ \E sig \in Signals(belief[s]) : queue' = Append(queue, Signal(s, sig))
        BY <1>2 DEF FeedSymbol
      <3> QED BY <3>2, <3>3, <3>4
    <2> QED BY <1>t, <2>4, <2>5, <2>6
  <1>h. ASSUME NEW type, Round(type)
        PROVE  /\ queue # <<>> /\ Head(queue) \in Events /\ Head(queue).type = type
               /\ (type # "SIGNAL" => Head(queue).size > 0)
    <2>1. queue # <<>> /\ Head(queue).type = type BY <1>h DEF Round
    <2>2. queue \in Seq(Events) BY DEF TypeOK
    <2>3. Head(queue) = queue[1] /\ Head(queue) \in Events BY <2>1, <2>2, SequenceFacts
    <2>4. 1 \in 1..Len(queue) BY <2>1, TailFacts
    <2> QED BY <2>1, <2>3, <2>4 DEF SizeInv
  <1>3. CASE OnSignal
    <2> DEFINE ev == Head(queue)
    <2>1. queue # <<>> /\ ev \in Events /\ ev.type = "SIGNAL"
      BY <1>3, <1>h DEF OnSignal
    <2>2. CASE ev.size > 0 /\ Approved(ev.symbol, ev.size)
      <3>1. queue' = Append(Tail(queue), Order(ev)) BY <1>3, <2>2 DEF OnSignal
      <3>2. Order(ev) \in Events BY <2>1, OrderEventType
      <3>3. Order(ev).size > 0 BY <2>2 DEF Order
      <3>4. SizeInv' BY <2>1, <3>1, <3>2, <3>3, SizesOfMore
      <3> QED BY <1>t, <1>a, <1>3, <3>4 DEF OnSignal
    <2>3. CASE ~(ev.size > 0 /\ Approved(ev.symbol, ev.size))
      <3>1. queue' = Tail(queue) BY <1>3, <2>3 DEF OnSignal
      <3>2. SizeInv' BY <2>1, <3>1, SizesOfTail
      <3> QED BY <1>t, <1>a, <1>3, <3>2 DEF OnSignal
    <2> QED BY <2>2, <2>3
  <1>4. CASE OnOrder
    <2> DEFINE ev == Head(queue)
    <2>1. queue # <<>> /\ ev \in Events /\ ev.type = "ORDER" /\ ev.size > 0
      BY <1>4, <1>h DEF OnOrder
    <2>2. queue' = Append(Tail(queue), Fill(ev)) BY <1>4 DEF OnOrder
    <2>3. Fill(ev) \in Events BY <2>1, FillEventType
    <2>4. Fill(ev).size > 0 BY <2>1 DEF Fill
    <2>5. SizeInv' BY <2>1, <2>2, <2>3, <2>4, SizesOfMore
    <2> QED BY <1>t, <1>a, <1>4, <2>5 DEF OnOrder
  <1>5. CASE OnFill
    <2>1. queue # <<>> BY <1>5, <1>h DEF OnFill
    <2>2. SizeInv' BY <1>5, <2>1, SizesOfTail DEF OnFill
    <2> QED BY <1>t, <1>5, <2>2, AccountFill
  <1>6. CASE EndBar
    <2>1. SizeInv' BY <1>6 DEF EndBar, SizeInv
    <2> QED BY <1>t, <1>a, <1>6, <2>1 DEF EndBar
  <1>7. CASE UNCHANGED vars
    <2>1. SizeInv' BY <1>7 DEF vars, SizeInv
    <2> QED BY <1>t, <1>a, <1>7, <2>1 DEF vars
  <1> QED BY <1>1, <1>2, <1>3, <1>4, <1>5, <1>6, <1>7 DEF Next

LEMMA AccountsAddUp == AccountInv => AccountBalances
  <1> SUFFICES ASSUME AccountInv PROVE AccountBalances OBVIOUS
  <1> DEFINE values == [s \in Symbols |-> MarketValue(positions[s])]
             pnls == [s \in Symbols |-> TotalPnl(positions[s])]
  <1>1. \A s \in Symbols :
          /\ MarketValue(positions[s]) \in Int /\ NetOf(positions[s]) \in Int
          /\ TotalPnl(positions[s]) \in Int
          /\ TotalPnl(positions[s]) = MarketValue(positions[s]) + NetOf(positions[s])
    <2> SUFFICES ASSUME NEW s \in Symbols
                 PROVE  /\ MarketValue(positions[s]) \in Int
                        /\ NetOf(positions[s]) \in Int
                        /\ TotalPnl(positions[s]) \in Int
                        /\ TotalPnl(positions[s])
                             = MarketValue(positions[s]) + NetOf(positions[s])
      OBVIOUS
    <2>1. /\ positions[s].quantity \in Int /\ positions[s].last \in Int
          /\ positions[s].cost \in Int /\ positions[s].realised \in Int
      BY DEF AccountInv, TypeOK, Position
    <2>2. MarketValue(positions[s]) \in Int BY <2>1 DEF MarketValue
    <2> QED BY <2>1, <2>2 DEF TotalPnl, Unrealised, NetOf
  <1>2. values \in Amounts(Symbols) /\ pnls \in Amounts(Symbols)
    BY <1>1 DEF Amounts
  <1>3. Nets \in Amounts(Symbols) /\ SumFunction(Nets) \in Int
    BY NetsType DEF AccountInv
  <1>4. \A s \in Symbols : pnls[s] = values[s] + Nets[s]
    BY <1>1 DEF Nets
  <1>5. Equity = cash + SumFunction(values) BY DEF Equity
  <1>6. AccountBalances <=> Equity = InitialCapital - commission + SumFunction(pnls)
    BY DEF AccountBalances
  <1> HIDE DEF values, pnls
  <1>7. SumFunction(pnls) = SumFunction(values) + SumFunction(Nets)
    BY <1>2, <1>3, <1>4, SymbolsFinite, SumPlus
  <1>8. SumFunction(values) \in Int BY <1>2, SymbolsFinite, SumType
  <1>9. cash \in Int /\ commission \in Int /\ InitialCapital \in Int
    BY BacktestAssumption DEF AccountInv, TypeOK
  <1> QED BY <1>3, <1>5, <1>6, <1>7, <1>8, <1>9 DEF AccountInv, CashInv

(* The account balances over any instruments, prices, entry sizes and risk *)
(* limits, long and short, for as long as no fill reduces a position away  *)
(* from its average cost.                                                  *)
THEOREM AccountsCorrect == Spec /\ []FillsKeepBooks => []AccountBalances
  <1>1. Spec /\ []FillsKeepBooks => []AccountInv
    BY AccountInit, AccountStep, PTL DEF Spec
  <1> QED BY <1>1, AccountsAddUp, PTL

----------------------------------------------------------------------------
(* Belief and book.  Where every entry is for the default quantity, there  *)
(* are no shorts and no signal is rejected, an event says how far the book *)
(* is behind the strategy's belief: a purchase pends for a position that   *)
(* is still flat, a sale for one that is still full.  An instrument has at *)
(* most one event in the queue, and none before it is fed.                 *)
FullSizeLongOnly ==
  DefaultQuantity > 0 /\ EntrySizes = {DefaultQuantity} /\ ~AllowShort

NoneRejected ==
  Draining /\ queue # <<>> /\ Head(queue).type = "SIGNAL" =>
    Approved(Head(queue).symbol, Head(queue).size)

Target(held) == IF held = "LONG" THEN DefaultQuantity ELSE 0

Buys(ev) == IF ev.type = "SIGNAL" THEN ev.direction = "LONG" ELSE ev.side = "BUY"

Pends(ev) ==
  /\ ev.size = DefaultQuantity
  /\ Buys(ev) => /\ positions[ev.symbol].quantity = 0
                 /\ belief[ev.symbol] = "LONG"
  /\ ~Buys(ev) => /\ positions[ev.symbol].quantity = DefaultQuantity
                  /\ belief[ev.symbol] = "NONE"

PendInv == \A i \in 1..Len(queue) : Pends(queue[i])
QuietInv == \A s \in Symbols :
              (\A i \in 1..Len(queue) : queue[i].symbol # s) =>
                positions[s].quantity = Target(belief[s])
AloneInv == \A i, j \in 1..Len(queue) : queue[i].symbol = queue[j].symbol => i = j
AheadInv == \A k \in next..Len(SymbolSeq) :
              \A i \in 1..Len(queue) : queue[i].symbol # SymbolSeq[k]
LongInv == \A s \in Symbols : belief[s] # "SHORT"

Followed == PendInv /\ QuietInv /\ AloneInv /\ AheadInv /\ LongInv

(* An event that gives way to its successor for the same instrument, side  *)
(* and size leaves belief and book as far apart as they were.              *)
LEMMA PassedOn ==
  ASSUME BInv, Followed, queue # <<>>, NEW e \in Events,
         e.symbol = Head(queue).symbol, e.size = Head(queue).size,
         Buys(e) <=> Buys(Head(queue)),
         queue' = Append(Tail(queue), e), UNCHANGED <<next, positions, belief>>
  PROVE  Followed'
  <1> USE DEF Followed
  <1> DEFINE L == Len(queue)
             From(i) == IF i = L THEN 1 ELSE i + 1
  <1>1. /\ L \in Nat \ {0} /\ Head(queue) = queue[1] /\ Len(queue') = L
        /\ queue'[L] = e
        /\ \A i \in 1..(L - 1) : queue'[i] = queue[i + 1]
    BY TailFacts DEF BInv
  <1>2. ASSUME NEW i \in 1..L
        PROVE  /\ From(i) \in 1..L
               /\ queue'[i].symbol = queue[From(i)].symbol
               /\ queue'[i].size = queue[From(i)].size
               /\ Buys(queue'[i]) <=> Buys(queue[From(i)])
    <2>1. CASE i = L BY <1>1, <2>1
    <2>2. CASE i # L
      <3>1. i \in 1..(L - 1) /\ From(i) = i + 1 /\ i + 1 \in 1..L
        <4> HIDE DEF L
        <4> QED BY <1>1, <2>2
      <3>2. queue'[i] = queue[From(i)] BY <1>1, <3>1
      <3> HIDE DEF From, L
      <3> QED BY <3>1, <3>2
    <2> QED BY <2>1, <2>2
  <1>3. /\ \A i, j \in 1..L : From(i) = From(j) => i = j
        /\ \A j \in 1..L : \E i \in 1..L : From(i) = j
    <2> HIDE DEF L
    <2>1. \A i, j \in 1..L : From(i) = From(j) => i = j BY <1>1
    <2>2. ASSUME NEW j \in 1..L PROVE \E i \in 1..L : From(i) = j
      <3>1. CASE j = 1
        <4>1. L \in 1..L /\ From(L) = j BY <1>1, <3>1
        <4> QED BY <4>1
      <3>2. CASE j # 1
        <4>1. j - 1 \in 1..L /\ From(j - 1) = j BY <1>1, <3>2
        <4> QED BY <4>1
      <3> QED BY <3>1, <3>2
    <2> QED BY <2>1, <2>2
  <1> HIDE DEF From
  <1>u. next' = next /\ positions' = positions /\ belief' = belief
    OBVIOUS
  <1>4. PendInv'
    <2> SUFFICES ASSUME NEW i \in 1..L PROVE Pends(queue[i])'
      BY <1>1 DEF PendInv
    <2>1. Pends(queue[From(i)]) BY <1>2 DEF PendInv
    <2> QED BY <1>2, <1>u, <2>1 DEF Pends
  <1>5. QuietInv'
    <2> SUFFICES ASSUME NEW s \in Symbols, \A i \in 1..L : queue'[i].symbol # s
                 PROVE  positions'[s].quantity = Target(belief'[s])
      BY <1>1 DEF QuietInv, Target
    <2>1. ASSUME NEW j \in 1..L PROVE queue[j].symbol # s
      <3>1. PICK i \in 1..L : From(i) = j BY <1>3
      <3>2. queue'[i].symbol = queue[From(i)].symbol BY <1>2
      <3> QED BY <3>1, <3>2
    <2> QED BY <1>u, <2>1 DEF QuietInv
  <1>6. AloneInv'
    <2> SUFFICES ASSUME NEW i \in 1..L, NEW j \in 1..L,
                        queue'[i].symbol = queue'[j].symbol
                 PROVE  i = j
      BY <1>1 DEF AloneInv
    <2>1. /\ From(i) \in 1..L /\ From(j) \in 1..L
          /\ queue[From(i)].symbol = queue[From(j)].symbol
      BY <1>2
    <2>2. From(i) = From(j) BY <2>1 DEF AloneInv
    <2> QED BY <1>3, <2>2
  <1>7. AheadInv'
    <2> SUFFICES ASSUME NEW k \in next..Len(SymbolSeq), NEW i \in 1..L
                 PROVE  queue'[i].symbol # SymbolSeq[k]
      BY <1>1, <1>u DEF AheadInv
    <2> QED BY <1>2 DEF AheadInv
  <1>8. LongInv' BY <1>u DEF LongInv
  <1> QED BY <1>4, <1>5, <1>6, <1>7, <1>8

(* A booked fill brings its instrument's position to the target.           *)
LEMMA BookedFill ==
  ASSUME BInv, Followed, FullSizeLongOnly, OnFill
  PROVE  Followed'
  <1> USE DEF Followed
  <1> DEFINE ev == queue[1]
             L == Len(queue)
             s == ev.symbol
  <1>1. Round("FILL") BY DEF OnFill
  <1>2. /\ queue # <<>> /\ ev.type = "FILL" /\ ev \in Events /\ Head(queue) = ev
        /\ L \in Nat \ {0} /\ UNCHANGED next
    BY <1>1, RoundFacts
  <1>3. /\ queue' = Tail(queue) /\ UNCHANGED belief
        /\ positions' = [positions EXCEPT ![s] =
                           ApplyFill(@, ev.side, ev.size, ev.price)]
    BY <1>1, <1>2 DEF OnFill, Round
  <1>4. /\ Len(queue') = L - 1 /\ \A i \in 1..(L - 1) : queue'[i] = queue[i + 1]
    BY <1>2, <1>3, TailFacts DEF BInv
  <1>5. /\ s \in Symbols /\ ev.side \in Sides /\ DefaultQuantity \in Nat \ {0}
        /\ positions \in [Symbols -> Position]
    BY <1>2, FillFields, BacktestAssumption DEF FullSizeLongOnly, BInv, TypeOK
  <1>6. Pends(ev) /\ (Buys(ev) <=> ev.side = "BUY")
    BY <1>2 DEF PendInv, Buys
  <1> DEFINE n == ApplyFill(positions[s], ev.side, ev.size, ev.price)
  <1>7. n.quantity = Target(belief[s])
    <2>1. positions[s] \in Position /\ positions[s].quantity \in Int
      BY <1>5 DEF Position
    <2>2. CASE ev.side = "BUY"
      <3>1. ev.size = DefaultQuantity /\ positions[s].quantity = 0 /\ belief[s] = "LONG"
        BY <1>6, <2>2 DEF Pends
      <3>2. n.quantity = DefaultQuantity
        BY <2>1, <2>2, <3>1 DEF ApplyFill, IsFlat, Signed, Position
      <3> QED BY <3>1, <3>2 DEF Target
    <2>3. CASE ev.side # "BUY"
      <3>1. /\ ev.size = DefaultQuantity /\ belief[s] = "NONE"
            /\ positions[s].quantity = DefaultQuantity
        BY <1>6, <2>3 DEF Pends
      <3>2. n.quantity = DefaultQuantity + (-DefaultQuantity)
        BY <1>5, <2>1, <2>3, <3>1
           DEF ApplyFill, IsFlat, Signed, SameDirection, Position
      <3> QED BY <1>5, <3>1, <3>2 DEF Target
    <2> QED BY <2>2, <2>3
  <1>8. \A t \in Symbols : positions'[t] = IF t = s THEN n ELSE positions[t]
    <2>1. positions' = [positions EXCEPT ![s] = n] BY <1>3
    <2> HIDE DEF n, s, ev
    <2> QED BY <1>5, <2>1
  <1>9. \A i \in 1..(L - 1) : /\ i + 1 \in 1..L /\ queue'[i] = queue[i + 1]
                             /\ queue'[i].symbol # s
    <2> SUFFICES ASSUME NEW i \in 1..(L - 1)
                 PROVE  /\ i + 1 \in 1..L /\ queue'[i] = queue[i + 1]
                        /\ queue'[i].symbol # s
      OBVIOUS
    <2>1. i + 1 \in 1..L /\ 1 \in 1..L /\ i + 1 # 1
      <3> HIDE DEF L
      <3> QED BY <1>2
    <2> QED BY <1>4, <2>1 DEF AloneInv
  <1>10. \A i \in 1..L : queue[i] \in Events /\ queue[i].symbol \in Symbols
    <2>1. queue \in Seq(Events) BY DEF BInv, TypeOK
    <2>2. \A e \in Events : e.symbol \in Symbols BY DEF Events
    <2> QED BY <2>1, <2>2, SequenceFacts
  <1> HIDE DEF n, s
  <1>11. PendInv'
    <2> SUFFICES ASSUME NEW i \in 1..(L - 1) PROVE Pends(queue[i])'
      BY <1>4 DEF PendInv
    <2>1. Pends(queue[i + 1]) /\ queue[i + 1].symbol \in Symbols \ {s}
      BY <1>9, <1>10 DEF PendInv
    <2> QED BY <1>3, <1>8, <1>9, <2>1 DEF Pends
  <1>12. QuietInv'
    <2> SUFFICES ASSUME NEW t \in Symbols, t # s,
                        \A i \in 1..(L - 1) : queue'[i].symbol # t
                 PROVE  positions[t].quantity = Target(belief[t])
      BY <1>3, <1>4, <1>7, <1>8 DEF QuietInv, Target
    <2>1. ASSUME NEW j \in 1..L PROVE queue[j].symbol # t
      <3>1. CASE j = 1 BY <3>1 DEF s
      <3>2. CASE j # 1
        <4>1. j - 1 \in 1..(L - 1) /\ (j - 1) + 1 = j
          <5> HIDE DEF L
          <5> QED BY <1>2, <3>2
        <4>2. queue'[j - 1] = queue[j] BY <1>9, <4>1
        <4> QED BY <4>1, <4>2
      <3> QED BY <3>1, <3>2
    <2> QED BY <2>1 DEF QuietInv
  <1>13. AloneInv'
    <2>1. \A i, j \in 1..(L - 1) : queue'[i].symbol = queue'[j].symbol => i + 1 = j + 1
      BY <1>9 DEF AloneInv
    <2>2. \A i, j \in 1..(L - 1) : i + 1 = j + 1 => i = j OBVIOUS
    <2> QED BY <1>4, <2>1, <2>2 DEF AloneInv
  <1>14. AheadInv' BY <1>2, <1>4, <1>9 DEF AheadInv
  <1>15. LongInv' BY <1>3 DEF LongInv
  <1> QED BY <1>11, <1>12, <1>13, <1>14, <1>15

(* A fed instrument had nothing pending; its signal is the one event that  *)
(* now pends for it.                                                       *)
LEMMA FedSymbol ==
  ASSUME BInv, Followed, FullSizeLongOnly, FeedSymbol
  PROVE  Followed'
  <1> USE SymbolFacts DEF Followed
  <1> DEFINE s == SymbolSeq[next]
             L == Len(queue)
  <1>1. /\ next \in 1..Len(SymbolSeq) /\ next' = next + 1 /\ s \in Symbols
        /\ L \in Nat /\ queue \in Seq(Events)
    <2>1. queue \in Seq(Events) BY DEF BInv, TypeOK
    <2> QED BY <2>1, SequenceFacts DEF FeedSymbol, Feeding, BInv, TypeOK
  <1>2. /\ \A k \in next'..Len(SymbolSeq) :
             /\ k \in next..Len(SymbolSeq) /\ SymbolSeq[k] # s
        /\ next \in next..Len(SymbolSeq)
    <2>1. \A k \in next'..Len(SymbolSeq) :
            k \in next..Len(SymbolSeq) /\ k \in 1..Len(SymbolSeq) /\ k # next
      BY <1>1
    <2>2. \A i, j \in 1..Len(SymbolSeq) : SymbolSeq[i] = SymbolSeq[j] => i = j
      BY BacktestAssumption
    <2> QED BY <1>1, <2>1, <2>2
  <1>3. \A i \in 1..L : queue[i].symbol # s
    BY <1>2 DEF AheadInv
  <1>4. positions[s].quantity = Target(belief[s]) BY <1>1, <1>3 DEF QuietInv
  <1>5. \A t \in Symbols : positions'[t].quantity = positions[t].quantity
    <2>1. PICK price \in Prices :
            positions' = IF s \in known
                         THEN [positions EXCEPT ![s] = MarkToMarket(@, price)]
                         ELSE positions
      BY DEF FeedSymbol
    <2> QED BY <1>1, <2>1 DEF BInv, TypeOK, Position, MarkToMarket
  <1>6. \A i \in 1..L : queue[i].symbol \in Symbols
    <2>1. \A e \in Events : e.symbol \in Symbols BY DEF Events
    <2> QED BY <1>1, <2>1, SequenceFacts
  <1>7. CASE UNCHANGED <<queue, belief>>
    <2>1. queue' = queue /\ belief' = belief BY <1>7
    <2>2. PendInv'
      <3> SUFFICES ASSUME NEW i \in 1..L PROVE Pends(queue[i])'
        BY <2>1 DEF PendInv
      <3>1. Pends(queue[i]) BY DEF PendInv
      <3> QED BY <1>5, <1>6, <2>1, <3>1 DEF Pends
    <2>3. QuietInv' BY <1>5, <2>1 DEF QuietInv, Target
    <2>4. AloneInv' /\ LongInv' BY <2>1 DEF AloneInv, LongInv
    <2>5. AheadInv' BY <1>2, <2>1 DEF AheadInv
    <2> QED BY <2>2, <2>3, <2>4, <2>5
  <1>8. ASSUME NEW sig \in Signals(belief[s]), queue' = Append(queue, Signal(s, sig)),
               belief' = [belief EXCEPT ![s] = sig.belief]
        PROVE  Followed'
    <2> DEFINE e == Signal(s, sig)
    <2>1. /\ Len(queue') = L + 1 /\ queue'[L + 1] = e
          /\ \A i \in 1..L : queue'[i] = queue[i]
      <3>1. e \in Events BY <1>1, SignalType DEF BInv
      <3> HIDE DEF e, s
      <3> QED BY <1>1, <1>8, <3>1, SequenceFacts DEF e
    <2>2. \A t \in Symbols : belief'[t] = IF t = s THEN sig.belief ELSE belief[t]
      BY <1>1, <1>8 DEF BInv, TypeOK
    <2>3. /\ e.symbol = s /\ e.type = "SIGNAL" /\ e.size = sig.size
          /\ e.direction = sig.direction
      BY DEF Signal
    <2>4. /\ sig.size = DefaultQuantity
          /\ \/ sig.direction = "LONG" /\ sig.belief = "LONG" /\ belief[s] = "NONE"
             \/ sig.direction = "EXIT" /\ sig.belief = "NONE" /\ belief[s] = "LONG"
      <3>1. belief[s] \in {"NONE", "LONG"}
        BY <1>1 DEF LongInv, BInv, TypeOK
      <3> QED BY <1>8, <3>1 DEF Signals, FullSizeLongOnly
    <2> HIDE DEF e, s
    <2>5. \A i \in 1..(L + 1) : i = L + 1 \/ i \in 1..L BY <1>1
    <2>6. PendInv'
      <3> SUFFICES ASSUME NEW i \in 1..(L + 1) PROVE Pends(queue[i])'
        BY <2>1 DEF PendInv
      <3>1. CASE i = L + 1
        <4>1. queue'[i] = e BY <2>1, <3>1
        <4>2. positions'[s].quantity = Target(belief[s]) /\ belief'[s] = sig.belief
          BY <1>1, <1>4, <1>5, <2>2
        <4> QED BY <2>3, <2>4, <4>1, <4>2 DEF Pends, Buys, Target
      <3>2. CASE i \in 1..L
        <4>1. queue'[i] = queue[i] /\ Pends(queue[i]) /\ queue[i].symbol \in Symbols
              /\ queue[i].symbol # s
          BY <1>3, <1>6, <2>1, <3>2 DEF PendInv
        <4> QED BY <1>5, <2>2, <4>1 DEF Pends
      <3> QED BY <2>5, <3>1, <3>2
    <2>7. QuietInv'
      <3> SUFFICES ASSUME NEW t \in Symbols,
                          \A i \in 1..(L + 1) : queue'[i].symbol # t
                   PROVE  positions'[t].quantity = Target(belief'[t])
        BY <2>1 DEF QuietInv, Target
      <3>1. t # s
        <4>1. L + 1 \in 1..(L + 1) BY <1>1
        <4> QED BY <2>1, <2>3, <4>1
      <3>2. \A i \in 1..L : queue[i].symbol # t
        <4>1. \A i \in 1..L : i \in 1..(L + 1) BY <1>1
        <4> QED BY <2>1, <4>1
      <3> QED BY <1>5, <2>2, <3>1, <3>2 DEF QuietInv
    <2>8. AloneInv'
      <3> SUFFICES ASSUME NEW i \in 1..(L + 1), NEW j \in 1..(L + 1),
                          queue'[i].symbol = queue'[j].symbol
                   PROVE  i = j
        BY <2>1 DEF AloneInv
      <3>1. CASE i \in 1..L /\ j \in 1..L BY <2>1, <3>1 DEF AloneInv
      <3>2. CASE i = L + 1 /\ j \in 1..L BY <1>3, <2>1, <2>3, <3>2
      <3>3. CASE j = L + 1 /\ i \in 1..L BY <1>3, <2>1, <2>3, <3>3
      <3> QED BY <2>5, <3>1, <3>2, <3>3
    <2>9. AheadInv'
      <3> SUFFICES ASSUME NEW k \in next'..Len(SymbolSeq), NEW i \in 1..(L + 1)
                   PROVE  queue'[i].symbol # SymbolSeq[k]
        BY <2>1 DEF AheadInv
      <3>1. CASE i = L + 1 BY <1>2, <2>1, <2>3, <3>1
      <3>2. CASE i \in 1..L BY <1>2, <2>1, <3>2 DEF AheadInv
      <3> QED BY <2>5, <3>1, <3>2
    <2>10. LongInv' BY <2>2, <2>4 DEF LongInv
    <2> QED BY <2>6, <2>7, <2>8, <2>9, <2>10
  <1> QED BY <1>7, <1>8 DEF FeedSymbol

LEMMA FollowedInit ==
  ASSUME Init PROVE Followed
  <1>1. Len(queue) = 0 /\ \A s \in Symbols : belief[s] = "NONE"
    BY DEF Init
  <1>2. \A s \in Symbols : positions[s].quantity = 0 BY DEF Init, Flat
  <1> QED BY <1>1, <1>2
          DEF Followed, PendInv, QuietInv, AloneInv, AheadInv, LongInv, Target

LEMMA FollowedStep ==
  ASSUME BInv, Followed, NoneRejected, RoomToDrain, FullSizeLongOnly, [Next]_vars
  PROVE  BInv' /\ Followed'
  <1>b. BInv' BY ProtocolStep
  <1>1. CASE SkipSymbol
    <2>1. /\ next' = next + 1 /\ queue' = queue /\ positions' = positions
          /\ belief' = belief /\ next \in Nat /\ Len(SymbolSeq) \in Nat
      BY <1>1, SymbolFacts DEF SkipSymbol, account, BInv, TypeOK
    <2>2. \A k \in next'..Len(SymbolSeq) : k \in next..Len(SymbolSeq) BY <2>1
    <2>3. AheadInv' BY <2>1, <2>2 DEF Followed, AheadInv
    <2> QED BY <1>b, <2>1, <2>3
            DEF Followed, PendInv, Pends, QuietInv, Target, AloneInv, LongInv
  <1>2. CASE FeedSymbol BY <1>b, <1>2, FedSymbol
  <1>3. CASE OnSignal
    <2> DEFINE ev == Head(queue)
    <2>1. Round("SIGNAL") BY <1>3 DEF OnSignal
    <2>2. /\ queue # <<>> /\ ev.type = "SIGNAL" /\ ev \in Events /\ ev = queue[1]
          /\ 1 \in 1..Len(queue)
      BY <2>1, RoundFacts
    <2>3. Approved(ev.symbol, ev.size)
      BY <2>1, <2>2 DEF NoneRejected, Round
    <2>4. ev.size > 0
      BY <2>2 DEF Followed, PendInv, Pends, FullSizeLongOnly
    <2>5. queue' = Append(Tail(queue), Order(ev)) BY <1>3, <2>3, <2>4 DEF OnSignal
    <2>6. UNCHANGED <<next, positions, belief>>
      BY <1>3, <2>1 DEF OnSignal, Round, account
    <2>7. Order(ev) \in Events /\ Order(ev).symbol = ev.symbol /\ Order(ev).size = ev.size
      BY <2>2, OrderEventType DEF Order
    <2>8. Buys(Order(ev)) <=> Buys(ev) BY <2>2 DEF Buys, Order, SideOf
    <2> HIDE DEF ev
    <2>9. Followed' BY <2>2, <2>5, <2>6, <2>7, <2>8, PassedOn DEF ev
    <2> QED BY <1>b, <2>9
  <1>4. CASE OnOrder
    <2> DEFINE ev == Head(queue)
    <2>1. Round("ORDER") BY <1>4 DEF OnOrder
    <2>2. queue # <<>> /\ ev.type = "ORDER" /\ ev \in Events
      BY <2>1, RoundFacts
    <2>5. queue' = Append(Tail(queue), Fill(ev)) BY <1>4 DEF OnOrder
    <2>6. UNCHANGED <<next, positions, belief>>
      BY <1>4, <2>1 DEF OnOrder, Round, account
    <2>7. Fill(ev) \in Events /\ Fill(ev).symbol = ev.symbol
      BY <2>2, FillEventType DEF BInv
    <2>8. Fill(ev).size = ev.size /\ (Buys(Fill(ev)) <=> Buys(ev))
      BY <2>2 DEF Buys, Fill
    <2> HIDE DEF ev
    <2>9. Followed' BY <2>2, <2>5, <2>6, <2>7, <2>8, PassedOn DEF ev
    <2> QED BY <1>b, <2>9
  <1>5. CASE OnFill BY <1>b, <1>5, BookedFill
  <1>6. CASE EndBar
    <2>1. next' = 1 /\ UNCHANGED <<queue, positions, belief>>
      BY <1>6 DEF EndBar, account
    <2>2. Len(queue) = 0
      <3>1. DrainedEachBar'
        <4>1. BInv' => DrainedEachBar' BY DrainedAtLast, PTL
        <4> QED BY <1>b, <4>1
      <3> QED BY <2>1, <3>1 DEF DrainedEachBar
    <2>3. AheadInv' BY <2>1, <2>2 DEF AheadInv
    <2> QED BY <1>b, <2>1, <2>3
            DEF Followed, PendInv, Pends, QuietInv, Target, AloneInv, LongInv
  <1>7. CASE UNCHANGED vars
    <2>1. UNCHANGED <<next, queue, positions, belief>> BY <1>7 DEF vars, account
    <2> QED BY <1>b, <2>1
            DEF Followed, PendInv, Pends, QuietInv, Target, AloneInv, AheadInv, LongInv
  <1> QED BY <1>1, <1>2, <1>3, <1>4, <1>5, <1>6, <1>7 DEF Next

LEMMA FollowedKept ==
  ASSUME RoomToDrain, FullSizeLongOnly
  PROVE  Spec /\ []NoneRejected => [](BInv /\ Followed)
  BY ProtocolInit, FollowedInit, FollowedStep, PTL DEF Spec

(* With full-size long entries and no signal rejected, the book at the end *)
(* of every bar is the one the strategy believes in, for any instruments,  *)
(* prices and costs.                                                       *)
THEOREM BeliefCorrect ==
  ASSUME RoomToDrain, FullSizeLongOnly
  PROVE  Spec /\ []NoneRejected => []BeliefIsBook
  <1>1. ASSUME BInv, Followed PROVE BeliefIsBook
    <2> SUFFICES ASSUME BarBoundary, NEW s \in Symbols
                 PROVE  positions[s].quantity =
                          CASE belief[s] = "LONG" -> DefaultQuantity
                            [] belief[s] = "SHORT" -> -DefaultQuantity
                            [] belief[s] = "NONE" -> 0
      BY DEF BeliefIsBook
    <2>1. Len(queue) = 0 BY DEF BarBoundary
    <2>2. positions[s].quantity = Target(belief[s])
      BY <1>1, <2>1 DEF Followed, QuietInv
    <2>3. belief[s] \in {"NONE", "LONG"}
      BY <1>1 DEF Followed, LongInv, BInv, TypeOK
    <2> QED BY <2>2, <2>3 DEF Target
  <1> QED BY <1>1, FollowedKept, PTL

(* There no fill reduces a position in part, so that the account balances  *)
(* without a condition on the fills.                                       *)
THEOREM FullSizeAccounts ==
  ASSUME RoomToDrain, FullSizeLongOnly
  PROVE  Spec /\ []NoneRejected => []AccountBalances
  <1>1. ASSUME BInv, Followed PROVE FillsKeepBooks
    <2> DEFINE ev == Head(queue)
               p == positions[ev.symbol]
    <2> SUFFICES ASSUME queue # <<>>, ev.type = "FILL"
                 PROVE  ~Reduces(p, ev.side, ev.size)
      BY DEF FillsKeepBooks, KeepsBooks
    <2>1. ev = queue[1] /\ 1 \in 1..Len(queue)
      BY <1>1, TailFacts DEF BInv
    <2>2. Pends(ev) BY <1>1, <2>1 DEF Followed, PendInv
    <2>3. CASE ev.side = "BUY"
      BY <2>2, <2>3 DEF Pends, Buys, Reduces, IsFlat
    <2>4. CASE ev.side # "BUY"
      <3>1. p.quantity = DefaultQuantity /\ ev.size = DefaultQuantity
        BY <2>2, <2>4 DEF Pends, Buys
      <3>2. ~(DefaultQuantity < MagnitudeOf(DefaultQuantity))
        BY BacktestAssumption DEF MagnitudeOf
      <3> QED BY <3>1, <3>2 DEF Reduces
    <2> QED BY <2>3, <2>4
  <1> QED BY <1>1, FollowedKept, AccountsCorrect, PTL
=============================================================================
