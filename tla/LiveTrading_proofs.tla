------------------------- MODULE LiveTrading_proofs -------------------------
(***************************************************************************)
(* What holds of paper trading for any instruments, any feed and any       *)
(* number of sessions: an order's fills stay within its quantity, what was *)
(* filled or rejected stays so, one event loop runs at a time, and the     *)
(* portfolio holds what the orders traded.                                 *)
(***************************************************************************)
EXTENDS LiveTrading, SumTheorems, FiniteSetTheorems, TLAPS

(* FilledAsOrdered, of one order.                                          *)
Sound(order) == /\ order.filled \in 0..OrderQty
                /\ order.state = "FILLED" <=> order.filled = OrderQty
                /\ order.state = "PARTIALLY_FILLED" => order.filled > 0

(* What a sweep may do to an order.                                        *)
Progress(before, after) ==
  /\ before.state \in {"FILLED", "REJECTED"} => after = before
  /\ after.filled >= before.filled

(* Only the event task of the session that runs can be asleep: stop()      *)
(* cancels it, and start() comes only after a stop().                      *)
LoopInv == \A k \in Sessions : loop[k] = "sleeping" => running /\ k = session

LInv == TypeOK /\ FilledAsOrdered /\ LoopInv

----------------------------------------------------------------------------
(* Appending, joining, and taking the head of, a sequence.                 *)
LEMMA SequenceFacts ==
  ASSUME NEW S, NEW s \in Seq(S)
  PROVE  /\ Len(s) \in Nat /\ \A i \in 1..Len(s) : s[i] \in S
         /\ \A t \in Seq(S) : s \o t \in Seq(S)
         /\ \A e \in S : /\ Append(s, e) \in Seq(S) /\ Len(Append(s, e)) = Len(s) + 1
                         /\ \A i \in 1..Len(s) : Append(s, e)[i] = s[i]
                         /\ Append(s, e)[Len(s) + 1] = e
         /\ s # <<>> => Head(s) \in S /\ Tail(s) \in Seq(S)
  OBVIOUS

(* A fill of an open order, of any positive cap, leaves it sound.          *)
LEMMA FillFacts ==
  ASSUME NEW o \in LiveOrder, Sound(o), IsOpen(o), NEW cap \in Nat, cap > 0
  PROVE  /\ FillSize(o, cap) \in Nat \ {0}
         /\ WithFill(o, FillSize(o, cap)) \in LiveOrder
         /\ Sound(WithFill(o, FillSize(o, cap)))
         /\ Progress(o, WithFill(o, FillSize(o, cap)))
  <1> DEFINE size == FillSize(o, cap)
  <1>1. /\ o.filled \in Nat /\ o.filled < OrderQty /\ OrderQty \in Nat
        /\ o.state \in {"SUBMITTED", "PARTIALLY_FILLED"}
    BY OrderAssumption DEF Sound, IsOpen, LiveOrder, OrderStates
  <1>2. size \in Nat \ {0} /\ o.filled + size \in 1..OrderQty
    BY <1>1 DEF FillSize
  <1>3. /\ WithFill(o, size) \in LiveOrder
        /\ WithFill(o, size).filled = o.filled + size
        /\ WithFill(o, size).state = IF o.filled + size >= OrderQty
                                     THEN "FILLED" ELSE "PARTIALLY_FILLED"
    <2> DEFINE total == o.filled + size
               state == IF total >= OrderQty THEN "FILLED" ELSE "PARTIALLY_FILLED"
    <2>1. WithFill(o, size) = [o EXCEPT !.filled = total, !.state = state]
      BY DEF WithFill, LiveOrder
    <2>2. total \in Nat /\ state \in OrderStates
      BY <1>2 DEF OrderStates
    <2> HIDE DEF total, state
    <2>3. /\ WithFill(o, size) \in LiveOrder
          /\ WithFill(o, size).filled = total /\ WithFill(o, size).state = state
      BY <2>1, <2>2 DEF LiveOrder
    <2> QED BY <2>3 DEF total, state
  <1> HIDE DEF size
  <1> QED BY <1>1, <1>2, <1>3 DEF Sound, Progress, size

(* A sweep keeps orders sound, and those that are terminal as they are.    *)
LEMMA SweptFacts ==
  ASSUME NEW pool \in Seq(LiveOrder), NEW limits \in [Symbols -> Nat], NEW rejected,
         \A i \in 1..Len(pool) : Sound(pool[i])
  PROVE  LET swept == Swept(pool, limits, rejected)
         IN  /\ swept \in Seq(LiveOrder) /\ Len(swept) = Len(pool)
             /\ \A i \in 1..Len(pool) : Sound(swept[i]) /\ Progress(pool[i], swept[i])
  <1> DEFINE swept == Swept(pool, limits, rejected)
  <1>1. ASSUME NEW i \in 1..Len(pool)
        PROVE  swept[i] \in LiveOrder /\ Sound(swept[i]) /\ Progress(pool[i], swept[i])
    <2>1. pool[i] \in LiveOrder /\ Sound(pool[i])
      BY <1>1
    <2>2. pool[i].filled \in Nat
      BY <2>1 DEF LiveOrder
    <2>3. CASE i \notin Touched(pool, limits)
      <3>1. swept[i] = pool[i] BY <1>1, <2>3 DEF Swept
      <3> QED BY <2>1, <2>2, <3>1 DEF Progress
    <2>4. CASE i \in Touched(pool, limits) /\ i \in rejected
      <3>1. swept[i] = [pool[i] EXCEPT !.state = "REJECTED"]
        BY <1>1, <2>4 DEF Swept
      <3>2. pool[i].state \notin {"FILLED", "REJECTED"}
        BY <2>4 DEF Touched, IsOpen
      <3> QED BY <2>1, <2>2, <3>1, <3>2
              DEF Sound, Progress, LiveOrder, OrderStates
    <2>5. CASE i \in Touched(pool, limits) /\ i \notin rejected
      <3> DEFINE cap == limits[pool[i].symbol]
      <3>1. swept[i] = WithFill(pool[i], FillSize(pool[i], cap))
        BY <1>1, <2>5 DEF Swept
      <3>2. cap \in Nat /\ cap > 0 /\ IsOpen(pool[i])
        BY <2>1, <2>5 DEF Touched, LiveOrder
      <3> HIDE DEF cap
      <3> QED BY <2>1, <3>1, <3>2, FillFacts
    <2> QED BY <2>3, <2>4, <2>5
  <1>2. /\ DOMAIN swept = 1..Len(pool) /\ Len(pool) \in Nat
        /\ swept = [i \in 1..Len(pool) |-> swept[i]]
    BY DEF Swept
  <1> HIDE DEF swept
  <1>3. swept \in [1..Len(pool) -> LiveOrder]
    BY <1>1, <1>2
  <1>4. swept \in Seq(LiveOrder) /\ Len(swept) = Len(pool)
    BY <1>2, <1>3
  <1> QED BY <1>1, <1>4 DEF swept

(* The fill events of a sweep are events.                                  *)
LEMMA FillsFacts ==
  ASSUME NEW pool \in Seq(LiveOrder), NEW limits \in [Symbols -> Nat], NEW rejected,
         \A i \in 1..Len(pool) : Sound(pool[i]),
         NEW fills \in Fills(pool, limits, rejected)
  PROVE  fills \in Seq(Events)
  <1> DEFINE T == Touched(pool, limits) \ rejected
             Event(i) == Fill(pool[i], FillSize(pool[i], limits[pool[i].symbol]))
  <1>1. Cardinality(T) \in Nat
    <2>1. IsFiniteSet(1..Len(pool)) BY FS_Interval
    <2>2. T \in SUBSET (1..Len(pool)) BY DEF Touched
    <2> QED BY <2>1, <2>2, FS_Subset, FS_CardinalityType
  <1>2. \A i \in T : Event(i) \in Events
    <2> SUFFICES ASSUME NEW i \in T PROVE Event(i) \in Events
      OBVIOUS
    <2> DEFINE cap == limits[pool[i].symbol]
    <2>1. i \in 1..Len(pool) /\ IsOpen(pool[i]) /\ cap > 0
      BY DEF Touched
    <2>2. pool[i] \in LiveOrder /\ Sound(pool[i])
      BY <2>1
    <2>4. cap \in Nat
      BY <2>2 DEF LiveOrder
    <2>3. FillSize(pool[i], cap) \in Nat \ {0}
      BY <2>1, <2>2, <2>4, FillFacts
    <2> QED BY <2>2, <2>3 DEF Fill, Events, LiveOrder
  <1>3. PICK f \in Ascending(T) : fills = [k \in DOMAIN f |-> Event(f[k])]
    BY DEF Fills
  <1> HIDE DEF T, Event
  <1>4. f \in [1..Cardinality(T) -> T]
    BY <1>3 DEF Ascending
  <1>5. PICK n \in Nat : n = Cardinality(T) BY <1>1
  <1>6. DOMAIN f = 1..n /\ \A k \in 1..n : f[k] \in T BY <1>4, <1>5
  <1>7. \A k \in 1..n : Event(f[k]) \in Events BY <1>2, <1>6
  <1>8. fills = [k \in 1..n |-> Event(f[k])] BY <1>3, <1>6
  <1>9. fills \in [1..n -> Events] BY <1>7, <1>8
  <1> QED BY <1>5, <1>9

(* An instant's bars are events.                                           *)
LEMMA InstantFacts ==
  ASSUME NEW n \in 1..Len(Timeline)
  PROVE  MarketEvents(n) \in Seq(Events)
  <1>1. Timeline[n] \in Seq(Bars)
    BY LiveAssumption
  <1>2. \A i \in 1..Len(Timeline[n]) : Timeline[n][i] \in Bars
    BY <1>1
  <1> QED BY <1>1, <1>2 DEF MarketEvents, Events, Bars

----------------------------------------------------------------------------
(* What a step does to the orders: none disappears, and each makes         *)
(* progress or stays.                                                      *)
Forward == /\ Len(orders') >= Len(orders)
           /\ \A i \in 1..Len(orders) : Progress(orders[i], orders'[i])

LEMMA OrdersStay ==
  ASSUME TypeOK, UNCHANGED orders
  PROVE  Forward
  <1>1. \A i \in 1..Len(orders) : orders[i] \in LiveOrder /\ Len(orders) \in Nat
    BY DEF TypeOK
  <1> QED BY <1>1 DEF Forward, Progress, LiveOrder

LEMMA InitCorrect == Init => LInv
  <1> SUFFICES ASSUME Init PROVE LInv
    OBVIOUS
  <1>1. TypeOK
    <2>1. Len(Timeline) \in Nat BY LiveAssumption
    <2>2. <<>> \in Seq(Events) /\ <<>> \in Seq(LiveOrder)
      OBVIOUS
    <2>3. 0 \in 0..Len(Timeline) /\ 0 \in 0..MaxSessions
      BY <2>1, LiveAssumption
    <2>4. running \in BOOLEAN /\ session \in 0..MaxSessions /\ turn \in 0..MaxSessions
      BY <2>3 DEF Init
    <2>5. /\ feed \in [Sessions -> {"off", "sleeping", "ended"}]
          /\ streamed \in [Sessions -> 0..Len(Timeline)]
          /\ loop \in [Sessions -> {"off", "sleeping", "cancelled", "ended"}]
      BY <2>3 DEF Init
    <2>6. queue \in Seq(Events) /\ orders \in Seq(LiveOrder)
      BY <2>2 DEF Init
    <2>7. /\ belief \in [Symbols -> {"NONE", "LONG", "SHORT"}]
          /\ caps \in [Symbols -> Nat] /\ held \in [Symbols -> Int]
          /\ stopped \in SUBSET Sessions
      BY DEF Init
    <2> QED BY <2>4, <2>5, <2>6, <2>7 DEF TypeOK
  <1> QED BY <1>1 DEF Init, LInv, FilledAsOrdered, LoopInv

(* The steps of start(), stop() and the tasks leave the orders alone.      *)
LEMMA TaskStep ==
  ASSUME LInv,
         \/ Start \/ Stop \/ Sleep
         \/ \E k \in Sessions :
              FeedInstant(k) \/ FeedEnds(k) \/ FeedCancelled(k) \/ Wake(k) \/ Cancelled(k)
  PROVE  LInv' /\ UNCHANGED orders
  <1> USE DEF LInv, FilledAsOrdered, LoopInv, tasks, book
  <1>1. MaxSessions \in Nat /\ Len(Timeline) \in Nat \ {0} /\ Sessions = 1..MaxSessions
    BY LiveAssumption DEF Sessions
  <1>2. ASSUME Stopping, UNCHANGED <<session, streamed, turn, queue, book>>,
               feed' \in [Sessions -> {"off", "sleeping", "ended"}]
        PROVE  LInv' /\ UNCHANGED orders
    <2>1. /\ session \in 0..MaxSessions /\ stopped \in SUBSET Sessions
          /\ loop \in [Sessions -> {"off", "sleeping", "cancelled", "ended"}]
      BY DEF TypeOK
    <2>2. stopped' \in SUBSET Sessions
      BY <1>1, <1>2, <2>1 DEF Stopping
    <2>3. /\ loop' \in [Sessions -> {"off", "sleeping", "cancelled", "ended"}]
          /\ \A k \in Sessions : loop'[k] # "sleeping"
      BY <1>2, <2>1 DEF Stopping
    <2>4. TypeOK'
      BY <1>2, <2>2, <2>3 DEF TypeOK, Stopping
    <2> QED BY <1>2, <2>3, <2>4
  <1>3. CASE Start
    <2>1. MarketEvents(1) \in Seq(Events)
      BY <1>1, InstantFacts
    <2>2. queue' \in Seq(Events)
      BY <1>3, <2>1 DEF Start, TypeOK
    <2>3. session + 1 \in Sessions /\ 1 \in 0..Len(Timeline)
      BY <1>1, <1>3 DEF Start, TypeOK
    <2>4. TypeOK'
      BY <1>3, <1>1, <2>2, <2>3 DEF Start, TypeOK
    <2>5. LoopInv'
      BY <1>3, <2>3 DEF Start, TypeOK
    <2> QED BY <1>3, <2>4, <2>5 DEF Start
  <1>4. CASE Stop
    <2>1. feed' \in [Sessions -> {"off", "sleeping", "ended"}]
      BY <1>4 DEF Stop, TypeOK
    <2>2. Stopping /\ UNCHANGED <<session, streamed, turn, queue, book>>
      BY <1>4 DEF Stop
    <2> QED BY <1>2, <2>1, <2>2
  <1>5. CASE Sleep
    <2>1. UNCHANGED <<tasks, queue, book>> /\ turn' \in 0..MaxSessions
      BY <1>5, <1>1 DEF Sleep
    <2>2. TypeOK'
      BY <2>1 DEF TypeOK
    <2> QED BY <2>1, <2>2
  <1>6. ASSUME NEW k \in Sessions, FeedInstant(k) PROVE LInv' /\ UNCHANGED orders
    <2>1. streamed[k] + 1 \in 1..Len(Timeline)
      BY <1>1, <1>6 DEF FeedInstant, TypeOK
    <2>2. MarketEvents(streamed[k] + 1) \in Seq(Events)
      BY <2>1, InstantFacts
    <2>3. queue' \in Seq(Events)
      BY <1>6, <2>2 DEF FeedInstant, TypeOK
    <2>4. TypeOK'
      BY <1>6, <1>1, <2>1, <2>3 DEF FeedInstant, TypeOK
    <2> QED BY <1>6, <2>4 DEF FeedInstant
  <1>7. ASSUME NEW k \in Sessions, EndFeed(k) PROVE LInv' /\ UNCHANGED orders
    <2>1. feed' \in [Sessions -> {"off", "sleeping", "ended"}]
      BY <1>7 DEF EndFeed, TypeOK
    <2> QED BY <1>2, <1>7, <2>1 DEF EndFeed
  <1>8. ASSUME NEW k \in Sessions, Wake(k) PROVE LInv' /\ UNCHANGED orders
    <2>1. TypeOK'
      BY <1>8, <1>1 DEF Wake, TypeOK
    <2>2. LoopInv'
      BY <1>8 DEF Wake, TypeOK
    <2> QED BY <1>8, <2>1, <2>2 DEF Wake
  <1>9. ASSUME NEW k \in Sessions, Cancelled(k) PROVE LInv' /\ UNCHANGED orders
    <2>1. TypeOK'
      BY <1>9, <1>1 DEF Cancelled, TypeOK
    <2>2. LoopInv'
      BY <1>9 DEF Cancelled, TypeOK
    <2> QED BY <1>9, <2>1, <2>2 DEF Cancelled
  <1> QED BY <1>3, <1>4, <1>5, <1>6, <1>7, <1>8, <1>9 DEF FeedEnds, FeedCancelled

(* A handler takes the event at the head and leaves the tasks alone: LInv  *)
(* is kept if what it writes has its type and the orders are sound.        *)
LEMMA HandlerKeeps ==
  ASSUME LInv, UNCHANGED <<tasks, turn>>, queue' \in Seq(Events),
         belief' \in [Symbols -> {"NONE", "LONG", "SHORT"}],
         caps' \in [Symbols -> Nat], held' \in [Symbols -> Int],
         orders' \in Seq(LiveOrder), \A i \in 1..Len(orders') : Sound(orders'[i])
  PROVE  LInv'
  <1>1. TypeOK'
    BY DEF LInv, TypeOK, tasks
  <1>2. FilledAsOrdered'
    BY DEF FilledAsOrdered, Sound
  <1>3. LoopInv'
    BY DEF LInv, LoopInv, tasks
  <1> QED BY <1>1, <1>2, <1>3 DEF LInv

(* Every event's handler keeps LInv and moves the orders forward.          *)
LEMMA HandlerStep ==
  ASSUME LInv, HandleEvent
  PROVE  LInv' /\ Forward
  <1> DEFINE ev == Head(queue)
  <1>1. /\ ev \in Events /\ Tail(queue) \in Seq(Events)
        /\ UNCHANGED <<tasks, turn>>
    <2>1. queue \in Seq(Events) /\ queue # <<>> /\ UNCHANGED <<tasks, turn>>
      BY DEF LInv, TypeOK, HandleEvent, Handle, OnMarket, OnMarketRaises, OnSignal,
             OnOrder, OnFill
    <2> QED BY <2>1, SequenceFacts
  <1>2. /\ belief \in [Symbols -> {"NONE", "LONG", "SHORT"}]
        /\ caps \in [Symbols -> Nat] /\ held \in [Symbols -> Int]
        /\ orders \in Seq(LiveOrder)
        /\ \A i \in 1..Len(orders) : Sound(orders[i])
    BY DEF LInv, TypeOK, FilledAsOrdered, Sound
  <1>3. CASE OnMarket
    <2>1. ev.type = "MARKET" BY <1>3 DEF OnMarket, Handle
    <2>2. ev.symbol \in Symbols /\ ev.cap \in Nat BY <1>1, <2>1 DEF Events
    <2> DEFINE known == [caps EXCEPT ![ev.symbol] = ev.cap]
    <2>3. known \in [Symbols -> Nat] BY <1>2, <2>2
    <2>11. PICK out \in Emitted(ev.symbol) :
             \E rejected \in SUBSET Touched(orders, known) :
               /\ caps' = known
               /\ orders' = Swept(orders, known, rejected)
               /\ \E fills \in Fills(orders, known, rejected) :
                    queue' = Tail(queue) \o out.events \o fills
               /\ belief' = [belief EXCEPT ![ev.symbol] = out.belief]
               /\ UNCHANGED held
      BY <1>3 DEF OnMarket
    <2>12. PICK rejected \in SUBSET Touched(orders, known) :
             /\ caps' = known
             /\ orders' = Swept(orders, known, rejected)
             /\ \E fills \in Fills(orders, known, rejected) :
                  queue' = Tail(queue) \o out.events \o fills
             /\ belief' = [belief EXCEPT ![ev.symbol] = out.belief]
             /\ UNCHANGED held
      BY <2>11
    <2>4. PICK fills \in Fills(orders, known, rejected) :
            queue' = Tail(queue) \o out.events \o fills
      BY <2>12
    <2>5. out.events \in Seq(Events) /\ out.belief \in {"NONE", "LONG", "SHORT"}
      <3>1. CASE out = [events |-> <<>>, belief |-> belief[ev.symbol]]
        BY <1>2, <2>2, <3>1
      <3>2. CASE \E sig \in Signals(belief[ev.symbol]) :
                   out = [events |-> <<[type |-> "SIGNAL", symbol |-> ev.symbol,
                                        direction |-> sig[1]]>>,
                          belief |-> sig[2]]
        <4>1. PICK sig \in Signals(belief[ev.symbol]) :
                out = [events |-> <<[type |-> "SIGNAL", symbol |-> ev.symbol,
                                     direction |-> sig[1]]>>,
                       belief |-> sig[2]]
          BY <3>2
        <4>2. /\ sig[1] \in {"LONG", "SHORT", "EXIT"}
              /\ sig[2] \in {"NONE", "LONG", "SHORT"}
          BY DEF Signals
        <4>3. [type |-> "SIGNAL", symbol |-> ev.symbol, direction |-> sig[1]] \in Events
          BY <2>2, <4>2 DEF Events
        <4> QED BY <4>1, <4>2, <4>3
      <3> QED BY <3>1, <3>2 DEF Emitted
    <2> HIDE DEF known
    <2>6. fills \in Seq(Events) BY <1>2, <2>3, FillsFacts
    <2>7. queue' \in Seq(Events)
      <3>1. Tail(queue) \o out.events \in Seq(Events) BY <1>1, <2>5
      <3> QED BY <2>4, <2>6, <3>1
    <2>8. belief' \in [Symbols -> {"NONE", "LONG", "SHORT"}]
      BY <1>2, <2>12, <2>5
    <2>9. /\ orders' \in Seq(LiveOrder) /\ Len(orders') = Len(orders)
          /\ \A i \in 1..Len(orders) :
               Sound(orders'[i]) /\ Progress(orders[i], orders'[i])
      BY <1>2, <2>3, <2>12, SweptFacts
    <2>10. LInv'
      BY <1>1, <1>2, <2>3, <2>12, <2>7, <2>8, <2>9, HandlerKeeps
    <2> QED BY <1>2, <2>9, <2>10 DEF Forward
  <1>4. CASE OnMarketRaises
    <2>1. UNCHANGED <<belief, caps, orders, held>> /\ queue' = Tail(queue)
      BY <1>4 DEF OnMarketRaises, book
    <2>2. LInv' BY <1>1, <1>2, <2>1, HandlerKeeps
    <2> QED BY <2>1, <2>2, OrdersStay DEF LInv
  <1>5. CASE OnSignal
    <2>1. ev.type = "SIGNAL" BY <1>5 DEF OnSignal, Handle
    <2>2. ev.symbol \in Symbols BY <1>1, <2>1 DEF Events
    <2> DEFINE order == [type |-> "ORDER", symbol |-> ev.symbol,
                         side |-> SideOf(ev.direction)]
    <2>3. order \in Events BY <2>2 DEF Events, SideOf, Sides
    <2>4. UNCHANGED <<belief, caps, orders, held>> /\ queue' = Append(Tail(queue), order)
      BY <1>5 DEF OnSignal, book
    <2> HIDE DEF order
    <2>5. queue' \in Seq(Events) BY <1>1, <2>3, <2>4, SequenceFacts
    <2>6. LInv' BY <1>1, <1>2, <2>4, <2>5, HandlerKeeps
    <2> QED BY <2>4, <2>6, OrdersStay DEF LInv
  <1>6. CASE OnOrder
    <2>1. ev.type = "ORDER" BY <1>6 DEF OnOrder, Handle
    <2>2. ev.symbol \in Symbols /\ ev.side \in Sides BY <1>1, <2>1 DEF Events
    <2> DEFINE new == Submitted(ev.symbol, ev.side)
               all == Append(orders, new)
    <2>3. new \in LiveOrder /\ Sound(new)
      BY <2>2, OrderAssumption DEF Submitted, LiveOrder, OrderStates, Sound
    <2>11. PICK rejected \in SUBSET Touched(all, caps) :
             /\ orders' = Swept(all, caps, rejected)
             /\ \E fills \in Fills(all, caps, rejected) : queue' = Tail(queue) \o fills
      BY <1>6 DEF OnOrder
    <2>12. UNCHANGED <<belief, caps, held>> BY <1>6 DEF OnOrder
    <2>4. PICK fills \in Fills(all, caps, rejected) : queue' = Tail(queue) \o fills
      BY <2>11
    <2> HIDE DEF new
    <2>5. /\ all \in Seq(LiveOrder) /\ Len(all) = Len(orders) + 1 /\ Len(orders) \in Nat
          /\ \A i \in 1..Len(orders) : all[i] = orders[i]
          /\ all[Len(orders) + 1] = new
      BY <1>2, <2>3, SequenceFacts
    <2> HIDE DEF all
    <2>6. \A i \in 1..Len(all) : Sound(all[i])
      <3> SUFFICES ASSUME NEW i \in 1..Len(all) PROVE Sound(all[i])
        OBVIOUS
      <3>1. i \in 1..Len(orders) \/ i = Len(orders) + 1
        BY <2>5
      <3>2. CASE i \in 1..Len(orders)
        <4>1. all[i] = orders[i] /\ Sound(orders[i]) BY <1>2, <2>5, <3>2
        <4> QED BY <4>1
      <3>3. CASE i = Len(orders) + 1
        <4>1. all[i] = new BY <2>5, <3>3
        <4> QED BY <2>3, <4>1
      <3> QED BY <3>1, <3>2, <3>3
    <2>7. fills \in Seq(Events) BY <1>2, <2>5, <2>6, FillsFacts
    <2>8. queue' \in Seq(Events) BY <1>1, <2>4, <2>7
    <2>9. /\ orders' \in Seq(LiveOrder) /\ Len(orders') = Len(all)
          /\ \A i \in 1..Len(all) : Sound(orders'[i]) /\ Progress(all[i], orders'[i])
      BY <1>2, <2>11, <2>5, <2>6, SweptFacts
    <2>10. LInv'
      BY <1>1, <1>2, <2>12, <2>8, <2>9, HandlerKeeps
    <2> QED BY <2>5, <2>9, <2>10 DEF Forward
  <1>7. CASE OnFill
    <2>1. ev.type = "FILL" BY <1>7 DEF OnFill, Handle
    <2>2. ev.symbol \in Symbols /\ ev.qty \in Nat BY <1>1, <2>1 DEF Events
    <2>3. Signed(ev.side, ev.qty) \in Int BY <2>2 DEF Signed
    <2>4. /\ UNCHANGED <<belief, caps, orders>> /\ queue' = Tail(queue)
          /\ held' = [held EXCEPT ![ev.symbol] = @ + Signed(ev.side, ev.qty)]
      BY <1>7 DEF OnFill
    <2>5. held' \in [Symbols -> Int] BY <1>2, <2>2, <2>3, <2>4
    <2>6. LInv' BY <1>1, <1>2, <2>4, <2>5, HandlerKeeps
    <2> QED BY <2>4, <2>6, OrdersStay DEF LInv
  <1> QED BY <1>3, <1>4, <1>5, <1>6, <1>7 DEF HandleEvent

LEMMA LInvStep ==
  ASSUME LInv, [Next]_vars
  PROVE  LInv' /\ Forward
  <1>1. CASE HandleEvent
    BY <1>1, HandlerStep
  <1>2. CASE \/ Start \/ Stop \/ Sleep
             \/ \E k \in Sessions : \/ FeedInstant(k) \/ FeedEnds(k) \/ FeedCancelled(k)
                                    \/ Wake(k) \/ Cancelled(k)
    BY <1>2, TaskStep, OrdersStay DEF LInv
  <1>3. CASE UNCHANGED vars
    <2>1. LInv'
      BY <1>3 DEF vars, tasks, book, LInv, TypeOK, FilledAsOrdered, LoopInv
    <2>2. UNCHANGED orders
      BY <1>3 DEF vars, book
    <2> QED BY <2>1, <2>2, OrdersStay DEF LInv
  <1> QED BY <1>1, <1>2, <1>3 DEF Next

LEMMA LInvInvariant == Spec => []LInv
  <1>1. LInv /\ [Next]_vars => LInv'
    BY LInvStep
  <1> QED BY <1>1, InitCorrect, PTL DEF Spec

----------------------------------------------------------------------------
(* Every variable of the paper-trading engine keeps its type.              *)
THEOREM TypeCorrect == Spec => []TypeOK
  <1>1. LInv => TypeOK
    BY DEF LInv
  <1> QED BY <1>1, LInvInvariant, PTL

(* No order is filled beyond its quantity, and its state says how much of  *)
(* it was filled, for any volumes, rejections, and number of sweeps.       *)
THEOREM OrdersCorrect == Spec => []FilledAsOrdered
  <1>1. LInv => FilledAsOrdered
    BY DEF LInv
  <1> QED BY <1>1, LInvInvariant, PTL

(* No step changes an order that was filled or rejected, or takes back     *)
(* what an order traded.                                                   *)
THEOREM TerminalCorrect == Spec => TerminalStays
  <1>1. LInv /\ [Next]_vars =>
          [\A i \in 1..Len(orders) :
             /\ orders[i].state \in {"FILLED", "REJECTED"} => orders'[i] = orders[i]
             /\ orders'[i].filled >= orders[i].filled]_vars
    <2>1. ASSUME LInv, [Next]_vars PROVE Forward
      BY <2>1, LInvStep
    <2> QED BY <2>1 DEF Forward, Progress
  <1> QED BY <1>1, LInvInvariant, PTL DEF Spec, TerminalStays

(* However start() and stop() alternate, no two _process_events tasks can  *)
(* go on side by side.                                                     *)
THEOREM OneLoopCorrect == Spec => []OneEventLoop
  <1>1. LInv => OneEventLoop
    <2> SUFFICES ASSUME LInv PROVE OneEventLoop
      OBVIOUS
    <2> DEFINE asleep == {k \in Sessions : loop[k] = "sleeping"}
    <2>1. asleep \subseteq {session}
      BY DEF LInv, LoopInv
    <2>2. IsFiniteSet({session}) /\ Cardinality({session}) = 1
      BY FS_Singleton
    <2>3. IsFiniteSet(asleep) /\ Cardinality(asleep) <= Cardinality({session})
      BY <2>1, <2>2, FS_Subset
    <2> QED BY <2>2, <2>3 DEF OneEventLoop
  <1> QED BY <1>1, LInvInvariant, PTL

----------------------------------------------------------------------------
(* What an event on the queue will change of the quantity of s when it is  *)
(* booked, and what an order changed of it.                                *)
Due(e, s) == IF e.type = "FILL" /\ e.symbol = s THEN Signed(e.side, e.qty) ELSE 0
Traded(o, s) == IF o.symbol = s THEN Signed(o.side, o.filled) ELSE 0

Dues(q, s) == [i \in 1..Len(q) |-> Due(q[i], s)]
Trades(os, s) == [i \in 1..Len(os) |-> Traded(os[i], s)]

LEMMA DueFacts ==
  ASSUME NEW q \in Seq(Events), NEW s
  PROVE  Dues(q, s) \in Amounts(1..Len(q)) /\ SumFunction(Dues(q, s)) \in Int
         /\ Len(q) \in Nat
  <1>1. ASSUME NEW e \in Events PROVE Due(e, s) \in Int
    BY DEF Due, Events, Signed
  <1>2. \A i \in 1..Len(q) : q[i] \in Events OBVIOUS
  <1>3. Dues(q, s) \in Amounts(1..Len(q))
    BY <1>1, <1>2 DEF Dues, Amounts
  <1>4. Len(q) \in Nat OBVIOUS
  <1>5. IsFiniteSet(1..Len(q)) BY <1>4, FS_Interval
  <1> QED BY <1>3, <1>4, <1>5, SumType

LEMMA TradedFacts ==
  ASSUME NEW os \in Seq(LiveOrder), NEW s
  PROVE  Trades(os, s) \in Amounts(1..Len(os)) /\ SumFunction(Trades(os, s)) \in Int
         /\ Len(os) \in Nat
  <1>1. ASSUME NEW o \in LiveOrder PROVE Traded(o, s) \in Int
    BY DEF Traded, LiveOrder, Signed
  <1>2. \A i \in 1..Len(os) : os[i] \in LiveOrder OBVIOUS
  <1>3. Trades(os, s) \in Amounts(1..Len(os))
    BY <1>1, <1>2 DEF Trades, Amounts
  <1>4. Len(os) \in Nat OBVIOUS
  <1>5. IsFiniteSet(1..Len(os)) BY <1>4, FS_Interval
  <1> QED BY <1>3, <1>4, <1>5, SumType

LEMMA DuesConcat ==
  ASSUME NEW p \in Seq(Events), NEW q \in Seq(Events), NEW s
  PROVE  SumFunction(Dues(p \o q, s)) = SumFunction(Dues(p, s)) + SumFunction(Dues(q, s))
  <1> DEFINE m == Len(p)
             n == Len(q)
             k == Dues(p \o q, s)
             f == Dues(p, s)
             h == Dues(q, s)
  <1>1. /\ p \o q \in Seq(Events) /\ Len(p \o q) = m + n /\ m \in Nat /\ n \in Nat
        /\ \A i \in 1..m : (p \o q)[i] = p[i]
        /\ \A i \in 1..n : (p \o q)[m + i] = q[i]
    OBVIOUS
  <1>2. k \in Amounts(1..(m + n)) /\ f \in Amounts(1..m) /\ h \in Amounts(1..n)
    BY <1>1, DueFacts
  <1>3. \A i \in 1..m : i \in 1..(m + n) BY <1>1
  <1>4. \A i \in 1..n : m + i \in 1..(m + n) BY <1>1
  <1>5. \A i \in 1..m : k[i] = f[i] BY <1>1, <1>3 DEF Dues
  <1>6. \A i \in 1..n : k[m + i] = h[i] BY <1>1, <1>4 DEF Dues
  <1> HIDE DEF m, n, k, f, h
  <1>7. SumFunction(k) = SumFunction(f) + SumFunction(h)
    BY <1>1, <1>2, <1>5, <1>6, SumConcat
  <1> QED BY <1>7 DEF k, f, h

LEMMA DuesTail ==
  ASSUME NEW q \in Seq(Events), q # <<>>, NEW s
  PROVE  SumFunction(Dues(Tail(q), s)) = SumFunction(Dues(q, s)) - Due(Head(q), s)
  <1> DEFINE n == Len(q)
             f == Dues(q, s)
             h == Dues(Tail(q), s)
  <1>1. /\ Tail(q) \in Seq(Events) /\ Len(Tail(q)) = n - 1 /\ n \in Nat \ {0}
        /\ \A i \in 1..(n - 1) : Tail(q)[i] = q[i + 1]
        /\ Head(q) = q[1]
    OBVIOUS
  <1>2. f \in Amounts(1..n) /\ h \in Amounts(1..(n - 1))
    BY <1>1, DueFacts
  <1>3. \A i \in 1..(n - 1) : i + 1 \in 1..n BY <1>1
  <1>4. \A i \in 1..(n - 1) : h[i] = f[i + 1] BY <1>1, <1>3 DEF Dues
  <1>5. f[1] = Due(Head(q), s) BY <1>1 DEF Dues
  <1> HIDE DEF n, f, h
  <1>6. SumFunction(h) = SumFunction(f) - f[1]
    BY <1>1, <1>2, <1>4, SumTail
  <1> QED BY <1>5, <1>6 DEF f, h

LEMMA DuesOfNone ==
  ASSUME NEW q \in Seq(Events), NEW s, \A i \in 1..Len(q) : q[i].type # "FILL"
  PROVE  SumFunction(Dues(q, s)) = 0
  <1> DEFINE f == Dues(q, s)
             S == 1..Len(q)
  <1>1. f \in Amounts(S) /\ Len(q) \in Nat BY DueFacts
  <1>2. IsFiniteSet(S) BY <1>1, FS_Interval
  <1>3. \A x \in S \ {} : f[x] = 0 BY DEF Dues, Due
  <1> HIDE DEF f, S
  <1>4. SumFunction(f) = SumFunction(Restrict(f, {})) /\ SumFunction(Restrict(f, {})) = 0
    BY <1>1, <1>2, <1>3, SumSupport, SumOfNone
  <1> QED BY <1>4 DEF f

LEMMA AscendingFacts ==
  ASSUME NEW T \in SUBSET Nat, IsFiniteSet(T), NEW f \in Ascending(T)
  PROVE  f \in Bijection(1..Cardinality(T), T)
  <1> DEFINE n == Cardinality(T)
  <1>1. n \in Nat /\ IsFiniteSet(1..n) /\ Cardinality(1..n) = n
    BY FS_CardinalityType, FS_Interval
  <1>2. f \in [1..n -> T] /\ \A j, k \in 1..n : j < k => f[j] < f[k]
    BY DEF Ascending
  <1> HIDE DEF n
  <1>3. ASSUME NEW j \in 1..n, NEW k \in 1..n, f[j] = f[k] PROVE j = k
    <2>1. f[j] \in Nat /\ f[k] \in Nat BY <1>2
    <2>2. ~(j < k) /\ ~(k < j) BY <1>2, <1>3, <2>1
    <2> QED BY <1>1, <2>2
  <1>4. f \in Injection(1..n, T) BY <1>2, <1>3 DEF Injection, IsInjective
  <1>5. f \in Surjection(1..n, T) BY <1>1, <1>4, FS_Injection DEF n
  <1> QED BY <1>4, <1>5 DEF Bijection, n

(* A sweep trades what its fill events say.                                *)
LEMMA SweepTrades ==
  ASSUME NEW pool \in Seq(LiveOrder), NEW limits \in [Symbols -> Nat], NEW rejected,
         \A i \in 1..Len(pool) : Sound(pool[i]),
         NEW fills \in Fills(pool, limits, rejected), NEW s
  PROVE  SumFunction(Trades(Swept(pool, limits, rejected), s))
           = SumFunction(Trades(pool, s)) + SumFunction(Dues(fills, s))
  <1> DEFINE n == Len(pool)
             T == Touched(pool, limits) \ rejected
             Event(i) == Fill(pool[i], FillSize(pool[i], limits[pool[i].symbol]))
             d == [i \in 1..n |-> IF i \in T THEN Due(Event(i), s) ELSE 0]
             swept == Swept(pool, limits, rejected)
  <1>1. /\ n \in Nat /\ IsFiniteSet(1..n) /\ T \in SUBSET (1..n) /\ IsFiniteSet(T)
        /\ T \in SUBSET Nat
    <2>1. n \in Nat /\ IsFiniteSet(1..n) BY FS_Interval
    <2>2. T \in SUBSET (1..n) BY DEF Touched
    <2> QED BY <2>1, <2>2, FS_Subset
  <1>2. \A i \in T : /\ Event(i) \in Events /\ Event(i).type = "FILL"
                     /\ Event(i).symbol = pool[i].symbol /\ Event(i).side = pool[i].side
                     /\ Event(i).qty = FillSize(pool[i], limits[pool[i].symbol])
                     /\ Event(i).qty \in Nat
    <2> SUFFICES ASSUME NEW i \in T
                 PROVE  /\ Event(i) \in Events /\ Event(i).type = "FILL"
                        /\ Event(i).symbol = pool[i].symbol /\ Event(i).side = pool[i].side
                        /\ Event(i).qty = FillSize(pool[i], limits[pool[i].symbol])
                        /\ Event(i).qty \in Nat
      OBVIOUS
    <2> DEFINE cap == limits[pool[i].symbol]
    <2>1. i \in 1..Len(pool) /\ IsOpen(pool[i]) /\ cap > 0
      BY DEF Touched
    <2>2. pool[i] \in LiveOrder /\ Sound(pool[i])
      BY <2>1
    <2>4. cap \in Nat
      BY <2>2 DEF LiveOrder
    <2>3. FillSize(pool[i], cap) \in Nat \ {0}
      BY <2>1, <2>2, <2>4, FillFacts
    <2> QED BY <2>2, <2>3 DEF Fill, Events, LiveOrder
  <1>3. fills \in Seq(Events) /\ fills \in Fills(pool, limits, rejected)
    BY FillsFacts
  <1>4. PICK f \in Ascending(T) : fills = [k \in DOMAIN f |-> Event(f[k])]
    BY <1>3 DEF Fills
  <1>5. swept \in Seq(LiveOrder) /\ Len(swept) = n
    BY SweptFacts
  <1>6. ASSUME NEW i \in 1..n
        PROVE  Traded(swept[i], s) = Traded(pool[i], s) + d[i]
    <2>0. pool[i] \in LiveOrder OBVIOUS
    <2>1. pool[i] \in LiveOrder /\ pool[i].filled \in Int
      <3> DEFINE o == pool[i]
      <3>1. o \in LiveOrder BY <2>0
      <3> HIDE DEF o
      <3>2. o.filled \in Int BY <3>1 DEF LiveOrder
      <3> QED BY <3>1, <3>2 DEF o
    <2>2. CASE i \notin Touched(pool, limits)
      <3>1. swept[i] = pool[i] BY <2>2 DEF Swept
      <3>2. d[i] = 0 BY <2>2
      <3> QED BY <2>1, <3>1, <3>2 DEF Traded, Signed
    <2>3. CASE i \in Touched(pool, limits) /\ i \in rejected
      <3>1. swept[i] = [pool[i] EXCEPT !.state = "REJECTED"] BY <2>3 DEF Swept
      <3>2. d[i] = 0 BY <2>3
      <3>3. /\ swept[i].symbol = pool[i].symbol /\ swept[i].side = pool[i].side
            /\ swept[i].filled = pool[i].filled
        BY <2>1, <3>1 DEF LiveOrder
      <3> QED BY <2>1, <3>2, <3>3 DEF Traded, Signed
    <2>4. CASE i \in T
      <3> DEFINE size == FillSize(pool[i], limits[pool[i].symbol])
      <3>1. swept[i] = WithFill(pool[i], size)
        BY <2>4 DEF Swept
      <3>2. /\ swept[i].symbol = pool[i].symbol /\ swept[i].side = pool[i].side
            /\ swept[i].filled = pool[i].filled + size
        <4> HIDE DEF size, swept
        <4> QED BY <2>1, <3>1 DEF LiveOrder, WithFill
      <3>3. d[i] = IF pool[i].symbol = s THEN Signed(pool[i].side, size) ELSE 0
        BY <1>2, <2>4 DEF Due
      <3>4. size \in Nat BY <1>2, <2>4
      <3> HIDE DEF size, swept, d
      <3> QED BY <2>1, <3>2, <3>3, <3>4 DEF Traded, Signed
    <2> QED BY <2>2, <2>3, <2>4
  <1>7. \A i \in T : Due(Event(i), s) \in Int
    BY <1>2 DEF Due, Signed
  <1>8. d \in Amounts(1..n) BY <1>7 DEF Amounts
  <1>9. SumFunction(Trades(swept, s)) = SumFunction(Trades(pool, s)) + SumFunction(d)
    <2> DEFINE S == 1..n
               k == Trades(swept, s)
               g == Trades(pool, s)
    <2>1. k \in Amounts(S) /\ g \in Amounts(S) BY <1>5, TradedFacts
    <2>2. \A i \in S : k[i] = g[i] + d[i] BY <1>5, <1>6 DEF Trades
    <2>3. d \in Amounts(S) /\ IsFiniteSet(S) BY <1>1, <1>8
    <2> HIDE DEF S, k, g, d
    <2>4. SumFunction(k) = SumFunction(g) + SumFunction(d)
      BY <2>1, <2>2, <2>3, SumPlus
    <2> QED BY <2>4 DEF k, g
  <1>10. SumFunction(d) = SumFunction(Restrict(d, T)) /\ Restrict(d, T) \in Amounts(T)
    <2> DEFINE S == 1..n
    <2>1. \A x \in S \ T : d[x] = 0 OBVIOUS
    <2>2. d \in Amounts(S) /\ IsFiniteSet(S) /\ T \in SUBSET S BY <1>1, <1>8
    <2>3. Restrict(d, T) \in Amounts(T) BY <2>2 DEF Amounts, Restrict
    <2> HIDE DEF S, d, T
    <2>4. SumFunction(d) = SumFunction(Restrict(d, T)) BY <2>1, <2>2, SumSupport
    <2> QED BY <2>3, <2>4
  <1>11. SumFunction(Dues(fills, s)) = SumFunction(Restrict(d, T))
    <2> DEFINE m == Cardinality(T)
               S == 1..m
               h == Dues(fills, s)
               r == Restrict(d, T)
    <2>1. f \in Bijection(S, T) BY <1>1, <1>4, AscendingFacts
    <2>2. f \in [S -> T] /\ m \in Nat
      BY <1>1, <1>4, FS_CardinalityType DEF Ascending
    <2>3. Len(fills) = m
      <3> HIDE DEF T, Event
      <3> QED BY <1>4, <2>2
    <2>4. h \in Amounts(S) BY <1>3, <2>3, DueFacts
    <2>5. \A k \in S : h[k] = r[f[k]]
      BY <1>1, <1>4, <2>2, <2>3 DEF Dues, Restrict
    <2>6. IsFiniteSet(S) BY <2>2, FS_Interval
    <2>7. r \in Amounts(T) /\ IsFiniteSet(T) BY <1>1, <1>10
    <2> HIDE DEF S, h, r, T, d
    <2>8. SumFunction(h) = SumFunction(r)
      BY <2>1, <2>4, <2>5, <2>6, <2>7, SumRename
    <2> QED BY <2>8 DEF h, r
  <1> QED BY <1>9, <1>10, <1>11

LEMMA TradesAppend ==
  ASSUME NEW os \in Seq(LiveOrder), NEW o \in LiveOrder, o.filled = 0, NEW s
  PROVE  SumFunction(Trades(Append(os, o), s)) = SumFunction(Trades(os, s))
  <1> DEFINE n == Len(os)
             f == Trades(os, s)
             h == Trades(Append(os, o), s)
  <1>1. /\ Append(os, o) \in Seq(LiveOrder) /\ Len(Append(os, o)) = n + 1 /\ n \in Nat
        /\ \A i \in 1..n : Append(os, o)[i] = os[i]
        /\ Append(os, o)[n + 1] = o
    OBVIOUS
  <1>2. f \in Amounts(1..n) /\ h \in Amounts(1..(n + 1)) /\ SumFunction(f) \in Int
    BY <1>1, TradedFacts
  <1>3. \A i \in 1..n : i \in 1..(n + 1) BY <1>1
  <1>4. \A i \in 1..n : h[i] = f[i] BY <1>1, <1>3 DEF Trades
  <1>5. h[n + 1] = 0 BY <1>1 DEF Trades, Traded, Signed
  <1> HIDE DEF n, f, h
  <1>6. SumFunction(h) = SumFunction(f) + h[n + 1]
    BY <1>1, <1>2, <1>4, SumAppend
  <1> QED BY <1>2, <1>5, <1>6 DEF f, h

Balanced(s) ==
  held[s] + SumFunction(Dues(queue, s)) = SumFunction(Trades(orders, s))

LEMMA BalancedIs == PositionIsFills <=> \A s \in Symbols : Balanced(s)
  BY DEF PositionIsFills, Balanced, Dues, Due, Trades, Traded

(* The bars of an instant bring nothing to book.                           *)
LEMMA BarsDue ==
  ASSUME NEW n \in 1..Len(Timeline), NEW s
  PROVE  MarketEvents(n) \in Seq(Events) /\ SumFunction(Dues(MarketEvents(n), s)) = 0
  <1>1. MarketEvents(n) \in Seq(Events) BY InstantFacts
  <1>2. Timeline[n] \in Seq(Bars) BY LiveAssumption
  <1>3. \A i \in 1..Len(MarketEvents(n)) : MarketEvents(n)[i].type # "FILL"
    BY <1>2 DEF MarketEvents
  <1> QED BY <1>1, <1>3, DuesOfNone

LEMMA OneDue ==
  ASSUME NEW e \in Events, e.type # "FILL", NEW s
  PROVE  <<e>> \in Seq(Events) /\ SumFunction(Dues(<<e>>, s)) = 0
  <1>1. <<e>> \in Seq(Events) /\ \A i \in 1..Len(<<e>>) : <<e>>[i].type # "FILL"
    OBVIOUS
  <1> QED BY <1>1, DuesOfNone

(* Every step keeps the balance of each instrument.                        *)
LEMMA BalancedStep ==
  ASSUME LInv, [Next]_vars, NEW s \in Symbols, Balanced(s)
  PROVE  Balanced(s)'
  <1> USE DEF tasks, book
  <1>1. /\ queue \in Seq(Events) /\ orders \in Seq(LiveOrder)
        /\ held \in [Symbols -> Int] /\ caps \in [Symbols -> Nat]
        /\ \A i \in 1..Len(orders) : Sound(orders[i])
    BY DEF LInv, TypeOK, FilledAsOrdered, Sound
  <1>2. /\ SumFunction(Dues(queue, s)) \in Int /\ SumFunction(Trades(orders, s)) \in Int
        /\ held[s] \in Int
    BY <1>1, DueFacts, TradedFacts
  <1>3. ASSUME UNCHANGED <<held, orders, queue>> PROVE Balanced(s)'
    BY <1>3 DEF Balanced, Dues, Trades
  <1>4. ASSUME UNCHANGED <<held, orders>>, NEW n \in 1..Len(Timeline),
               queue' = queue \o MarketEvents(n)
        PROVE  Balanced(s)'
    <2>1. /\ MarketEvents(n) \in Seq(Events)
          /\ SumFunction(Dues(MarketEvents(n), s)) = 0
      BY BarsDue
    <2>2. SumFunction(Dues(queue', s)) = SumFunction(Dues(queue, s))
      BY <1>1, <1>2, <1>4, <2>1, DuesConcat
    <2> QED BY <1>4, <2>2 DEF Balanced
  <1>5. CASE Start
    <2>1. 1 \in 1..Len(Timeline) BY LiveAssumption
    <2> QED BY <1>4, <1>5, <2>1 DEF Start
  <1>6. ASSUME NEW k \in Sessions, FeedInstant(k) PROVE Balanced(s)'
    <2>1. streamed[k] + 1 \in 1..Len(Timeline)
      BY <1>6, LiveAssumption DEF FeedInstant, LInv, TypeOK
    <2> QED BY <1>4, <1>6, <2>1 DEF FeedInstant
  <1>7. CASE \/ Stop \/ Sleep
             \/ \E k \in Sessions : FeedEnds(k) \/ FeedCancelled(k) \/ Wake(k) \/ Cancelled(k)
    BY <1>3, <1>7 DEF Stop, Sleep, FeedEnds, FeedCancelled, EndFeed, Wake, Cancelled
  <1>8. ASSUME HandleEvent
        PROVE  /\ queue # <<>> /\ Head(queue) \in Events /\ Tail(queue) \in Seq(Events)
               /\ SumFunction(Dues(Tail(queue), s))
                    = SumFunction(Dues(queue, s)) - Due(Head(queue), s)
               /\ SumFunction(Dues(Tail(queue), s)) \in Int
               /\ Head(queue).type # "FILL" => Due(Head(queue), s) = 0
    <2>1. queue # <<>>
      BY <1>8 DEF HandleEvent, Handle, OnMarket, OnMarketRaises, OnSignal, OnOrder, OnFill
    <2>2. Head(queue) \in Events /\ Tail(queue) \in Seq(Events)
      BY <1>1, <2>1, SequenceFacts
    <2> QED BY <1>1, <2>1, <2>2, DuesTail, DueFacts DEF Due
  (* A sweep of the orders, which may have been joined by a new one.        *)
  <1>9. ASSUME HandleEvent, Head(queue).type # "FILL", UNCHANGED held,
               NEW pool \in Seq(LiveOrder), NEW limits \in [Symbols -> Nat], NEW rejected,
               \A i \in 1..Len(pool) : Sound(pool[i]),
               SumFunction(Trades(pool, s)) = SumFunction(Trades(orders, s)),
               orders' = Swept(pool, limits, rejected),
               NEW fills \in Fills(pool, limits, rejected),
               NEW events \in Seq(Events), SumFunction(Dues(events, s)) = 0,
               queue' = Tail(queue) \o events \o fills
        PROVE  Balanced(s)'
    <2>1. SumFunction(Trades(orders', s))
            = SumFunction(Trades(orders, s)) + SumFunction(Dues(fills, s))
      BY <1>9, SweepTrades
    <2>2. fills \in Seq(Events) BY <1>9, FillsFacts
    <2> DEFINE rest == Tail(queue) \o events
    <2>3. rest \in Seq(Events) /\ SumFunction(Dues(rest, s)) = SumFunction(Dues(queue, s))
      <3>1. SumFunction(Dues(rest, s))
              = SumFunction(Dues(Tail(queue), s)) + SumFunction(Dues(events, s))
        BY <1>8, <1>9, DuesConcat
      <3>2. rest \in Seq(Events) BY <1>8, <1>9, SequenceFacts
      <3> QED BY <1>2, <1>8, <1>9, <3>1, <3>2
    <2>4. queue' = rest \o fills BY <1>9
    <2> HIDE DEF rest
    <2>5. SumFunction(Dues(queue', s))
            = SumFunction(Dues(queue, s)) + SumFunction(Dues(fills, s))
      BY <2>2, <2>3, <2>4, DuesConcat
    <2>6. SumFunction(Dues(fills, s)) \in Int BY <2>2, DueFacts
    <2> HIDE DEF Balanced
    <2> QED BY <1>2, <1>9, <2>1, <2>5, <2>6 DEF Balanced
  <1>10. CASE OnMarket
    <2> DEFINE ev == Head(queue)
               known == [caps EXCEPT ![ev.symbol] = ev.cap]
    <2>1. HandleEvent /\ ev.type = "MARKET" BY <1>10 DEF HandleEvent, OnMarket, Handle
    <2>2. ev.symbol \in Symbols /\ ev.cap \in Nat BY <1>8, <2>1 DEF Events
    <2>3. known \in [Symbols -> Nat] BY <1>1, <2>2
    <2>4. PICK out \in Emitted(ev.symbol) :
            \E rejected \in SUBSET Touched(orders, known) :
              /\ orders' = Swept(orders, known, rejected)
              /\ \E fills \in Fills(orders, known, rejected) :
                   queue' = Tail(queue) \o out.events \o fills
              /\ UNCHANGED held
      BY <1>10 DEF OnMarket
    <2>5. PICK rejected \in SUBSET Touched(orders, known) :
            /\ orders' = Swept(orders, known, rejected)
            /\ \E fills \in Fills(orders, known, rejected) :
                 queue' = Tail(queue) \o out.events \o fills
            /\ UNCHANGED held
      BY <2>4
    <2>6. PICK fills \in Fills(orders, known, rejected) :
            queue' = Tail(queue) \o out.events \o fills
      BY <2>5
    <2>7. out.events \in Seq(Events) /\ SumFunction(Dues(out.events, s)) = 0
      <3>1. CASE out.events = <<>>
        <4>1. <<>> \in Seq(Events) /\ \A i \in 1..Len(<<>>) : <<>>[i].type # "FILL"
          OBVIOUS
        <4> QED BY <3>1, <4>1, DuesOfNone
      <3>2. ASSUME NEW g \in Signals(belief[ev.symbol]),
                   out = [events |-> <<[type |-> "SIGNAL", symbol |-> ev.symbol,
                                        direction |-> g[1]]>>,
                          belief |-> g[2]]
            PROVE  \E sig \in Signals(belief[ev.symbol]) :
                     out.events = <<[type |-> "SIGNAL", symbol |-> ev.symbol,
                                     direction |-> sig[1]]>>
        BY <3>2
      <3>3. CASE \E sig \in Signals(belief[ev.symbol]) :
                   out.events = <<[type |-> "SIGNAL", symbol |-> ev.symbol,
                                   direction |-> sig[1]]>>
        <4>1. PICK sig \in Signals(belief[ev.symbol]) :
                out.events = <<[type |-> "SIGNAL", symbol |-> ev.symbol,
                                direction |-> sig[1]]>>
          BY <3>3
        <4>2. sig[1] \in {"LONG", "SHORT", "EXIT"} BY DEF Signals
        <4> DEFINE e == [type |-> "SIGNAL", symbol |-> ev.symbol, direction |-> sig[1]]
        <4>3. e \in Events /\ e.type # "FILL" BY <2>2, <4>2 DEF Events
        <4> HIDE DEF e
        <4>4. <<e>> \in Seq(Events) /\ SumFunction(Dues(<<e>>, s)) = 0
          BY <4>3, OneDue
        <4> QED BY <4>1, <4>4 DEF e
      <3>4. CASE out = [events |-> <<>>, belief |-> belief[ev.symbol]]
        BY <3>1, <3>4
      <3> HIDE DEF ev
      <3> QED BY <3>2, <3>3, <3>4 DEF Emitted
    <2> HIDE DEF known, ev
    <2>8. Head(queue).type # "FILL" BY <2>1 DEF ev
    <2> QED BY <1>1, <1>9, <2>1, <2>3, <2>5, <2>6, <2>7, <2>8
  <1>11. CASE OnMarketRaises
    <2>1. HandleEvent /\ Head(queue).type = "MARKET" /\ queue' = Tail(queue)
          /\ UNCHANGED <<held, orders>>
      BY <1>11 DEF HandleEvent, OnMarketRaises, Handle
    <2> QED BY <1>2, <1>8, <2>1 DEF Balanced
  <1>12. CASE OnSignal
    <2> DEFINE ev == Head(queue)
               e == [type |-> "ORDER", symbol |-> ev.symbol, side |-> SideOf(ev.direction)]
    <2>1. HandleEvent /\ ev.type = "SIGNAL" /\ queue' = Append(Tail(queue), e)
          /\ UNCHANGED <<held, orders>>
      BY <1>12 DEF HandleEvent, OnSignal, Handle
    <2>2. ev.symbol \in Symbols BY <1>8, <2>1 DEF Events
    <2>3. e \in Events /\ e.type # "FILL" BY <2>2 DEF Events, SideOf, Sides
    <2> HIDE DEF e
    <2>4. <<e>> \in Seq(Events) /\ SumFunction(Dues(<<e>>, s)) = 0
      BY <2>3, OneDue
    <2>5. queue' = Tail(queue) \o <<e>> BY <1>8, <2>1, <2>3
    <2>6. SumFunction(Dues(queue', s)) = SumFunction(Dues(queue, s))
      <3>1. SumFunction(Dues(queue', s))
              = SumFunction(Dues(Tail(queue), s)) + SumFunction(Dues(<<e>>, s))
        BY <1>8, <2>1, <2>4, <2>5, DuesConcat
      <3>2. Due(Head(queue), s) = 0 BY <1>8, <2>1
      <3> QED BY <1>2, <1>8, <2>1, <2>4, <3>1, <3>2
    <2> QED BY <2>1, <2>6 DEF Balanced
  <1>13. CASE OnOrder
    <2> DEFINE ev == Head(queue)
               new == Submitted(ev.symbol, ev.side)
               all == Append(orders, new)
    <2>1. HandleEvent /\ ev.type = "ORDER" /\ UNCHANGED held
      BY <1>13 DEF HandleEvent, OnOrder, Handle
    <2>2. ev.symbol \in Symbols /\ ev.side \in Sides BY <1>8, <2>1 DEF Events
    <2>3. new \in LiveOrder /\ Sound(new) /\ new.filled = 0
      BY <2>2, OrderAssumption DEF Submitted, LiveOrder, OrderStates, Sound
    <2>4. PICK rejected \in SUBSET Touched(all, caps) :
            /\ orders' = Swept(all, caps, rejected)
            /\ \E fills \in Fills(all, caps, rejected) : queue' = Tail(queue) \o fills
      BY <1>13 DEF OnOrder
    <2>5. PICK fills \in Fills(all, caps, rejected) : queue' = Tail(queue) \o fills
      BY <2>4
    <2> HIDE DEF new
    <2>6. /\ all \in Seq(LiveOrder) /\ Len(all) = Len(orders) + 1 /\ Len(orders) \in Nat
          /\ \A i \in 1..Len(orders) : all[i] = orders[i]
          /\ all[Len(orders) + 1] = new
      BY <1>1, <2>3, SequenceFacts
    <2>7. SumFunction(Trades(all, s)) = SumFunction(Trades(orders, s))
      BY <1>1, <2>3, TradesAppend
    <2> HIDE DEF all
    <2>8. \A i \in 1..Len(all) : Sound(all[i])
      <3> SUFFICES ASSUME NEW i \in 1..Len(all) PROVE Sound(all[i])
        OBVIOUS
      <3>1. CASE i = Len(orders) + 1
        BY <2>3, <2>6, <3>1
      <3>2. CASE i # Len(orders) + 1
        <4>1. i \in 1..Len(orders) BY <2>6, <3>2
        <4> QED BY <1>1, <2>6, <4>1
      <3> QED BY <3>1, <3>2
    <2>9. <<>> \in Seq(Events) /\ SumFunction(Dues(<<>>, s)) = 0
      <3>1. <<>> \in Seq(Events) /\ \A i \in 1..Len(<<>>) : <<>>[i].type # "FILL"
        OBVIOUS
      <3> QED BY <3>1, DuesOfNone
    <2>10. queue' = Tail(queue) \o <<>> \o fills BY <1>8, <2>1, <2>5
    <2> HIDE DEF ev
    <2>11. Head(queue).type # "FILL" BY <2>1 DEF ev
    <2> QED BY <1>1, <1>9, <2>1, <2>4, <2>6, <2>7, <2>8, <2>9, <2>10, <2>11
  <1>14. CASE OnFill
    <2> DEFINE ev == Head(queue)
    <2>1. HandleEvent /\ ev.type = "FILL" /\ queue' = Tail(queue) /\ UNCHANGED orders
          /\ held' = [held EXCEPT ![ev.symbol] = @ + Signed(ev.side, ev.qty)]
      BY <1>14 DEF HandleEvent, OnFill, Handle
    <2>2. ev.symbol \in Symbols /\ ev.qty \in Nat BY <1>8, <2>1 DEF Events
    <2>3. Signed(ev.side, ev.qty) \in Int BY <2>2 DEF Signed
    <2>4. held'[s] = held[s] + Due(ev, s)
      BY <1>1, <1>2, <2>1, <2>2, <2>3 DEF Due
    <2>5. Due(ev, s) \in Int BY <2>3 DEF Due
    <2>6. SumFunction(Dues(Tail(queue), s)) = SumFunction(Dues(queue, s)) - Due(ev, s)
      BY <1>8, <2>1
    <2> HIDE DEF ev
    <2> QED BY <1>2, <2>1, <2>4, <2>5, <2>6 DEF Balanced
  <1>15. CASE UNCHANGED vars
    BY <1>3, <1>15 DEF vars
  <1> QED
    BY <1>5, <1>6, <1>7, <1>10, <1>11, <1>12, <1>13, <1>14, <1>15
       DEF Next, HandleEvent

(* What the portfolio holds of each instrument, and will hold when the     *)
(* fills on the queue are booked, is what its orders traded: no fill is    *)
(* lost or booked twice, whatever volumes cap the fills, whatever the      *)
(* exchange rejects, wherever a strategy raises and stop() strikes, and    *)
(* however often the engine starts again.                                  *)
THEOREM PositionCorrect == Spec => []PositionIsFills
  <1>1. Init => PositionIsFills
    <2> SUFFICES ASSUME Init, NEW s \in Symbols PROVE Balanced(s)
      BY BalancedIs
    <2>1. SumFunction(Dues(<<>>, s)) = 0
      <3>1. <<>> \in Seq(Events) /\ \A i \in 1..Len(<<>>) : <<>>[i].type # "FILL"
        OBVIOUS
      <3> QED BY <3>1, DuesOfNone
    <2>2. SumFunction(Trades(<<>>, s)) = 0
      <3>1. Trades(<<>>, s) \in Amounts({})
        BY DEF Trades, Amounts
      <3> QED BY <3>1, SumEmpty
    <2> QED BY <2>1, <2>2 DEF Init, Balanced
  <1>2. LInv /\ PositionIsFills /\ [Next]_vars => PositionIsFills'
    <2> SUFFICES ASSUME LInv, PositionIsFills, [Next]_vars PROVE PositionIsFills'
      OBVIOUS
    <2>1. \A s \in Symbols : Balanced(s)' BY BalancedIs, BalancedStep
    <2> QED BY <2>1 DEF PositionIsFills, Balanced, Dues, Due, Trades, Traded
  <1> QED BY <1>1, <1>2, LInvInvariant, PTL DEF Spec
=============================================================================
