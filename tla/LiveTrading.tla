---------------------------- MODULE LiveTrading ----------------------------
(***************************************************************************)
(* LiveTradingEngine (aqc/live/live_engine.py) with its SimulatedFeed,     *)
(* SignalRouter and PaperBroker, in one asyncio event loop.  Each start()  *)
(* is a session: the task that awaits start() streams the feed and sleeps  *)
(* between instants, a second task drains the event queue and sleeps       *)
(* whenever it is empty, and any other task may call stop().  Tasks change *)
(* places only where they sleep.                                           *)
(***************************************************************************)
EXTENDS OrderManager, Functions

CONSTANTS
  Timeline,     \* the instants of SimulatedFeed.data, each the sequence of its
                \* bars [symbol, cap]; cap is a tenth of the volume (of 1e6 if
                \* the bar has none), at least 1
  AllowShort,   \* whether the strategy ever sells short
  MaxSessions   \* bound on the calls of start()

Sessions == 1..MaxSessions

Bars == [symbol : Symbols, cap : Nat \ {0}]

ASSUME LiveAssumption ==
  /\ Timeline \in Seq(Seq(Bars)) /\ Timeline # <<>>
  /\ AllowShort \in BOOLEAN /\ MaxSessions \in Nat

VARIABLES
  running,   \* engine.is_running; the feed's is_connected changes with it
  session,   \* the calls of start() so far; _loop_task is this one's
  feed,      \* each session's streaming task: off, sleeping or ended
  streamed,  \* the instants it has streamed
  loop,      \* each session's _process_events task: off, sleeping, cancelled
             \* (but not yet told) or ended
  turn,      \* the session whose _process_events is draining the queue, or 0
  queue,     \* the event queue
  belief,    \* the strategy's own _position
  caps,      \* the volume caps of the broker's latest_market_events, 0 for none
  orders,    \* OrderManager.orders, in the order of registration
  held,      \* the portfolio's quantities
  \* history:
  stopped    \* the sessions that a stop() came upon

tasks == <<running, session, feed, streamed, loop, stopped>>
book == <<belief, caps, orders, held>>
vars == <<tasks, turn, queue, book>>

Init ==
  /\ running = FALSE /\ session = 0
  /\ feed = [k \in Sessions |-> "off"] /\ streamed = [k \in Sessions |-> 0]
  /\ loop = [k \in Sessions |-> "off"] /\ turn = 0
  /\ queue = <<>>
  /\ belief = [s \in Symbols |-> "NONE"]
  /\ caps = [s \in Symbols |-> 0]
  /\ orders = <<>> /\ held = [s \in Symbols |-> 0]
  /\ stopped = {}

(* The market events of an instant.                                        *)
MarketEvents(n) ==
  [i \in 1..Len(Timeline[n]) |-> [type |-> "MARKET", symbol |-> Timeline[n][i].symbol,
                                  cap |-> Timeline[n][i].cap]]

----------------------------------------------------------------------------
(* start(): connect, create the event task, and stream the first instant,  *)
(* up to the feed's first sleep.  Nothing in the class forbids a start     *)
(* while it runs, but no caller does that.                                 *)
Start ==
  /\ turn = 0 /\ ~running /\ session < MaxSessions
  /\ LET k == session + 1 IN
       /\ session' = k
       /\ feed' = [feed EXCEPT ![k] = "sleeping"]
       /\ streamed' = [streamed EXCEPT ![k] = 1]
       /\ loop' = [loop EXCEPT ![k] = "sleeping"]
  /\ running' = TRUE
  /\ queue' = queue \o MarketEvents(1)
  /\ UNCHANGED <<turn, book, stopped>>

(* What stop() does, with none of its awaits suspending: only the event    *)
(* task of the latest session is cancelled, and no feed is.  (The first of *)
(* the two definitions is a slip the checks must notice, as are            *)
(* FeedEndsWhenDone and OnMarketRetried below.  None of them is part of    *)
(* the specification.)                                                     *)
StoppingUncancelled ==
  /\ running' = FALSE
  /\ stopped' = IF running THEN 1..session ELSE stopped
  /\ UNCHANGED loop

Stopping ==
  /\ running' = FALSE
  /\ loop' = IF running /\ loop[session] = "sleeping"
             THEN [loop EXCEPT ![session] = "cancelled"] ELSE loop
  /\ stopped' = IF running THEN 1..session ELSE stopped

(* Another task calls stop().                                              *)
Stop ==
  /\ turn = 0 /\ running
  /\ Stopping
  /\ UNCHANGED <<session, feed, streamed, turn, queue, book>>

(* The feed wakes and streams the next instant.                            *)
FeedInstant(k) ==
  /\ turn = 0 /\ feed[k] = "sleeping"
  /\ running /\ streamed[k] < Len(Timeline)
  /\ streamed' = [streamed EXCEPT ![k] = @ + 1]
  /\ queue' = queue \o MarketEvents(streamed[k] + 1)
  /\ UNCHANGED <<running, session, feed, loop, stopped, turn, book>>

(* The feed wakes, disconnected or with nothing left, or the task awaiting *)
(* start() is cancelled in its sleep: start() ends with a stop().          *)
EndFeed(k) ==
  /\ feed' = [feed EXCEPT ![k] = "ended"]
  /\ Stopping
  /\ UNCHANGED <<session, streamed, turn, queue, book>>
FeedEndsWhenDone(k) ==
  turn = 0 /\ feed[k] = "sleeping" /\ streamed[k] = Len(Timeline) /\ EndFeed(k)
FeedEnds(k) ==
  /\ turn = 0 /\ feed[k] = "sleeping"
  /\ ~running \/ streamed[k] = Len(Timeline)
  /\ EndFeed(k)
FeedCancelled(k) == turn = 0 /\ feed[k] = "sleeping" /\ EndFeed(k)

----------------------------------------------------------------------------
(* _process_events wakes: its loop goes on, or ends.                       *)
Wake(k) ==
  /\ turn = 0 /\ loop[k] = "sleeping"
  /\ IF running THEN turn' = k /\ UNCHANGED loop
     ELSE loop' = [loop EXCEPT ![k] = "ended"] /\ UNCHANGED turn
  /\ UNCHANGED <<running, session, feed, streamed, stopped, queue, book>>

(* It is cancelled where it sleeps, whatever it would have done.           *)
Cancelled(k) ==
  /\ turn = 0 /\ loop[k] = "cancelled"
  /\ loop' = [loop EXCEPT ![k] = "ended"]
  /\ UNCHANGED <<running, session, feed, streamed, stopped, turn, queue, book>>

(* It finds the queue empty and sleeps.                                    *)
Sleep ==
  /\ turn # 0 /\ queue = <<>>
  /\ turn' = 0
  /\ UNCHANGED <<tasks, queue, book>>

Handle(type) ==
  turn # 0 /\ queue # <<>> /\ Head(queue).type = type /\ UNCHANGED <<tasks, turn>>

(* The signals of a strategy that believes b, and the belief each leaves:  *)
(* as in Backtest, any that some strategy may emit.                        *)
Signals(b) ==
     (IF b # "LONG" THEN {<<"LONG", "LONG">>} ELSE {})
  \cup (IF AllowShort /\ b = "NONE" THEN {<<"SHORT", "SHORT">>} ELSE {})
  \cup (IF b # "NONE" THEN {<<"EXIT", "NONE">>} ELSE {})

(* Nothing, or the one signal of a bar for s, and the belief it leaves.    *)
Emitted(s) ==
  {[events |-> <<>>, belief |-> belief[s]]} \cup
  {[events |-> <<[type |-> "SIGNAL", symbol |-> s, direction |-> sig[1]]>>,
    belief |-> sig[2]] : sig \in Signals(belief[s])}

(* _handle_market: the strategy, then the broker with its sweep.           *)
OnMarket ==
  /\ Handle("MARKET")
  /\ LET ev == Head(queue)
         known == [caps EXCEPT ![ev.symbol] = ev.cap]
     IN  \E out \in Emitted(ev.symbol) :
           \E rejected \in SUBSET Touched(orders, known) :
             /\ caps' = known
             /\ orders' = Swept(orders, known, rejected)
             /\ \E fills \in Fills(orders, known, rejected) :
                  queue' = Tail(queue) \o out.events \o fills
             /\ belief' = [belief EXCEPT ![ev.symbol] = out.belief]
  /\ UNCHANGED held

(* The strategy raises: the error is logged, and the broker never sees the *)
(* bar.                                                                    *)
OnMarketRetried ==
  /\ Handle("MARKET")
  /\ queue' = Append(Tail(queue), Head(queue))
  /\ UNCHANGED book
OnMarketRaises ==
  /\ Handle("MARKET")
  /\ queue' = Tail(queue)
  /\ UNCHANGED book

(* _handle_signal and route_signal: every signal is approved, and an EXIT  *)
(* buys as the quantity is never negative.                                 *)
SideOf(direction) == IF direction = "SHORT" THEN "SELL" ELSE "BUY"
OnSignal ==
  /\ Handle("SIGNAL")
  /\ queue' = Append(Tail(queue), [type |-> "ORDER", symbol |-> Head(queue).symbol,
                                   side |-> SideOf(Head(queue).direction)])
  /\ UNCHANGED book

(* _handle_order and submit_order.                                         *)
OnOrder ==
  /\ Handle("ORDER")
  /\ LET all == Append(orders, Submitted(Head(queue).symbol, Head(queue).side)) IN
       \E rejected \in SUBSET Touched(all, caps) :
         /\ orders' = Swept(all, caps, rejected)
         /\ \E fills \in Fills(all, caps, rejected) : queue' = Tail(queue) \o fills
  /\ UNCHANGED <<belief, caps, held>>

(* _handle_fill.                                                           *)
OnFill ==
  /\ Handle("FILL")
  /\ LET ev == Head(queue) IN
       held' = [held EXCEPT ![ev.symbol] = @ + Signed(ev.side, ev.qty)]
  /\ queue' = Tail(queue)
  /\ UNCHANGED <<belief, caps, orders>>

HandleEvent == OnMarket \/ OnMarketRaises \/ OnSignal \/ OnOrder \/ OnFill

Next ==
  \/ Start \/ Stop \/ Sleep \/ HandleEvent
  \/ \E k \in Sessions :
       FeedInstant(k) \/ FeedEnds(k) \/ FeedCancelled(k) \/ Wake(k) \/ Cancelled(k)

Spec == Init /\ [][Next]_vars

(* asyncio runs every task that is ready, and sleeps end.  Nobody need     *)
(* call start(), call stop() or cancel the task that awaits start().       *)
Fairness ==
  /\ WF_vars(HandleEvent \/ Sleep)
  /\ \A k \in Sessions : /\ SF_vars(Wake(k) \/ Cancelled(k))
                         /\ SF_vars(FeedInstant(k) \/ FeedEnds(k))

FairSpec == Spec /\ Fairness

----------------------------------------------------------------------------
Events == [type : {"MARKET"}, symbol : Symbols, cap : Nat \ {0}]
          \cup [type : {"SIGNAL"}, symbol : Symbols, direction : {"LONG", "SHORT", "EXIT"}]
          \cup [type : {"ORDER"}, symbol : Symbols, side : Sides]
          \cup [type : {"FILL"}, symbol : Symbols, side : Sides, qty : Nat \ {0}]

TypeOK ==
  /\ running \in BOOLEAN /\ session \in 0..MaxSessions /\ turn \in 0..MaxSessions
  /\ feed \in [Sessions -> {"off", "sleeping", "ended"}]
  /\ streamed \in [Sessions -> 0..Len(Timeline)]
  /\ loop \in [Sessions -> {"off", "sleeping", "cancelled", "ended"}]
  /\ queue \in Seq(Events)
  /\ belief \in [Symbols -> {"NONE", "LONG", "SHORT"}]
  /\ caps \in [Symbols -> Nat] /\ held \in [Symbols -> Int]
  /\ orders \in Seq(LiveOrder)
  /\ stopped \in SUBSET Sessions

(* An order never trades more than its quantity, however many sweeps touch *)
(* it, and its state says how much it traded.                              *)
FilledAsOrdered ==
  \A i \in 1..Len(orders) :
    LET o == orders[i]
    IN  /\ o.filled \in 0..OrderQty
        /\ o.state = "FILLED" <=> o.filled = OrderQty
        /\ o.state = "PARTIALLY_FILLED" => o.filled > 0

(* What the portfolio holds, and will hold once the fills on the queue are *)
(* booked, is what the orders say they traded: through handlers that raise,*)
(* sessions stopped half-way and restarts, no fill is lost or doubled.     *)
PositionIsFills ==
  \A s \in Symbols :
    held[s] + SumFunction([i \in 1..Len(queue) |->
                 IF queue[i].type = "FILL" /\ queue[i].symbol = s
                 THEN Signed(queue[i].side, queue[i].qty) ELSE 0])
    = SumFunction([i \in 1..Len(orders) |->
                     IF orders[i].symbol = s
                     THEN Signed(orders[i].side, orders[i].filled) ELSE 0])

(* An order that was filled or rejected never changes again, and no order  *)
(* trades back what it traded.                                             *)
TerminalStays ==
  [][\A i \in 1..Len(orders) :
       /\ orders[i].state \in {"FILLED", "REJECTED"} => orders'[i] = orders[i]
       /\ orders'[i].filled >= orders[i].filled]_vars

(* At most one _process_events can go on, even if start() follows so soon  *)
(* upon stop() that the old one has not woken in between.                  *)
OneEventLoop == Cardinality({k \in Sessions : loop[k] = "sleeping"}) <= 1

(* The event task always comes to its sleep: signals, orders and fills, or *)
(* a bar whose handler raises, do not keep it from letting the feed and    *)
(* stop() have their turn.                                                 *)
DrainEnds == turn # 0 ~> turn = 0

(* After a stop, all of the engine's tasks end, unless it is started again.*)
TasksEnd ==
  ~running ~> (running \/ \A k \in Sessions : /\ feed[k] # "sleeping"
                                              /\ loop[k] \in {"off", "ended"})

(* A session that stop() has stopped ("Stop the live engine") streams no   *)
(* further bars.                                                           *)
StoppedFeedSilent == [][\A k \in stopped : streamed'[k] = streamed[k]]_vars
=============================================================================
