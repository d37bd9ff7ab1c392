------------------------------- MODULE LiveOps -------------------------------
(***************************************************************************)
(* What runs beside the paper-trading engine (aqc/live/scheduler.py,       *)
(* persistence.py, health_monitor.py and examples/run_paper_trading.py):   *)
(* LiveScheduler keeps periodic tasks of the one event loop going, and the *)
(* task of the example writes the state of the engine to PersistenceLayer, *)
(* an sqlite file that outlives the process.                               *)
(***************************************************************************)
EXTENDS Naturals, FiniteSetsExt

CONSTANTS
  Wrappers,     \* the periodic tasks; each is scheduled at most once
  Saver,        \* the one of them that saves
  MaxOrders,    \* bound on the orders, and the signals, of a process
  MaxRejected,  \* HealthMonitor's limit: more are CRITICAL
  MaxStarts,    \* bound on the calls of start()
  MaxRows       \* the rows of the signals table are counted up to here

VARIABLES
  state,        \* of each task: none, pending, ready, calling, sleeping, cancelled, done
  tasks,        \* LiveScheduler.tasks
  is_running,
  gathering,    \* the tasks stop() waits for, if it does
  starts,       \* the calls of start() so far
  orders,       \* orders, and signals, this process has seen
  rejected,     \* HealthMonitor.rejected_orders
  db            \* the tables: orders, rows of signals and the last health state

vars == <<state, tasks, is_running, gathering, starts, orders, rejected, db>>

Idle == {"none", "pending", "done"}
Cancelled(set) == [w \in Wrappers |-> IF w \in set /\ state[w] \notin Idle
                                      THEN "cancelled" ELSE state[w]]

----------------------------------------------------------------------------
Init ==
  /\ state = [w \in Wrappers |-> "none"] /\ tasks = {} /\ is_running = FALSE
  /\ gathering = {} /\ starts = 0
  /\ orders = 0 /\ rejected = 0
  /\ db = [orders |-> 0, signals |-> 0, health |-> "none"]

(* schedule_periodic: a task before start() is kept for it.                *)
SchedulePeriodic(w) ==
  /\ state[w] = "none"
  /\ state' = [state EXCEPT ![w] = IF is_running THEN "ready" ELSE "pending"]
  /\ tasks' = IF is_running THEN tasks \cup {w} ELSE tasks
  /\ UNCHANGED <<is_running, gathering, starts, orders, rejected, db>>

Start ==
  /\ starts < MaxStarts /\ starts' = starts + 1
  /\ is_running' = TRUE
  /\ state' = [w \in Wrappers |-> IF state[w] = "pending" THEN "ready" ELSE state[w]]
  /\ tasks' = tasks \cup {w \in Wrappers : state[w] = "pending"}
  /\ UNCHANGED <<gathering, orders, rejected, db>>

(* stop: every task listed is cancelled and waited for, and then the list  *)
(* is cleared, with what was added to it meanwhile.                        *)
StopBegins ==
  /\ gathering = {} /\ starts > 0
  /\ is_running' = FALSE
  /\ state' = Cancelled(tasks) /\ gathering' = tasks
  /\ UNCHANGED <<tasks, starts, orders, rejected, db>>

StopReturns ==
  /\ gathering # {} /\ \A w \in gathering : state[w] = "done"
  /\ gathering' = {} /\ tasks' = {}
  /\ UNCHANGED <<state, is_running, starts, orders, rejected, db>>

Becomes(w, s) == state' = [state EXCEPT ![w] = s]

(* wrapper: before each call it looks at is_running; a cancellation ends   *)
(* it wherever it waits.  (A slip first, that the checks must notice: it   *)
(* does not look.)                                                         *)
TurnForEver(w) ==
  /\ state[w] \in {"ready", "sleeping"} /\ Becomes(w, "calling")
  /\ UNCHANGED <<tasks, is_running, gathering, starts, orders, rejected, db>>

Turn(w) ==
  /\ state[w] \in {"ready", "sleeping"}
  /\ Becomes(w, IF is_running THEN "calling" ELSE "done")
  /\ UNCHANGED <<tasks, is_running, gathering, starts, orders, rejected, db>>

CancelTaken(w) ==
  /\ state[w] = "cancelled" /\ Becomes(w, "done")
  /\ UNCHANGED <<tasks, is_running, gathering, starts, orders, rejected, db>>

(* check_health, as the state it reports: stale is whether the feed has    *)
(* been silent for longer than the threshold.                              *)
HealthState(stale) ==
  IF rejected > MaxRejected THEN "CRITICAL" ELSE IF stale THEN "WARNING" ELSE "HEALTHY"

(* save_snapshots: the tables written up to statement n of five, in order. *)
(* The health state is a new row; the orders table is dropped and written  *)
(* anew, unless there is no order; all signals of the process are appended *)
(* again.  (The snapshot and the performance rows, 1, are not looked at.)  *)
WrittenUpTo(n, stale) ==
  [health |-> IF n >= 2 THEN HealthState(stale) ELSE db.health,
   orders |-> IF n >= 3 /\ orders > 0 THEN (IF n >= 4 THEN orders ELSE 0) ELSE db.orders,
   signals |-> IF n >= 5 THEN Min({db.signals + orders, MaxRows}) ELSE db.signals]

(* The task's function returns, or raises, which is logged: after the      *)
(* statements 1 to n, of which only a drop cannot be the last.             *)
CallReturns(w) ==
  /\ state[w] = "calling" /\ Becomes(w, "sleeping")
  /\ IF w = Saver THEN \E n \in {0, 1, 2, 4, 5}, stale \in BOOLEAN : db' = WrittenUpTo(n, stale)
                  ELSE UNCHANGED db
  /\ UNCHANGED <<tasks, is_running, gathering, starts, orders, rejected>>

(* The engine: an order, after a signal; record_rejection.                 *)
Trade ==
  /\ orders < MaxOrders /\ orders' = orders + 1
  /\ UNCHANGED <<state, tasks, is_running, gathering, starts, rejected, db>>

Reject ==
  /\ rejected < orders /\ rejected' = rejected + 1
  /\ UNCHANGED <<state, tasks, is_running, gathering, starts, orders, db>>

(* The process ends, in the middle of a save perhaps, and another one      *)
(* opens the file.                                                         *)
Restart ==
  /\ starts > 0
  /\ IF state[Saver] = "calling" THEN \E n \in 0..5, stale \in BOOLEAN : db' = WrittenUpTo(n, stale)
                                 ELSE UNCHANGED db
  /\ state' = [w \in Wrappers |-> "none"] /\ tasks' = {} /\ is_running' = FALSE
  /\ gathering' = {} /\ starts' = 0 /\ orders' = 0 /\ rejected' = 0

Next ==
  \/ \E w \in Wrappers : SchedulePeriodic(w) \/ Turn(w) \/ CancelTaken(w) \/ CallReturns(w)
  \/ Start \/ StopBegins \/ StopReturns \/ Trade \/ Reject \/ Restart

(* The event loop gives every task its turn, intervals end and the         *)
(* functions return.                                                       *)
TaskStep(w) == Turn(w) \/ CancelTaken(w) \/ CallReturns(w)

Spec == Init /\ [][Next]_vars /\ \A w \in Wrappers : WF_vars(TaskStep(w))

----------------------------------------------------------------------------
(* After a stop() no task goes on for ever, unless there is another        *)
(* start(): not even a task that a start() during the stop has created and *)
(* the stop then strikes off its list uncancelled.                         *)
TasksStop == ~is_running ~> is_running \/ \A w \in Wrappers : state[w] \in Idle
=============================================================================
