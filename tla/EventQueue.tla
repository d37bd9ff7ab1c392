----------------------------- MODULE EventQueue -----------------------------
(***************************************************************************)
(* aqc/backtester/event_queue.py: an unbounded queue.Queue with two        *)
(* throughput counters kept under a lock of the class's own.  queue.Queue  *)
(* does each put_nowait, get_nowait and empty() atomically; the methods    *)
(* here are several such steps, and the lock covers only some of them:     *)
(* put() counts under the lock and inserts after releasing it, get() takes *)
(* without the lock and counts under it, put_priority() holds the lock     *)
(* while it empties and refills the queue one event at a time, and flush() *)
(* takes no lock at all.  One action below is one such atomic step of one  *)
(* thread.                                                                 *)
(***************************************************************************)
EXTENDS Naturals, Sequences, FiniteSets

CONSTANTS Producers,    \* threads that call put()
          Controllers,  \* threads that call put_priority()
          Consumers,    \* threads that call get()
          Flushers,     \* threads that call flush()
          MaxCalls,     \* bound on the calls of each producer and controller
          NoThread,     \* the lock is free
          NoEvent       \* None, the answer of a get() that found nothing

Threads == Producers \cup Controllers \cup Consumers \cup Flushers

ASSUME ThreadsAssumption ==
  /\ IsFiniteSet(Producers) /\ IsFiniteSet(Consumers)
  /\ Producers \cap (Controllers \cup Consumers \cup Flushers) = {}
  /\ Controllers \cap (Consumers \cup Flushers) = {}
  /\ Consumers \cap Flushers = {}
  /\ NoThread \notin Threads
  /\ MaxCalls \in Nat

(* The n-th event a thread hands over. *)
Events == [by : Producers \cup Controllers, n : 1..MaxCalls]

ASSUME NoEventAssumption == NoEvent \notin Events

VARIABLES
  queue,           \* self._queue
  total_enqueued,  \* self._total_enqueued
  total_dequeued,  \* self._total_dequeued
  lock,            \* the thread inside a `with self._lock` block of several steps
  buffer,          \* put_priority's local list; only the lock's holder has one
  pc,              \* where each thread is inside its call
  calls,           \* the puts each thread has begun
  answer,          \* what each consumer's last get() found
  \* history:
  taken,           \* the events that left through get(), in that order
  dropped,         \* the events that flush() discarded, in that order
  overtaken        \* the events that each controller's current call set aside

counters == <<total_enqueued, total_dequeued>>
vars == <<queue, counters, lock, buffer, pc, calls, answer, taken, dropped,
          overtaken>>

(* The event of the put call thread t is in. *)
EventOf(t) == [by |-> t, n |-> calls[t]]

Init ==
  /\ queue = <<>>
  /\ total_enqueued = 0 /\ total_dequeued = 0
  /\ lock = NoThread
  /\ buffer = <<>>
  /\ pc = [t \in Threads |-> "idle"]
  /\ calls = [t \in Producers \cup Controllers |-> 0]
  /\ answer = [c \in Consumers |-> NoEvent]
  /\ taken = <<>> /\ dropped = <<>>
  /\ overtaken = [t \in Controllers |-> {}]

Goto(t, label) == pc' = [pc EXCEPT ![t] = label]
Begin(t) == calls[t] < MaxCalls /\ calls' = [calls EXCEPT ![t] = @ + 1]

----------------------------------------------------------------------------
(* Slips of the methods below that the checks must notice.  They are not   *)
(* part of the specification: a put_priority that inserts its event last,  *)
(* that returns with events still buffered, or that does not count, a get  *)
(* that takes the newest event, and one that counts without the lock.      *)
PriorityInsertLast(t) ==
  /\ pc[t] = "insert"
  /\ queue' = queue \o Append(buffer, EventOf(t))
  /\ buffer' = <<>>
  /\ Goto(t, "requeue")
  /\ UNCHANGED <<counters, lock, calls, answer, taken, dropped, overtaken>>

PriorityUnlockEarly(t) ==
  /\ pc[t] = "requeue"
  /\ total_enqueued' = total_enqueued + 1
  /\ lock' = NoThread /\ buffer' = <<>>
  /\ Goto(t, "idle")
  /\ UNCHANGED <<queue, total_dequeued, calls, answer, taken, dropped, overtaken>>

PriorityUnlockUncounted(t) ==
  /\ pc[t] = "requeue" /\ buffer = <<>>
  /\ lock' = NoThread
  /\ Goto(t, "idle")
  /\ UNCHANGED <<queue, counters, buffer, calls, answer, taken, dropped, overtaken>>

GetTakeNewest(c) ==
  /\ pc[c] \in {"idle", "waiting"} /\ queue # <<>>
  /\ queue' = SubSeq(queue, 1, Len(queue) - 1)
  /\ answer' = [answer EXCEPT ![c] = queue[Len(queue)]]
  /\ taken' = Append(taken, queue[Len(queue)])
  /\ Goto(c, "got")
  /\ UNCHANGED <<counters, lock, buffer, calls, dropped, overtaken>>

GetCountUnlocked(c) ==
  /\ pc[c] = "got"
  /\ total_dequeued' = total_dequeued + 1
  /\ Goto(c, "idle")
  /\ UNCHANGED <<queue, total_enqueued, lock, buffer, calls, answer, taken, dropped,
                 overtaken>>

----------------------------------------------------------------------------
(* put(): the event is counted under the lock ...                          *)
PutCount(p) ==
  /\ pc[p] = "idle" /\ lock = NoThread
  /\ Begin(p)
  /\ total_enqueued' = total_enqueued + 1
  /\ Goto(p, "counted")
  /\ UNCHANGED <<queue, total_dequeued, lock, buffer, answer, taken, dropped,
                 overtaken>>

(* ... and inserted after the lock is released.                            *)
PutInsert(p) ==
  /\ pc[p] = "counted"
  /\ queue' = Append(queue, EventOf(p))
  /\ Goto(p, "idle")
  /\ UNCHANGED <<counters, lock, buffer, calls, answer, taken, dropped,
                 overtaken>>

----------------------------------------------------------------------------
(* put_priority(): take the lock for the whole call,                       *)
PriorityLock(t) ==
  /\ pc[t] = "idle" /\ lock = NoThread
  /\ Begin(t)
  /\ lock' = t
  /\ Goto(t, "drain")
  /\ overtaken' = [overtaken EXCEPT ![t] = {}]
  /\ UNCHANGED <<queue, counters, buffer, answer, taken, dropped>>

(* move one event into the buffer,                                         *)
PriorityDrain(t) ==
  /\ pc[t] = "drain" /\ queue # <<>>
  /\ buffer' = Append(buffer, Head(queue))
  /\ overtaken' = [overtaken EXCEPT ![t] = @ \cup {Head(queue)}]
  /\ queue' = Tail(queue)
  /\ UNCHANGED <<counters, lock, pc, calls, answer, taken, dropped>>

(* find the queue empty and leave the loop,                                *)
PriorityDrained(t) ==
  /\ pc[t] = "drain" /\ queue = <<>>
  /\ Goto(t, "insert")
  /\ UNCHANGED <<queue, counters, lock, buffer, calls, answer, taken, dropped,
                 overtaken>>

(* insert the priority event,                                              *)
PriorityInsert(t) ==
  /\ pc[t] = "insert"
  /\ queue' = Append(queue, EventOf(t))
  /\ Goto(t, "requeue")
  /\ UNCHANGED <<counters, lock, buffer, calls, answer, taken, dropped,
                 overtaken>>

(* put one buffered event back,                                            *)
PriorityRequeue(t) ==
  /\ pc[t] = "requeue" /\ buffer # <<>>
  /\ queue' = Append(queue, Head(buffer))
  /\ buffer' = Tail(buffer)
  /\ UNCHANGED <<counters, lock, pc, calls, answer, taken, dropped,
                 overtaken>>

(* count the event and release the lock.                                   *)
PriorityUnlock(t) ==
  /\ pc[t] = "requeue" /\ buffer = <<>>
  /\ total_enqueued' = total_enqueued + 1
  /\ lock' = NoThread
  /\ Goto(t, "idle")
  /\ UNCHANGED <<queue, total_dequeued, buffer, calls, answer, taken, dropped,
                 overtaken>>

----------------------------------------------------------------------------
(* get(block=True): nothing there, wait.                                   *)
GetWait(c) ==
  /\ pc[c] = "idle" /\ queue = <<>>
  /\ Goto(c, "waiting")
  /\ UNCHANGED <<queue, counters, lock, buffer, calls, answer, taken, dropped,
                 overtaken>>

(* get(): take the head of the queue, at once or after the wait ...        *)
GetTake(c) ==
  /\ pc[c] \in {"idle", "waiting"} /\ queue # <<>>
  /\ queue' = Tail(queue)
  /\ answer' = [answer EXCEPT ![c] = Head(queue)]
  /\ taken' = Append(taken, Head(queue))
  /\ Goto(c, "got")
  /\ UNCHANGED <<counters, lock, buffer, calls, dropped,
                 overtaken>>

(* ... and count it under the lock before returning it.                    *)
GetCount(c) ==
  /\ pc[c] = "got" /\ lock = NoThread
  /\ total_dequeued' = total_dequeued + 1
  /\ Goto(c, "idle")
  /\ UNCHANGED <<queue, total_enqueued, lock, buffer, calls, answer, taken, dropped,
                 overtaken>>

(* queue.Empty, from get(block=False) or from a wait that timed out: the   *)
(* answer is None.                                                         *)
GetNone(c) ==
  /\ pc[c] \in {"idle", "waiting"} /\ queue = <<>>
  /\ answer' = [answer EXCEPT ![c] = NoEvent]
  /\ Goto(c, "idle")
  /\ UNCHANGED <<queue, counters, lock, buffer, calls, taken, dropped,
                 overtaken>>

----------------------------------------------------------------------------
(* One round of flush(): discard the head; the counters are not told.      *)
FlushTake(f) ==
  /\ queue # <<>>
  /\ dropped' = Append(dropped, Head(queue))
  /\ queue' = Tail(queue)
  /\ Goto(f, "flushing")
  /\ UNCHANGED <<counters, lock, buffer, calls, answer, taken,
                 overtaken>>

(* flush() finds the queue empty and returns.                              *)
FlushDone(f) ==
  /\ pc[f] = "flushing" /\ queue = <<>>
  /\ Goto(f, "idle")
  /\ UNCHANGED <<queue, counters, lock, buffer, calls, answer, taken, dropped,
                 overtaken>>

----------------------------------------------------------------------------
PutStep(p) == PutCount(p) \/ PutInsert(p)
PriorityStep(t) == \/ PriorityLock(t) \/ PriorityDrain(t) \/ PriorityDrained(t)
                   \/ PriorityInsert(t) \/ PriorityRequeue(t) \/ PriorityUnlock(t)
GetStep(c) == GetWait(c) \/ GetTake(c) \/ GetCount(c) \/ GetNone(c)
FlushStep(f) == FlushTake(f) \/ FlushDone(f)

Next == \/ \E p \in Producers : PutStep(p)
        \/ \E t \in Controllers : PriorityStep(t)
        \/ \E c \in Consumers : GetStep(c)
        \/ \E f \in Flushers : FlushStep(f)

Spec == Init /\ [][Next]_vars

(***************************************************************************)
(* The scheduler does not stop a thread for ever in the middle of a        *)
(* method, and the consumers keep asking, as the engine's drain loop does: *)
(* a get() that can take an event is eventually made.  Nobody need ever    *)
(* call put(), put_priority() or flush().  Weak fairness suffices for the  *)
(* steps that wait for the lock because each producer and controller makes *)
(* at most MaxCalls calls.                                                 *)
(***************************************************************************)
Fairness ==
  /\ \A p \in Producers : WF_vars(PutInsert(p))
  /\ \A t \in Controllers :
       WF_vars(PriorityDrain(t) \/ PriorityDrained(t) \/ PriorityInsert(t)
               \/ PriorityRequeue(t) \/ PriorityUnlock(t))
  /\ \A c \in Consumers : WF_vars(GetTake(c) \/ GetCount(c))

FairSpec == Spec /\ Fairness

----------------------------------------------------------------------------
(* The state each variable may be in; only the holder of the lock is       *)
(* inside put_priority, and only it has a buffer.                          *)
TypeOK ==
  /\ queue \in Seq(Events) /\ buffer \in Seq(Events)
  /\ taken \in Seq(Events) /\ dropped \in Seq(Events)
  /\ total_enqueued \in Nat /\ total_dequeued \in Nat
  /\ lock \in Controllers \cup {NoThread}
  /\ pc \in [Threads -> {"idle", "counted", "drain", "insert", "requeue",
                         "waiting", "got", "flushing"}]
  /\ calls \in [Producers \cup Controllers -> 0..MaxCalls]
  /\ answer \in [Consumers -> Events \cup {NoEvent}]
  /\ overtaken \in [Controllers -> SUBSET Events]

(* The threads between the two steps of put(), and of get().               *)
Putting == {p \in Producers : pc[p] = "counted"}
Getting == {c \in Consumers : pc[c] = "got"}

(* 1 while put_priority has inserted its event and not yet counted it.     *)
Uncounted == IF lock # NoThread /\ pc[lock] = "requeue" THEN 1 ELSE 0

(* The two counters account for every event: what was counted in, and the  *)
(* priority event that will be, is what was counted out, what is being put *)
(* or got at the moment, what is queued or buffered, and what flush()      *)
(* discarded.  With no call in progress, the current_depth that stats()    *)
(* reports is therefore the true depth plus everything flush() ever        *)
(* discarded.                                                              *)
CountersBalance ==
  total_enqueued + Uncounted = total_dequeued + Cardinality(Putting)
    + Cardinality(Getting) + Len(queue) + Len(buffer) + Len(dropped)

(* stats() never reports a negative current_depth, although put_priority   *)
(* counts its event only after others could have taken it: the taker's own *)
(* count waits for the lock.                                               *)
DepthNotNegative == total_dequeued <= total_enqueued

(* The events whose insertion has happened: those of finished calls, and   *)
(* the current priority event.                                             *)
Inserted == {e \in Events :
               \/ e.n < calls[e.by]
               \/ e.n = calls[e.by] /\ pc[e.by] \in {"idle", "requeue"}}

(* Whatever the interleaving, no event is lost or delivered twice: each    *)
(* event inserted is in exactly one place, once.                           *)
ExactlyOnce ==
  LET all == queue \o buffer \o taken \o dropped
  IN  /\ {all[i] : i \in 1..Len(all)} = Inserted
      /\ Len(all) = Cardinality(Inserted)

(* d stands before e in the sequence s.                                    *)
Before(s, d, e) == \E i, j \in 1..Len(s) : i < j /\ s[i] = d /\ s[j] = e

(* What put_priority does guarantee while only one thread calls it: the     *)
(* events it set aside stay behind the priority event, on the queue and in  *)
(* the order of delivery, even though they go back one at a time while      *)
(* other threads put, get and flush.                                        *)
PriorityOvertakesBuffered ==
  \A t \in Controllers : \A e \in overtaken[t] :
    ~Before(taken \o queue, e, EventOf(t))

(* Everything put is eventually taken by a get(), or discarded by a flush():*)
(* it cannot be left behind in a buffer or passed over for ever.            *)
EventuallyTaken ==
  \A p \in Producers : \A n \in 1..MaxCalls :
    LET out == taken \o dropped
    IN  calls[p] >= n ~> \E i \in 1..Len(out) : out[i] = [by |-> p, n |-> n]

(* Until put_priority is called the queue is the FIFO queue its docstring   *)
(* says.                                                                    *)
Fifo == INSTANCE FifoQueue WITH Callers <- Consumers, contents <- queue,
                                jumped <- \E t \in Controllers : calls[t] > 0

RefinesFifo == Fifo!Spec
=============================================================================
