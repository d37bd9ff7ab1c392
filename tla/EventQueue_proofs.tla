------------------------- MODULE EventQueue_proofs -------------------------
(***************************************************************************)
(* For any number of threads of each role and any bound on their calls:    *)
(* what the counters of the event queue are worth, that no event is lost   *)
(* or doubled, that an event placed with priority stays ahead of those it  *)
(* overtook, and that the queue implements the FIFO queue of its           *)
(* docstring until put_priority is called.                                 *)
(***************************************************************************)
EXTENDS EventQueue, FiniteSetTheorems, TLAPS

(* A thread that is inside put or put_priority has begun a call.           *)
CallInv == \A t \in Producers \cup Controllers :
             pc[t] # "idle" => calls[t] # 0

(* The lock is held by a controller exactly while it is inside the `with`  *)
(* block of put_priority.                                                  *)
LockInv == \A t \in Controllers :
             lock = t <=> pc[t] \in {"drain", "insert", "requeue"}

TypeInv == TypeOK /\ CallInv /\ LockInv

IInv == TypeInv /\ CountersBalance /\ DepthNotNegative

----------------------------------------------------------------------------
(* Appending, and taking the head of, a sequence.                          *)
LEMMA SequenceFacts ==
  ASSUME NEW S, NEW s \in Seq(S)
  PROVE  /\ Len(s) \in Nat
         /\ \A e \in S : Append(s, e) \in Seq(S) /\ Len(Append(s, e)) = Len(s) + 1
         /\ s # <<>> => /\ Head(s) \in S /\ Tail(s) \in Seq(S)
                        /\ Len(Tail(s)) = Len(s) - 1
  OBVIOUS

(* The event of a call in progress is an event.                            *)
LEMMA EventOfType ==
  ASSUME TypeOK, NEW t \in Producers \cup Controllers, calls[t] # 0
  PROVE  EventOf(t) \in Events
  BY DEF TypeOK, EventOf, Events

(* The sets of threads between two steps are finite, in any state.         *)
LEMMA InFlightFinite ==
  /\ IsFiniteSet(Putting) /\ Cardinality(Putting) \in Nat
  /\ IsFiniteSet(Getting) /\ Cardinality(Getting) \in Nat
  <1>1. Putting \in SUBSET Producers /\ Getting \in SUBSET Consumers
    BY DEF Putting, Getting
  <1> QED BY <1>1, ThreadsAssumption, FS_Subset, FS_CardinalityType

----------------------------------------------------------------------------
(* Every step keeps the types, and the lock with its holder.               *)
LEMMA TypeStep ==
  ASSUME TypeInv, [Next]_vars
  PROVE  TypeInv'
  <1> USE ThreadsAssumption DEF TypeInv, TypeOK, CallInv, LockInv, Threads,
          Goto, Begin, counters
  <1>1. ASSUME NEW p \in Producers, PutCount(p) PROVE TypeInv'
    BY <1>1 DEF PutCount
  <1>2. ASSUME NEW p \in Producers, PutInsert(p) PROVE TypeInv'
    <2>1. EventOf(p) \in Events BY <1>2, EventOfType DEF PutInsert
    <2> QED BY <1>2, <2>1 DEF PutInsert
  <1>3. ASSUME NEW t \in Controllers, PriorityLock(t) PROVE TypeInv'
    BY <1>3 DEF PriorityLock
  <1>4. ASSUME NEW t \in Controllers, PriorityDrain(t) PROVE TypeInv'
    BY <1>4, SequenceFacts DEF PriorityDrain
  <1>5. ASSUME NEW t \in Controllers, PriorityDrained(t) PROVE TypeInv'
    BY <1>5 DEF PriorityDrained
  <1>6. ASSUME NEW t \in Controllers, PriorityInsert(t) PROVE TypeInv'
    <2>1. EventOf(t) \in Events BY <1>6, EventOfType DEF PriorityInsert
    <2> QED BY <1>6, <2>1 DEF PriorityInsert
  <1>7. ASSUME NEW t \in Controllers, PriorityRequeue(t) PROVE TypeInv'
    BY <1>7, SequenceFacts DEF PriorityRequeue
  <1>8. ASSUME NEW t \in Controllers, PriorityUnlock(t) PROVE TypeInv'
    BY <1>8 DEF PriorityUnlock
  <1>9. ASSUME NEW c \in Consumers, GetWait(c) PROVE TypeInv'
    BY <1>9 DEF GetWait
  <1>10. ASSUME NEW c \in Consumers, GetTake(c) PROVE TypeInv'
    BY <1>10, SequenceFacts DEF GetTake
  <1>11. ASSUME NEW c \in Consumers, GetCount(c) PROVE TypeInv'
    BY <1>11 DEF GetCount
  <1>12. ASSUME NEW c \in Consumers, GetNone(c) PROVE TypeInv'
    BY <1>12 DEF GetNone
  <1>13. ASSUME NEW f \in Flushers, FlushTake(f) PROVE TypeInv'
    BY <1>13, SequenceFacts DEF FlushTake
  <1>14. ASSUME NEW f \in Flushers, FlushDone(f) PROVE TypeInv'
    BY <1>14 DEF FlushDone
  <1>15. CASE UNCHANGED vars
    BY <1>15 DEF vars
  <1> QED
    BY <1>1, <1>2, <1>3, <1>4, <1>5, <1>6, <1>7, <1>8, <1>9, <1>10, <1>11,
       <1>12, <1>13, <1>14, <1>15
       DEF Next, PutStep, PriorityStep, GetStep, FlushStep

LEMMA TypeInit == Init => TypeInv
  BY ThreadsAssumption DEF Init, TypeInv, TypeOK, CallInv, LockInv, Threads

(* Every variable keeps its type, and a lock taken by put_priority is held *)
(* by the one controller that is inside it.                                *)
THEOREM TypeCorrect == Spec => []TypeOK
  <1>1. TypeInv => TypeOK BY DEF TypeInv
  <1> QED BY <1>1, TypeInit, TypeStep, PTL DEF Spec
----------------------------------------------------------------------------
(* A producer that passes from one step of put to the next enters or       *)
(* leaves Putting alone, and so a consumer Getting.                        *)
LEMMA PuttingEnter ==
  ASSUME TypeInv, NEW p \in Producers, pc[p] # "counted", Goto(p, "counted")
  PROVE  Cardinality(Putting') = Cardinality(Putting) + 1 /\ Getting' = Getting
  <1>1. Putting' = Putting \cup {p} /\ p \notin Putting
    BY ThreadsAssumption DEF Putting, Goto, TypeInv, TypeOK, Threads
  <1>2. Getting' = Getting
    BY ThreadsAssumption DEF Getting, Goto, TypeInv, TypeOK, Threads
  <1> QED BY <1>1, <1>2, InFlightFinite, FS_AddElement

LEMMA PuttingLeave ==
  ASSUME TypeInv, NEW p \in Producers, pc[p] = "counted", Goto(p, "idle")
  PROVE  Cardinality(Putting') = Cardinality(Putting) - 1 /\ Getting' = Getting
  <1>1. Putting' = Putting \ {p} /\ p \in Putting
    BY ThreadsAssumption DEF Putting, Goto, TypeInv, TypeOK, Threads
  <1>2. Getting' = Getting
    BY ThreadsAssumption DEF Getting, Goto, TypeInv, TypeOK, Threads
  <1> QED BY <1>1, <1>2, InFlightFinite, FS_RemoveElement

LEMMA GettingEnter ==
  ASSUME TypeInv, NEW c \in Consumers, pc[c] # "got", Goto(c, "got")
  PROVE  Cardinality(Getting') = Cardinality(Getting) + 1 /\ Putting' = Putting
  <1>1. Getting' = Getting \cup {c} /\ c \notin Getting
    BY ThreadsAssumption DEF Getting, Goto, TypeInv, TypeOK, Threads
  <1>2. Putting' = Putting
    BY ThreadsAssumption DEF Putting, Goto, TypeInv, TypeOK, Threads
  <1> QED BY <1>1, <1>2, InFlightFinite, FS_AddElement

LEMMA GettingLeave ==
  ASSUME TypeInv, NEW c \in Consumers, pc[c] = "got", Goto(c, "idle")
  PROVE  /\ Cardinality(Getting') = Cardinality(Getting) - 1
         /\ Cardinality(Getting) > 0 /\ Putting' = Putting
  <1>1. Getting' = Getting \ {c} /\ c \in Getting
    BY ThreadsAssumption DEF Getting, Goto, TypeInv, TypeOK, Threads
  <1>2. Putting' = Putting
    BY ThreadsAssumption DEF Putting, Goto, TypeInv, TypeOK, Threads
  <1> QED BY <1>1, <1>2, InFlightFinite, FS_RemoveElement, FS_EmptySet

(* A thread of another role, or a consumer that has taken nothing, leaves  *)
(* both sets as they are.                                                  *)
LEMMA InFlightSame ==
  ASSUME TypeInv, NEW t \in Threads, NEW label, Goto(t, label),
         t \notin Producers, t \in Consumers => pc[t] # "got" /\ label # "got"
  PROVE  Putting' = Putting /\ Getting' = Getting
  BY ThreadsAssumption DEF Putting, Getting, Goto, TypeInv, TypeOK, Threads

(* While the lock is free, or its holder has yet to insert, nothing is     *)
(* uncounted; only a step of the holder changes that.                      *)
LEMMA UncountedFacts ==
  ASSUME TypeInv
  PROVE  /\ Uncounted \in {0, 1}
         /\ lock = NoThread => Uncounted = 0
         /\ \A t \in Controllers : pc[t] \in {"drain", "insert"} => Uncounted = 0
         /\ \A t \in Controllers : pc[t] = "requeue" => Uncounted = 1
  BY ThreadsAssumption DEF Uncounted, TypeInv, TypeOK, LockInv, Threads

(* Every step keeps the balance of the counters and their order.           *)
LEMMA CountersStep ==
  ASSUME IInv, [Next]_vars
  PROVE  CountersBalance' /\ DepthNotNegative'
  <1>0. TypeInv /\ TypeInv'
    BY TypeStep DEF IInv
  <1>a. /\ CountersBalance /\ DepthNotNegative
        /\ total_enqueued \in Nat /\ total_dequeued \in Nat
        /\ Len(queue) \in Nat /\ Len(buffer) \in Nat /\ Len(dropped) \in Nat
    BY SequenceFacts DEF IInv, TypeInv, TypeOK
  <1>b. Uncounted' \in {0, 1} /\ Uncounted \in {0, 1}
    BY <1>0, UncountedFacts, ThreadsAssumption
       DEF Uncounted, TypeInv, TypeOK, LockInv, Threads
  <1>c. /\ queue # <<>> => Len(Tail(queue)) = Len(queue) - 1
        /\ buffer # <<>> => Len(Tail(buffer)) = Len(buffer) - 1
        /\ \A e \in Events : /\ Len(Append(queue, e)) = Len(queue) + 1
                             /\ Len(Append(buffer, e)) = Len(buffer) + 1
                             /\ Len(Append(dropped, e)) = Len(dropped) + 1
        /\ queue # <<>> => Head(queue) \in Events
        /\ buffer # <<>> => Head(buffer) \in Events
    BY <1>0, SequenceFacts DEF TypeInv, TypeOK
  <1> USE InFlightFinite DEF counters
  <1>1. ASSUME NEW p \in Producers, PutCount(p)
        PROVE  CountersBalance' /\ DepthNotNegative'
    <2>1. Cardinality(Putting') = Cardinality(Putting) + 1 /\ Getting' = Getting
      BY <1>0, <1>1, PuttingEnter DEF PutCount
    <2>2. Uncounted = 0 /\ Uncounted' = 0
      BY <1>0, <1>1, UncountedFacts DEF PutCount, Uncounted
    <2> QED BY <1>1, <1>a, <2>1, <2>2 DEF PutCount, CountersBalance, DepthNotNegative
  <1>2. ASSUME NEW p \in Producers, PutInsert(p)
        PROVE  CountersBalance' /\ DepthNotNegative'
    <2>1. Cardinality(Putting') = Cardinality(Putting) - 1 /\ Getting' = Getting
      BY <1>0, <1>2, PuttingLeave DEF PutInsert
    <2>2. Uncounted' = Uncounted
      BY <1>0, <1>2, ThreadsAssumption
         DEF PutInsert, Uncounted, Goto, TypeInv, TypeOK, Threads
    <2>3. Len(queue') = Len(queue) + 1
      BY <1>0, <1>2, EventOfType, SequenceFacts
         DEF PutInsert, TypeInv, TypeOK, CallInv
    <2> QED BY <1>2, <1>a, <1>b, <2>1, <2>2, <2>3
            DEF PutInsert, CountersBalance, DepthNotNegative
  <1>3. ASSUME NEW t \in Controllers, PriorityLock(t)
        PROVE  CountersBalance' /\ DepthNotNegative'
    <2>1. Putting' = Putting /\ Getting' = Getting
      BY <1>0, <1>3, InFlightSame, ThreadsAssumption DEF PriorityLock, Threads
    <2>2. Uncounted = 0 /\ Uncounted' = 0
      BY <1>0, <1>3, UncountedFacts, ThreadsAssumption
         DEF PriorityLock, Goto, Uncounted, TypeInv, TypeOK, Threads
    <2> QED BY <1>3, <1>a, <2>1, <2>2
            DEF PriorityLock, CountersBalance, DepthNotNegative
  <1>4. ASSUME NEW t \in Controllers, PriorityDrain(t)
        PROVE  CountersBalance' /\ DepthNotNegative'
    <2>1. Putting' = Putting /\ Getting' = Getting /\ Uncounted' = Uncounted
      BY <1>4 DEF PriorityDrain, Putting, Getting, Uncounted
    <2>2. Len(queue') = Len(queue) - 1 /\ Len(buffer') = Len(buffer) + 1
      BY <1>4, <1>c DEF PriorityDrain
    <2>3. UNCHANGED <<total_enqueued, total_dequeued, dropped>>
      BY <1>4 DEF PriorityDrain
    <2> QED BY <1>a, <1>b, <2>1, <2>2, <2>3, SMTT(30) DEF CountersBalance, DepthNotNegative
  <1>5. ASSUME NEW t \in Controllers, PriorityDrained(t)
        PROVE  CountersBalance' /\ DepthNotNegative'
    <2>1. Putting' = Putting /\ Getting' = Getting
      BY <1>0, <1>5, InFlightSame, ThreadsAssumption DEF PriorityDrained, Threads
    <2>2. Uncounted = 0 /\ Uncounted' = 0
      BY <1>0, <1>5, UncountedFacts, ThreadsAssumption
         DEF PriorityDrained, Goto, Uncounted, TypeInv, TypeOK, LockInv, Threads
    <2> QED BY <1>5, <1>a, <2>1, <2>2
            DEF PriorityDrained, CountersBalance, DepthNotNegative
  <1>6. ASSUME NEW t \in Controllers, PriorityInsert(t)
        PROVE  CountersBalance' /\ DepthNotNegative'
    <2>1. Putting' = Putting /\ Getting' = Getting
      BY <1>0, <1>6, InFlightSame, ThreadsAssumption DEF PriorityInsert, Threads
    <2>2. Uncounted = 0 /\ Uncounted' = 1
      BY <1>0, <1>6, UncountedFacts, ThreadsAssumption
         DEF PriorityInsert, Goto, Uncounted, TypeInv, TypeOK, LockInv, Threads
    <2>3. Len(queue') = Len(queue) + 1
      BY <1>0, <1>6, <1>c, EventOfType DEF PriorityInsert, TypeInv, CallInv
    <2> QED BY <1>6, <1>a, <2>1, <2>2, <2>3
            DEF PriorityInsert, CountersBalance, DepthNotNegative
  <1>7. ASSUME NEW t \in Controllers, PriorityRequeue(t)
        PROVE  CountersBalance' /\ DepthNotNegative'
    <2>1. Putting' = Putting /\ Getting' = Getting /\ Uncounted' = Uncounted
      BY <1>7 DEF PriorityRequeue, Putting, Getting, Uncounted
    <2>2. /\ Len(queue') + Len(buffer') = Len(queue) + Len(buffer)
          /\ Len(queue') \in Int /\ Len(buffer') \in Int
      BY <1>7, <1>a, <1>c DEF PriorityRequeue
    <2>3. UNCHANGED <<total_enqueued, total_dequeued, dropped>>
      BY <1>7 DEF PriorityRequeue
    <2> QED BY <1>a, <1>b, <2>1, <2>2, <2>3 DEF CountersBalance, DepthNotNegative
  <1>8. ASSUME NEW t \in Controllers, PriorityUnlock(t)
        PROVE  CountersBalance' /\ DepthNotNegative'
    <2>1. Putting' = Putting /\ Getting' = Getting
      BY <1>0, <1>8, InFlightSame, ThreadsAssumption DEF PriorityUnlock, Threads
    <2>2. Uncounted = 1 /\ Uncounted' = 0
      BY <1>0, <1>8, UncountedFacts DEF PriorityUnlock, Uncounted
    <2> QED BY <1>8, <1>a, <2>1, <2>2
            DEF PriorityUnlock, CountersBalance, DepthNotNegative
  <1>9. ASSUME NEW c \in Consumers, GetWait(c) \/ GetNone(c)
        PROVE  CountersBalance' /\ DepthNotNegative'
    <2>1. Putting' = Putting /\ Getting' = Getting
      BY <1>0, <1>9, InFlightSame, ThreadsAssumption DEF GetWait, GetNone, Threads
    <2>2. Uncounted' = Uncounted
      BY <1>0, <1>9, ThreadsAssumption
         DEF GetWait, GetNone, Goto, Uncounted, TypeInv, TypeOK, Threads
    <2> QED BY <1>9, <1>a, <1>b, <2>1, <2>2
            DEF GetWait, GetNone, CountersBalance, DepthNotNegative
  <1>10. ASSUME NEW c \in Consumers, GetTake(c)
         PROVE  CountersBalance' /\ DepthNotNegative'
    <2>1. Cardinality(Getting') = Cardinality(Getting) + 1 /\ Putting' = Putting
      BY <1>0, <1>10, GettingEnter DEF GetTake
    <2>2. Uncounted' = Uncounted
      BY <1>0, <1>10, ThreadsAssumption
         DEF GetTake, Goto, Uncounted, TypeInv, TypeOK, Threads
    <2>3. Len(queue') = Len(queue) - 1
      BY <1>10, <1>c DEF GetTake
    <2> QED BY <1>10, <1>a, <1>b, <2>1, <2>2, <2>3
            DEF GetTake, CountersBalance, DepthNotNegative
  (* The consumer's own count waits for the lock: with the lock free nothing *)
  (* is uncounted, and the consumer is one of Getting.                       *)
  <1>11. ASSUME NEW c \in Consumers, GetCount(c)
         PROVE  CountersBalance' /\ DepthNotNegative'
    <2>1. /\ Cardinality(Getting') = Cardinality(Getting) - 1
          /\ Cardinality(Getting) > 0 /\ Putting' = Putting
      BY <1>0, <1>11, GettingLeave DEF GetCount
    <2>2. Uncounted = 0 /\ Uncounted' = 0
      BY <1>0, <1>11, UncountedFacts DEF GetCount, Uncounted
    <2> QED BY <1>11, <1>a, <2>1, <2>2
            DEF GetCount, CountersBalance, DepthNotNegative
  <1>12. ASSUME NEW f \in Flushers, FlushTake(f) \/ FlushDone(f)
         PROVE  CountersBalance' /\ DepthNotNegative'
    <2>1. Putting' = Putting /\ Getting' = Getting
      BY <1>0, <1>12, InFlightSame, ThreadsAssumption
         DEF FlushTake, FlushDone, Threads
    <2>2. Uncounted' = Uncounted
      BY <1>0, <1>12, ThreadsAssumption
         DEF FlushTake, FlushDone, Goto, Uncounted, TypeInv, TypeOK, Threads
    <2>3. Len(queue') + Len(dropped') = Len(queue) + Len(dropped)
      BY <1>12, <1>a, <1>c DEF FlushTake, FlushDone
    <2>4. Len(queue') \in Nat /\ Len(dropped') \in Nat
      BY <1>0, SequenceFacts DEF TypeInv, TypeOK
    <2>5. UNCHANGED <<total_enqueued, total_dequeued, buffer>>
      BY <1>12 DEF FlushTake, FlushDone
    <2> QED BY <1>a, <1>b, <2>1, <2>2, <2>3, <2>4, <2>5
            DEF CountersBalance, DepthNotNegative
  <1>13. CASE UNCHANGED vars
    BY <1>13, <1>a DEF vars, CountersBalance, DepthNotNegative, Putting, Getting,
                       Uncounted
  <1> QED
    BY <1>1, <1>2, <1>3, <1>4, <1>5, <1>6, <1>7, <1>8, <1>9, <1>10, <1>11,
       <1>12, <1>13
       DEF IInv, Next, PutStep, PriorityStep, GetStep, FlushStep

LEMMA IInvInvariant == Spec => []IInv
  <1>1. Init => IInv
    <2>1. ASSUME Init PROVE CountersBalance /\ DepthNotNegative
      <3>1. Putting = {} /\ Getting = {} /\ Uncounted = 0
        BY <2>1 DEF Init, Putting, Getting, Uncounted, Threads
      <3> QED BY <2>1, <3>1, FS_EmptySet DEF Init, CountersBalance, DepthNotNegative
    <2> QED BY <2>1, TypeInit DEF IInv
  <1>2. ASSUME IInv, [Next]_vars PROVE IInv'
    BY <1>2, TypeStep, CountersStep DEF IInv
  <1> QED BY <1>1, <1>2, PTL DEF Spec

(* The two counters account for every event, however the threads           *)
(* interleave.                                                             *)
THEOREM CountersCorrect == Spec => []CountersBalance
  BY IInvInvariant, PTL DEF IInv

(* stats() never reports a negative depth, although it is counted in after *)
(* the event is on the queue by put_priority and out after it left.        *)
THEOREM DepthCorrect == Spec => []DepthNotNegative
  BY IInvInvariant, PTL DEF IInv

----------------------------------------------------------------------------
(* Only a call of put_priority leaves FIFO order behind; what the other    *)
(* methods do to the queue and to the answers is a step of FifoQueue.      *)
LEMMA FifoStep ==
  ASSUME TypeInv, [Next]_vars
  PROVE  [Fifo!Next]_Fifo!vars
  <1> USE DEF Fifo!Next, Fifo!FifoStep, Fifo!vars, counters
  <1>0. /\ \A p \in Producers : p \notin Controllers
        /\ calls \in [Producers \cup Controllers -> 0..MaxCalls] /\ MaxCalls \in Nat
    BY ThreadsAssumption DEF TypeInv, TypeOK
  <1>1. ASSUME NEW p \in Producers, PutCount(p) PROVE [Fifo!Next]_Fifo!vars
    <2>1. \A t \in Controllers : calls'[t] = calls[t]
      BY <1>0, <1>1 DEF PutCount, Begin
    <2> QED BY <1>1, <2>1 DEF PutCount
  <1>2. ASSUME NEW p \in Producers, PutInsert(p) PROVE [Fifo!Next]_Fifo!vars
    <2>1. EventOf(p) \in Events
      BY <1>2, EventOfType DEF TypeInv, CallInv, PutInsert
    <2>2. Fifo!Put BY <1>2, <2>1 DEF PutInsert, Fifo!Put
    <2> QED BY <1>2, <2>2 DEF PutInsert
  <1>3. ASSUME NEW t \in Controllers, PriorityLock(t) PROVE [Fifo!Next]_Fifo!vars
    <2>1. calls'[t] > 0 BY <1>0, <1>3 DEF PriorityLock, Begin
    <2> QED BY <2>1
  <1>4. ASSUME NEW t \in Controllers,
               \/ PriorityDrain(t) \/ PriorityDrained(t) \/ PriorityInsert(t)
               \/ PriorityRequeue(t) \/ PriorityUnlock(t)
        PROVE  [Fifo!Next]_Fifo!vars
    <2>1. calls'[t] = calls[t] /\ pc[t] # "idle"
      BY <1>4 DEF PriorityDrain, PriorityDrained, PriorityInsert, PriorityRequeue,
                  PriorityUnlock
    <2>2. calls'[t] > 0 BY <1>0, <2>1 DEF TypeInv, CallInv
    <2> QED BY <2>2
  <1>5. ASSUME NEW c \in Consumers, GetWait(c) \/ GetCount(c)
        PROVE  [Fifo!Next]_Fifo!vars
    BY <1>5 DEF GetWait, GetCount
  <1>6. ASSUME NEW c \in Consumers, GetTake(c) PROVE [Fifo!Next]_Fifo!vars
    <2>1. Fifo!Take(c) BY <1>6 DEF GetTake, Fifo!Take
    <2> QED BY <1>6, <2>1 DEF GetTake
  <1>7. ASSUME NEW c \in Consumers, GetNone(c) PROVE [Fifo!Next]_Fifo!vars
    <2>1. Fifo!TakeNone(c) BY <1>7 DEF GetNone, Fifo!TakeNone
    <2> QED BY <1>7, <2>1 DEF GetNone
  <1>8. ASSUME NEW f \in Flushers, FlushTake(f) PROVE [Fifo!Next]_Fifo!vars
    <2>1. Fifo!Drop BY <1>8 DEF FlushTake, Fifo!Drop
    <2> QED BY <1>8, <2>1 DEF FlushTake
  <1>9. ASSUME NEW f \in Flushers, FlushDone(f) PROVE [Fifo!Next]_Fifo!vars
    BY <1>9 DEF FlushDone
  <1>10. CASE UNCHANGED vars
    BY <1>10 DEF vars
  <1> QED
    BY <1>1, <1>2, <1>3, <1>4, <1>5, <1>6, <1>7, <1>8, <1>9, <1>10
       DEF Next, PutStep, PriorityStep, GetStep, FlushStep

(* The queue with its locks, counters and steps implements the FIFO queue  *)
(* of the docstring: until put_priority is called, every get is answered   *)
(* with the event that has waited longest, and None only when there is     *)
(* none, whatever calls are in progress.                                   *)
THEOREM ImplementsFifo == Spec => RefinesFifo
  <1>1. Init => Fifo!Init
    BY DEF Init, Fifo!Init
  <1>2. Spec => []TypeInv
    BY TypeInit, TypeStep, PTL DEF Spec
  <1>3. TypeInv /\ [Next]_vars => [Fifo!Next]_Fifo!vars
    BY FifoStep
  <1> QED BY <1>1, <1>2, <1>3, PTL DEF Spec, RefinesFifo, Fifo!Spec

----------------------------------------------------------------------------
(* Where the events are: no sequence holds one twice, no two hold the same *)
(* one, and together they hold those inserted.                             *)
Elems(s) == {s[i] : i \in 1..Len(s)}
Once(s) == \A i, j \in 1..Len(s) : s[i] = s[j] => i = j

PlacesInv ==
  /\ Once(queue) /\ Once(buffer) /\ Once(taken) /\ Once(dropped)
  /\ Elems(queue) \cap (Elems(buffer) \cup Elems(taken) \cup Elems(dropped)) = {}
  /\ Elems(buffer) \cap (Elems(taken) \cup Elems(dropped)) = {}
  /\ Elems(taken) \cap Elems(dropped) = {}
  /\ Elems(queue) \cup Elems(buffer) \cup Elems(taken) \cup Elems(dropped) = Inserted

LEMMA AppendOnce ==
  ASSUME NEW S, NEW s \in Seq(S), NEW e \in S, Once(s), e \notin Elems(s)
  PROVE  Once(Append(s, e)) /\ Elems(Append(s, e)) = Elems(s) \cup {e}
  <1>1. /\ Len(Append(s, e)) = Len(s) + 1 /\ Len(s) \in Nat
        /\ \A i \in 1..Len(s) : Append(s, e)[i] = s[i]
        /\ Append(s, e)[Len(s) + 1] = e
    OBVIOUS
  <1> QED BY <1>1 DEF Once, Elems

LEMMA TailOnce ==
  ASSUME NEW S, NEW s \in Seq(S), s # <<>>, Once(s)
  PROVE  /\ Once(Tail(s)) /\ Elems(Tail(s)) = Elems(s) \ {Head(s)}
         /\ Head(s) \in Elems(s) /\ Head(s) \in S
  <1>1. /\ Len(s) \in Nat /\ Len(s) > 0 /\ Head(s) = s[1] /\ s[1] \in S
        /\ Len(Tail(s)) = Len(s) - 1
        /\ \A i \in 1..(Len(s) - 1) : Tail(s)[i] = s[i + 1]
    OBVIOUS
  <1>2. Once(Tail(s)) BY <1>1 DEF Once
  <1>3. ASSUME NEW i \in 1..Len(s), s[i] # s[1]
        PROVE  i - 1 \in 1..(Len(s) - 1) /\ Tail(s)[i - 1] = s[i]
    BY <1>1, <1>3
  <1>4. Elems(Tail(s)) = Elems(s) \ {Head(s)}
    BY <1>1, <1>3 DEF Elems, Once
  <1>5. Head(s) \in Elems(s)
    <2>1. 1 \in 1..Len(s) BY <1>1
    <2> QED BY <1>1, <2>1 DEF Elems
  <1> QED BY <1>1, <1>2, <1>4, <1>5

LEMMA ConcatOnce ==
  ASSUME NEW S, NEW s \in Seq(S), NEW t \in Seq(S), Once(s), Once(t),
         Elems(s) \cap Elems(t) = {}
  PROVE  /\ s \o t \in Seq(S) /\ Len(s \o t) = Len(s) + Len(t)
         /\ Once(s \o t) /\ Elems(s \o t) = Elems(s) \cup Elems(t)
  <1>1. /\ s \o t \in Seq(S) /\ Len(s \o t) = Len(s) + Len(t)
        /\ Len(s) \in Nat /\ Len(t) \in Nat
        /\ \A i \in 1..Len(s) : (s \o t)[i] = s[i]
        /\ \A i \in 1..Len(t) : (s \o t)[Len(s) + i] = t[i]
    OBVIOUS
  <1>2. ASSUME NEW i \in 1..Len(s \o t)
        PROVE  \/ i \in 1..Len(s) /\ (s \o t)[i] = s[i]
               \/ /\ i - Len(s) \in 1..Len(t) /\ (s \o t)[i] = t[i - Len(s)]
                  /\ i \notin 1..Len(s)
    BY <1>1
  <1>3. ASSUME NEW i \in 1..Len(t)
        PROVE  Len(s) + i \in 1..Len(s \o t) /\ (s \o t)[Len(s) + i] = t[i]
    BY <1>1
  <1>4. \A i \in 1..Len(s) : i \in 1..Len(s \o t)
    BY <1>1
  <1>5. Elems(s \o t) = Elems(s) \cup Elems(t)
    BY <1>1, <1>2, <1>3, <1>4 DEF Elems
  <1>6. \A i \in 1..Len(s), j \in 1..Len(t) : s[i] # t[j]
    BY DEF Elems
  <1>7. Once(s \o t)
    BY <1>1, <1>2, <1>6 DEF Once
  <1> QED BY <1>1, <1>5, <1>7

LEMMA OnceCounts ==
  ASSUME NEW S, NEW s \in Seq(S), Once(s)
  PROVE  Len(s) = Cardinality(Elems(s))
  <1>1. Len(s) \in Nat /\ s \in [1..Len(s) -> S] OBVIOUS
  <1>2. s \in Bijection(1..Len(s), Elems(s))
    BY <1>1 DEF Once, Elems, Bijection, Injection, Surjection, IsInjective
  <1>3. IsFiniteSet(1..Len(s)) /\ Cardinality(1..Len(s)) = Len(s)
    BY <1>1, FS_Interval
  <1>4. ExistsBijection(1..Len(s), Elems(s)) BY <1>2, Zenon DEF ExistsBijection
  <1> QED BY <1>3, <1>4, FS_Bijection, Zenon

(* A step that leaves the calls where they are, with respect to insertion, *)
(* leaves Inserted alone, and an insertion adds its event.                 *)
InsertedBy(u, n) == \/ n < calls[u]
                    \/ n = calls[u] /\ pc[u] \in {"idle", "requeue"}

LEMMA InsertedSame ==
  ASSUME \A u \in Producers \cup Controllers : \A n \in 1..MaxCalls :
           InsertedBy(u, n)' <=> InsertedBy(u, n)
  PROVE  Inserted' = Inserted
  <1>1. \A e \in Events : e.by \in Producers \cup Controllers /\ e.n \in 1..MaxCalls
    BY DEF Events
  <1>2. /\ Inserted = {e \in Events : InsertedBy(e.by, e.n)}
        /\ Inserted' = {e \in Events : InsertedBy(e.by, e.n)'}
    BY DEF Inserted, InsertedBy
  <1> QED BY <1>1, <1>2

LEMMA InsertedMore ==
  ASSUME TypeInv, NEW t \in Producers \cup Controllers, calls[t] # 0,
         pc[t] \notin {"idle", "requeue"}, calls' = calls,
         pc' = [pc EXCEPT ![t] = "idle"] \/ pc' = [pc EXCEPT ![t] = "requeue"]
  PROVE  /\ EventOf(t) \in Events /\ EventOf(t) \notin Inserted
         /\ Inserted' = Inserted \cup {EventOf(t)}
  <1>1. EventOf(t) \in Events BY EventOfType DEF TypeInv
  <1>2. /\ Inserted = {e \in Events : InsertedBy(e.by, e.n)}
        /\ Inserted' = {e \in Events : InsertedBy(e.by, e.n)'}
    BY DEF Inserted, InsertedBy
  <1>3. ~InsertedBy(t, calls[t]) /\ InsertedBy(t, calls[t])'
    BY ThreadsAssumption DEF InsertedBy, TypeInv, TypeOK, Threads
  <1>4. ASSUME NEW u \in Producers \cup Controllers, NEW n \in 1..MaxCalls,
               <<u, n>> # <<t, calls[t]>>
        PROVE  InsertedBy(u, n)' <=> InsertedBy(u, n)
    BY <1>4, ThreadsAssumption DEF InsertedBy, TypeInv, TypeOK, Threads
  <1>5. ASSUME NEW e \in Events
        PROVE  /\ e.by \in Producers \cup Controllers /\ e.n \in 1..MaxCalls
               /\ e # EventOf(t) => <<e.by, e.n>> # <<t, calls[t]>>
    BY DEF Events, EventOf
  <1>6. EventOf(t).by = t /\ EventOf(t).n = calls[t] BY DEF EventOf
  <1>7. \A e \in Events : e # EventOf(t) => (e \in Inserted' <=> e \in Inserted)
    BY <1>2, <1>4, <1>5
  <1> QED BY <1>1, <1>2, <1>3, <1>6, <1>7

LEMMA PlacesStep ==
  ASSUME TypeInv, PlacesInv, [Next]_vars
  PROVE  PlacesInv'
  <1> USE DEF counters
  <1>0. /\ queue \in Seq(Events) /\ buffer \in Seq(Events)
        /\ taken \in Seq(Events) /\ dropped \in Seq(Events)
        /\ calls \in [Producers \cup Controllers -> 0..MaxCalls] /\ MaxCalls \in Nat
        /\ pc \in [Threads -> {"idle", "counted", "drain", "insert", "requeue",
                                "waiting", "got", "flushing"}]
        /\ \A c \in Consumers \cup Flushers : c \notin Producers \cup Controllers
        /\ Producers \cup Controllers \subseteq Threads
    BY ThreadsAssumption DEF TypeInv, TypeOK, Threads
  <1>1. ASSUME NEW p \in Producers \cup Controllers, pc[p] = "idle", Begin(p),
               Goto(p, "counted") \/ Goto(p, "drain")
        PROVE  Inserted' = Inserted
    <2>1. \A u \in Producers \cup Controllers, n \in 1..MaxCalls :
            InsertedBy(u, n)' <=> InsertedBy(u, n)
      BY <1>0, <1>1 DEF InsertedBy, Begin, Goto
    <2> QED BY <2>1, InsertedSame
  <1>2. ASSUME calls' = calls,
               \A u \in Producers \cup Controllers :
                 pc'[u] \in {"idle", "requeue"} <=> pc[u] \in {"idle", "requeue"}
        PROVE  Inserted' = Inserted
    <2>1. \A u \in Producers \cup Controllers, n \in 1..MaxCalls :
            InsertedBy(u, n)' <=> InsertedBy(u, n)
      BY <1>2 DEF InsertedBy
    <2> QED BY <2>1, InsertedSame
  <1>3. ASSUME UNCHANGED <<queue, buffer, taken, dropped>>, Inserted' = Inserted
        PROVE  PlacesInv'
    <2>1. /\ Elems(queue)' = Elems(queue) /\ Elems(buffer)' = Elems(buffer)
          /\ Elems(taken)' = Elems(taken) /\ Elems(dropped)' = Elems(dropped)
      BY <1>3 DEF Elems
    <2>2. /\ Once(queue)' = Once(queue) /\ Once(buffer)' = Once(buffer)
          /\ Once(taken)' = Once(taken) /\ Once(dropped)' = Once(dropped)
      BY <1>3 DEF Once
    <2> QED BY <1>3, <2>1, <2>2 DEF PlacesInv
  <1>4. ASSUME NEW t \in Producers \cup Controllers, calls[t] # 0,
               pc[t] \notin {"idle", "requeue"}, calls' = calls,
               Goto(t, "idle") \/ Goto(t, "requeue"),
               queue' = Append(queue, EventOf(t)), UNCHANGED <<buffer, taken, dropped>>
        PROVE  PlacesInv'
    <2>1. /\ EventOf(t) \in Events /\ EventOf(t) \notin Inserted
          /\ Inserted' = Inserted \cup {EventOf(t)}
      BY <1>4, InsertedMore DEF Goto
    <2>2. EventOf(t) \notin Elems(queue) BY <2>1 DEF PlacesInv
    <2>3. Once(queue') /\ Elems(queue') = Elems(queue) \cup {EventOf(t)}
      BY <1>0, <1>4, <2>1, <2>2, AppendOnce DEF PlacesInv
    <2>4. /\ Once(buffer') /\ Once(taken') /\ Once(dropped')
          /\ Elems(buffer') = Elems(buffer) /\ Elems(taken') = Elems(taken)
          /\ Elems(dropped') = Elems(dropped)
      BY <1>4 DEF PlacesInv, Once, Elems
    <2> QED BY <2>1, <2>3, <2>4 DEF PlacesInv
  <1>5. CASE \E p \in Producers : PutCount(p)
    BY <1>1, <1>3, <1>5 DEF PutCount
  <1>6. CASE \E p \in Producers : PutInsert(p)
    BY <1>4, <1>6 DEF PutInsert, TypeInv, CallInv
  <1>7. CASE \E t \in Controllers : PriorityLock(t)
    BY <1>1, <1>3, <1>7 DEF PriorityLock
  <1>8. ASSUME NEW t \in Controllers, PriorityDrain(t) PROVE PlacesInv'
    <2>1. Inserted' = Inserted BY <1>2, <1>8 DEF PriorityDrain
    <2>2. /\ Once(queue') /\ Elems(queue') = Elems(queue) \ {Head(queue)}
          /\ Head(queue) \in Elems(queue) /\ Head(queue) \in Events
      BY <1>0, <1>8, TailOnce DEF PriorityDrain, PlacesInv
    <2>3. Head(queue) \notin Elems(buffer) BY <2>2 DEF PlacesInv
    <2>4. Once(buffer') /\ Elems(buffer') = Elems(buffer) \cup {Head(queue)}
      BY <1>0, <1>8, <2>2, <2>3, AppendOnce DEF PriorityDrain, PlacesInv
    <2>5. /\ Once(taken') /\ Once(dropped')
          /\ Elems(taken') = Elems(taken) /\ Elems(dropped') = Elems(dropped)
      BY <1>8 DEF PriorityDrain, PlacesInv, Once, Elems
    <2> QED BY <2>1, <2>2, <2>4, <2>5 DEF PlacesInv
  <1>9. ASSUME NEW t \in Controllers, PriorityDrained(t) \/ PriorityUnlock(t)
        PROVE  PlacesInv'
    <2>1. Inserted' = Inserted
      BY <1>0, <1>2, <1>9 DEF PriorityDrained, PriorityUnlock, Goto
    <2> QED BY <1>3, <1>9, <2>1 DEF PriorityDrained, PriorityUnlock
  <1>10. CASE \E t \in Controllers : PriorityInsert(t)
    BY <1>4, <1>10 DEF PriorityInsert, TypeInv, CallInv
  <1>11. ASSUME NEW t \in Controllers, PriorityRequeue(t) PROVE PlacesInv'
    <2>1. Inserted' = Inserted BY <1>2, <1>11 DEF PriorityRequeue
    <2>2. /\ Once(buffer') /\ Elems(buffer') = Elems(buffer) \ {Head(buffer)}
          /\ Head(buffer) \in Elems(buffer) /\ Head(buffer) \in Events
      BY <1>0, <1>11, TailOnce DEF PriorityRequeue, PlacesInv
    <2>3. Head(buffer) \notin Elems(queue) BY <2>2 DEF PlacesInv
    <2>4. Once(queue') /\ Elems(queue') = Elems(queue) \cup {Head(buffer)}
      BY <1>0, <1>11, <2>2, <2>3, AppendOnce DEF PriorityRequeue, PlacesInv
    <2>5. /\ Once(taken') /\ Once(dropped')
          /\ Elems(taken') = Elems(taken) /\ Elems(dropped') = Elems(dropped)
      BY <1>11 DEF PriorityRequeue, PlacesInv, Once, Elems
    <2> QED BY <2>1, <2>2, <2>4, <2>5 DEF PlacesInv
  <1>12. ASSUME NEW c \in Consumers, GetWait(c) \/ GetCount(c) \/ GetNone(c)
         PROVE  PlacesInv'
    <2>1. Inserted' = Inserted
      BY <1>0, <1>2, <1>12 DEF GetWait, GetCount, GetNone, Goto
    <2> QED BY <1>3, <1>12, <2>1 DEF GetWait, GetCount, GetNone
  <1>13. ASSUME NEW c \in Consumers, GetTake(c) PROVE PlacesInv'
    <2>1. Inserted' = Inserted BY <1>0, <1>2, <1>13 DEF GetTake, Goto
    <2>2. /\ Once(queue') /\ Elems(queue') = Elems(queue) \ {Head(queue)}
          /\ Head(queue) \in Elems(queue) /\ Head(queue) \in Events
      BY <1>0, <1>13, TailOnce DEF GetTake, PlacesInv
    <2>3. Head(queue) \notin Elems(taken) BY <2>2 DEF PlacesInv
    <2>4. Once(taken') /\ Elems(taken') = Elems(taken) \cup {Head(queue)}
      BY <1>0, <1>13, <2>2, <2>3, AppendOnce DEF GetTake, PlacesInv
    <2>5. /\ Once(buffer') /\ Once(dropped')
          /\ Elems(buffer') = Elems(buffer) /\ Elems(dropped') = Elems(dropped)
      BY <1>13 DEF GetTake, PlacesInv, Once, Elems
    <2> QED BY <2>1, <2>2, <2>4, <2>5 DEF PlacesInv
  <1>14. ASSUME NEW f \in Flushers, FlushTake(f) PROVE PlacesInv'
    <2>1. Inserted' = Inserted BY <1>0, <1>2, <1>14 DEF FlushTake, Goto
    <2>2. /\ Once(queue') /\ Elems(queue') = Elems(queue) \ {Head(queue)}
          /\ Head(queue) \in Elems(queue) /\ Head(queue) \in Events
      BY <1>0, <1>14, TailOnce DEF FlushTake, PlacesInv
    <2>3. Head(queue) \notin Elems(dropped) BY <2>2 DEF PlacesInv
    <2>4. Once(dropped') /\ Elems(dropped') = Elems(dropped) \cup {Head(queue)}
      BY <1>0, <1>14, <2>2, <2>3, AppendOnce DEF FlushTake, PlacesInv
    <2>5. /\ Once(buffer') /\ Once(taken')
          /\ Elems(buffer') = Elems(buffer) /\ Elems(taken') = Elems(taken)
      BY <1>14 DEF FlushTake, PlacesInv, Once, Elems
    <2> QED BY <2>1, <2>2, <2>4, <2>5 DEF PlacesInv
  <1>15. ASSUME NEW f \in Flushers, FlushDone(f) PROVE PlacesInv'
    <2>1. Inserted' = Inserted BY <1>0, <1>2, <1>15 DEF FlushDone, Goto
    <2> QED BY <1>3, <1>15, <2>1 DEF FlushDone
  <1>16. CASE UNCHANGED vars
    BY <1>2, <1>3, <1>16 DEF vars
  <1> QED
    BY <1>5, <1>6, <1>7, <1>8, <1>9, <1>10, <1>11, <1>12, <1>13, <1>14, <1>15,
       <1>16
       DEF Next, PutStep, PriorityStep, GetStep, FlushStep

LEMMA PlacesInit == Init => PlacesInv
  <1>1. ASSUME Init PROVE Inserted = {}
    BY <1>1, ThreadsAssumption DEF Init, Inserted, Events, Threads
  <1>2. Elems(<<>>) = {} /\ Once(<<>>) BY DEF Elems, Once
  <1> QED BY <1>1, <1>2 DEF Init, PlacesInv

LEMMA PlacesKept == Spec => [](TypeInv /\ PlacesInv)
  <1>1. Init => TypeInv /\ PlacesInv BY TypeInit, PlacesInit
  <1>2. ASSUME TypeInv, PlacesInv, [Next]_vars PROVE TypeInv' /\ PlacesInv'
    BY <1>2, TypeStep, PlacesStep
  <1> QED BY <1>1, <1>2, PTL DEF Spec

(* No event is lost and none is delivered twice, however the threads       *)
(* interleave: each one inserted is on the queue, in the buffer, taken or  *)
(* dropped, in one of the four and once.                                   *)
THEOREM EveryEventOnce == Spec => []ExactlyOnce
  <1>1. ASSUME TypeInv, PlacesInv PROVE ExactlyOnce
    <2> DEFINE all2 == queue \o buffer
               all3 == all2 \o taken
               all4 == all3 \o dropped
    <2>0. /\ queue \in Seq(Events) /\ buffer \in Seq(Events)
          /\ taken \in Seq(Events) /\ dropped \in Seq(Events)
      BY <1>1 DEF TypeInv, TypeOK
    <2>1. /\ all2 \in Seq(Events) /\ Once(all2)
          /\ Elems(all2) = Elems(queue) \cup Elems(buffer)
      BY <1>1, <2>0, ConcatOnce DEF PlacesInv
    <2> HIDE DEF all2
    <2>2. /\ all3 \in Seq(Events) /\ Once(all3)
          /\ Elems(all3) = Elems(all2) \cup Elems(taken)
      <3>1. Elems(all2) \cap Elems(taken) = {} BY <1>1, <2>1 DEF PlacesInv
      <3> QED BY <1>1, <2>0, <2>1, <3>1, ConcatOnce DEF PlacesInv
    <2> HIDE DEF all3
    <2>3. /\ all4 \in Seq(Events) /\ Once(all4)
          /\ Elems(all4) = Elems(all3) \cup Elems(dropped)
      <3>1. Elems(all3) \cap Elems(dropped) = {} BY <1>1, <2>1, <2>2 DEF PlacesInv
      <3> QED BY <1>1, <2>0, <2>2, <3>1, ConcatOnce DEF PlacesInv
    <2> HIDE DEF all4
    <2>4. Elems(all4) = Inserted BY <1>1, <2>1, <2>2, <2>3 DEF PlacesInv
    <2>5. Len(all4) = Cardinality(Elems(all4)) BY <2>3, OnceCounts
    <2>6. all4 = queue \o buffer \o taken \o dropped BY DEF all2, all3, all4
    <2> QED BY <2>4, <2>5, <2>6, Zenon DEF ExactlyOnce, Elems
  <1> QED BY <1>1, PlacesKept, PTL

----------------------------------------------------------------------------
(* What stands before what when an event joins at the back, leaves at the  *)
(* front, or the queue follows the events already taken.                   *)
LEMMA BeforeAppend ==
  ASSUME NEW S, NEW s \in Seq(S), NEW x \in S, NEW d, NEW e,
         Before(Append(s, x), d, e)
  PROVE  Before(s, d, e) \/ (d \in Elems(s) /\ e = x)
  <1>1. /\ Len(Append(s, x)) = Len(s) + 1 /\ Len(s) \in Nat
        /\ \A i \in 1..Len(s) : Append(s, x)[i] = s[i]
        /\ Append(s, x)[Len(s) + 1] = x
    OBVIOUS
  <1>2. PICK i \in 1..(Len(s) + 1), j \in 1..(Len(s) + 1) :
          i < j /\ Append(s, x)[i] = d /\ Append(s, x)[j] = e
    BY <1>1, Zenon DEF Before
  <1>3. i \in 1..Len(s) /\ s[i] = d BY <1>1, <1>2
  <1>4. CASE j = Len(s) + 1
    <2>1. e = x BY <1>1, <1>2, <1>4
    <2> QED BY <1>3, <2>1 DEF Elems
  <1>5. CASE j # Len(s) + 1
    <2>1. j \in 1..Len(s) /\ s[j] = e BY <1>1, <1>2, <1>5
    <2> QED BY <1>2, <1>3, <2>1, Zenon DEF Before
  <1> QED BY <1>4, <1>5

LEMMA BeforeTail ==
  ASSUME NEW S, NEW s \in Seq(S), s # <<>>, NEW d, NEW e, Before(Tail(s), d, e)
  PROVE  Before(s, d, e)
  <1>1. /\ Len(s) \in Nat /\ Len(Tail(s)) = Len(s) - 1
        /\ \A i \in 1..(Len(s) - 1) : Tail(s)[i] = s[i + 1]
    OBVIOUS
  <1>2. PICK i \in 1..(Len(s) - 1), j \in 1..(Len(s) - 1) :
          i < j /\ Tail(s)[i] = d /\ Tail(s)[j] = e
    BY <1>1, Zenon DEF Before
  <1>3. /\ i + 1 \in 1..Len(s) /\ j + 1 \in 1..Len(s) /\ i + 1 < j + 1
        /\ s[i + 1] = d /\ s[j + 1] = e
    BY <1>1, <1>2
  <1> QED BY <1>3, Zenon DEF Before

LEMMA BeforeConcat ==
  ASSUME NEW S, NEW s \in Seq(S), NEW q \in Seq(S), NEW d, NEW e
  PROVE  Before(s \o q, d, e) <=> \/ Before(s, d, e) \/ Before(q, d, e)
                                 \/ (d \in Elems(s) /\ e \in Elems(q))
  <1> DEFINE sq == s \o q
             m == Len(s)
             n == Len(q)
  <1>1. /\ m \in Nat /\ n \in Nat /\ Len(sq) = m + n
        /\ \A i \in 1..m : sq[i] = s[i]
        /\ \A i \in 1..n : sq[m + i] = q[i]
    OBVIOUS
  <1> HIDE DEF sq, m, n
  <1>2. ASSUME NEW i \in 1..(m + n)
        PROVE  \/ i \in 1..m /\ sq[i] = s[i]
               \/ i - m \in 1..n /\ i \notin 1..m /\ sq[i] = q[i - m]
    BY <1>1
  <1>3. ASSUME Before(sq, d, e)
        PROVE  \/ Before(s, d, e) \/ Before(q, d, e)
               \/ (d \in Elems(s) /\ e \in Elems(q))
    <2>1. PICK i \in 1..(m + n), j \in 1..(m + n) : i < j /\ sq[i] = d /\ sq[j] = e
      BY <1>1, <1>3, Zenon DEF Before
    <2>2. CASE j \in 1..m
      <3>1. i \in 1..m BY <1>1, <2>1, <2>2
      <3>2. s[i] = d /\ s[j] = e BY <1>1, <2>1, <2>2, <3>1
      <3> QED BY <2>1, <2>2, <3>1, <3>2, Zenon DEF Before, m
    <2>3. CASE j \notin 1..m
      <3>1. j - m \in 1..n /\ q[j - m] = e BY <1>2, <2>1, <2>3
      <3>2. CASE i \in 1..m
        <4>1. s[i] = d BY <1>1, <2>1, <3>2
        <4> QED BY <3>1, <3>2, <4>1 DEF Elems, m, n
      <3>3. CASE i \notin 1..m
        <4>1. i - m \in 1..n /\ q[i - m] = d /\ i - m < j - m
          BY <1>1, <1>2, <2>1, <3>1, <3>3
        <4> QED BY <3>1, <4>1, Zenon DEF Before, n
      <3> QED BY <3>2, <3>3
    <2> QED BY <2>2, <2>3
  <1>4. ASSUME Before(s, d, e) PROVE Before(sq, d, e)
    <2>1. PICK i \in 1..m, j \in 1..m : i < j /\ s[i] = d /\ s[j] = e
      BY <1>4, Zenon DEF Before, m
    <2>2. i \in 1..Len(sq) /\ j \in 1..Len(sq) /\ sq[i] = d /\ sq[j] = e
      BY <1>1, <2>1
    <2> QED BY <2>1, <2>2, Zenon DEF Before
  <1>5. ASSUME Before(q, d, e) PROVE Before(sq, d, e)
    <2>1. PICK i \in 1..n, j \in 1..n : i < j /\ q[i] = d /\ q[j] = e
      BY <1>5, Zenon DEF Before, n
    <2>2. /\ m + i \in 1..Len(sq) /\ m + j \in 1..Len(sq) /\ m + i < m + j
          /\ sq[m + i] = d /\ sq[m + j] = e
      BY <1>1, <2>1
    <2> QED BY <2>2, Zenon DEF Before
  <1>6. ASSUME d \in Elems(s), e \in Elems(q) PROVE Before(sq, d, e)
    <2>1. PICK i \in 1..m : s[i] = d BY <1>6 DEF Elems, m
    <2>2. PICK j \in 1..n : q[j] = e BY <1>6 DEF Elems, n
    <2>3. /\ i \in 1..Len(sq) /\ m + j \in 1..Len(sq) /\ i < m + j
      BY <1>1, <2>1, <2>2
    <2>4. sq[i] = d /\ sq[m + j] = e BY <1>1, <2>1, <2>2
    <2> QED BY <2>3, <2>4, Zenon DEF Before
  <1> QED BY <1>3, <1>4, <1>5, <1>6 DEF sq

(* Before the priority event is inserted the events set aside are those in *)
(* the buffer; afterwards it is not in the buffer, so that whatever goes   *)
(* back goes behind it.                                                    *)
OvertakenInv ==
  /\ buffer # <<>> => lock # NoThread
  /\ \A t \in Controllers :
       /\ pc[t] \in {"drain", "insert"} => overtaken[t] = Elems(buffer)
       /\ pc[t] = "requeue" => EventOf(t) \notin Elems(buffer)

(* No event of es stands before e among the taken and the queued.          *)
NoneBefore(es, e) == \A d \in es : ~Before(taken \o queue, d, e)

LEMMA NotYetInserted ==
  ASSUME TypeInv, NEW t \in Controllers, pc[t] \in {"drain", "insert"}
  PROVE  EventOf(t) \notin Inserted
  <1>1. EventOf(t).by = t /\ EventOf(t).n = calls[t] BY DEF EventOf
  <1>2. calls[t] \in Int BY DEF TypeInv, TypeOK
  <1>3. ~(calls[t] < calls[t]) BY <1>2
  <1> QED BY <1>1, <1>3 DEF Inserted

(* Steps that add no event keep what stands before what, and an event that *)
(* is not there has nothing before it.                                     *)
LEMMA NoneBeforeKept ==
  ASSUME TypeInv, NEW es, NEW e, NoneBefore(es, e),
         \/ UNCHANGED <<queue, taken>>
         \/ queue # <<>> /\ queue' = Tail(queue) /\ taken' = taken
         \/ queue # <<>> /\ queue' = Tail(queue) /\ taken' = Append(taken, Head(queue))
         \/ \E x \in Events \ {e} : queue' = Append(queue, x) /\ taken' = taken
  PROVE  \A d \in es : ~Before(taken' \o queue', d, e)
  <1>0. queue \in Seq(Events) /\ taken \in Seq(Events) BY DEF TypeInv, TypeOK
  <1>1. CASE UNCHANGED <<queue, taken>> BY <1>1 DEF NoneBefore
  <1>2. CASE queue # <<>> /\ queue' = Tail(queue) /\ taken' = taken
    <2>1. Tail(queue) \in Seq(Events) BY <1>0, <1>2, SequenceFacts
    <2>2. Elems(Tail(queue)) \subseteq Elems(queue)
      <3>1. /\ Len(queue) \in Nat /\ Len(Tail(queue)) = Len(queue) - 1
            /\ \A i \in 1..(Len(queue) - 1) : Tail(queue)[i] = queue[i + 1]
        BY <1>0, <1>2
      <3> QED BY <3>1 DEF Elems
    <2>3. ASSUME NEW d, Before(taken \o Tail(queue), d, e)
          PROVE  Before(taken \o queue, d, e)
      <3>1. \/ Before(taken, d, e) \/ Before(Tail(queue), d, e)
            \/ (d \in Elems(taken) /\ e \in Elems(Tail(queue)))
        BY <1>0, <2>1, <2>3, BeforeConcat
      <3>2. Before(Tail(queue), d, e) => Before(queue, d, e)
        BY <1>0, <1>2, BeforeTail
      <3> QED BY <1>0, <2>2, <3>1, <3>2, BeforeConcat
    <2> QED BY <1>2, <2>3 DEF NoneBefore
  <1>3. CASE queue # <<>> /\ queue' = Tail(queue) /\ taken' = Append(taken, Head(queue))
    <2>1. Append(taken, Head(queue)) \o Tail(queue) = taken \o queue
      BY <1>0, <1>3
    <2> QED BY <1>3, <2>1 DEF NoneBefore
  <1>4. ASSUME NEW x \in Events \ {e}, queue' = Append(queue, x), taken' = taken
        PROVE  \A d \in es : ~Before(taken' \o queue', d, e)
    <2>1. taken \o Append(queue, x) = Append(taken \o queue, x)
          /\ taken \o queue \in Seq(Events)
      BY <1>0
    <2>2. ASSUME NEW d \in es, Before(Append(taken \o queue, x), d, e)
          PROVE  Before(taken \o queue, d, e)
      <3> DEFINE sq == taken \o queue
      <3>1. sq \in Seq(Events) /\ Before(Append(sq, x), d, e) /\ x # e
        BY <2>1, <2>2
      <3> HIDE DEF sq
      <3>2. Before(sq, d, e) BY <3>1, BeforeAppend
      <3> QED BY <3>2 DEF sq
    <2> QED BY <1>4, <2>1, <2>2 DEF NoneBefore
  <1> QED BY <1>1, <1>2, <1>3, <1>4

(* With one controller, the steps outside put_priority keep the facts      *)
(* about its current call, and so do its own.                              *)
OneController == \A t, u \in Controllers : t = u

LEMMA OvertakenStep ==
  ASSUME OneController, TypeInv, PlacesInv, OvertakenInv, PriorityOvertakesBuffered,
         [Next]_vars
  PROVE  OvertakenInv' /\ PriorityOvertakesBuffered'
  <1> USE DEF counters
  <1>0. /\ queue \in Seq(Events) /\ buffer \in Seq(Events) /\ taken \in Seq(Events)
        /\ calls \in [Producers \cup Controllers -> 0..MaxCalls]
        /\ overtaken \in [Controllers -> SUBSET Events]
        /\ pc \in [Threads -> {"idle", "counted", "drain", "insert", "requeue",
                                "waiting", "got", "flushing"}]
        /\ \A c \in Producers \cup Consumers \cup Flushers : c \notin Controllers
        /\ Controllers \subseteq Threads /\ NoThread \notin Controllers
    BY ThreadsAssumption DEF TypeInv, TypeOK, Threads
  <1>a. \A t \in Controllers : NoneBefore(overtaken[t], EventOf(t))
    BY DEF PriorityOvertakesBuffered, NoneBefore
  <1>b. ASSUME \A t \in Controllers : NoneBefore(overtaken[t], EventOf(t))'
        PROVE  PriorityOvertakesBuffered'
    BY <1>b DEF PriorityOvertakesBuffered, NoneBefore
  (* What the steps of the other threads leave alone. *)
  <1>c. ASSUME UNCHANGED <<buffer, lock, overtaken>>,
               \A t \in Controllers : pc'[t] = pc[t] /\ EventOf(t)' = EventOf(t)
        PROVE  OvertakenInv'
    BY <1>c DEF OvertakenInv, Elems
  <1>d. ASSUME NEW c \in Producers \cup Consumers \cup Flushers, NEW l, Goto(c, l)
        PROVE  \A t \in Controllers : pc'[t] = pc[t]
    BY <1>0, <1>d DEF Goto
  <1>e. ASSUME calls' = calls PROVE \A t \in Controllers : EventOf(t)' = EventOf(t)
    BY <1>e DEF EventOf
  <1>f. ASSUME overtaken' = overtaken,
               \A t \in Controllers : EventOf(t)' = EventOf(t),
               \/ UNCHANGED <<queue, taken>>
               \/ queue # <<>> /\ queue' = Tail(queue) /\ taken' = taken
               \/ /\ queue # <<>> /\ queue' = Tail(queue)
                  /\ taken' = Append(taken, Head(queue))
               \/ \E x \in Events : /\ queue' = Append(queue, x) /\ taken' = taken
                                    /\ \A t \in Controllers : x # EventOf(t)
        PROVE  PriorityOvertakesBuffered'
    <2>1. ASSUME NEW t \in Controllers PROVE NoneBefore(overtaken[t], EventOf(t))'
      <3>1. NoneBefore(overtaken[t], EventOf(t)) BY <1>a
      <3>2. \/ UNCHANGED <<queue, taken>>
            \/ queue # <<>> /\ queue' = Tail(queue) /\ taken' = taken
            \/ queue # <<>> /\ queue' = Tail(queue) /\ taken' = Append(taken, Head(queue))
            \/ \E x \in Events \ {EventOf(t)} : queue' = Append(queue, x) /\ taken' = taken
        BY <1>f
      <3>3. \A d \in overtaken[t] : ~Before(taken' \o queue', d, EventOf(t))
        BY <3>1, <3>2, NoneBeforeKept
      <3> QED BY <1>f, <3>3 DEF NoneBefore
    <2> QED BY <1>b, <2>1
  <1>1. ASSUME NEW p \in Producers, PutCount(p)
        PROVE  OvertakenInv' /\ PriorityOvertakesBuffered'
    <2>1. \A t \in Controllers : pc'[t] = pc[t] /\ EventOf(t)' = EventOf(t)
      BY <1>0, <1>1, <1>d DEF PutCount, Begin, EventOf
    <2> QED BY <1>1, <1>c, <1>f, <2>1 DEF PutCount
  <1>2. ASSUME NEW p \in Producers, PutInsert(p)
        PROVE  OvertakenInv' /\ PriorityOvertakesBuffered'
    <2>1. \A t \in Controllers : pc'[t] = pc[t] /\ EventOf(t)' = EventOf(t)
      BY <1>2, <1>d, <1>e DEF PutInsert
    <2>2. EventOf(p) \in Events /\ \A t \in Controllers : EventOf(p) # EventOf(t)
      <3>1. EventOf(p) \in Events BY <1>2, EventOfType DEF TypeInv, CallInv, PutInsert
      <3>2. \A t \in Controllers : p # t BY <1>0
      <3> QED BY <3>1, <3>2 DEF EventOf
    <2> QED BY <1>2, <1>c, <1>f, <2>1, <2>2 DEF PutInsert
  <1>3. ASSUME NEW t \in Controllers, PriorityLock(t)
        PROVE  OvertakenInv' /\ PriorityOvertakesBuffered'
    <2>1. \A u \in Controllers : u = t BY DEF OneController
    <2>2. buffer = <<>> /\ buffer' = <<>> /\ lock' # NoThread
      BY <1>0, <1>3 DEF OvertakenInv, PriorityLock
    <2>3. Elems(buffer') = {} BY <2>2 DEF Elems
    <2>4. pc'[t] = "drain" /\ overtaken'[t] = {}
      BY <1>0, <1>3 DEF PriorityLock, Goto
    <2>5. OvertakenInv' BY <2>1, <2>2, <2>3, <2>4 DEF OvertakenInv
    <2>6. \A u \in Controllers : NoneBefore(overtaken[u], EventOf(u))'
      BY <2>1, <2>4 DEF NoneBefore
    <2> QED BY <1>b, <2>5, <2>6
  <1>4. ASSUME NEW t \in Controllers, PriorityDrain(t)
        PROVE  OvertakenInv' /\ PriorityOvertakesBuffered'
    <2>1. \A u \in Controllers : u = t BY DEF OneController
    <2>2. Head(queue) \in Events /\ Head(queue) \notin Elems(buffer)
          /\ Elems(queue') \subseteq Elems(queue) /\ queue' \in Seq(Events)
      BY <1>0, <1>4, TailOnce DEF PriorityDrain, PlacesInv
    <2>3. Elems(buffer') = Elems(buffer) \cup {Head(queue)}
      BY <1>0, <1>4, <2>2, AppendOnce DEF PriorityDrain, PlacesInv
    <2>4. pc' = pc /\ overtaken'[t] = overtaken[t] \cup {Head(queue)}
          /\ pc[t] = "drain" /\ lock' = lock /\ EventOf(t)' = EventOf(t)
      BY <1>0, <1>4, <1>e DEF PriorityDrain
    <2>5. lock # NoThread BY <1>0, <2>4 DEF TypeInv, LockInv
    <2>6. OvertakenInv' BY <2>1, <2>3, <2>4, <2>5 DEF OvertakenInv
    <2>7. ASSUME NEW d PROVE ~Before(taken \o queue', d, EventOf(t))
      <3>1. EventOf(t) \notin Elems(taken) /\ EventOf(t) \notin Elems(queue')
        BY <2>2, <2>4, NotYetInserted DEF PlacesInv
      <3>2. ~Before(taken, d, EventOf(t)) /\ ~Before(queue', d, EventOf(t))
        BY <3>1 DEF Before, Elems
      <3> QED BY <1>0, <2>2, <3>1, <3>2, BeforeConcat
    <2>8. \A u \in Controllers : NoneBefore(overtaken[u], EventOf(u))'
      BY <1>4, <2>1, <2>4, <2>7 DEF NoneBefore, PriorityDrain
    <2> QED BY <1>b, <2>6, <2>8
  <1>5. ASSUME NEW t \in Controllers, PriorityDrained(t)
        PROVE  OvertakenInv' /\ PriorityOvertakesBuffered'
    <2>1. \A u \in Controllers : u = t BY DEF OneController
    <2>2. pc[t] = "drain" /\ pc'[t] = "insert"
      BY <1>0, <1>5 DEF PriorityDrained, Goto
    <2>3. OvertakenInv' BY <1>5, <2>1, <2>2 DEF OvertakenInv, PriorityDrained, Elems
    <2> QED BY <1>5, <1>e, <1>f, <2>3 DEF PriorityDrained
  <1>6. ASSUME NEW t \in Controllers, PriorityInsert(t)
        PROVE  OvertakenInv' /\ PriorityOvertakesBuffered'
    <2>1. \A u \in Controllers : u = t BY DEF OneController
    <2>2. pc[t] = "insert" /\ pc'[t] = "requeue" /\ lock' = lock /\ buffer' = buffer
          /\ overtaken' = overtaken /\ EventOf(t)' = EventOf(t)
      BY <1>0, <1>6, <1>e DEF PriorityInsert, Goto
    <2>3. EventOf(t) \notin Elems(buffer) /\ EventOf(t) \notin Elems(queue)
          /\ EventOf(t) \notin Elems(taken)
      BY <2>2, NotYetInserted DEF PlacesInv
    <2>4. Elems(buffer') = Elems(buffer) BY <2>2
    <2>5. OvertakenInv' BY <2>1, <2>2, <2>3, <2>4 DEF OvertakenInv
    <2>6. EventOf(t) \in Events
      BY <2>2, EventOfType DEF TypeInv, CallInv
    <2>7. ASSUME NEW d \in overtaken[t]
          PROVE  ~Before(taken \o Append(queue, EventOf(t)), d, EventOf(t))
      <3> DEFINE sq == taken \o queue
                 e == EventOf(t)
      <3>1. taken \o Append(queue, e) = Append(sq, e) /\ sq \in Seq(Events)
        BY <1>0
      <3>2. Elems(sq) = Elems(taken) \cup Elems(queue)
        BY <1>0, ConcatOnce DEF PlacesInv
      <3>3. d \notin Elems(sq)
        BY <2>2, <3>2 DEF OvertakenInv, PlacesInv
      <3>4. e \notin Elems(sq) BY <2>3, <3>2
      <3>5. ~Before(sq, d, e) BY <3>4 DEF Before, Elems
      <3>6. e \in Events BY <2>6
      <3> HIDE DEF sq, e
      <3>7. ~Before(Append(sq, e), d, e) BY <3>1, <3>3, <3>5, <3>6, BeforeAppend
      <3> QED BY <3>1, <3>7 DEF e
    <2>8. \A u \in Controllers : NoneBefore(overtaken[u], EventOf(u))'
      BY <1>6, <2>1, <2>2, <2>7 DEF NoneBefore, PriorityInsert
    <2> QED BY <1>b, <2>5, <2>8
  <1>7. ASSUME NEW t \in Controllers, PriorityRequeue(t)
        PROVE  OvertakenInv' /\ PriorityOvertakesBuffered'
    <2>1. \A u \in Controllers : u = t BY DEF OneController
    <2>2. pc[t] = "requeue" /\ pc' = pc /\ lock' = lock
          /\ overtaken' = overtaken /\ EventOf(t)' = EventOf(t)
      BY <1>7, <1>e DEF PriorityRequeue
    <2>3. Elems(buffer') \subseteq Elems(buffer) /\ Head(buffer) \in Elems(buffer)
          /\ Head(buffer) \in Events
      BY <1>0, <1>7, TailOnce DEF PriorityRequeue, PlacesInv
    <2>4. EventOf(t) \notin Elems(buffer) BY <2>2 DEF OvertakenInv
    <2>5. lock # NoThread BY <1>0, <2>2 DEF TypeInv, LockInv
    <2>6. OvertakenInv' BY <2>1, <2>2, <2>3, <2>4, <2>5 DEF OvertakenInv
    <2>7. Head(buffer) # EventOf(t) BY <2>3, <2>4
    <2> QED BY <1>7, <1>e, <1>f, <2>1, <2>3, <2>6, <2>7 DEF PriorityRequeue
  <1>8. ASSUME NEW t \in Controllers, PriorityUnlock(t)
        PROVE  OvertakenInv' /\ PriorityOvertakesBuffered'
    <2>1. \A u \in Controllers : u = t BY DEF OneController
    <2>2. pc'[t] = "idle" /\ buffer' = <<>>
      BY <1>0, <1>8 DEF PriorityUnlock, Goto
    <2>3. OvertakenInv' BY <2>1, <2>2 DEF OvertakenInv
    <2> QED BY <1>8, <1>e, <1>f, <2>3 DEF PriorityUnlock
  <1>9. ASSUME NEW c \in Consumers, GetWait(c) \/ GetCount(c) \/ GetNone(c)
        PROVE  OvertakenInv' /\ PriorityOvertakesBuffered'
    <2>1. \A t \in Controllers : pc'[t] = pc[t] /\ EventOf(t)' = EventOf(t)
      BY <1>9, <1>d, <1>e DEF GetWait, GetCount, GetNone
    <2> QED BY <1>9, <1>c, <1>f, <2>1 DEF GetWait, GetCount, GetNone
  <1>10. ASSUME NEW c \in Consumers, GetTake(c)
         PROVE  OvertakenInv' /\ PriorityOvertakesBuffered'
    <2>1. \A t \in Controllers : pc'[t] = pc[t] /\ EventOf(t)' = EventOf(t)
      BY <1>10, <1>d, <1>e DEF GetTake
    <2> QED BY <1>10, <1>c, <1>f, <2>1 DEF GetTake
  <1>11. ASSUME NEW f \in Flushers, FlushTake(f)
         PROVE  OvertakenInv' /\ PriorityOvertakesBuffered'
    <2>1. \A t \in Controllers : pc'[t] = pc[t] /\ EventOf(t)' = EventOf(t)
      BY <1>11, <1>d, <1>e DEF FlushTake
    <2> QED BY <1>11, <1>c, <1>f, <2>1 DEF FlushTake
  <1>12. ASSUME NEW f \in Flushers, FlushDone(f)
         PROVE  OvertakenInv' /\ PriorityOvertakesBuffered'
    <2>1. \A t \in Controllers : pc'[t] = pc[t] /\ EventOf(t)' = EventOf(t)
      BY <1>12, <1>d, <1>e DEF FlushDone
    <2> QED BY <1>12, <1>c, <1>f, <2>1 DEF FlushDone
  <1>13. CASE UNCHANGED vars
    BY <1>13, <1>c, <1>e, <1>f DEF vars
  <1> QED
    BY <1>1, <1>2, <1>3, <1>4, <1>5, <1>6, <1>7, <1>8, <1>9, <1>10, <1>11,
       <1>12, <1>13
       DEF Next, PutStep, PriorityStep, GetStep, FlushStep

(* While a single thread calls put_priority, the events it set aside stay  *)
(* behind its event, on the queue and in the order of delivery, although   *)
(* they go back one at a time among the steps of every other thread.  With *)
(* two such threads it fails: while the second has the first one's event   *)
(* in its buffer, a consumer can take an event the first had set aside.    *)
THEOREM PriorityFirst ==
  ASSUME OneController PROVE Spec => []PriorityOvertakesBuffered
  <1>1. Init => OvertakenInv /\ PriorityOvertakesBuffered
    BY ThreadsAssumption
       DEF Init, OvertakenInv, PriorityOvertakesBuffered, Threads
  <1>2. ASSUME TypeInv, PlacesInv, OvertakenInv, PriorityOvertakesBuffered,
               [Next]_vars
        PROVE  OvertakenInv' /\ PriorityOvertakesBuffered'
    BY <1>2, OvertakenStep
  <1>3. Spec => [](TypeInv /\ PlacesInv) BY PlacesKept
  <1> QED BY <1>1, <1>2, <1>3, PTL DEF Spec
=============================================================================
