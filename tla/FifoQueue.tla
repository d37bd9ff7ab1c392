----------------------------- MODULE FifoQueue -----------------------------
(***************************************************************************)
(* What the docstring of aqc/backtester/event_queue.py promises its        *)
(* callers, with every call taken as one indivisible step: a FIFO queue,   *)
(* whose get answers "no event" only when the queue holds none.  It        *)
(* promises this until a control event is placed with put_priority, and    *)
(* nothing afterwards.                                                     *)
(***************************************************************************)
EXTENDS Sequences

CONSTANTS Callers,   \* the threads that call get()
          Events,    \* the events that may be placed on the queue
          NoEvent    \* the answer None

VARIABLES contents,  \* the events on the queue, the next one to leave first
          answer,    \* the last answer each caller of get() was given
          jumped     \* whether put_priority has been called

vars == <<contents, answer, jumped>>

Init == contents = <<>> /\ answer = [c \in Callers |-> NoEvent] /\ jumped = FALSE

(* put: the event joins the queue at the back. *)
Put == \E e \in Events :
         contents' = Append(contents, e) /\ UNCHANGED answer

(* get with an event to give. *)
Take(c) == /\ contents # <<>>
           /\ contents' = Tail(contents)
           /\ answer' = [answer EXCEPT ![c] = Head(contents)]

(* get with nothing to give. *)
TakeNone(c) == /\ contents = <<>>
               /\ answer' = [answer EXCEPT ![c] = NoEvent]
               /\ UNCHANGED contents

(* One event discarded by flush. *)
Drop == contents # <<>> /\ contents' = Tail(contents) /\ UNCHANGED answer

FifoStep == Put \/ Drop \/ \E c \in Callers : Take(c) \/ TakeNone(c)

Next == (FifoStep /\ UNCHANGED jumped) \/ jumped'

Spec == Init /\ [][Next]_vars
=============================================================================
