------------------------------ MODULE Bulkhead ------------------------------
(***************************************************************************)
(* core/retry.py: the Bulkhead, a counter around an asyncio.Semaphore that *)
(* limits the requests working on the database at the same time.           *)
(*                                                                         *)
(* The semaphore belongs to Python's asyncio; it is modelled as the code   *)
(* uses it.  A released slot is handed to the first waiter at once, which  *)
(* takes its place when the event loop resumes it; a request that comes in *)
(* between joins the queue even if the counter shows a free slot.          *)
(***************************************************************************)
EXTENDS Integers, Sequences, FiniteSets

CONSTANTS
  Requests,        \* requests that enter the bulkhead
  MaxConcurrent    \* max_concurrent

ASSUME BulkheadAssumption == MaxConcurrent \in Nat \ {0}

VARIABLES
  sem,       \* the semaphore: its _value, the requests that wait, in order,
             \* and those that were woken and not yet resumed
  inside,    \* requests between __aenter__ and __aexit__
  active     \* _active

bhVars == <<sem, inside, active>>

NewSemaphore == [value |-> MaxConcurrent, queue |-> <<>>, woken |-> {}]

BHInit == sem = NewSemaphore /\ inside = {} /\ active = 0

-----------------------------------------------------------------------------
(* The semaphore.                                                          *)

Locked(s) == s.value = 0 \/ s.queue # <<>> \/ s.woken # {}

Take(s) == [s EXCEPT !.value = @ - 1]

Wait(s, r) == [s EXCEPT !.queue = Append(@, r)]

\* Variant: the waiter is woken and no slot taken for it.
WakeNextForFree(s) ==
  IF s.queue = <<>> THEN s
  ELSE [s EXCEPT !.queue = Tail(@), !.woken = @ \cup {Head(s.queue)}]

\* _wake_up_next: the slot is taken for the first waiter.
WakeNext(s) ==
  IF s.queue = <<>> THEN s
  ELSE [value |-> s.value - 1, queue |-> Tail(s.queue),
        woken |-> s.woken \cup {Head(s.queue)}]

Release(s) == WakeNext([s EXCEPT !.value = @ + 1])

\* Variant: a free slot is not passed on.
ResumedQuietly(s, r) == [s EXCEPT !.woken = @ \ {r}]

\* A woken waiter is resumed; it passes on a slot that is free beside its own.
Resumed(s, r) ==
  LET t == [s EXCEPT !.woken = @ \ {r}]
  IN  IF t.value > 0 THEN WakeNext(t) ELSE t

\* _waiters.remove(fut): the queue without the place of r.
Without(queue, r) ==
  LET i == CHOOSE j \in 1..Len(queue) : queue[j] = r
  IN  SubSeq(queue, 1, i - 1) \o SubSeq(queue, i + 1, Len(queue))

\* A cancelled waiter leaves the queue; a woken one gives its slot back.
Abandoned(s, r) ==
  IF r \in s.woken THEN Release([s EXCEPT !.woken = @ \ {r}])
  ELSE [s EXCEPT !.queue = Without(@, r)]

Waiting == {sem.queue[i] : i \in 1..Len(sem.queue)}

-----------------------------------------------------------------------------
(* __aenter__ and __aexit__.  The steps that lead to GoIn are in DbAccess:  *)
(* what happens after it up to the next suspension belongs to them.        *)

\* After the semaphore was acquired.
GoIn(r) == inside' = inside \cup {r} /\ active' = active + 1

\* However the body of the async with ends.
Leave(r) ==
  /\ r \in inside
  /\ inside' = inside \ {r} /\ active' = active - 1
  /\ sem' = Release(sem)

CancelWait(r) ==
  /\ r \in Waiting \cup sem.woken
  /\ sem' = Abandoned(sem, r)
  /\ UNCHANGED <<inside, active>>

-----------------------------------------------------------------------------
(* Properties.                                                             *)

\* No slot is lost or made: free slots, slots handed to woken requests and
\* slots in use add up to the size of the bulkhead, after any order of
\* entries, exits and cancelled waits; so never more than MaxConcurrent work.
\* And the gauge of /vault/stats counts the slots in use.
SlotsConserved ==
  /\ sem.value + Cardinality(sem.woken) + Cardinality(inside) = MaxConcurrent
  /\ active = Cardinality(inside)

\* No lost wakeup: beside a free slot a request waits only while another has
\* been woken, whose resumption will wake it.
NoLostWakeup == sem.value > 0 /\ sem.queue # <<>> => sem.woken # {}
=============================================================================
