-------------------------- MODULE ConcurrentQueue --------------------------
(***************************************************************************)
(* concurrent_queue_stl_mut (containers/concurrent_queue.hpp and its bits).*)
(*                                                                         *)
(* Every access to the deque happens under _qmut, so one step is what runs *)
(* between taking the mutex and releasing it or waiting on _qcond.  A      *)
(* consumer that waits with wait_for can be notified, can wake up          *)
(* spuriously, can time out, or can time out although it has been woken:   *)
(* the status of wait_for is read from the clock once the mutex is held    *)
(* again.  try_pop() is try_pop(0).                                        *)
(* The k-th element pushed is the number k.                                *)
(***************************************************************************)
EXTENDS Integers, Sequences

CONSTANTS Consumers,   \* the threads that call try_pop
          Pollers,     \* those of them that call it for ever, as pool workers do
          SmallSizes,  \* the arguments of set_small_buffer_size
          DefaultSmall,\* _small_allocation of a new queue (128 in the code)
          MaxPush      \* bound: the number of elements pushed

ASSUME ConcurrentQueueAssumption ==
  /\ Pollers \subseteq Consumers
  /\ SmallSizes \subseteq Nat /\ DefaultSmall \in SmallSizes
  /\ MaxPush \in Nat

VARIABLES
  _dek, _buffer_capacity, _small_allocation,
  pc,         \* idle, calling (before the mutex), waiting (on _qcond), woken
  pushed,     \* history: how many elements have been pushed
  delivered   \* history: the elements handed to consumers, in order

queueVars == <<_dek, _buffer_capacity, _small_allocation, pc, pushed, delivered>>

QueueInit ==
  /\ _dek = <<>>
  /\ _buffer_capacity = 0
  /\ _small_allocation = DefaultSmall
  /\ pc = [c \in Consumers |-> "idle"]
  /\ pushed = 0
  /\ delivered = <<>>

Empty == _dek = <<>>

Waiting == {c \in Consumers : pc[c] = "waiting"}

Larger(a, b) == IF a > b THEN a ELSE b

\* A capacity that is never raised, and one that adds up instead of the maximum.
ForgetfulCapacity(size, capacity) == capacity
\* std::max(_dek.size(), _buffer_capacity)
NewCapacity(size, capacity) == Larger(size, capacity)

\* _qcond.notify_one() under the mutex: one waiter, whichever, if there is any.
NotifyOne ==
  IF Waiting = {} THEN UNCHANGED pc
  ELSE \E w \in Waiting : pc' = [pc EXCEPT ![w] = "woken"]

\* A stack instead of a queue.
PushFront ==
  /\ pushed < MaxPush
  /\ pushed' = pushed + 1
  /\ _dek' = <<pushed + 1>> \o _dek
  /\ _buffer_capacity' = NewCapacity(Len(_dek'), _buffer_capacity)
  /\ NotifyOne
  /\ UNCHANGED <<_small_allocation, delivered>>

Push ==
  /\ pushed < MaxPush
  /\ pushed' = pushed + 1
  /\ _dek' = Append(_dek, pushed + 1)
  /\ _buffer_capacity' = NewCapacity(Len(_dek'), _buffer_capacity)
  /\ NotifyOne
  /\ UNCHANGED <<_small_allocation, delivered>>

\* try_pop is called and has not got the mutex yet.
Call(c) ==
  /\ pc[c] = "idle"
  /\ pc' = [pc EXCEPT ![c] = "calling"]
  /\ UNCHANGED <<_dek, _buffer_capacity, _small_allocation, pushed, delivered>>

\* wait_for wakes up spuriously: nobody has notified.
Wake(c) ==
  /\ pc[c] = "waiting"
  /\ pc' = [pc EXCEPT ![c] = "woken"]
  /\ UNCHANGED <<_dek, _buffer_capacity, _small_allocation, pushed, delivered>>

\* The mutex is held: by a new call, or by a waiter whose wait_for returned
\* no_timeout.
Looking(c) == pc[c] \in {"calling", "woken"}

Take(c) ==
  /\ Looking(c)
  /\ ~Empty
  /\ delivered' = Append(delivered, Head(_dek))
  /\ _dek' = Tail(_dek)
  /\ pc' = [pc EXCEPT ![c] = "idle"]
  /\ UNCHANGED <<_buffer_capacity, _small_allocation, pushed>>

\* The buffer is given back without looking whether elements are left in it.
CarelessSleep(c) ==
  /\ Looking(c)
  /\ Empty \/ _buffer_capacity > _small_allocation
  /\ _dek' = <<>>
  /\ _buffer_capacity' = IF _buffer_capacity > _small_allocation THEN 0 ELSE _buffer_capacity
  /\ pc' = [pc EXCEPT ![c] = "waiting"]
  /\ UNCHANGED <<_small_allocation, pushed, delivered>>

\* Nothing to take: give a large buffer back (the swap with a fresh deque) and wait.
Sleep(c) ==
  /\ Looking(c)
  /\ Empty
  /\ _dek' = <<>>
  /\ _buffer_capacity' = IF _buffer_capacity > _small_allocation THEN 0 ELSE _buffer_capacity
  /\ pc' = [pc EXCEPT ![c] = "waiting"]
  /\ UNCHANGED <<_small_allocation, pushed, delivered>>

\* A wait that ends by a notification only.
NoTimeout(c) == FALSE

\* A try_pop that can give up before it has looked at the queue.
HastyTimeout(c) ==
  /\ pc[c] # "idle"
  /\ pc' = [pc EXCEPT ![c] = "idle"]
  /\ UNCHANGED <<_dek, _buffer_capacity, _small_allocation, pushed, delivered>>

\* wait_for says timeout: try_pop returns nothing and looks at the queue no
\* more, even if it has been woken in the meantime.
Timeout(c) ==
  /\ pc[c] \in {"waiting", "woken"}
  /\ pc' = [pc EXCEPT ![c] = "idle"]
  /\ UNCHANGED <<_dek, _buffer_capacity, _small_allocation, pushed, delivered>>

SetSmallBufferSize(v) ==
  /\ _small_allocation' = v
  /\ UNCHANGED <<_dek, _buffer_capacity, pc, pushed, delivered>>

TryPop(c) == Take(c) \/ Sleep(c) \/ Timeout(c)

QueueNext ==
  \/ Push
  \/ \E c \in Consumers : Call(c) \/ Wake(c) \/ TryPop(c)
  \/ \E v \in SmallSizes : SetSmallBufferSize(v)

(***************************************************************************)
(* A consumer inside try_pop gets the mutex and its wait times out unless  *)
(* it is woken before; the pollers call again.  Nothing is assumed of the  *)
(* producers, and nothing of how often a waiter is woken.                  *)
(***************************************************************************)
Fairness ==
  /\ \A c \in Consumers : WF_queueVars(TryPop(c))
  /\ \A c \in Pollers : WF_queueVars(Call(c))

QueueSpec == QueueInit /\ [][QueueNext]_queueVars
FairSpec == QueueSpec /\ Fairness
-----------------------------------------------------------------------------
QueueTypeOK ==
  /\ _dek \in Seq(1..MaxPush)
  /\ _buffer_capacity \in 0..MaxPush
  /\ _small_allocation \in SmallSizes
  /\ pc \in [Consumers -> {"idle", "calling", "waiting", "woken"}]
  /\ pushed \in 0..MaxPush
  /\ delivered \in Seq(1..MaxPush)

\* Every element that was pushed is either still queued or was handed to exactly
\* one consumer, and in the order of the pushes, however the buffer was given
\* back (concurrent_queue_bits.hpp:63-77) and whoever timed out.
InOrder ==
  /\ Len(delivered) + Len(_dek) = pushed
  /\ \A i \in 1..Len(delivered) : delivered[i] = i
  /\ \A i \in 1..Len(_dek) : _dek[i] = Len(delivered) + i

\* _buffer_capacity is a high-water mark of the deque (line 47): the test that
\* decides to give memory back never understates what the deque holds.
CapacityCoversContents == Len(_dek) <= _buffer_capacity

\* The loop of try_pop(d) (line 62) restarts the whole wait of d at every wake-up
\* that finds the queue empty again: a consumer that never comes back is one
\* that is woken for ever, and only that.  One that is woken finitely often
\* returns, whatever the other consumers take away from it.
TryPopReturns ==
  \A c \in Consumers : <>[](pc[c] # "woken") => []<>(pc[c] = "idle")

\* As long as one consumer keeps polling every element is delivered, although a
\* notification can be spent on a consumer that times out and never comes back.
EveryElementDelivered ==
  \A k \in 1..MaxPush : (pushed >= k) ~> (Len(delivered) >= k)

\* The queue implements the atomic one; in particular try_pop comes back
\* empty-handed only if the queue was empty at some moment of the call.
Queue == INSTANCE AbstractQueue WITH
  items <- _dek,
  calling <- {c \in Consumers : pc[c] # "idle"},
  missed <- {c \in Consumers : pc[c] \in {"waiting", "woken"}}

ImplementsAbstractQueue == Queue!Spec
=============================================================================
