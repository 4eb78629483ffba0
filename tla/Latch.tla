------------------------------- MODULE Latch -------------------------------
(***************************************************************************)
(* hadoken::thread::latch (thread/latch.hpp).                               *)
(*                                                                         *)
(* The latch is one atomic counter, a condition variable and a mutex.  The *)
(* mutex guards no data: a waiter holds it only while it enters or leaves  *)
(* wait_for, and the notifier never takes it, so it is not a variable.     *)
(* What is kept is each atomic access to the counter as a step of its own, *)
(* the notification that may come before the waiter sleeps, and the 1 ms   *)
(* timeout of the wait.  The latch is destroyed by one of the threads that *)
(* wait for it, the usage the comment in wait() is written for.            *)
(*                                                                         *)
(* The contract on the callers (that of std::experimental::latch, which    *)
(* the class comment quotes): what is counted down is at least 1 and in    *)
(* total at most the initial value, and nobody starts a call on a latch    *)
(* that has been destroyed or destroys it under another waiter.            *)
(***************************************************************************)
EXTENDS Integers

CONSTANTS Threads,   \* the threads that share the latch
          Owner,     \* the thread that waits for the latch, then destroys it
          MaxValue   \* the largest initial value considered

ASSUME LatchAssumption == Owner \in Threads /\ MaxValue \in Nat

\* static constexpr std::ptrdiff_t unlocked
Unlocked == -2048

VARIABLES
  counter,    \* _counter
  pc,         \* what each thread does next, see below
  thenWait,   \* the threads whose count_down is that of count_down_and_wait
  alive,      \* the latch has not been destroyed
  released,   \* a wait() of the owner has returned
  remaining   \* history: the initial value minus all that was counted down

vars == <<counter, pc, thenWait, alive, released, remaining>>

(***************************************************************************)
(* idle     outside of the latch                                           *)
(* notify   count_down reached zero: notify_all is next                    *)
(* store    notified: _counter.store(unlocked) is next                     *)
(* test     in wait(): the load of the loop condition is next              *)
(* retest   in wait(): the load that chooses between sleeping and spinning *)
(* sleep    in wait(): chose to sleep, not yet in the wait set             *)
(* blocked  in wait(): in the wait set of _cond                            *)
(***************************************************************************)
Unlocking == {"notify", "store"}
InWait == {"test", "retest", "sleep", "blocked"}
Places == {"idle"} \cup Unlocking \cup InWait

Init ==
  /\ remaining \in 0..MaxValue
  /\ counter = IF remaining # 0 THEN remaining ELSE Unlocked
  /\ pc = [t \in Threads |-> "idle"]
  /\ thenWait = {}
  /\ alive = TRUE
  /\ released = FALSE

IsReady == counter <= Unlocked

Goto(t, place) == pc' = [pc EXCEPT ![t] = place]

\* Where the end of count_down leads: back to the caller or on to wait().
AfterCountDown(wait) == IF wait THEN "test" ELSE "idle"

\* An off-by-one that opens the latch before the last count.
MustUnlockEarly(v) == v <= 1

\* __check_and_notify(v) has something to do.
MustUnlock(v) == v <= 0

\* fetch_sub and the test of its result; wait tells count_down_and_wait.
CountDown(t, n, wait) ==
  /\ alive
  /\ pc[t] = "idle"
  /\ counter' = counter - n
  /\ remaining' = remaining - n
  /\ thenWait' = IF wait THEN thenWait \cup {t} ELSE thenWait \ {t}
  /\ Goto(t, IF MustUnlock(counter - n) THEN "notify" ELSE AfterCountDown(wait))
  /\ UNCHANGED <<alive, released>>

\* The counter opens before notify_all instead of after it: the step that is
\* left to the thread then touches the latch after a waiter can have left.
StoreBeforeNotify(t) ==
  /\ pc[t] = "notify"
  /\ counter' = Unlocked
  /\ pc' = [u \in Threads |-> IF u = t THEN "store"
                              ELSE IF pc[u] = "blocked" THEN "test" ELSE pc[u]]
  /\ UNCHANGED <<thenWait, alive, released, remaining>>

\* _cond.notify_all() wakes the waiters that sleep already, and only those.
NotifyAll(t) ==
  /\ pc[t] = "notify"
  /\ pc' = [u \in Threads |-> IF u = t THEN "store"
                              ELSE IF pc[u] = "blocked" THEN "test" ELSE pc[u]]
  /\ UNCHANGED <<counter, thenWait, alive, released, remaining>>

StoreUnlocked(t) ==
  /\ pc[t] = "store"
  /\ counter' = Unlocked
  /\ Goto(t, AfterCountDown(t \in thenWait))
  /\ UNCHANGED <<thenWait, alive, released, remaining>>

BeginWait(t) ==
  /\ alive
  /\ pc[t] = "idle"
  /\ Goto(t, "test")
  /\ UNCHANGED <<counter, thenWait, alive, released, remaining>>

\* while (_counter.load() > unlocked)
Test(t) ==
  /\ pc[t] = "test"
  /\ IF IsReady
     THEN /\ Goto(t, "idle")
          /\ released' = (released \/ t = Owner)
     ELSE /\ Goto(t, "retest")
          /\ UNCHANGED released
  /\ UNCHANGED <<counter, thenWait, alive, remaining>>

\* if (_counter.load() > 0) sleep, else yield and look again
Retest(t) ==
  /\ pc[t] = "retest"
  /\ Goto(t, IF counter > 0 THEN "sleep" ELSE "test")
  /\ UNCHANGED <<counter, thenWait, alive, released, remaining>>

Sleep(t) ==
  /\ pc[t] = "sleep"
  /\ Goto(t, "blocked")
  /\ UNCHANGED <<counter, thenWait, alive, released, remaining>>

\* A wait() that sleeps until it is notified.
NoTimeout(t) == FALSE

\* wait_for gives up after 1 ms, or wakes up spuriously.
Timeout(t) ==
  /\ pc[t] = "blocked"
  /\ Goto(t, "test")
  /\ UNCHANGED <<counter, thenWait, alive, released, remaining>>

\* ~latch(), by the owner after its wait() and when no other thread waits.
Destroy ==
  /\ alive
  /\ released
  /\ pc[Owner] = "idle"
  /\ \A t \in Threads : pc[t] \notin InWait /\ (pc[t] \in Unlocking => t \notin thenWait)
  /\ alive' = FALSE
  /\ UNCHANGED <<counter, pc, thenWait, released, remaining>>

Step(t) == NotifyAll(t) \/ StoreUnlocked(t) \/ Test(t) \/ Retest(t) \/ Sleep(t) \/ Timeout(t)

Next ==
  \/ \E t \in Threads :
       \/ \E n \in 1..remaining, wait \in BOOLEAN : CountDown(t, n, wait)
       \/ BeginWait(t)
       \/ Step(t)
  \/ Destroy

\* A thread that is inside a call is scheduled, and its 1 ms sleep ends.
Fairness == \A t \in Threads : WF_vars(Step(t))

Spec == Init /\ [][Next]_vars
FairSpec == Spec /\ Fairness
-----------------------------------------------------------------------------
TypeOK ==
  /\ counter \in {Unlocked} \cup 0..MaxValue
  /\ pc \in [Threads -> Places]
  /\ thenWait \in SUBSET Threads
  /\ alive \in BOOLEAN
  /\ released \in BOOLEAN
  /\ remaining \in 0..MaxValue

\* The two-phase unlock of wait() (latch.hpp:95-97): when the waiting owner
\* destroys the latch, no thread has still to touch its counter, its condition
\* variable or its mutex, the thread that opened it included.
NoUseAfterDestroy == ~alive => \A t \in Threads : pc[t] = "idle"

\* No wake-up is lost for good: once everything has been counted down every
\* thread inside wait() returns, also the one that chose to sleep just before
\* notify_all and was not in the wait set to be notified.
WaitersReturn ==
  \A t \in Threads : (remaining = 0 /\ pc[t] \in InWait) ~> (pc[t] = "idle")

\* A latch is a single-use barrier (latch.hpp:49-51): wait() returns only after
\* everything has been counted down, whichever load of the counter it saw.
Abstract == INSTANCE AbstractLatch WITH
  inside <- {t \in Threads : pc[t] \in InWait \/ (pc[t] \in Unlocking /\ t \in thenWait)}

ImplementsAbstractLatch == Abstract!Spec
=============================================================================
