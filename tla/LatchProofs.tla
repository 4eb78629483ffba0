---------------------------- MODULE LatchProofs ----------------------------
(***************************************************************************)
(* What Latch promises, proved for any set of threads and any initial      *)
(* value: a thread that waits for the latch may destroy it, and the latch  *)
(* implements the abstract barrier.                                        *)
(***************************************************************************)
EXTENDS Latch, TLAPS

\* Until everything is counted down the counter is what remains, and nobody is
\* opening the latch.
Closed ==
  remaining > 0 => /\ counter = remaining
                   /\ \A t \in Threads : pc[t] \notin Unlocking

\* Afterwards either exactly one thread can be opening it, or it is open and
\* nobody has anything left to do on it.
Opening ==
  remaining = 0 =>
    \/ /\ counter = 0
       /\ \A t, u \in Threads : pc[t] \in Unlocking /\ pc[u] \in Unlocking => t = u
    \/ /\ counter = Unlocked
       /\ \A t \in Threads : pc[t] \notin Unlocking

Released == released => counter = Unlocked

Gone == ~alive => released /\ \A t \in Threads : pc[t] = "idle"

IInv == TypeOK /\ Closed /\ Opening /\ Released /\ Gone

\* The initial states satisfy the inductive invariant, a latch of value 0
\* included, which is born open.
LEMMA InitInv == Init => IInv
<1> SUFFICES ASSUME Init PROVE IInv
  OBVIOUS
<1>1. TypeOK
  BY LatchAssumption DEF Init, TypeOK, Places
<1>2. Closed /\ Opening /\ Released /\ Gone
  BY LatchAssumption DEF Init, Closed, Opening, Released, Gone, Unlocking
<1> QED
  BY <1>1, <1>2 DEF IInv

\* count_down: only the decrement that reaches zero makes its thread open the latch.
LEMMA CountDownInv ==
  ASSUME IInv, NEW t \in Threads, NEW n \in 1..remaining, NEW wait \in BOOLEAN,
         CountDown(t, n, wait)
  PROVE  IInv'
<1>1. /\ remaining \in 1..MaxValue
      /\ counter = remaining
      /\ ~released
      /\ \A u \in Threads : pc[u] \notin Unlocking
  BY LatchAssumption DEF IInv, TypeOK, Closed, Released, Unlocked
<1>2. remaining' = remaining - n /\ counter' = remaining' /\ remaining' \in 0..MaxValue
  BY <1>1, LatchAssumption DEF CountDown
<1>3. \A u \in Threads : u # t => pc'[u] = pc[u]
  BY DEF CountDown, Goto, IInv, TypeOK
<1>4. /\ remaining' > 0 => pc'[t] \in {"idle", "test"}
      /\ pc'[t] \in {"idle", "test", "notify"}
  BY <1>1, <1>2, LatchAssumption
  DEF CountDown, Goto, MustUnlock, AfterCountDown, IInv, TypeOK
<1>5. TypeOK'
  BY <1>2, LatchAssumption DEF IInv, TypeOK, CountDown, Goto, AfterCountDown, Places, Unlocking, InWait
<1>6. Closed' /\ Opening'
  BY <1>1, <1>2, <1>3, <1>4 DEF Closed, Opening, Unlocking
<1>7. Released' /\ Gone'
  BY <1>1 DEF CountDown, IInv, Released, Gone
<1> QED
  BY <1>5, <1>6, <1>7 DEF IInv

\* The steps inside a call: notifying, opening, and the loop of wait().
LEMMA StepInv ==
  ASSUME IInv, NEW t \in Threads, Step(t)
  PROVE  IInv'
<1> USE DEF IInv, TypeOK, Closed, Opening, Released, Gone, Places, Unlocking, InWait, Goto
<1>1. CASE NotifyAll(t)
  BY <1>1 DEF NotifyAll
<1>2. CASE StoreUnlocked(t)
  <2>1. remaining = 0 /\ ~IsReady
    BY <1>2, LatchAssumption DEF StoreUnlocked, IsReady, Unlocked
  <2>2. /\ pc'[t] \in {"idle", "test"}
        /\ \A u \in Threads : u # t => pc'[u] = pc[u] /\ pc[u] \notin Unlocking
    BY <1>2, <2>1 DEF StoreUnlocked, AfterCountDown, IsReady
  <2> QED
    BY <1>2, <2>1, <2>2 DEF StoreUnlocked, AfterCountDown
<1>3. CASE Test(t)
  BY <1>3, LatchAssumption DEF Test, IsReady, Unlocked
<1>4. CASE Retest(t)
  BY <1>4 DEF Retest
<1>5. CASE Sleep(t)
  BY <1>5 DEF Sleep
<1>6. CASE Timeout(t)
  BY <1>6 DEF Timeout
<1> QED
  BY <1>1, <1>2, <1>3, <1>4, <1>5, <1>6 DEF Step

\* Every step of the system preserves the inductive invariant.
LEMMA NextInv == IInv /\ [Next]_vars => IInv'
<1> SUFFICES ASSUME IInv, [Next]_vars PROVE IInv'
  OBVIOUS
<1>1. CASE \E t \in Threads, n \in 1..remaining, wait \in BOOLEAN : CountDown(t, n, wait)
  BY <1>1, CountDownInv
<1>2. CASE \E t \in Threads : BeginWait(t)
  BY <1>2
  DEF BeginWait, Goto, IInv, TypeOK, Closed, Opening, Released, Gone, Places, Unlocking, InWait
<1>3. CASE \E t \in Threads : Step(t)
  BY <1>3, StepInv
<1>4. CASE Destroy
  <2>1. counter = Unlocked /\ Unlocked # 0
    BY <1>4 DEF Destroy, IInv, Released, Unlocked
  <2>2. \A t \in Threads : pc[t] = "idle"
    BY <1>4, <2>1 DEF Destroy, IInv, TypeOK, Opening, Closed, Places, Unlocking, InWait, Unlocked
  <2> QED
    BY <1>4, <2>1, <2>2 DEF Destroy, IInv, TypeOK, Closed, Opening, Released, Gone
<1>5. CASE UNCHANGED vars
  BY <1>5 DEF vars, IInv, TypeOK, Closed, Opening, Released, Gone
<1> QED
  BY <1>1, <1>2, <1>3, <1>4, <1>5 DEF Next

\* The counter only ever holds what remains, zero or the unlocked mark.
THEOREM TypeCorrect == Spec => []TypeOK
<1>1. IInv => TypeOK
  BY DEF IInv
<1> QED
  BY InitInv, NextInv, <1>1, PTL DEF Spec

\* The latch may be destroyed by a thread that has returned from wait(): the
\* two-phase unlock leaves no other thread with a step to make on it.
THEOREM DestructionSafe == Spec => []NoUseAfterDestroy
<1>1. IInv => NoUseAfterDestroy
  BY DEF IInv, Gone, NoUseAfterDestroy
<1> QED
  BY InitInv, NextInv, <1>1, PTL DEF Spec
-----------------------------------------------------------------------------
\* The threads inside wait(), as the refinement mapping gives them.
Inside == {t \in Threads : pc[t] \in InWait \/ (pc[t] \in Unlocking /\ t \in thenWait)}

\* A count_down is a count-down of the barrier, entering wait() when it is that
\* of count_down_and_wait.
LEMMA CountDownRefines ==
  ASSUME IInv, NEW t \in Threads, NEW n \in 1..remaining, NEW wait \in BOOLEAN,
         CountDown(t, n, wait)
  PROVE  Abstract!Next
<1>1. t \notin Inside /\ remaining' = remaining - n
  BY DEF CountDown, Inside, InWait, Unlocking
<1>2. \A u \in Threads : u # t => pc'[u] = pc[u] /\ (u \in thenWait' <=> u \in thenWait)
  BY DEF CountDown, Goto, IInv, TypeOK
<1>3. pc'[t] = IF MustUnlock(counter - n) THEN "notify" ELSE AfterCountDown(wait)
  BY DEF CountDown, Goto, IInv, TypeOK
<1>4. CASE wait
  <2>1. Inside' = Inside \cup {t}
    BY <1>1, <1>2, <1>3, <1>4 DEF Inside, CountDown, AfterCountDown, InWait, Unlocking
  <2>2. Abstract!CountDownAndWait(t, n)
    BY <1>1, <2>1 DEF Abstract!CountDownAndWait, Inside
  <2> QED
    BY <2>2 DEF Abstract!Next
<1>5. CASE ~wait
  <2>1. Inside' = Inside
    BY <1>1, <1>2, <1>3, <1>5 DEF Inside, CountDown, AfterCountDown, InWait, Unlocking
  <2>2. Abstract!CountDown(n)
    BY <1>1, <2>1 DEF Abstract!CountDown, Inside
  <2> QED
    BY <2>2 DEF Abstract!Next
<1> QED
  BY <1>4, <1>5

\* Inside a call only the load that finds the latch open is seen by the barrier.
LEMMA StepRefines ==
  ASSUME IInv, NEW t \in Threads, Step(t)
  PROVE  [Abstract!Next]_(Abstract!vars)
<1>1. CASE Test(t) /\ IsReady
  <2>1. remaining = 0
    BY <1>1, LatchAssumption DEF IInv, TypeOK, Closed, IsReady, Unlocked
  <2>2. t \in Inside /\ Inside' = Inside \ {t} /\ UNCHANGED remaining
    BY <1>1 DEF Test, Goto, Inside, IInv, TypeOK, InWait, Unlocking
  <2>3. Abstract!Leave(t)
    BY <2>1, <2>2 DEF Abstract!Leave, Inside
  <2> QED
    BY <2>3 DEF Abstract!Next
<1>2. CASE ~(Test(t) /\ IsReady)
  <2>1. UNCHANGED <<remaining, thenWait>>
    BY DEF Step, NotifyAll, StoreUnlocked, Test, Retest, Sleep, Timeout
  <2>2. \A u \in Threads : (u \in Inside)' <=> u \in Inside
    BY <1>2 DEF Step, NotifyAll, StoreUnlocked, Test, Retest, Sleep, Timeout, Goto,
                AfterCountDown, Inside, IInv, TypeOK, InWait, Unlocking
  <2>3. Inside' = Inside
    BY <2>2 DEF Inside
  <2> QED
    BY <2>1, <2>3 DEF Abstract!vars, Inside
<1> QED
  BY <1>1, <1>2

\* The latch is a single-use barrier: every step of the code is a step of the
\* abstract latch or invisible to it.
THEOREM Refinement == Spec => ImplementsAbstractLatch
<1>1. Init => Abstract!Init
  BY DEF Init, Abstract!Init, InWait, Unlocking
<1>2. IInv /\ [Next]_vars => [Abstract!Next]_(Abstract!vars)
  <2> SUFFICES ASSUME IInv, [Next]_vars PROVE [Abstract!Next]_(Abstract!vars)
    OBVIOUS
  <2>1. CASE \E t \in Threads, n \in 1..remaining, wait \in BOOLEAN : CountDown(t, n, wait)
    BY <2>1, CountDownRefines
  <2>2. ASSUME NEW t \in Threads, BeginWait(t) PROVE [Abstract!Next]_(Abstract!vars)
    <3>1. t \notin Inside /\ Inside' = Inside \cup {t} /\ UNCHANGED remaining
      BY <2>2 DEF BeginWait, Goto, Inside, IInv, TypeOK, InWait, Unlocking
    <3>2. Abstract!Enter(t)
      BY <3>1 DEF Abstract!Enter, Inside
    <3> QED
      BY <3>2 DEF Abstract!Next
  <2>3. CASE \E t \in Threads : Step(t)
    BY <2>3, StepRefines
  <2>4. CASE Destroy
    BY <2>4 DEF Destroy, Abstract!vars
  <2>5. CASE UNCHANGED vars
    BY <2>5 DEF vars, Abstract!vars
  <2> QED
    BY <2>1, <2>2, <2>3, <2>4, <2>5 DEF Next
<1> QED
  BY InitInv, NextInv, <1>1, <1>2, PTL DEF Spec, ImplementsAbstractLatch, Abstract!Spec
=============================================================================
