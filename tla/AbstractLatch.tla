--------------------------- MODULE AbstractLatch ---------------------------
(***************************************************************************)
(* What a latch promises to its users (the class comment of thread/latch.hpp):   *)
(* a single-use barrier.  A downward counter is set once; threads count it *)
(* down, and a thread that waits leaves only when the counter is zero.     *)
(***************************************************************************)
EXTENDS Integers

CONSTANTS Threads,   \* the threads that share the latch
          MaxValue   \* the largest initial value considered

VARIABLES remaining, \* what is still to be counted down
          inside     \* the threads that are inside wait()

vars == <<remaining, inside>>

Init ==
  /\ remaining \in 0..MaxValue
  /\ inside = {}

CountDown(n) ==
  /\ remaining' = remaining - n
  /\ UNCHANGED inside

CountDownAndWait(t, n) ==
  /\ t \notin inside
  /\ remaining' = remaining - n
  /\ inside' = inside \cup {t}

Enter(t) ==
  /\ t \notin inside
  /\ inside' = inside \cup {t}
  /\ UNCHANGED remaining

Leave(t) ==
  /\ t \in inside
  /\ remaining = 0
  /\ inside' = inside \ {t}
  /\ UNCHANGED remaining

Next ==
  \/ \E n \in 1..remaining : CountDown(n)
  \/ \E t \in Threads :
       \/ \E n \in 1..remaining : CountDownAndWait(t, n)
       \/ Enter(t)
       \/ Leave(t)

Spec == Init /\ [][Next]_vars
=============================================================================
