--------------------------- MODULE AbstractQueue ---------------------------
(***************************************************************************)
(* What a concurrent_queue promises: a first-in first-out queue whose      *)
(* operations are atomic.  A try_pop either takes the oldest element or    *)
(* gives up, and gives up only if it found the queue empty after it was    *)
(* called.  The k-th element that is pushed is named k.                    *)
(***************************************************************************)
EXTENDS Integers, Sequences

CONSTANTS Consumers   \* the threads that call try_pop

VARIABLES items,      \* what the queue holds, oldest first
          pushed,     \* how many elements have been pushed
          calling,    \* the consumers inside try_pop
          missed      \* those of them that have found the queue empty

vars == <<items, pushed, calling, missed>>

Init ==
  /\ items = <<>>
  /\ pushed = 0
  /\ calling = {}
  /\ missed = {}

Push ==
  /\ pushed' = pushed + 1
  /\ items' = Append(items, pushed + 1)
  /\ UNCHANGED <<calling, missed>>

Call(c) ==
  /\ c \notin calling
  /\ calling' = calling \cup {c}
  /\ UNCHANGED <<items, pushed, missed>>

Take(c) ==
  /\ c \in calling
  /\ items # <<>>
  /\ items' = Tail(items)
  /\ calling' = calling \ {c}
  /\ missed' = missed \ {c}
  /\ UNCHANGED pushed

Miss(c) ==
  /\ c \in calling
  /\ items = <<>>
  /\ missed' = missed \cup {c}
  /\ UNCHANGED <<items, pushed, calling>>

GiveUp(c) ==
  /\ c \in missed
  /\ calling' = calling \ {c}
  /\ missed' = missed \ {c}
  /\ UNCHANGED <<items, pushed>>

Next == Push \/ \E c \in Consumers : Call(c) \/ Take(c) \/ Miss(c) \/ GiveUp(c)

Spec == Init /\ [][Next]_vars
=============================================================================
