---------------------------- MODULE StateMachine ----------------------------
(***************************************************************************)
(* hadoken::state_machine (state_machine/impl/state_machine_impl.hpp), with *)
(* conditions that consume an edge_trigger, as in its test.                *)
(*                                                                         *)
(* The functions a user registers are called inside trigger().  In the     *)
(* places of reenter they call trigger() and force_state() themselves,     *)
(* and they may set edges anywhere.  Each trigger() that is in progress is *)
(* a frame of stack.                                                       *)
(*                                                                         *)
(* Contract on the callbacks: trigger() holds references into _handlers,   *)
(* so while one is in progress nobody adds transitions or callbacks,       *)
(* clears, or forces a state that has no handler yet.                      *)
(***************************************************************************)
EXTENDS Integers, Sequences

CONSTANTS
  NStates,
  Edges,            \* the edge triggers that conditions look at
  NoCond,           \* an empty std::function as a condition
  Reentrant,        \* the sets of places from which callbacks may re-enter
  MaxTransitions,   \* bound: transitions of one state
  MaxDepth          \* bound: nested calls of trigger()

Places == {"cond", "exit", "entry"}

ASSUME StateMachineAssumption ==
  /\ NStates \in Nat \ {0}
  /\ NoCond \notin Edges
  /\ Reentrant \subseteq SUBSET Places
  /\ MaxTransitions \in Nat
  /\ MaxDepth \in Nat

\* to_state_index_position: a state is its index.
States == 0..NStates - 1

VARIABLES
  size,          \* _handlers.size()
  transitions,   \* _transitions of each handler
  on_exit,       \* the states whose handler has an _on_exit
  on_entry,      \* the states whose handler has an _on_entry
  current,       \* _current_state
  new_edges,     \* the edge triggers with _is_new
  stack,         \* the calls of trigger() in progress, the innermost last
  lastEvent,     \* history: the last event function called, while not idle
  reenter        \* the places where this user's functions call back

table == <<size, transitions, on_exit, on_entry>>
vars == <<table, current, new_edges, stack, lastEvent, reenter>>

(***************************************************************************)
(* handler is the one trigger() works on, pos the transition it is at, and *)
(* next the state it moves to.  It is at "test" between two conditions,    *)
(* otherwise inside the function that at names.                            *)
(***************************************************************************)
Transitions == [cond : Edges \cup {NoCond}, next : States]
Frames == [handler : States, pos : Nat \ {0}, next : States, at : Places \cup {"test"}]
Events == [kind : {"none", "exit", "entry"}, from : States, to : States]
Event(k, s, t) == [kind |-> k, from |-> s, to |-> t]
NoEvent == Event("none", 0, 0)

\* _resize(st).
Resized(s, n) == IF s >= n THEN s + 1 ELSE n

Init ==
  /\ current \in States
  /\ size = Resized(current, 0)
  /\ transitions = [s \in States |-> <<>>]
  /\ on_exit = {}
  /\ on_entry = {}
  /\ new_edges = {}
  /\ stack = <<>>
  /\ lastEvent = NoEvent
  /\ reenter \in Reentrant

Idle == stack = <<>>
Top == stack[Len(stack)]
Below == SubSeq(stack, 1, Len(stack) - 1)
AtTop(place) == stack # <<>> /\ Top.at = place

\* The innermost trigger() returns.
Return ==
  /\ stack' = Below
  /\ lastEvent' = IF Len(stack) = 1 THEN NoEvent ELSE lastEvent

\* Who may call trigger and force_state: the user, or a callback that does.
MayCall == ~Idle => Top.at \in reenter

\* A transition whose target is not given a handler.
ResizeFromOnly(from, to, c) ==
  /\ Idle
  /\ Len(transitions[from]) < MaxTransitions
  /\ size' = Resized(from, size)
  /\ transitions' = [transitions EXCEPT ![from] = Append(@, [cond |-> c, next |-> to])]
  /\ UNCHANGED <<on_exit, on_entry, current, new_edges, stack, lastEvent, reenter>>

add_transition(from, to, c) ==
  /\ Idle
  /\ Len(transitions[from]) < MaxTransitions
  /\ size' = Resized(to, Resized(from, size))
  /\ transitions' = [transitions EXCEPT ![from] = Append(@, [cond |-> c, next |-> to])]
  /\ UNCHANGED <<on_exit, on_entry, current, new_edges, stack, lastEvent, reenter>>

\* on_entry(st, event); an empty function takes the event away.
SetOnEntry(s, b) ==
  /\ Idle
  /\ size' = Resized(s, size)
  /\ on_entry' = IF b THEN on_entry \cup {s} ELSE on_entry \ {s}
  /\ UNCHANGED <<transitions, on_exit, current, new_edges, stack, lastEvent, reenter>>

SetOnExit(s, b) ==
  /\ Idle
  /\ size' = Resized(s, size)
  /\ on_exit' = IF b THEN on_exit \cup {s} ELSE on_exit \ {s}
  /\ UNCHANGED <<transitions, on_entry, current, new_edges, stack, lastEvent, reenter>>

clear ==
  /\ Idle
  /\ size' = Resized(current, 0)
  /\ transitions' = [s \in States |-> <<>>]
  /\ on_exit' = {}
  /\ on_entry' = {}
  /\ UNCHANGED <<current, new_edges, stack, lastEvent, reenter>>

force_state(s) ==
  /\ MayCall
  /\ Idle \/ s < size
  /\ size' = Resized(s, size)
  /\ current' = s
  /\ UNCHANGED <<transitions, on_exit, on_entry, new_edges, stack, lastEvent, reenter>>

\* edge_trigger::trigger, at any time.
SetEdge(e) ==
  /\ e \notin new_edges
  /\ new_edges' = new_edges \cup {e}
  /\ UNCHANGED <<table, current, stack, lastEvent, reenter>>

-----------------------------------------------------------------------------
trigger ==
  /\ MayCall
  /\ Len(stack) < MaxDepth
  /\ stack' = Append(stack, [handler |-> current, pos |-> 1, next |-> current, at |-> "test"])
  /\ UNCHANGED <<table, current, new_edges, lastEvent, reenter>>

Tested == transitions[Top.handler][Top.pos]
More == Top.pos <= Len(transitions[Top.handler])

\* The condition of a transition is called, an empty one is skipped.
TestNext ==
  /\ AtTop("test")
  /\ More
  /\ stack' = Append(Below, IF Tested.cond = NoCond THEN [Top EXCEPT !.pos = @ + 1]
                                                    ELSE [Top EXCEPT !.at = "cond"])
  /\ UNCHANGED <<table, current, new_edges, lastEvent, reenter>>

\* No transition is possible: trigger returns.
Exhausted ==
  /\ AtTop("test")
  /\ ~More
  /\ Return
  /\ UNCHANGED <<table, current, new_edges, reenter>>

\* The condition returns false.
Refused ==
  /\ AtTop("cond")
  /\ Tested.cond \notin new_edges
  /\ stack' = Append(Below, [Top EXCEPT !.at = "test", !.pos = @ + 1])
  /\ UNCHANGED <<table, current, new_edges, lastEvent, reenter>>

\* The state is switched, and on_entry called if there is one.  The state that
\* is left is read after the call of on_exit.
Switch(next) ==
  /\ current' = next
  /\ IF next \in on_entry
       THEN /\ stack' = Append(Below, [Top EXCEPT !.at = "entry", !.next = next])
            /\ lastEvent' = Event("entry", current, next)
       ELSE Return

\* The function looked for is the on_exit of the state that is entered.
AcceptedByNew ==
  /\ AtTop("cond")
  /\ Tested.cond \in new_edges
  /\ new_edges' = new_edges \ {Tested.cond}
  /\ IF Tested.next \in on_exit
       THEN /\ stack' = Append(Below, [Top EXCEPT !.at = "exit", !.next = Tested.next])
            /\ lastEvent' = Event("exit", current, Tested.next)
            /\ UNCHANGED current
       ELSE Switch(Tested.next)
  /\ UNCHANGED <<table, reenter>>

\* The condition returns true: consume() has taken the edge.
Accepted ==
  /\ AtTop("cond")
  /\ Tested.cond \in new_edges
  /\ new_edges' = new_edges \ {Tested.cond}
  /\ IF Top.handler \in on_exit
       THEN /\ stack' = Append(Below, [Top EXCEPT !.at = "exit", !.next = Tested.next])
            /\ lastEvent' = Event("exit", current, Tested.next)
            /\ UNCHANGED current
       ELSE Switch(Tested.next)
  /\ UNCHANGED <<table, reenter>>

ExitReturns ==
  /\ AtTop("exit")
  /\ Switch(Top.next)
  /\ UNCHANGED <<table, new_edges, reenter>>

\* A loop over the transitions that goes on after one has been taken.
GoesOn ==
  /\ AtTop("entry")
  /\ stack' = Append(Below, [Top EXCEPT !.at = "test", !.pos = @ + 1])
  /\ UNCHANGED <<table, current, new_edges, lastEvent, reenter>>

\* trigger returns with the first transition it has taken.
EntryReturns ==
  /\ AtTop("entry")
  /\ Return
  /\ UNCHANGED <<table, current, new_edges, reenter>>

Configure ==
  \/ \E s, t \in States, c \in Edges \cup {NoCond} : add_transition(s, t, c)
  \/ \E s \in States, b \in BOOLEAN : SetOnEntry(s, b) \/ SetOnExit(s, b)
  \/ clear

InTrigger == TestNext \/ Exhausted \/ Refused \/ Accepted \/ ExitReturns \/ EntryReturns

Next ==
  \/ Configure
  \/ \E s \in States : force_state(s)
  \/ \E e \in Edges : SetEdge(e)
  \/ trigger
  \/ InTrigger

Spec == Init /\ [][Next]_vars
-----------------------------------------------------------------------------
TypeOK ==
  /\ size \in 1..NStates
  /\ transitions \in [States -> Seq(Transitions)]
  /\ on_exit \in SUBSET States
  /\ on_entry \in SUBSET States
  /\ current \in States
  /\ new_edges \in SUBSET Edges
  /\ stack \in Seq(Frames)
  /\ lastEvent \in Events
  /\ reenter \in Reentrant

\* trigger never throws std::out_of_range (lines 69 and 78): the current state
\* and the target of every transition have a handler, after any calls of
\* force_state and clear, from callbacks too.
HandlersCover ==
  /\ current < size
  /\ \A s \in States : transitions[s] # <<>> => s < size
  /\ \A s \in States : \A i \in 1..Len(transitions[s]) : transitions[s][i].next < size
  /\ \A i \in 1..Len(stack) : stack[i].handler < size /\ stack[i].next < size

\* If only on_entry callbacks re-enter, a condition is tested and an on_exit
\* called (lines 72-82) in the state they were registered for, however deep the
\* entries nest.
TestedInItsState ==
  reenter \subseteq {"entry"} =>
    \A i \in 1..Len(stack) :
      stack[i].at \in {"test", "cond", "exit"} => stack[i].handler = current

EntryCalled == lastEvent' # lastEvent /\ lastEvent'.kind = "entry"

\* Under the same condition the entry into a state follows at once on the exit
\* from the one before, if that one listens, with the same two states.
EntryFollowsExit ==
  [][EntryCalled /\ reenter \subseteq {"entry"} /\ lastEvent'.from \in on_exit
       => lastEvent = [lastEvent' EXCEPT !.kind = "exit"]]_vars

\* A transition of state s leads to state t.
Leads(s, t) == \E i \in 1..Len(transitions[s]) : transitions[s][i].next = t

\* Under the same condition trigger moves the machine along the transitions of
\* the state it is in and of no other (lines 69-92): a call that has run an
\* on_entry which moved the machine on never continues with the transitions of
\* the state it began in.
MovesAlongTransitions ==
  [][current' # current /\ stack' # stack /\ reenter \subseteq {"entry"}
       => Leads(current, current')]_vars
=============================================================================
