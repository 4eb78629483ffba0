------------------------- MODULE StateMachineProofs -------------------------
(***************************************************************************)
(* The handlers cover every state that trigger() can look up, and what it  *)
(* calls belongs to the state the machine is in, for any number of states, *)
(* transitions, edges and nested calls.                                    *)
(***************************************************************************)
EXTENDS StateMachine, SequenceTheorems, TLAPS

\* The calls below the innermost wait in a callback that may re-enter.
OuterReenter ==
  \A i \in 1..Len(stack) - 1 : stack[i].at \in reenter

\* A call inside a condition is at one of its transitions.
AtTransition ==
  \A i \in 1..Len(stack) :
    stack[i].at = "cond" => stack[i].pos \in 1..Len(transitions[stack[i].handler])

IInv == TypeOK /\ HandlersCover /\ TestedInItsState /\ OuterReenter /\ AtTransition


LEMMA InitInv == Init => IInv
<1> SUFFICES ASSUME Init PROVE IInv
  OBVIOUS
<1>1. current \in Nat /\ size = current + 1 /\ size \in 1..NStates /\ 0 \in States
  BY StateMachineAssumption DEF Init, Resized, States
<1>2. TypeOK
  <2>1. NoEvent \in Events
    BY <1>1 DEF NoEvent, Event, Events
  <2>2. stack \in Seq(Frames) /\ transitions \in [States -> Seq(Transitions)]
    BY DEF Init
  <2> QED
    BY <1>1, <2>1, <2>2 DEF Init, TypeOK
<1>3. HandlersCover
  BY <1>1 DEF Init, HandlersCover
<1>4. TestedInItsState /\ OuterReenter /\ AtTransition
  BY DEF Init, TestedInItsState, OuterReenter, AtTransition
<1> QED
  BY <1>2, <1>3, <1>4 DEF IInv

\* What _resize leaves.
LEMMA ResizedCovers ==
  ASSUME NEW s \in States, NEW n \in 0..NStates
  PROVE  /\ Resized(s, n) \in 1..NStates
         /\ s < Resized(s, n) /\ n <= Resized(s, n)
         /\ s < n => Resized(s, n) = n
BY StateMachineAssumption DEF States, Resized

\* What a call that is entered does to the stack.
LEMMA Entered ==
  ASSUME IInv, NEW f \in Frames, stack' = Append(stack, f)
  PROVE  /\ stack' \in Seq(Frames)
         /\ Len(stack) \in Nat /\ Len(stack') = Len(stack) + 1
         /\ \A i \in 1..Len(stack) : stack'[i] = stack[i]
         /\ stack'[Len(stack')] = f
<1>1. stack \in Seq(Frames)
  BY DEF IInv, TypeOK
<1> QED
  BY <1>1

\* A sequence without its last element.
LEMMA AllButLast ==
  ASSUME NEW S, NEW s \in Seq(S), s # <<>>
  PROVE  /\ Len(s) \in Nat \ {0}
         /\ SubSeq(s, 1, Len(s) - 1) \in Seq(S)
         /\ Len(SubSeq(s, 1, Len(s) - 1)) = Len(s) - 1
         /\ \A i \in 1..Len(s) - 1 : SubSeq(s, 1, Len(s) - 1)[i] = s[i]
<1> DEFINE n == Len(s) - 1
<1>1. Len(s) \in Nat \ {0} /\ n \in Nat
  BY EmptySeq
<1>2. \A i \in 1..n : s[i] \in S
  BY <1>1
<1>3. /\ SubSeq(s, 1, n) \in Seq(S)
      /\ Len(SubSeq(s, 1, n)) = IF 1 <= n THEN n - 1 + 1 ELSE 0
      /\ \A i \in 1..n - 1 + 1 : SubSeq(s, 1, n)[i] = s[1 + i - 1]
  <2> HIDE DEF n
  <2> QED
    BY <1>1, <1>2, SubSeqProperties
<1>4. /\ Len(SubSeq(s, 1, n)) = n
      /\ \A i \in 1..n : SubSeq(s, 1, n)[i] = s[i]
  <2> HIDE DEF n
  <2> QED
    BY <1>1, <1>3
<1> QED
  BY <1>1, <1>3, <1>4

\* The innermost call and the ones below it.
LEMMA TopFrame ==
  ASSUME IInv, stack # <<>>
  PROVE  /\ Len(stack) \in Nat \ {0}
         /\ Top \in Frames /\ Top = stack[Len(stack)]
         /\ Below \in Seq(Frames) /\ Len(Below) = Len(stack) - 1
         /\ \A i \in 1..Len(stack) - 1 : Below[i] = stack[i]
<1>1. stack \in Seq(Frames) /\ Len(stack) \in Nat \ {0}
  BY DEF IInv, TypeOK
<1>2. /\ Below \in Seq(Frames) /\ Len(Below) = Len(stack) - 1
      /\ \A i \in 1..Len(stack) - 1 : Below[i] = stack[i]
  BY <1>1, AllButLast DEF Below
<1> QED
  BY <1>1, <1>2 DEF Top

\* What a step inside the innermost call does to the stack.
LEMMA Moved ==
  ASSUME IInv, stack # <<>>, NEW f \in Frames, stack' = Append(Below, f)
  PROVE  /\ stack' \in Seq(Frames) /\ Len(stack') = Len(stack)
         /\ \A i \in 1..Len(stack) - 1 : stack'[i] = stack[i]
         /\ stack'[Len(stack)] = f
BY TopFrame

\* A step of the user on the table of handlers, while no call is in progress.
LEMMA ConfigureInv ==
  ASSUME IInv, Configure
  PROVE  IInv'
<1>1. /\ stack = <<>> /\ stack' = <<>> /\ UNCHANGED <<current, new_edges, lastEvent, reenter>>
  BY DEF Configure, add_transition, SetOnEntry, SetOnExit, clear, Idle
<1>2. /\ size \in 1..NStates /\ size \in 0..NStates /\ size' \in 1..NStates
      /\ size \in Nat /\ size' \in Nat /\ current \in States /\ 0 \in 0..NStates
  <2>1. size \in 1..NStates /\ size \in 0..NStates /\ current \in States /\ 0 \in 0..NStates
    BY StateMachineAssumption DEF IInv, TypeOK
  <2>2. \A s, t \in States : Resized(t, Resized(s, size)) \in 1..NStates
    BY <2>1, ResizedCovers
  <2>3. size' \in 1..NStates
    <3>1. CASE \E s, t \in States, c \in Edges \cup {NoCond} : add_transition(s, t, c)
      BY <2>2, <3>1 DEF add_transition
    <3>2. CASE \E s \in States, b \in BOOLEAN : SetOnEntry(s, b) \/ SetOnExit(s, b)
      BY <2>1, <3>2, ResizedCovers DEF SetOnEntry, SetOnExit
    <3>3. CASE clear
      BY <2>1, <3>3, ResizedCovers DEF clear
    <3> QED
      BY <3>1, <3>2, <3>3 DEF Configure
  <2> QED
    BY <2>1, <2>3, StateMachineAssumption
<1>3. TestedInItsState' /\ OuterReenter' /\ AtTransition'
  BY <1>1 DEF TestedInItsState, OuterReenter, AtTransition
<1>4. stack' \in Seq(Frames)
  BY <1>1
<1>5. CASE \E s, t \in States, c \in Edges \cup {NoCond} : add_transition(s, t, c)
  <2> PICK s \in States, t \in States, c \in Edges \cup {NoCond} : add_transition(s, t, c)
    BY <1>5
  <2> DEFINE e == [cond |-> c, next |-> t]
  <2>1. /\ transitions' = [transitions EXCEPT ![s] = Append(@, e)]
        /\ UNCHANGED <<on_exit, on_entry>>
        /\ e \in Transitions /\ e.next = t
    BY DEF add_transition, Transitions
  <2>2. transitions' \in [States -> Seq(Transitions)]
    BY <2>1 DEF IInv, TypeOK
  <2>3. size <= size' /\ s < size' /\ t < size'
    <3>1. Resized(s, size) \in 0..NStates /\ size <= Resized(s, size) /\ s < Resized(s, size)
      BY <1>2, ResizedCovers
    <3>2. size' = Resized(t, Resized(s, size))
      BY DEF add_transition
    <3> QED
      BY <1>2, <3>1, <3>2, ResizedCovers DEF States
  <2>4. TypeOK'
    BY <1>1, <1>2, <1>4, <2>1, <2>2 DEF IInv, TypeOK
  <2>5. HandlersCover'
    <3>1. current < size'
      BY <1>2, <2>3 DEF IInv, HandlersCover, States
    <3>2. \A r \in States : r # s => transitions'[r] = transitions[r]
      BY <2>1 DEF IInv, TypeOK
    <3>3. /\ transitions'[s] = Append(transitions[s], e)
          /\ transitions[s] \in Seq(Transitions)
      BY <2>1 DEF IInv, TypeOK
    <3>4. \A i \in 1..Len(transitions'[s]) :
            \/ i \in 1..Len(transitions[s]) /\ transitions'[s][i] = transitions[s][i]
            \/ transitions'[s][i] = e
      BY <2>1, <3>3
    <3>5. \A r \in States : \A i \in 1..Len(transitions[r]) : transitions[r][i].next \in States
      <4>1. \A r \in States : \A i \in 1..Len(transitions[r]) : transitions[r][i] \in Transitions
        BY DEF IInv, TypeOK
      <4> QED
        BY <4>1 DEF Transitions
    <3>6. \A r \in States : \A i \in 1..Len(transitions[r]) : transitions[r][i].next < size'
      BY <1>2, <2>3, <3>5 DEF IInv, HandlersCover, States
    <3>7. \A r \in States : \A i \in 1..Len(transitions'[r]) : transitions'[r][i].next < size'
      BY <2>1, <2>3, <3>2, <3>4, <3>6
    <3>8. \A r \in States : transitions'[r] # <<>> => r < size'
      BY <1>2, <2>3, <3>2 DEF IInv, HandlersCover, States
    <3> QED
      BY <1>1, <3>1, <3>7, <3>8 DEF HandlersCover
  <2> QED
    BY <1>3, <2>4, <2>5 DEF IInv
<1>6. CASE \E s \in States, b \in BOOLEAN : SetOnEntry(s, b) \/ SetOnExit(s, b)
  <2> PICK s \in States, b \in BOOLEAN : SetOnEntry(s, b) \/ SetOnExit(s, b)
    BY <1>6
  <2>1. /\ UNCHANGED transitions /\ size' = Resized(s, size)
        /\ on_exit' \in SUBSET States /\ on_entry' \in SUBSET States
    BY DEF SetOnEntry, SetOnExit, IInv, TypeOK
  <2>2. size <= size'
    BY <1>2, <2>1, ResizedCovers
  <2>3. TypeOK'
    BY <1>1, <1>2, <1>4, <2>1 DEF IInv, TypeOK
  <2>4. \A r \in States : \A i \in 1..Len(transitions[r]) : transitions[r][i].next \in States
    <3>1. \A r \in States : \A i \in 1..Len(transitions[r]) : transitions[r][i] \in Transitions
      BY DEF IInv, TypeOK
    <3> QED
      BY <3>1 DEF Transitions
  <2>5. HandlersCover'
    BY <1>1, <1>2, <2>1, <2>2, <2>4 DEF IInv, HandlersCover, States
  <2> QED
    BY <1>3, <2>3, <2>5 DEF IInv
<1>7. CASE clear
  <2>1. /\ size' = Resized(current, 0) /\ transitions' = [s \in States |-> <<>>]
        /\ on_exit' = {} /\ on_entry' = {}
    BY <1>7 DEF clear
  <2>2. TypeOK'
    BY <1>1, <1>2, <1>4, <2>1 DEF IInv, TypeOK
  <2>3. current < size'
    BY <1>2, <2>1, ResizedCovers
  <2>4. HandlersCover'
    BY <1>1, <2>1, <2>3 DEF HandlersCover
  <2> QED
    BY <1>3, <2>2, <2>4 DEF IInv
<1> QED
  BY <1>5, <1>6, <1>7 DEF Configure

\* What no step on the stack changes.
LEMMA ForceStateInv ==
  ASSUME IInv, NEW s \in States, force_state(s)
  PROVE  IInv'
<1>1. /\ UNCHANGED <<transitions, on_exit, on_entry, new_edges, stack, lastEvent, reenter>>
      /\ size' = Resized(s, size) /\ current' = s
      /\ stack = <<>> \/ (s < size /\ stack # <<>> /\ Top.at \in reenter)
  BY DEF force_state, MayCall, Idle
<1>2. size \in 1..NStates /\ size \in 0..NStates /\ size \in Nat
  BY StateMachineAssumption DEF IInv, TypeOK
<1>3. /\ size' \in 1..NStates /\ s < size' /\ size <= size'
      /\ stack # <<>> => size' = size
  BY <1>1, <1>2, ResizedCovers
<1>4. TypeOK'
  BY <1>1, <1>3 DEF IInv, TypeOK
<1>5. HandlersCover'
  <2>1. \A r \in States : \A i \in 1..Len(transitions[r]) : transitions[r][i].next \in States
    <3>1. \A r \in States : \A i \in 1..Len(transitions[r]) : transitions[r][i] \in Transitions
      BY DEF IInv, TypeOK
    <3> QED
      BY <3>1 DEF Transitions
  <2>2. \A r \in States : \A i \in 1..Len(transitions[r]) : transitions[r][i].next < size'
    BY <1>2, <1>3, <2>1 DEF IInv, HandlersCover, States
  <2>3. \A r \in States : transitions[r] # <<>> => r < size'
    BY <1>2, <1>3 DEF IInv, HandlersCover, States
  <2>4. \A i \in 1..Len(stack) : stack[i].handler < size' /\ stack[i].next < size'
    BY <1>3 DEF IInv, HandlersCover
  <2> QED
    BY <1>1, <1>3, <2>2, <2>3, <2>4 DEF HandlersCover
<1>6. TestedInItsState'
  <2> SUFFICES ASSUME reenter \subseteq {"entry"}, NEW i \in 1..Len(stack),
                      stack[i].at \in {"test", "cond", "exit"}
               PROVE  FALSE
    BY <1>1 DEF TestedInItsState
  <2>1. stack # <<>> /\ Top.at \in reenter /\ Len(stack) \in Nat
    BY <1>1 DEF IInv, TypeOK
  <2>2. CASE i = Len(stack)
    BY <2>1, <2>2 DEF Top
  <2>3. CASE i \in 1..Len(stack) - 1
    BY <2>3 DEF IInv, OuterReenter
  <2> QED
    BY <2>1, <2>2, <2>3
<1>7. OuterReenter' /\ AtTransition'
  BY <1>1 DEF IInv, OuterReenter, AtTransition
<1> QED
  BY <1>4, <1>5, <1>6, <1>7 DEF IInv

LEMMA TriggerInv ==
  ASSUME IInv, trigger
  PROVE  IInv'
<1> DEFINE f == [handler |-> current, pos |-> 1, next |-> current, at |-> "test"]
           n == Len(stack)
<1>1. /\ UNCHANGED <<size, transitions, on_exit, on_entry, current, new_edges, lastEvent, reenter>>
      /\ stack' = Append(stack, f)
      /\ stack # <<>> => Top.at \in reenter
      /\ f \in Frames
  BY DEF trigger, MayCall, Idle, table, IInv, TypeOK, Frames, Places
<1>2. /\ stack' \in Seq(Frames) /\ n \in Nat /\ Len(stack') = n + 1
      /\ \A i \in 1..n : stack'[i] = stack[i]
      /\ stack'[n + 1] = f
  BY <1>1, Entered
<1>3. TypeOK'
  BY <1>1, <1>2 DEF IInv, TypeOK
<1>4. \A i \in 1..n + 1 : i \in 1..n \/ i = n + 1
  BY <1>2
<1>5. HandlersCover'
  BY <1>1, <1>2, <1>4 DEF IInv, HandlersCover
<1>6. \A i \in 1..n : stack[i].at \in reenter
  <2>1. \A i \in 1..n : i \in 1..n - 1 \/ (i = n /\ stack # <<>>)
    BY <1>2
  <2> QED
    BY <1>1, <2>1 DEF Top, IInv, OuterReenter
<1>7. TestedInItsState' /\ OuterReenter' /\ AtTransition'
  BY <1>1, <1>2, <1>4, <1>6 DEF IInv, TestedInItsState, OuterReenter, AtTransition
<1> QED
  BY <1>3, <1>5, <1>7 DEF IInv

\* The innermost call goes on with a frame f, or returns: what has to be shown.
LEMMA InTriggerKeeps ==
  ASSUME IInv, stack # <<>>, UNCHANGED <<size, transitions, on_exit, on_entry, reenter>>,
         current' \in States, current' < size, new_edges' \in SUBSET Edges, lastEvent' \in Events,
         \/ stack' = Below
         \/ \E f \in Frames :
              /\ stack' = Append(Below, f)
              /\ f.handler < size /\ f.next < size
              /\ f.at \in {"test", "cond", "exit"} => f.handler = Top.handler /\ current' = current
                                                      /\ Top.at \in {"test", "cond", "exit"}
              /\ f.at = "cond" => f.pos \in 1..Len(transitions[f.handler])
  PROVE  IInv'
<1> DEFINE n == Len(stack)
<1>1. /\ n \in Nat \ {0} /\ Top = stack[n]
      /\ Below \in Seq(Frames) /\ Len(Below) = n - 1
      /\ \A i \in 1..n - 1 : Below[i] = stack[i]
  BY TopFrame
<1>2. stack' \in Seq(Frames)
  BY <1>1
<1>3. TypeOK'
  BY <1>2 DEF IInv, TypeOK
<1>4. \A i \in 1..n - 1 : /\ stack[i].handler < size /\ stack[i].next < size
                          /\ stack[i].at \in reenter
                          /\ stack[i].at = "cond" => stack[i].pos \in 1..Len(transitions[stack[i].handler])
  BY <1>1 DEF IInv, HandlersCover, OuterReenter, AtTransition
<1>5. CASE stack' = Below
  <2>1. Len(stack') = n - 1 /\ \A i \in 1..n - 1 : stack'[i] = stack[i]
    BY <1>1, <1>5
  <2>2. HandlersCover'
    BY <1>4, <2>1 DEF IInv, HandlersCover
  <2>3. TestedInItsState' /\ OuterReenter' /\ AtTransition'
    BY <1>1, <1>4, <2>1 DEF TestedInItsState, OuterReenter, AtTransition
  <2> QED
    BY <1>3, <2>2, <2>3 DEF IInv
<1>6. ASSUME NEW f \in Frames, stack' = Append(Below, f),
             f.handler < size, f.next < size,
             f.at \in {"test", "cond", "exit"} => f.handler = Top.handler /\ current' = current
                                                  /\ Top.at \in {"test", "cond", "exit"},
             f.at = "cond" => f.pos \in 1..Len(transitions[f.handler])
      PROVE  IInv'
  <2>1. /\ Len(stack') = n /\ stack'[n] = f
        /\ \A i \in 1..n - 1 : stack'[i] = stack[i]
        /\ \A i \in 1..n : i \in 1..n - 1 \/ i = n
    BY <1>1, <1>6, Moved
  <2>2. HandlersCover'
    BY <1>4, <1>6, <2>1 DEF IInv, HandlersCover
  <2>3. OuterReenter' /\ AtTransition'
    BY <1>4, <1>6, <2>1 DEF OuterReenter, AtTransition
  <2>4. TestedInItsState'
    <3> SUFFICES ASSUME reenter \subseteq {"entry"}, NEW i \in 1..n,
                        stack'[i].at \in {"test", "cond", "exit"}
                 PROVE  stack'[i].handler = current'
      BY <2>1 DEF TestedInItsState
    <3>1. i = n
      BY <1>4, <2>1
    <3>2. f.handler = Top.handler /\ current' = current /\ Top.at \in {"test", "cond", "exit"}
      BY <1>6, <2>1, <3>1
    <3>3. Top.handler = current
      BY <1>1, <3>2 DEF IInv, TestedInItsState
    <3> QED
      BY <2>1, <3>1, <3>2, <3>3
  <2> QED
    BY <1>3, <2>2, <2>3, <2>4 DEF IInv
<1> QED
  BY <1>5, <1>6

\* Every transition leads to a state that has a handler.
LEMMA TransitionTyped ==
  ASSUME IInv, NEW s \in States, NEW i \in 1..Len(transitions[s])
  PROVE  /\ transitions[s][i] \in Transitions
         /\ transitions[s][i].next \in States /\ transitions[s][i].next < size
<1>1. transitions[s][i] \in Transitions
  BY DEF IInv, TypeOK
<1> QED
  BY <1>1 DEF Transitions, IInv, HandlersCover

\* The innermost call is of a state that has a handler.
LEMMA TopTyped ==
  ASSUME IInv, stack # <<>>
  PROVE  /\ Top \in Frames /\ Top.handler \in States /\ Top.next \in States /\ Top.pos \in Nat \ {0}
         /\ Top.handler < size /\ Top.next < size
         /\ Top.at = "cond" => Top.pos \in 1..Len(transitions[Top.handler])
<1>1. Len(stack) \in 1..Len(stack) /\ Top \in Frames /\ Top = stack[Len(stack)]
  BY TopFrame
<1> QED
  BY <1>1 DEF Frames, IInv, HandlersCover, AtTransition

\* The frames that a step may leave on top.
LEMMA FrameTyped ==
  ASSUME IInv, stack # <<>>, NEW s \in States, NEW p \in Places \cup {"test"}
  PROVE  /\ [Top EXCEPT !.at = p] \in Frames
         /\ [Top EXCEPT !.pos = @ + 1] \in Frames
         /\ [Top EXCEPT !.at = p, !.pos = @ + 1] \in Frames
         /\ [Top EXCEPT !.at = p, !.next = s] \in Frames
<1>1. Top \in Frames /\ Top.pos + 1 \in Nat \ {0}
  BY TopTyped
<1>2. [Top EXCEPT !.at = p] \in Frames
  BY <1>1 DEF Frames
<1>3. [Top EXCEPT !.pos = @ + 1] \in Frames
  BY <1>1 DEF Frames
<1>4. [Top EXCEPT !.at = p, !.pos = @ + 1] \in Frames
  BY <1>1 DEF Frames
<1>5. [Top EXCEPT !.at = p, !.next = s] \in Frames
  BY <1>1 DEF Frames
<1> QED
  BY <1>2, <1>3, <1>4, <1>5

\* Between two conditions.
LEMMA TestInv ==
  ASSUME IInv, TestNext \/ Exhausted \/ Refused \/ EntryReturns
  PROVE  IInv'
<1>1. /\ UNCHANGED <<size, transitions, on_exit, on_entry, current, reenter>>
      /\ stack # <<>> /\ new_edges' = new_edges
  BY DEF TestNext, Exhausted, Refused, EntryReturns, AtTop, table
<1>2. current \in States /\ current < size /\ new_edges \in SUBSET Edges /\ lastEvent \in Events
  BY DEF IInv, TypeOK, HandlersCover
<1>3. NoEvent \in Events
  BY StateMachineAssumption DEF NoEvent, Event, Events, States
<1>4. lastEvent' \in Events
  BY <1>2, <1>3 DEF TestNext, Exhausted, Refused, EntryReturns, Return
<1>5. CASE Exhausted \/ EntryReturns
  <2>1. stack' = Below
    BY <1>5 DEF Exhausted, EntryReturns, Return
  <2> QED
    BY <1>1, <1>2, <1>4, <2>1, InTriggerKeeps
<1>6. CASE Refused
  <2> DEFINE f == [Top EXCEPT !.at = "test", !.pos = @ + 1]
  <2>1. stack' = Append(Below, f) /\ Top.at = "cond"
    BY <1>6 DEF Refused, AtTop
  <2>2. /\ f \in Frames /\ f.handler = Top.handler /\ f.next = Top.next /\ f.at = "test"
    BY <1>1, FrameTyped, TopTyped DEF Places, Frames
  <2> HIDE DEF f
  <2> QED
    BY <1>1, <1>2, <1>4, <2>1, <2>2, TopTyped, InTriggerKeeps
<1>7. CASE TestNext
  <2> DEFINE f == IF Tested.cond = NoCond THEN [Top EXCEPT !.pos = @ + 1] ELSE [Top EXCEPT !.at = "cond"]
  <2>1. stack' = Append(Below, f) /\ Top.at = "test" /\ Top.pos <= Len(transitions[Top.handler])
    BY <1>7 DEF TestNext, AtTop, More
  <2>2. /\ f \in Frames /\ f.handler = Top.handler /\ f.next = Top.next
        /\ f.at = "cond" => f.pos = Top.pos
    BY <1>1, <2>1, FrameTyped, TopTyped DEF Places, Frames
  <2>3. Top.pos >= 1
    BY <1>1, TopTyped
  <2>4. transitions[Top.handler] \in Seq(Transitions)
    BY <1>1, TopTyped DEF IInv, TypeOK
  <2>5. f.at = "cond" => f.pos \in 1..Len(transitions[f.handler])
    BY <1>1, <2>1, <2>2, <2>3, <2>4, TopTyped
  <2> HIDE DEF f
  <2> QED
    BY <1>1, <1>2, <1>4, <2>1, <2>2, <2>5, TopTyped, InTriggerKeeps
<1> QED
  BY <1>5, <1>6, <1>7

\* The switch to a state that has a handler.
LEMMA SwitchInv ==
  ASSUME IInv, NEW next \in States, next < size, stack # <<>>, Switch(next),
         UNCHANGED <<size, transitions, on_exit, on_entry, reenter>>, new_edges' \in SUBSET Edges
  PROVE  IInv'
<1>1. current' = next /\ current \in States /\ lastEvent \in Events /\ NoEvent \in Events
  BY StateMachineAssumption DEF Switch, IInv, TypeOK, NoEvent, Event, Events, States
<1>2. lastEvent' \in Events
  <2>1. Event("entry", current, next) \in Events
    BY <1>1 DEF Event, Events
  <2> QED
    BY <1>1, <2>1 DEF Switch, Return
<1>3. CASE stack' = Below
  BY <1>1, <1>2, <1>3, InTriggerKeeps
<1>4. CASE stack' = Append(Below, [Top EXCEPT !.at = "entry", !.next = next])
  <2> DEFINE f == [Top EXCEPT !.at = "entry", !.next = next]
  <2>1. f \in Frames /\ f.handler = Top.handler /\ f.next = next /\ f.at = "entry"
    BY FrameTyped, TopTyped DEF Places, Frames
  <2>2. stack' = Append(Below, f)
    BY <1>4
  <2> HIDE DEF f
  <2> QED
    BY <1>1, <1>2, <2>1, <2>2, TopTyped, InTriggerKeeps
<1> QED
  BY <1>3, <1>4 DEF Switch, Return

LEMMA AcceptedInv ==
  ASSUME IInv, Accepted
  PROVE  IInv'
<1> DEFINE next == Tested.next
<1>1. /\ UNCHANGED <<size, transitions, on_exit, on_entry, reenter>>
      /\ stack # <<>> /\ Top.at = "cond"
      /\ new_edges' \in SUBSET Edges
  BY DEF Accepted, AtTop, table, IInv, TypeOK
<1>2. next \in States /\ next < size
  BY <1>1, TopTyped, TransitionTyped DEF Tested
<1>3. CASE Switch(next)
  BY <1>1, <1>2, <1>3, SwitchInv
<1>4. CASE /\ stack' = Append(Below, [Top EXCEPT !.at = "exit", !.next = next])
           /\ lastEvent' = Event("exit", current, next)
           /\ UNCHANGED current
  <2> DEFINE f == [Top EXCEPT !.at = "exit", !.next = next]
  <2>1. /\ f \in Frames /\ f.handler = Top.handler /\ f.next = next /\ f.at = "exit"
        /\ stack' = Append(Below, f)
    BY <1>1, <1>2, <1>4, FrameTyped, TopTyped DEF Places, Frames
  <2>2. /\ lastEvent' \in Events /\ current' \in States /\ current' < size /\ current' = current
    BY <1>2, <1>4 DEF Event, Events, IInv, TypeOK, HandlersCover
  <2> HIDE DEF f, next
  <2> QED
    BY <1>1, <1>2, <2>1, <2>2, TopTyped, InTriggerKeeps
<1> QED
  BY <1>3, <1>4 DEF Accepted

\* Every step preserves the inductive invariant.
LEMMA NextInv == IInv /\ [Next]_vars => IInv'
<1> SUFFICES ASSUME IInv, [Next]_vars PROVE IInv'
  OBVIOUS
<1>1. CASE UNCHANGED vars
  BY <1>1 DEF vars, table, IInv, TypeOK, HandlersCover, TestedInItsState, OuterReenter, AtTransition
<1>2. CASE Configure
  BY <1>2, ConfigureInv
<1>3. CASE \E s \in States : force_state(s)
  BY <1>3, ForceStateInv
<1>4. CASE \E e \in Edges : SetEdge(e)
  <2>1. /\ UNCHANGED <<size, transitions, on_exit, on_entry, current, stack, lastEvent, reenter>>
        /\ new_edges' \in SUBSET Edges
    BY <1>4 DEF SetEdge, table, IInv, TypeOK
  <2> QED
    BY <2>1 DEF IInv, TypeOK, HandlersCover, TestedInItsState, OuterReenter, AtTransition
<1>5. CASE trigger
  BY <1>5, TriggerInv
<1>6. CASE TestNext \/ Exhausted \/ Refused \/ EntryReturns
  BY <1>6, TestInv
<1>7. CASE Accepted
  BY <1>7, AcceptedInv
<1>8. CASE ExitReturns
  <2>1. /\ UNCHANGED <<size, transitions, on_exit, on_entry, reenter>>
        /\ stack # <<>> /\ Switch(Top.next) /\ new_edges' \in SUBSET Edges
    BY <1>8 DEF ExitReturns, AtTop, table, IInv, TypeOK
  <2> QED
    BY <2>1, TopTyped, SwitchInv
<1> QED
  BY <1>1, <1>2, <1>3, <1>4, <1>5, <1>6, <1>7, <1>8 DEF Next, InTrigger

\* trigger() always finds the handlers it looks up.
THEOREM HandlersFound == Spec => []HandlersCover
<1>1. IInv => HandlersCover
  BY DEF IInv
<1> QED
  BY InitInv, NextInv, <1>1, PTL DEF Spec

\* The handlers and the frames of nested calls keep to their types: the current
\* state is a state of the machine.
THEOREM TypeCorrect == Spec => []TypeOK
<1>1. IInv => TypeOK
  BY DEF IInv
<1> QED
  BY InitInv, NextInv, <1>1, PTL DEF Spec

\* If only entries re-enter, what is called belongs to the current state.
THEOREM CallsBelong == Spec => []TestedInItsState
<1>1. IInv => TestedInItsState
  BY DEF IInv
<1> QED
  BY InitInv, NextInv, <1>1, PTL DEF Spec
-----------------------------------------------------------------------------
InExit == stack # <<>> /\ Top.at = "exit"

\* While an on_exit runs that nothing re-enters from, it is the last that was
\* called, with the change of state its trigger() is about to make, and that
\* change is one of the transitions of the state it leaves.
ExitTold ==
  reenter \subseteq {"entry"} /\ InExit =>
    lastEvent = Event("exit", current, Top.next) /\ Leads(current, Top.next)

\* When the innermost call returns to another one, that one is in a callback.
LEMMA ReturnsToCallback ==
  ASSUME IInv, stack # <<>>, reenter \subseteq {"entry"}, Return
  PROVE  ~InExit'
<1>1. /\ Len(stack) \in Nat \ {0} /\ stack' = Below
      /\ Below \in Seq(Frames) /\ Len(Below) = Len(stack) - 1
      /\ \A i \in 1..Len(stack) - 1 : Below[i] = stack[i]
  BY TopFrame DEF Return
<1>2. CASE Len(stack) = 1
  BY <1>1, <1>2 DEF InExit
<1>3. CASE Len(stack) > 1
  <2>1. Len(stack) - 1 \in 1..Len(stack) - 1
    BY <1>1, <1>3
  <2>2. Top' = stack[Len(stack) - 1]
    BY <1>1, <2>1 DEF Top
  <2>3. Top'.at \in reenter
    BY <2>1, <2>2 DEF IInv, OuterReenter
  <2> QED
    BY <2>3 DEF InExit
<1> QED
  BY <1>1, <1>2, <1>3

\* The frame that a call leaves on top of those below.
LEMMA NewTop ==
  ASSUME IInv, stack # <<>>, NEW f \in Frames, stack' = Append(Below, f)
  PROVE  Top' = f
<1>1. Len(stack') = Len(stack) /\ stack'[Len(stack)] = f
  BY Moved
<1> QED
  BY <1>1 DEF Top

\* After a switch no on_exit is running.
LEMMA SwitchTold ==
  ASSUME IInv, NEW next \in States, stack # <<>>, Switch(next), reenter \subseteq {"entry"}
  PROVE  ~InExit'
<1>1. CASE Return
  BY <1>1, ReturnsToCallback
<1>2. CASE stack' = Append(Below, [Top EXCEPT !.at = "entry", !.next = next])
  <2> DEFINE f == [Top EXCEPT !.at = "entry", !.next = next]
  <2>1. f \in Frames /\ f.at = "entry"
    BY FrameTyped, TopTyped DEF Places, Frames
  <2> HIDE DEF f
  <2>2. Top' = f
    BY <1>2, <2>1, NewTop DEF f
  <2> QED
    BY <2>1, <2>2 DEF InExit
<1> QED
  BY <1>1, <1>2 DEF Switch

\* The transition whose condition is being tested is one of the current state.
LEMMA AcceptedLeads ==
  ASSUME IInv, stack # <<>>, Top.at = "cond", reenter \subseteq {"entry"}
  PROVE  Top.handler = current /\ Leads(current, transitions[Top.handler][Top.pos].next)
<1>1. Len(stack) \in 1..Len(stack) /\ Top = stack[Len(stack)]
  BY TopFrame
<1>2. Top.handler = current
  BY <1>1 DEF IInv, TestedInItsState
<1>3. Top.pos \in 1..Len(transitions[Top.handler])
  BY TopTyped
<1> QED
  BY <1>2, <1>3 DEF Leads

LEMMA ToldInit == Init => ExitTold
BY DEF Init, ExitTold, InExit

LEMMA ToldNext == IInv /\ ExitTold /\ [Next]_vars => ExitTold'
<1> SUFFICES ASSUME IInv, ExitTold, [Next]_vars, reenter' \subseteq {"entry"}, InExit'
             PROVE  lastEvent' = Event("exit", current', Top'.next) /\ Leads(current, Top.next)'
  BY DEF ExitTold
<1>1. reenter' = reenter
  BY DEF Next, vars, Configure, add_transition, SetOnEntry, SetOnExit, clear, force_state, SetEdge,
         trigger, InTrigger, TestNext, Exhausted, Refused, Accepted, ExitReturns, EntryReturns
<1>2. CASE UNCHANGED <<stack, lastEvent, current, transitions>>
  <2>1. Top' = Top /\ InExit
    BY <1>2 DEF Top, InExit
  <2> QED
    BY <1>1, <1>2, <2>1 DEF ExitTold, Leads
<1>3. CASE Configure
  <2>1. stack' = <<>>
    BY <1>3 DEF Configure, add_transition, SetOnEntry, SetOnExit, clear, Idle
  <2> QED
    BY <2>1 DEF InExit
<1>4. CASE \E s \in States : force_state(s)
  <2>1. stack' = stack /\ (stack # <<>> => Top.at \in reenter)
    BY <1>4 DEF force_state, MayCall, Idle
  <2>2. Top' = Top
    BY <2>1 DEF Top
  <2> QED
    BY <1>1, <2>1, <2>2 DEF InExit
<1>5. CASE trigger
  <2> DEFINE f == [handler |-> current, pos |-> 1, next |-> current, at |-> "test"]
  <2>1. f \in Frames /\ f.at = "test"
    BY DEF Frames, IInv, TypeOK
  <2>2. Top' = f
    BY <1>5, <2>1, Entered DEF trigger, Top
  <2> QED
    BY <2>1, <2>2 DEF InExit
<1>6. CASE Exhausted \/ EntryReturns
  BY <1>1, <1>6, ReturnsToCallback DEF Exhausted, EntryReturns, AtTop
<1>7. CASE TestNext \/ Refused
  <2> PICK p \in {"test", "cond"} : \E f \in Frames : stack' = Append(Below, f) /\ f.at = p
    <3>1. stack # <<>>
      BY <1>7 DEF TestNext, Refused, AtTop
    <3>2. Top \in Frames
      BY <3>1, TopTyped
    <3>3. CASE TestNext
      <4>1. CASE Tested.cond = NoCond
        <5>1. /\ [Top EXCEPT !.pos = @ + 1] \in Frames
              /\ [Top EXCEPT !.pos = @ + 1].at = "test"
          BY <3>1, <3>2, <3>3, FrameTyped DEF TestNext, AtTop, Frames, Places
        <5> QED
          BY <3>3, <4>1, <5>1 DEF TestNext
      <4>2. CASE Tested.cond # NoCond
        <5>1. /\ [Top EXCEPT !.at = "cond"] \in Frames
              /\ [Top EXCEPT !.at = "cond"].at = "cond"
          BY <3>1, <3>2, FrameTyped DEF Frames, Places
        <5> QED
          BY <3>3, <4>2, <5>1 DEF TestNext
      <4> QED
        BY <4>1, <4>2
    <3>4. CASE Refused
      <4>1. /\ [Top EXCEPT !.at = "test", !.pos = @ + 1] \in Frames
            /\ [Top EXCEPT !.at = "test", !.pos = @ + 1].at = "test"
        BY <3>1, <3>2, FrameTyped DEF Frames, Places
      <4> QED
        BY <3>4, <4>1 DEF Refused
    <3> QED
      BY <1>7, <3>3, <3>4
  <2> PICK f \in Frames : stack' = Append(Below, f) /\ f.at = p
    OBVIOUS
  <2>1. Top' = f
    BY <1>7, NewTop DEF TestNext, Refused, AtTop
  <2> QED
    BY <2>1 DEF InExit
<1>8. CASE Accepted
  <2> DEFINE next == Tested.next
  <2>1. stack # <<>> /\ Top.at = "cond"
    BY <1>8 DEF Accepted, AtTop
  <2>2. next \in States
    BY <2>1, TopTyped, TransitionTyped DEF Tested
  <2>3. CASE Switch(next)
    BY <1>1, <2>1, <2>2, <2>3, SwitchTold
  <2>4. CASE /\ stack' = Append(Below, [Top EXCEPT !.at = "exit", !.next = next])
             /\ lastEvent' = Event("exit", current, next)
             /\ UNCHANGED current
    <3> DEFINE f == [Top EXCEPT !.at = "exit", !.next = next]
    <3>1. f \in Frames /\ f.next = next /\ stack' = Append(Below, f)
      BY <2>1, <2>2, <2>4, FrameTyped, TopTyped DEF Places, Frames
    <3> HIDE DEF f
    <3>2. Top' = f
      BY <2>1, <3>1, NewTop
    <3>3. Leads(current, next)
      BY <1>1, <2>1, AcceptedLeads DEF Tested
    <3>4. UNCHANGED transitions
      BY <1>8 DEF Accepted, table
    <3> QED
      BY <2>4, <3>1, <3>2, <3>3, <3>4 DEF Leads
  <2> QED
    BY <1>8, <2>3, <2>4 DEF Accepted
<1>9. CASE ExitReturns
  <2>1. stack # <<>> /\ Switch(Top.next)
    BY <1>9 DEF ExitReturns, AtTop
  <2>2. Top.next \in States
    BY <2>1, TopTyped
  <2> QED
    BY <1>1, <2>1, <2>2, SwitchTold
<1>10. CASE \E e \in Edges : SetEdge(e)
  BY <1>2, <1>10 DEF SetEdge, table
<1>11. CASE UNCHANGED vars
  BY <1>2, <1>11 DEF vars, table
<1> QED
  BY <1>3, <1>4, <1>5, <1>6, <1>7, <1>8, <1>9, <1>10, <1>11 DEF Next, InTrigger

\* The only steps that call an on_entry are the switch after a condition, of a
\* handler without on_exit, and the one after an on_exit.
LEMMA EntrySteps ==
  ASSUME [Next]_vars, EntryCalled
  PROVE  /\ lastEvent' = Event("entry", current, current')
         /\ \/ AtTop("cond") /\ Top.handler \notin on_exit
            \/ InExit /\ current' = Top.next
<1>1. lastEvent' # lastEvent /\ lastEvent'.kind = "entry"
  BY DEF EntryCalled
<1>2. NoEvent.kind = "none" /\ \A s, t : Event("exit", s, t).kind = "exit"
  BY DEF NoEvent, Event
<1>3. ~Return
  BY <1>1, <1>2 DEF Return
<1>4. CASE Accepted
  <2>1. ~(lastEvent' = Event("exit", current, Tested.next))
    BY <1>1, <1>2
  <2>2. AtTop("cond") /\ Top.handler \notin on_exit /\ Switch(Tested.next)
    BY <1>4, <2>1 DEF Accepted
  <2> QED
    BY <1>3, <2>2 DEF Switch
<1>5. CASE ExitReturns
  BY <1>3, <1>5 DEF ExitReturns, Switch, AtTop, InExit
<1>6. Accepted \/ ExitReturns
  <2>1. ~UNCHANGED lastEvent
    BY <1>1
  <2> QED
    BY <1>3, <2>1 DEF Next, vars, Configure, add_transition, SetOnEntry, SetOnExit, clear, force_state,
         SetEdge, trigger, InTrigger, TestNext, Exhausted, Refused, EntryReturns
<1> QED
  BY <1>4, <1>5, <1>6

\* If only entries re-enter, an entry follows on the exit of the same change.
THEOREM ExitBeforeEntry == Spec => EntryFollowsExit
<1> DEFINE Follows == EntryCalled /\ reenter \subseteq {"entry"} /\ lastEvent'.from \in on_exit
                        => lastEvent = [lastEvent' EXCEPT !.kind = "exit"]
<1>1. IInv /\ ExitTold /\ [Next]_vars => [Follows]_vars
  <2> SUFFICES ASSUME IInv, ExitTold, [Next]_vars, EntryCalled,
                      reenter \subseteq {"entry"}, lastEvent'.from \in on_exit
               PROVE  lastEvent = [lastEvent' EXCEPT !.kind = "exit"]
    OBVIOUS
  <2>1. lastEvent' = Event("entry", current, current')
    BY EntrySteps
  <2>2. ~(AtTop("cond") /\ Top.handler \notin on_exit)
    <3> SUFFICES ASSUME AtTop("cond"), Top.handler \notin on_exit PROVE FALSE
      OBVIOUS
    <3>1. Len(stack) \in 1..Len(stack) /\ Top = stack[Len(stack)]
      BY TopFrame DEF AtTop
    <3>2. Top.handler = current
      BY <3>1 DEF AtTop, IInv, TestedInItsState
    <3> QED
      BY <2>1, <3>2 DEF Event
  <2>3. InExit /\ current' = Top.next
    BY <2>2, EntrySteps
  <2>4. lastEvent = Event("exit", current, current')
    BY <2>3 DEF ExitTold
  <2> QED
    BY <2>1, <2>4 DEF Event
<1> QED
  BY <1>1, InitInv, NextInv, ToldInit, ToldNext, PTL DEF Spec, EntryFollowsExit

\* If only entries re-enter, every change of state that trigger makes is one of
\* the transitions of the state the machine is in, however deep the calls nest.
THEOREM MovesAreTransitions == Spec => MovesAlongTransitions
<1> DEFINE Along == current' # current /\ stack' # stack /\ reenter \subseteq {"entry"}
                      => Leads(current, current')
<1>1. IInv /\ ExitTold /\ [Next]_vars => [Along]_vars
  <2> SUFFICES ASSUME IInv, ExitTold, [Next]_vars, current' # current, stack' # stack,
                      reenter \subseteq {"entry"}
               PROVE  Leads(current, current')
    OBVIOUS
  <2>1. Accepted \/ ExitReturns
    BY DEF Next, vars, Configure, add_transition, SetOnEntry, SetOnExit, clear, force_state,
           SetEdge, trigger, InTrigger, TestNext, Exhausted, Refused, EntryReturns
  <2>2. CASE Accepted
    <3>1. stack # <<>> /\ Top.at = "cond" /\ current' = Tested.next
      BY <2>2 DEF Accepted, AtTop, Switch
    <3> QED
      BY <3>1, AcceptedLeads DEF Tested
  <2>3. CASE ExitReturns
    <3>1. InExit /\ current' = Top.next
      BY <2>3 DEF ExitReturns, AtTop, InExit, Switch
    <3> QED
      BY <3>1 DEF ExitTold
  <2> QED
    BY <2>1, <2>2, <2>3
<1> QED
  BY <1>1, InitInv, NextInv, ToldInit, ToldNext, PTL DEF Spec, MovesAlongTransitions
=============================================================================
