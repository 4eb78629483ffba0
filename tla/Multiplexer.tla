---------------------------- MODULE Multiplexer ----------------------------
(***************************************************************************)
(* hadoken::multiplexer (executor/multiplexer_executor.hpp): calls of      *)
(* execute with one key that overlap share one execution of the item.      *)
(*                                                                         *)
(* What runs under _lock is one step: the look-up with the insertion, and  *)
(* the erasure.  Between the two the leader of the key runs its item,      *)
(* which may itself call execute and get() for other keys, and sets the    *)
(* promise.  A caller calls get() on the future it receives.  A future is  *)
(* the number of the execution that will make it ready.                    *)
(***************************************************************************)
EXTENDS Integers, Sequences

CONSTANTS
  Threads,
  Keys,
  Nests,       \* pairs <<k, l>>: the items of key k may call execute for key l
  MaxExec      \* bound: the number of executions

ASSUME MultiplexerAssumption ==
  /\ Nests \subseteq Keys \X Keys
  /\ MaxExec \in Nat

NoFuture == 0
Futures == 1..MaxExec

VARIABLES
  _map,        \* _map: the future under each key, or NoFuture
  started,     \* how many executions have started
  outcome,     \* what each promise was set to: unset, value or exception
  stack,       \* the calls each thread is in, the innermost last
  observed     \* history: the futures that some get() has returned from

vars == <<_map, started, outcome, stack, observed>>

(***************************************************************************)
(* A call is at "item" while it executes its item, at "erase" when it has  *)
(* set its promise, and at "get" when execute has returned its future.     *)
(***************************************************************************)
Calls == [key : Keys, future : Futures, at : {"item", "erase", "get"}]

Init ==
  /\ _map = [k \in Keys |-> NoFuture]
  /\ started = 0
  /\ outcome = [f \in Futures |-> "unset"]
  /\ stack = [t \in Threads |-> <<>>]
  /\ observed = {}

Top(t) == stack[t][Len(stack[t])]
At(t, place) == stack[t] # <<>> /\ Top(t).at = place
Moves(t, place) == stack' = [stack EXCEPT ![t][Len(stack[t])].at = place]

\* Who may call execute(k): a thread outside of it, or an item that nests k.
MayCall(t, k) == stack[t] = <<>> \/ (At(t, "item") /\ <<Top(t).key, k>> \in Nests)

\* The key is found: its shared future is returned.
Join(t, k) ==
  /\ MayCall(t, k)
  /\ _map[k] # NoFuture
  /\ stack' = [stack EXCEPT ![t] = Append(@, [key |-> k, future |-> _map[k], at |-> "get"])]
  /\ UNCHANGED <<_map, started, outcome, observed>>

\* A leader that publishes its future only when it is ready.
LeadUnpublished(t, k) ==
  /\ MayCall(t, k)
  /\ _map[k] = NoFuture
  /\ started < MaxExec
  /\ started' = started + 1
  /\ stack' = [stack EXCEPT ![t] = Append(@, [key |-> k, future |-> started + 1, at |-> "item"])]
  /\ UNCHANGED <<_map, outcome, observed>>

\* The key is not found: a new promise, its future in the map, then the item.
Lead(t, k) ==
  /\ MayCall(t, k)
  /\ _map[k] = NoFuture
  /\ started < MaxExec
  /\ started' = started + 1
  /\ _map' = [_map EXCEPT ![k] = started + 1]
  /\ stack' = [stack EXCEPT ![t] = Append(@, [key |-> k, future |-> started + 1, at |-> "item"])]
  /\ UNCHANGED <<outcome, observed>>

\* An exception of the item that is swallowed without set_exception.
SwallowException(t, o) ==
  /\ At(t, "item")
  /\ outcome' = IF o = "value" THEN [outcome EXCEPT ![Top(t).future] = o] ELSE outcome
  /\ Moves(t, "erase")
  /\ UNCHANGED <<_map, started, observed>>

\* An exception of the item that leaves execute at once.
ExceptionEscapes(t, o) ==
  /\ At(t, "item")
  /\ outcome' = [outcome EXCEPT ![Top(t).future] = o]
  /\ Moves(t, IF o = "value" THEN "erase" ELSE "get")
  /\ UNCHANGED <<_map, started, observed>>

\* internal_execute: the item returns or throws, and the promise is set.
SetPromise(t, o) ==
  /\ At(t, "item")
  /\ outcome' = [outcome EXCEPT ![Top(t).future] = o]
  /\ Moves(t, "erase")
  /\ UNCHANGED <<_map, started, observed>>

\* The lock is taken again, the entry erased, the future returned.
Erase(t) ==
  /\ At(t, "erase")
  /\ _map' = [_map EXCEPT ![Top(t).key] = NoFuture]
  /\ Moves(t, "get")
  /\ UNCHANGED <<started, outcome, observed>>

\* get() on the future that execute returned.
Get(t) ==
  /\ At(t, "get")
  /\ outcome[Top(t).future] # "unset"
  /\ observed' = observed \cup {Top(t).future}
  /\ stack' = [stack EXCEPT ![t] = SubSeq(@, 1, Len(@) - 1)]
  /\ UNCHANGED <<_map, started, outcome>>

Outcomes == {"value", "exception"}

Step(t) == Erase(t) \/ Get(t) \/ \E o \in Outcomes : SetPromise(t, o)

Next ==
  \E t \in Threads :
    \/ \E k \in Keys : Join(t, k) \/ Lead(t, k)
    \/ Step(t)

\* A thread inside a call is scheduled and its item returns or throws at last;
\* nobody need call execute.
Fairness == \A t \in Threads : WF_vars(Step(t))

Spec == Init /\ [][Next]_vars
FairSpec == Spec /\ Fairness
-----------------------------------------------------------------------------
TypeOK ==
  /\ started \in 0..MaxExec
  /\ _map \in [Keys -> 0..started]
  /\ outcome \in [Futures -> {"unset"} \cup Outcomes]
  /\ stack \in [Threads -> Seq(Calls)]
  /\ observed \in SUBSET Futures

\* Call i of thread t executes the item of its key, or is about to erase it.
Leads(t, i) == stack[t][i].at \in {"item", "erase"}

\* Overlapping calls share one execution: for one key no two calls lead at a
\* time, on one thread or on several (lines 53-60).
OneLeaderPerKey ==
  \A t, u \in Threads : \A i \in 1..Len(stack[t]), j \in 1..Len(stack[u]) :
    Leads(t, i) /\ Leads(u, j) /\ stack[t][i].key = stack[u][j].key => t = u /\ i = j

\* The map holds exactly the executions in flight: a leader still finds its own
\* future under its key when it erases it (line 65), and no entry is left
\* behind, not even by an item that throws.
EntriesAreLeaders ==
  /\ \A t \in Threads : \A i \in 1..Len(stack[t]) :
       Leads(t, i) => _map[stack[t][i].key] = stack[t][i].future
  /\ \A k \in Keys : _map[k] # NoFuture =>
       \E t \in Threads : \E i \in 1..Len(stack[t]) :
         Leads(t, i) /\ stack[t][i].key = k

\* A future that was returned is ready once it has been set by its one
\* execution: nobody waits for a promise whose leader is gone.
UnsetIsExecuting ==
  \A t \in Threads : \A i \in 1..Len(stack[t]) :
    outcome[stack[t][i].future] = "unset" =>
      \E u \in Threads : \E j \in 1..Len(stack[u]) :
        stack[u][j].future = stack[t][i].future /\ stack[u][j].at = "item"

\* Every call of execute followed by get() returns, with a value or with the
\* exception of the item, if the keys nest without a cycle.
CallsReturn == \A t \in Threads : (stack[t] # <<>>) ~> (stack[t] = <<>>)

\* A result can be read before its entry is erased (lines 63-65), and a call in
\* that window joins an execution that is over. It is that window and no more:
\* a call joins an execution that some get() has returned from only while its
\* leader is about to erase the entry, so with the leader's own call returned
\* every new call executes its item again.
JoinsBeforeErasure ==
  [][\A t \in Threads :
       Len(stack'[t]) > Len(stack[t]) /\ Top(t)'.at = "get" /\ Top(t)'.future \in observed
         => \E u \in Threads : At(u, "erase") /\ Top(u).future = Top(t)'.future]_vars
=============================================================================
