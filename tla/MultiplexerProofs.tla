------------------------- MODULE MultiplexerProofs -------------------------
(***************************************************************************)
(* The map of the multiplexer is exactly the executions in flight, for any *)
(* threads, keys, nesting and number of executions.                        *)
(***************************************************************************)
EXTENDS Multiplexer, SequenceTheorems, TLAPS

\* Only the innermost call of a thread can be past its item.
OuterAtItem ==
  \A t \in Threads : \A i \in 1..Len(stack[t]) - 1 : stack[t][i].at = "item"

\* The futures handed out belong to executions that have started.
FutureStarted ==
  \A t \in Threads : \A i \in 1..Len(stack[t]) : stack[t][i].future <= started

\* A leader that is about to erase its entry has set its promise.
ErasesAfterSet ==
  \A t \in Threads : \A i \in 1..Len(stack[t]) :
    stack[t][i].at = "erase" => outcome[stack[t][i].future] # "unset"

IInv ==
  /\ TypeOK
  /\ OuterAtItem
  /\ FutureStarted
  /\ ErasesAfterSet
  /\ OneLeaderPerKey
  /\ EntriesAreLeaders
  /\ UnsetIsExecuting

LEMMA InitInv == Init => IInv
BY MultiplexerAssumption
DEF Init, IInv, TypeOK, OuterAtItem, FutureStarted, ErasesAfterSet, OneLeaderPerKey,
    EntriesAreLeaders, UnsetIsExecuting, NoFuture, Futures, Calls, Outcomes

\* What entering a call does to the stack of its thread.
LEMMA Entered ==
  ASSUME IInv, NEW t \in Threads, NEW c \in Calls,
         stack' = [stack EXCEPT ![t] = Append(@, c)]
  PROVE  /\ stack' \in [Threads -> Seq(Calls)]
         /\ \A u \in Threads : u # t => stack'[u] = stack[u]
         /\ Len(stack[t]) \in Nat
         /\ Len(stack'[t]) = Len(stack[t]) + 1
         /\ \A i \in 1..Len(stack[t]) : stack'[t][i] = stack[t][i]
         /\ stack'[t][Len(stack[t]) + 1] = c
<1>1. stack[t] \in Seq(Calls) /\ stack'[t] = Append(stack[t], c)
  BY DEF IInv, TypeOK
<1> QED
  BY <1>1 DEF IInv, TypeOK

\* What a step inside the innermost call does.
LEMMA Moved ==
  ASSUME IInv, NEW t \in Threads, NEW p \in {"item", "erase", "get"},
         stack[t] # <<>>, Moves(t, p)
  PROVE  /\ stack' \in [Threads -> Seq(Calls)]
         /\ \A u \in Threads : u # t => stack'[u] = stack[u]
         /\ Len(stack[t]) \in Nat \ {0}
         /\ Len(stack'[t]) = Len(stack[t])
         /\ \A i \in 1..Len(stack[t]) - 1 : stack'[t][i] = stack[t][i]
         /\ Top(t) \in Calls
         /\ stack'[t][Len(stack[t])] = [Top(t) EXCEPT !.at = p]
<1> DEFINE n == Len(stack[t])
<1>1. stack[t] \in Seq(Calls) /\ n \in Nat \ {0} /\ stack[t][n] \in Calls
  BY DEF IInv, TypeOK
<1>2. [stack[t][n] EXCEPT !.at = p] \in Calls
  BY <1>1 DEF Calls
<1>3. stack'[t] = [stack[t] EXCEPT ![n] = [stack[t][n] EXCEPT !.at = p]]
  BY DEF Moves, IInv, TypeOK
<1>4. /\ stack'[t] \in Seq(Calls) /\ Len(stack'[t]) = n
      /\ \A i \in 1..n - 1 : stack'[t][i] = stack[t][i]
      /\ stack'[t][n] = [stack[t][n] EXCEPT !.at = p]
  BY <1>1, <1>2, <1>3
<1> QED
  BY <1>1, <1>4 DEF Moves, Top, IInv, TypeOK

\* What leaving a call does.
LEMMA Left ==
  ASSUME IInv, NEW t \in Threads, stack[t] # <<>>,
         stack' = [stack EXCEPT ![t] = SubSeq(@, 1, Len(@) - 1)]
  PROVE  /\ stack' \in [Threads -> Seq(Calls)]
         /\ \A u \in Threads : u # t => stack'[u] = stack[u]
         /\ Len(stack[t]) \in Nat \ {0}
         /\ Len(stack'[t]) = Len(stack[t]) - 1
         /\ \A i \in 1..Len(stack[t]) - 1 : stack'[t][i] = stack[t][i]
<1>1. stack[t] \in Seq(Calls) /\ Len(stack[t]) \in Nat \ {0}
  BY DEF IInv, TypeOK
<1>2. stack'[t] = SubSeq(stack[t], 1, Len(stack[t]) - 1)
  BY DEF IInv, TypeOK
<1>3. /\ stack'[t] \in Seq(Calls) /\ Len(stack'[t]) = Len(stack[t]) - 1
      /\ \A i \in 1..Len(stack[t]) - 1 : stack'[t][i] = stack[t][i]
  BY <1>1, <1>2
<1> QED
  BY <1>1, <1>3 DEF IInv, TypeOK

\* A thread that may enter a call has only calls at their items on its stack.
LEMMA AllAtItem ==
  ASSUME IInv, NEW t \in Threads, NEW k \in Keys, MayCall(t, k)
  PROVE  \A i \in 1..Len(stack[t]) : stack[t][i].at = "item"
<1>1. stack[t] \in Seq(Calls)
  BY DEF IInv, TypeOK
<1> QED
  BY <1>1 DEF MayCall, At, Top, IInv, OuterAtItem

\* A call that joins finds the future of an execution that is in flight.
LEMMA JoinInv ==
  ASSUME IInv, NEW t \in Threads, NEW k \in Keys, Join(t, k)
  PROVE  IInv'
<1> DEFINE c == [key |-> k, future |-> _map[k], at |-> "get"]
           n == Len(stack[t])
<1>1. /\ UNCHANGED <<_map, started, outcome, observed>>
      /\ stack' = [stack EXCEPT ![t] = Append(@, c)]
      /\ _map[k] \in Futures /\ _map[k] <= started
      /\ started \in Nat
      /\ c \in Calls
  BY MultiplexerAssumption DEF Join, IInv, TypeOK, NoFuture, Futures, Calls
<1>2. /\ stack' \in [Threads -> Seq(Calls)]
      /\ \A u \in Threads : u # t => stack'[u] = stack[u]
      /\ n \in Nat
      /\ Len(stack'[t]) = n + 1
      /\ \A i \in 1..n : stack'[t][i] = stack[t][i]
      /\ stack'[t][n + 1] = c
  BY <1>1, Entered
<1>3. \A u \in Threads : \A i \in 1..Len(stack[u]) :
        /\ i \in 1..Len(stack'[u])
        /\ stack'[u][i] = stack[u][i]
  BY <1>2
<1>4. \A u \in Threads : \A i \in 1..Len(stack'[u]) :
        i \in 1..Len(stack[u]) \/ (u = t /\ i = n + 1 /\ stack'[u][i] = c)
  BY <1>2
<1>5. TypeOK'
  BY <1>1, <1>2 DEF IInv, TypeOK
<1>6. OuterAtItem'
  <2>0. MayCall(t, k)
    BY DEF Join
  <2>1. \A i \in 1..n : stack[t][i].at = "item"
    BY <2>0, AllAtItem
  <2>2. ASSUME NEW i \in 1..Len(stack'[t]) - 1
        PROVE  stack'[t][i].at = "item"
    <3>1. i \in 1..n
      BY <1>2
    <3> QED
      BY <1>2, <2>1, <3>1
  <2>3. ASSUME NEW u \in Threads, u # t, NEW i \in 1..Len(stack'[u]) - 1
        PROVE  stack'[u][i].at = "item"
    BY <1>2, <2>3 DEF IInv, OuterAtItem
  <2> QED
    BY <2>2, <2>3 DEF OuterAtItem
<1>7. FutureStarted' /\ ErasesAfterSet'
  BY <1>1, <1>3, <1>4 DEF IInv, FutureStarted, ErasesAfterSet
<1>8. OneLeaderPerKey'
  BY <1>1, <1>3, <1>4 DEF IInv, OneLeaderPerKey, Leads
<1>9. EntriesAreLeaders'
  <2>1. \A u \in Threads : \A i \in 1..Len(stack'[u]) :
          Leads(u, i)' => _map'[stack'[u][i].key] = stack'[u][i].future
    BY <1>1, <1>3, <1>4 DEF IInv, EntriesAreLeaders, Leads
  <2>2. ASSUME NEW l \in Keys, _map'[l] # NoFuture
        PROVE  \E u \in Threads : \E i \in 1..Len(stack'[u]) :
                 Leads(u, i)' /\ stack'[u][i].key = l
    <3>0. PICK u \in Threads : \E i \in 1..Len(stack[u]) :
            Leads(u, i) /\ stack[u][i].key = l
      BY <1>1, <2>2 DEF IInv, EntriesAreLeaders
    <3>1. PICK i \in 1..Len(stack[u]) : Leads(u, i) /\ stack[u][i].key = l
      BY <3>0
    <3> QED
      BY <1>3, <3>1 DEF Leads
  <2> QED
    BY <2>1, <2>2 DEF EntriesAreLeaders
<1>10. UnsetIsExecuting'
  <2> SUFFICES ASSUME NEW u \in Threads, NEW i \in 1..Len(stack'[u]),
                      outcome[stack'[u][i].future] = "unset"
               PROVE  \E v \in Threads : \E j \in 1..Len(stack'[v]) :
                        stack'[v][j].future = stack'[u][i].future /\ stack'[v][j].at = "item"
    BY <1>1 DEF UnsetIsExecuting
  <2>1. CASE i \in 1..Len(stack[u])
    <3>0. PICK v \in Threads : \E j \in 1..Len(stack[v]) :
            stack[v][j].future = stack[u][i].future /\ stack[v][j].at = "item"
      BY <1>3, <2>1 DEF IInv, UnsetIsExecuting
    <3>1. PICK j \in 1..Len(stack[v]) : stack[v][j].future = stack[u][i].future /\ stack[v][j].at = "item"
      BY <3>0
    <3> QED
      BY <1>3, <2>1, <3>1
  <2>2. CASE stack'[u][i] = c
    <3>0. PICK v \in Threads : \E j \in 1..Len(stack[v]) :
            Leads(v, j) /\ stack[v][j].key = k
      BY <1>1 DEF IInv, EntriesAreLeaders, NoFuture, Futures
    <3>1. PICK j \in 1..Len(stack[v]) : Leads(v, j) /\ stack[v][j].key = k
      BY <3>0
    <3>2. stack[v][j].future = _map[k] /\ stack[v][j].at = "item"
      BY <2>2, <3>1 DEF IInv, EntriesAreLeaders, ErasesAfterSet, Leads
    <3> QED
      BY <1>3, <2>2, <3>2
  <2> QED
    BY <1>4, <2>1, <2>2
<1> QED
  BY <1>5, <1>6, <1>7, <1>8, <1>9, <1>10 DEF IInv

\* A call that leads enters a future of its own under a key that was free.
LEMMA LeadInv ==
  ASSUME IInv, NEW t \in Threads, NEW k \in Keys, Lead(t, k)
  PROVE  IInv'
<1> DEFINE c == [key |-> k, future |-> started + 1, at |-> "item"]
           n == Len(stack[t])
<1>1. /\ UNCHANGED <<outcome, observed>>
      /\ stack' = [stack EXCEPT ![t] = Append(@, c)]
      /\ started \in Nat /\ started' = started + 1 /\ started + 1 \in Futures
      /\ _map[k] = NoFuture
      /\ _map' \in [Keys -> 0..started'] /\ _map'[k] = started + 1
      /\ \A l \in Keys : l # k => _map'[l] = _map[l]
      /\ c \in Calls
  BY MultiplexerAssumption DEF Lead, IInv, TypeOK, NoFuture, Futures, Calls
<1>2. /\ stack' \in [Threads -> Seq(Calls)]
      /\ \A u \in Threads : u # t => stack'[u] = stack[u]
      /\ n \in Nat
      /\ Len(stack'[t]) = n + 1
      /\ \A i \in 1..n : stack'[t][i] = stack[t][i]
      /\ stack'[t][n + 1] = c
  BY <1>1, Entered
<1>3. \A u \in Threads : \A i \in 1..Len(stack[u]) :
        /\ i \in 1..Len(stack'[u])
        /\ stack'[u][i] = stack[u][i]
        /\ stack[u][i].future \in Futures
        /\ stack[u][i].key \in Keys
  <2>1. \A u \in Threads : \A i \in 1..Len(stack[u]) : stack[u][i] \in Calls
    BY DEF IInv, TypeOK
  <2>2. \A u \in Threads : \A i \in 1..Len(stack[u]) :
          i \in 1..Len(stack'[u]) /\ stack'[u][i] = stack[u][i]
    BY <1>2
  <2> QED
    BY <2>1, <2>2 DEF Calls
<1>4. \A u \in Threads : \A i \in 1..Len(stack'[u]) :
        i \in 1..Len(stack[u]) \/ (u = t /\ i = n + 1 /\ stack'[u][i] = c)
  BY <1>2
<1>5. \A u \in Threads : \A i \in 1..Len(stack[u]) : Leads(u, i) => stack[u][i].key # k
  BY <1>1, <1>3 DEF IInv, EntriesAreLeaders, NoFuture, Futures
<1>6. TypeOK'
  BY <1>1, <1>2, MultiplexerAssumption DEF IInv, TypeOK, Futures
<1>7. OuterAtItem'
  BY <1>2, AllAtItem DEF Lead, IInv, OuterAtItem
<1>8. FutureStarted' /\ ErasesAfterSet'
  BY <1>1, <1>3, <1>4 DEF IInv, FutureStarted, ErasesAfterSet, Futures
<1>9. OneLeaderPerKey'
  BY <1>1, <1>3, <1>4, <1>5 DEF IInv, OneLeaderPerKey, Leads
<1>10. EntriesAreLeaders'
  <2>1. \A u \in Threads : \A i \in 1..Len(stack'[u]) :
          Leads(u, i)' => _map'[stack'[u][i].key] = stack'[u][i].future
    BY <1>1, <1>3, <1>4, <1>5 DEF IInv, EntriesAreLeaders, Leads
  <2>2. ASSUME NEW l \in Keys, _map'[l] # NoFuture
        PROVE  \E u \in Threads : \E i \in 1..Len(stack'[u]) :
                 Leads(u, i)' /\ stack'[u][i].key = l
    <3>1. CASE l = k
      BY <1>2, <3>1 DEF Leads
    <3>2. CASE l # k
      <4>0. PICK u \in Threads : \E i \in 1..Len(stack[u]) :
              Leads(u, i) /\ stack[u][i].key = l
        BY <1>1, <2>2, <3>2 DEF IInv, EntriesAreLeaders
      <4>1. PICK i \in 1..Len(stack[u]) : Leads(u, i) /\ stack[u][i].key = l
        BY <4>0
      <4> QED
        BY <1>3, <4>1 DEF Leads
    <3> QED
      BY <3>1, <3>2
  <2> QED
    BY <2>1, <2>2 DEF EntriesAreLeaders
<1>11. UnsetIsExecuting'
  <2> SUFFICES ASSUME NEW u \in Threads, NEW i \in 1..Len(stack'[u]),
                      outcome[stack'[u][i].future] = "unset"
               PROVE  \E v \in Threads : \E j \in 1..Len(stack'[v]) :
                        stack'[v][j].future = stack'[u][i].future /\ stack'[v][j].at = "item"
    BY <1>1 DEF UnsetIsExecuting
  <2>1. CASE i \in 1..Len(stack[u])
    <3>0. PICK v \in Threads : \E j \in 1..Len(stack[v]) :
            stack[v][j].future = stack[u][i].future /\ stack[v][j].at = "item"
      BY <1>3, <2>1 DEF IInv, UnsetIsExecuting
    <3>1. PICK j \in 1..Len(stack[v]) : stack[v][j].future = stack[u][i].future /\ stack[v][j].at = "item"
      BY <3>0
    <3> QED
      BY <1>3, <2>1, <3>1
  <2> QED
    BY <1>4, <2>1
<1> QED
  BY <1>6, <1>7, <1>8, <1>9, <1>10, <1>11 DEF IInv

\* Setting the promise of the innermost call, with a value or an exception.
LEMMA SetPromiseInv ==
  ASSUME IInv, NEW t \in Threads, NEW o \in Outcomes, SetPromise(t, o)
  PROVE  IInv'
<1> DEFINE n == Len(stack[t])
           f == Top(t).future
<1>1. /\ UNCHANGED <<_map, started, observed>>
      /\ stack[t] # <<>> /\ Top(t).at = "item"
      /\ outcome' = [outcome EXCEPT ![f] = o] /\ o # "unset"
      /\ Moves(t, "erase")
  BY DEF SetPromise, At, Outcomes
<1>2. /\ stack' \in [Threads -> Seq(Calls)]
      /\ \A u \in Threads : u # t => stack'[u] = stack[u]
      /\ n \in Nat \ {0}
      /\ Len(stack'[t]) = n
      /\ \A i \in 1..n - 1 : stack'[t][i] = stack[t][i]
      /\ Top(t) \in Calls
      /\ stack'[t][n] = [Top(t) EXCEPT !.at = "erase"]
  BY <1>1, Moved
<1>3. /\ f \in Futures /\ stack[t][n] = Top(t)
      /\ stack'[t][n].at = "erase"
      /\ stack'[t][n].key = stack[t][n].key /\ stack'[t][n].future = f
  BY <1>2 DEF Calls, Top
<1>4. \A u \in Threads : Len(stack'[u]) = Len(stack[u])
  BY <1>2
<1>5. \A u \in Threads : \A i \in 1..Len(stack[u]) :
        (u = t /\ i = n) \/ stack'[u][i] = stack[u][i]
  BY <1>2
<1>6. \A u \in Threads : \A i \in 1..Len(stack[u]) :
        /\ stack'[u][i].key = stack[u][i].key
        /\ stack'[u][i].future = stack[u][i].future
        /\ Leads(u, i)' <=> Leads(u, i)
  BY <1>1, <1>3, <1>5 DEF Leads
<1>7. \A g \in Futures : outcome'[g] = IF g = f THEN o ELSE outcome[g]
  BY <1>1 DEF IInv, TypeOK
<1>8. \A u \in Threads : \A i \in 1..Len(stack[u]) : stack[u][i].future \in Futures
  <2>1. \A u \in Threads : \A i \in 1..Len(stack[u]) : stack[u][i] \in Calls
    BY DEF IInv, TypeOK
  <2> QED
    BY <2>1 DEF Calls
<1>9. TypeOK'
  BY <1>1, <1>2 DEF IInv, TypeOK, Outcomes
<1>10. OuterAtItem'
  BY <1>2 DEF IInv, OuterAtItem
<1>11. FutureStarted'
  BY <1>1, <1>4, <1>6 DEF IInv, FutureStarted
<1>12. ErasesAfterSet'
  BY <1>1, <1>3, <1>4, <1>5, <1>6, <1>7, <1>8 DEF IInv, ErasesAfterSet
<1>13. OneLeaderPerKey'
  BY <1>4, <1>6 DEF IInv, OneLeaderPerKey
<1>14. EntriesAreLeaders'
  BY <1>1, <1>4, <1>6 DEF IInv, EntriesAreLeaders
<1>15. UnsetIsExecuting'
  <2> SUFFICES ASSUME NEW u \in Threads, NEW i \in 1..Len(stack[u]),
                      outcome'[stack'[u][i].future] = "unset"
               PROVE  \E v \in Threads : \E j \in 1..Len(stack'[v]) :
                        stack'[v][j].future = stack'[u][i].future /\ stack'[v][j].at = "item"
    BY <1>4 DEF UnsetIsExecuting
  <2>1. stack[u][i].future # f /\ outcome[stack[u][i].future] = "unset"
    BY <1>1, <1>6, <1>7, <1>8
  <2>2. PICK v \in Threads : \E j \in 1..Len(stack[v]) :
          stack[v][j].future = stack[u][i].future /\ stack[v][j].at = "item"
    BY <2>1 DEF IInv, UnsetIsExecuting
  <2>3. PICK j \in 1..Len(stack[v]) :
          stack[v][j].future = stack[u][i].future /\ stack[v][j].at = "item"
    BY <2>2
  <2>4. stack'[v][j] = stack[v][j]
    BY <1>3, <1>5, <2>1, <2>3
  <2> QED
    BY <1>4, <1>6, <2>3, <2>4
<1> QED
  BY <1>9, <1>10, <1>11, <1>12, <1>13, <1>14, <1>15 DEF IInv

\* The entry that a leader erases is its own.
LEMMA EraseInv ==
  ASSUME IInv, NEW t \in Threads, Erase(t)
  PROVE  IInv'
<1> DEFINE n == Len(stack[t])
           k == Top(t).key
<1>1. /\ UNCHANGED <<started, outcome, observed>>
      /\ stack[t] # <<>> /\ Top(t).at = "erase"
      /\ _map' = [_map EXCEPT ![k] = NoFuture]
      /\ Moves(t, "get")
  BY DEF Erase, At
<1>2. /\ stack' \in [Threads -> Seq(Calls)]
      /\ \A u \in Threads : u # t => stack'[u] = stack[u]
      /\ n \in Nat \ {0}
      /\ Len(stack'[t]) = n
      /\ \A i \in 1..n - 1 : stack'[t][i] = stack[t][i]
      /\ Top(t) \in Calls
      /\ stack'[t][n] = [Top(t) EXCEPT !.at = "get"]
  BY <1>1, Moved
<1>3. /\ k \in Keys /\ stack[t][n] = Top(t)
      /\ stack'[t][n].at = "get"
      /\ stack'[t][n].key = k /\ stack'[t][n].future = stack[t][n].future
      /\ Leads(t, n)
  BY <1>1, <1>2 DEF Calls, Top, Leads
<1>4. \A u \in Threads : Len(stack'[u]) = Len(stack[u])
  BY <1>2
<1>5. \A u \in Threads : \A i \in 1..Len(stack[u]) :
        (u = t /\ i = n) \/ stack'[u][i] = stack[u][i]
  BY <1>2
<1>6. \A u \in Threads : \A i \in 1..Len(stack[u]) :
        /\ stack'[u][i].key = stack[u][i].key
        /\ stack'[u][i].future = stack[u][i].future
        /\ stack'[u][i].at = "item" <=> stack[u][i].at = "item"
        /\ Leads(u, i)' <=> Leads(u, i) /\ ~(u = t /\ i = n)
  BY <1>1, <1>3, <1>5 DEF Leads
<1>7. \A u \in Threads : \A i \in 1..Len(stack[u]) : Leads(u, i)' => stack[u][i].key # k
  BY <1>2, <1>3, <1>6 DEF IInv, OneLeaderPerKey
<1>8. \A l \in Keys : _map'[l] = IF l = k THEN NoFuture ELSE _map[l]
  BY <1>1 DEF IInv, TypeOK
<1>9. TypeOK'
  <2>1. started \in Nat /\ started \in 0..MaxExec
    BY MultiplexerAssumption DEF IInv, TypeOK
  <2>2. 0 \in 0..started /\ _map \in [Keys -> 0..started]
    BY <2>1 DEF IInv, TypeOK
  <2>3. _map' \in [Keys -> 0..started]
    BY <1>1, <2>2 DEF NoFuture
  <2> QED
    BY <1>1, <1>2, <2>1, <2>3 DEF IInv, TypeOK
<1>10. OuterAtItem'
  BY <1>2 DEF IInv, OuterAtItem
<1>11. FutureStarted'
  BY <1>1, <1>4, <1>6 DEF IInv, FutureStarted
<1>12. ErasesAfterSet'
  BY <1>1, <1>3, <1>4, <1>5 DEF IInv, ErasesAfterSet
<1>13. OneLeaderPerKey'
  BY <1>4, <1>6 DEF IInv, OneLeaderPerKey
<1>14. EntriesAreLeaders'
  <2>1. \A u \in Threads : \A i \in 1..Len(stack[u]) : stack[u][i].key \in Keys
    <3>1. \A u \in Threads : \A i \in 1..Len(stack[u]) : stack[u][i] \in Calls
      BY DEF IInv, TypeOK
    <3> QED
      BY <3>1 DEF Calls
  <2>2. \A u \in Threads : \A i \in 1..Len(stack'[u]) :
          Leads(u, i)' => _map'[stack'[u][i].key] = stack'[u][i].future
    BY <1>4, <1>6, <1>7, <1>8, <2>1 DEF IInv, EntriesAreLeaders
  <2>3. ASSUME NEW l \in Keys, _map'[l] # NoFuture
        PROVE  \E u \in Threads : \E i \in 1..Len(stack'[u]) :
                 Leads(u, i)' /\ stack'[u][i].key = l
    <3>1. l # k /\ _map[l] # NoFuture
      BY <1>8, <2>3
    <3>2. PICK u \in Threads : \E i \in 1..Len(stack[u]) :
            Leads(u, i) /\ stack[u][i].key = l
      BY <3>1 DEF IInv, EntriesAreLeaders
    <3>3. PICK i \in 1..Len(stack[u]) : Leads(u, i) /\ stack[u][i].key = l
      BY <3>2
    <3>4. ~(u = t /\ i = n)
      BY <1>3, <3>1, <3>3
    <3> QED
      BY <1>4, <1>6, <3>3, <3>4
  <2> QED
    BY <2>2, <2>3 DEF EntriesAreLeaders
<1>15. UnsetIsExecuting'
  <2> SUFFICES ASSUME NEW u \in Threads, NEW i \in 1..Len(stack[u]),
                      outcome[stack[u][i].future] = "unset"
               PROVE  \E v \in Threads : \E j \in 1..Len(stack'[v]) :
                        stack'[v][j].future = stack[u][i].future /\ stack'[v][j].at = "item"
    BY <1>1, <1>4, <1>6 DEF UnsetIsExecuting
  <2>1. PICK v \in Threads : \E j \in 1..Len(stack[v]) :
          stack[v][j].future = stack[u][i].future /\ stack[v][j].at = "item"
    BY DEF IInv, UnsetIsExecuting
  <2>2. PICK j \in 1..Len(stack[v]) :
          stack[v][j].future = stack[u][i].future /\ stack[v][j].at = "item"
    BY <2>1
  <2> QED
    BY <1>4, <1>6, <2>2
<1> QED
  BY <1>9, <1>10, <1>11, <1>12, <1>13, <1>14, <1>15 DEF IInv

\* The call that returns from get() was not leading.
LEMMA GetInv ==
  ASSUME IInv, NEW t \in Threads, Get(t)
  PROVE  IInv'
<1> DEFINE n == Len(stack[t])
<1>1. /\ UNCHANGED <<_map, started, outcome>>
      /\ stack[t] # <<>> /\ Top(t).at = "get"
      /\ observed' = observed \cup {Top(t).future}
      /\ stack' = [stack EXCEPT ![t] = SubSeq(@, 1, Len(@) - 1)]
  BY DEF Get, At
<1>2. /\ stack' \in [Threads -> Seq(Calls)]
      /\ \A u \in Threads : u # t => stack'[u] = stack[u]
      /\ n \in Nat \ {0}
      /\ Len(stack'[t]) = n - 1
      /\ \A i \in 1..n - 1 : stack'[t][i] = stack[t][i]
  BY <1>1, Left
<1>3. \A u \in Threads : \A i \in 1..Len(stack'[u]) :
        i \in 1..Len(stack[u]) /\ stack'[u][i] = stack[u][i]
  BY <1>2
<1>4. \A u \in Threads : \A i \in 1..Len(stack[u]) :
        stack[u][i].at # "get" => i \in 1..Len(stack'[u])
  BY <1>1, <1>2 DEF Top
<1>5. TypeOK'
  <2>1. Top(t) \in Calls
    BY <1>2 DEF Top, IInv, TypeOK
  <2> QED
    BY <1>1, <1>2, <2>1 DEF IInv, TypeOK, Calls
<1>6. OuterAtItem'
  BY <1>2 DEF IInv, OuterAtItem
<1>7. FutureStarted' /\ ErasesAfterSet'
  BY <1>1, <1>3 DEF IInv, FutureStarted, ErasesAfterSet
<1>8. OneLeaderPerKey'
  <2> SUFFICES ASSUME NEW u \in Threads, NEW v \in Threads,
                      NEW i \in 1..Len(stack'[u]), NEW j \in 1..Len(stack'[v]),
                      Leads(u, i)', Leads(v, j)', stack'[u][i].key = stack'[v][j].key
               PROVE  u = v /\ i = j
    BY DEF OneLeaderPerKey
  <2>1. /\ i \in 1..Len(stack[u]) /\ Leads(u, i)
        /\ j \in 1..Len(stack[v]) /\ Leads(v, j)
        /\ stack[u][i].key = stack[v][j].key
    BY <1>3 DEF Leads
  <2> QED
    BY <2>1 DEF IInv, OneLeaderPerKey
<1>9. EntriesAreLeaders'
  BY <1>1, <1>3, <1>4 DEF IInv, EntriesAreLeaders, Leads
<1>10. UnsetIsExecuting'
  <2> SUFFICES ASSUME NEW u \in Threads, NEW i \in 1..Len(stack'[u]),
                      outcome[stack'[u][i].future] = "unset"
               PROVE  \E v \in Threads : \E j \in 1..Len(stack'[v]) :
                        stack'[v][j].future = stack'[u][i].future /\ stack'[v][j].at = "item"
    BY <1>1 DEF UnsetIsExecuting
  <2>0. /\ i \in 1..Len(stack[u]) /\ stack'[u][i] = stack[u][i]
        /\ outcome[stack[u][i].future] = "unset"
    BY <1>3
  <2>1. PICK v \in Threads : \E j \in 1..Len(stack[v]) :
          stack[v][j].future = stack'[u][i].future /\ stack[v][j].at = "item"
    <3>1. \E v \in Threads : \E j \in 1..Len(stack[v]) :
            stack[v][j].future = stack[u][i].future /\ stack[v][j].at = "item"
      BY <2>0 DEF IInv, UnsetIsExecuting
    <3> QED
      BY <2>0, <3>1
  <2>2. PICK j \in 1..Len(stack[v]) :
          stack[v][j].future = stack'[u][i].future /\ stack[v][j].at = "item"
    BY <2>1
  <2>3. j \in 1..Len(stack'[v])
    BY <1>4, <2>2
  <2> QED
    BY <1>3, <2>2, <2>3
<1> QED
  BY <1>5, <1>6, <1>7, <1>8, <1>9, <1>10 DEF IInv

\* Every step preserves the inductive invariant.
LEMMA NextInv == IInv /\ [Next]_vars => IInv'
<1> SUFFICES ASSUME IInv, [Next]_vars PROVE IInv'
  OBVIOUS
<1>1. CASE UNCHANGED vars
  BY <1>1 DEF vars, IInv, TypeOK, OuterAtItem, FutureStarted, ErasesAfterSet,
              OneLeaderPerKey, EntriesAreLeaders, UnsetIsExecuting, Leads
<1>2. CASE Next
  BY <1>2, JoinInv, LeadInv, SetPromiseInv, EraseInv, GetInv DEF Next, Step
<1> QED
  BY <1>1, <1>2

\* Overlapping calls with one key share one execution, whatever the items call
\* in turn and however many threads there are.
THEOREM SharedExecution == Spec => []OneLeaderPerKey
<1>1. IInv => OneLeaderPerKey
  BY DEF IInv
<1> QED
  BY InitInv, NextInv, <1>1, PTL DEF Spec

\* The map holds started executions only, and the calls keep to their places.
THEOREM TypeCorrect == Spec => []TypeOK
<1>1. IInv => TypeOK
  BY DEF IInv
<1> QED
  BY InitInv, NextInv, <1>1, PTL DEF Spec

\* The map holds exactly the executions in flight, also after exceptions.
THEOREM MapOfExecutions == Spec => []EntriesAreLeaders
<1>1. IInv => EntriesAreLeaders
  BY DEF IInv
<1> QED
  BY InitInv, NextInv, <1>1, PTL DEF Spec

\* Whoever holds a future that is not ready waits for an item that is running.
THEOREM NoDeadFuture == Spec => []UnsetIsExecuting
<1>1. IInv => UnsetIsExecuting
  BY DEF IInv
<1> QED
  BY InitInv, NextInv, <1>1, PTL DEF Spec
-----------------------------------------------------------------------------
\* No two executions in flight have the same future.
OneExecution ==
  \A t, u \in Threads : \A i \in 1..Len(stack[t]), j \in 1..Len(stack[u]) :
    Leads(t, i) /\ Leads(u, j) /\ stack[t][i].future = stack[u][j].future => t = u /\ i = j

\* What is being executed, or has not started, is not ready.
ItemsUnset ==
  /\ \A t \in Threads : \A i \in 1..Len(stack[t]) :
       stack[t][i].at = "item" => outcome[stack[t][i].future] = "unset"
  /\ \A f \in Futures : f > started => outcome[f] = "unset"

\* What has been observed is ready.
ObservedSet == \A f \in observed : outcome[f] # "unset"

JInv == IInv /\ OneExecution /\ ItemsUnset /\ ObservedSet

\* Who leads after a step and led before, for the same future.
LEMMA FewerExecutions ==
  ASSUME JInv,
         \A u \in Threads : \A i \in 1..Len(stack'[u]) :
           stack'[u][i].at # "get" =>
             i \in 1..Len(stack[u]) /\ Leads(u, i) /\ stack'[u][i].future = stack[u][i].future
  PROVE  OneExecution'
<1> SUFFICES ASSUME NEW t \in Threads, NEW u \in Threads,
                    NEW i \in 1..Len(stack'[t]), NEW j \in 1..Len(stack'[u]),
                    stack'[t][i].at \in {"item", "erase"}, stack'[u][j].at \in {"item", "erase"},
                    stack'[t][i].future = stack'[u][j].future
             PROVE  t = u /\ i = j
  BY DEF OneExecution, Leads
<1>1. i \in 1..Len(stack[t]) /\ Leads(t, i) /\ stack'[t][i].future = stack[t][i].future
  OBVIOUS
<1>2. j \in 1..Len(stack[u]) /\ Leads(u, j) /\ stack'[u][j].future = stack[u][j].future
  OBVIOUS
<1> QED
  BY <1>1, <1>2 DEF JInv, OneExecution

\* The places of the calls before a step inside the innermost one.
LEMMA MovedPlaces ==
  ASSUME JInv, NEW t \in Threads, NEW p \in {"erase", "get"}, stack[t] # <<>>, Moves(t, p)
  PROVE  \A u \in Threads : \A i \in 1..Len(stack'[u]) :
           /\ i \in 1..Len(stack[u])
           /\ stack'[u][i].future = stack[u][i].future
           /\ \/ stack'[u][i] = stack[u][i] /\ (u # t \/ i # Len(stack[t]))
              \/ u = t /\ i = Len(stack[t]) /\ stack'[u][i].at = p
<1>1. IInv
  BY DEF JInv
<1>2. /\ \A u \in Threads : u # t => stack'[u] = stack[u]
      /\ Len(stack[t]) \in Nat \ {0}
      /\ Len(stack'[t]) = Len(stack[t])
      /\ \A i \in 1..Len(stack[t]) - 1 : stack'[t][i] = stack[t][i]
      /\ Top(t) \in Calls
      /\ stack'[t][Len(stack[t])] = [Top(t) EXCEPT !.at = p]
  BY <1>1, Moved
<1>3. /\ stack'[t][Len(stack[t])].at = p
      /\ stack'[t][Len(stack[t])].future = stack[t][Len(stack[t])].future
  BY <1>2 DEF Calls, Top
<1> SUFFICES ASSUME NEW u \in Threads, NEW i \in 1..Len(stack'[u])
             PROVE  /\ i \in 1..Len(stack[u])
                    /\ stack'[u][i].future = stack[u][i].future
                    /\ \/ stack'[u][i] = stack[u][i] /\ (u # t \/ i # Len(stack[t]))
                       \/ u = t /\ i = Len(stack[t]) /\ stack'[u][i].at = p
  OBVIOUS
<1>4. CASE u # t
  BY <1>2, <1>4
<1>5. CASE u = t /\ i = Len(stack[t])
  BY <1>2, <1>3, <1>5
<1>6. CASE u = t /\ i # Len(stack[t])
  BY <1>2, <1>6
<1> QED
  BY <1>4, <1>5, <1>6

\* A call that has not returned its future leads.
LEMMA Leading ==
  ASSUME JInv, NEW u \in Threads, NEW i \in 1..Len(stack[u]), stack[u][i].at # "get"
  PROVE  Leads(u, i)
<1>1. stack[u] \in Seq(Calls)
  BY DEF JInv, IInv, TypeOK
<1>2. stack[u][i] \in Calls
  BY <1>1
<1> QED
  BY <1>2 DEF Calls, Leads

LEMMA JoinExecutions ==
  ASSUME JInv, NEW t \in Threads, NEW k \in Keys, Join(t, k)
  PROVE  (OneExecution /\ ItemsUnset /\ ObservedSet)'
<1> DEFINE c == [key |-> k, future |-> _map[k], at |-> "get"]
<1>1. /\ UNCHANGED <<started, outcome, observed>>
      /\ stack' = [stack EXCEPT ![t] = Append(@, c)]
      /\ c \in Calls
  BY MultiplexerAssumption DEF Join, JInv, IInv, TypeOK, NoFuture, Futures, Calls
<1>2. \A u \in Threads : \A i \in 1..Len(stack'[u]) :
        \/ i \in 1..Len(stack[u]) /\ stack'[u][i] = stack[u][i]
        \/ stack'[u][i] = c
  BY <1>1, Entered DEF JInv
<1>3. \A u \in Threads : \A i \in 1..Len(stack'[u]) :
        stack'[u][i].at # "get" => i \in 1..Len(stack[u]) /\ stack'[u][i] = stack[u][i]
  BY <1>2
<1>4. OneExecution'
  BY <1>3, Leading, FewerExecutions
<1>5. ItemsUnset' /\ ObservedSet'
  BY <1>1, <1>3 DEF JInv, ItemsUnset, ObservedSet
<1> QED
  BY <1>4, <1>5

\* A new leader has a future that no call knows yet.
LEMMA LeadExecutions ==
  ASSUME JInv, NEW t \in Threads, NEW k \in Keys, Lead(t, k)
  PROVE  (OneExecution /\ ItemsUnset /\ ObservedSet)'
<1> DEFINE c == [key |-> k, future |-> started + 1, at |-> "item"]
<1>1. /\ UNCHANGED <<outcome, observed>>
      /\ started \in Nat /\ started' = started + 1
      /\ stack' = [stack EXCEPT ![t] = Append(@, c)]
      /\ started + 1 \in Futures
      /\ c \in Calls
  BY MultiplexerAssumption DEF Lead, JInv, IInv, TypeOK, NoFuture, Futures, Calls
<1>2. \A u \in Threads : \A i \in 1..Len(stack'[u]) :
        \/ i \in 1..Len(stack[u]) /\ stack'[u][i] = stack[u][i]
        \/ u = t /\ i = Len(stack[t]) + 1 /\ stack'[u][i] = c
  BY <1>1, Entered DEF JInv
<1>3. \A u \in Threads : \A i \in 1..Len(stack[u]) : stack[u][i].future \in Nat /\ stack[u][i].future <= started
  <2> SUFFICES ASSUME NEW u \in Threads, NEW i \in 1..Len(stack[u])
               PROVE  stack[u][i].future \in Nat /\ stack[u][i].future <= started
    OBVIOUS
  <2>1. stack[u] \in Seq(Calls)
    BY DEF JInv, IInv, TypeOK
  <2>2. stack[u][i] \in Calls
    BY <2>1
  <2> QED
    BY <2>2, MultiplexerAssumption DEF JInv, IInv, FutureStarted, Calls, Futures
<1>4. OneExecution'
  <2> SUFFICES ASSUME NEW u \in Threads, NEW w \in Threads,
                      NEW i \in 1..Len(stack'[u]), NEW j \in 1..Len(stack'[w]),
                      Leads(u, i)', Leads(w, j)',
                      stack'[u][i].future = stack'[w][j].future
               PROVE  u = w /\ i = j
    BY DEF OneExecution
  <2>1. CASE stack'[u][i] = c /\ stack'[w][j] = c
    BY <1>1, <1>2, <1>3, <2>1
  <2>2. CASE stack'[u][i] # c /\ stack'[w][j] # c
    <3>1. i \in 1..Len(stack[u]) /\ stack'[u][i] = stack[u][i] /\ Leads(u, i)
      BY <1>2, <2>2 DEF Leads
    <3>2. j \in 1..Len(stack[w]) /\ stack'[w][j] = stack[w][j] /\ Leads(w, j)
      BY <1>2, <2>2 DEF Leads
    <3> QED
      BY <3>1, <3>2 DEF JInv, OneExecution
  <2>3. CASE (stack'[u][i] = c) # (stack'[w][j] = c)
    BY <1>1, <1>2, <1>3, <2>3
  <2> QED
    BY <2>1, <2>2, <2>3
<1>5. ItemsUnset'
  BY <1>1, <1>2, MultiplexerAssumption DEF JInv, ItemsUnset, Futures
<1>6. ObservedSet'
  BY <1>1 DEF JInv, ObservedSet
<1> QED
  BY <1>4, <1>5, <1>6

\* Inside a call and on leaving it, the futures of the others do not change.
LEMMA StepExecutions ==
  ASSUME JInv, NEW t \in Threads, Step(t)
  PROVE  (OneExecution /\ ItemsUnset /\ ObservedSet)'
<1> DEFINE n == Len(stack[t])
           f == Top(t).future
<1>0. /\ stack[t] # <<>> /\ n \in Nat \ {0} /\ Top(t) \in Calls /\ f \in Futures
      /\ started' = started
  <2>1. stack[t] # <<>> /\ started' = started
    BY DEF Step, Erase, Get, SetPromise, At
  <2>2. stack[t] \in Seq(Calls)
    BY DEF JInv, IInv, TypeOK
  <2>3. n \in Nat \ {0} /\ Top(t) \in Calls
    BY <2>1, <2>2 DEF Top
  <2> QED
    BY <2>1, <2>3 DEF Calls
<1>1. CASE Get(t)
  <2>1. stack' = [stack EXCEPT ![t] = SubSeq(@, 1, Len(@) - 1)]
        /\ outcome' = outcome /\ observed' = observed \cup {f} /\ outcome[f] # "unset"
    BY <1>1 DEF Get
  <2>2. \A u \in Threads : \A i \in 1..Len(stack'[u]) :
          i \in 1..Len(stack[u]) /\ stack'[u][i] = stack[u][i]
    BY <1>0, <2>1, Left DEF JInv
  <2>3. OneExecution'
    BY <2>2, Leading, FewerExecutions
  <2>4. ItemsUnset'
    BY <1>0, <2>1, <2>2 DEF JInv, ItemsUnset
  <2>5. ObservedSet'
    BY <2>1 DEF JInv, ObservedSet
  <2> QED
    BY <2>3, <2>4, <2>5
<1>2. CASE Erase(t)
  <2>1. Moves(t, "get") /\ outcome' = outcome /\ observed' = observed
    BY <1>2 DEF Erase
  <2>2. \A u \in Threads : \A i \in 1..Len(stack'[u]) :
          stack'[u][i].at # "get" => i \in 1..Len(stack[u]) /\ stack'[u][i] = stack[u][i]
    BY <1>0, <2>1, MovedPlaces
  <2>3. OneExecution'
    BY <2>2, Leading, FewerExecutions
  <2> QED
    BY <1>0, <2>1, <2>2, <2>3 DEF JInv, ItemsUnset, ObservedSet
<1>3. CASE \E o \in Outcomes : SetPromise(t, o)
  <2>1. PICK o \in Outcomes : SetPromise(t, o)
    BY <1>3
  <2>2. /\ Moves(t, "erase") /\ observed' = observed
        /\ outcome' = [outcome EXCEPT ![f] = o] /\ o # "unset"
        /\ stack[t][n].at = "item"
    BY <2>1 DEF SetPromise, At, Top, Outcomes
  <2>3. \A u \in Threads : \A i \in 1..Len(stack'[u]) :
          /\ i \in 1..Len(stack[u])
          /\ stack'[u][i].future = stack[u][i].future
          /\ stack'[u][i].at # "get" => stack[u][i].at # "get"
          /\ stack'[u][i].at = "item" => stack[u][i].at = "item" /\ (u # t \/ i # n)
    BY <1>0, <2>2, MovedPlaces
  <2>4. OneExecution'
    BY <2>3, Leading, FewerExecutions
  <2>5. n \in 1..Len(stack[t]) /\ Leads(t, n) /\ stack[t][n].future = f
    BY <1>0, <2>2 DEF Leads, Top
  <2>6. outcome \in [Futures -> {"unset"} \cup Outcomes]
    BY DEF JInv, IInv, TypeOK
  <2>7. ASSUME NEW u \in Threads, NEW i \in 1..Len(stack'[u]), stack'[u][i].at = "item"
        PROVE  outcome'[stack'[u][i].future] = "unset"
    <3>1. /\ i \in 1..Len(stack[u]) /\ stack[u][i].at = "item" /\ (u # t \/ i # n)
          /\ stack'[u][i].future = stack[u][i].future
      BY <2>3, <2>7
    <3>2. stack[u][i].future # f
      BY <2>5, <3>1 DEF JInv, OneExecution, Leads
    <3>3. stack[u][i] \in Calls
      BY <3>1 DEF JInv, IInv, TypeOK
    <3> QED
      BY <2>2, <2>6, <3>1, <3>2, <3>3 DEF JInv, ItemsUnset, Calls
  <2>8. f <= started
    BY <1>0 DEF JInv, IInv, FutureStarted, Top
  <2>9. ASSUME NEW g \in Futures, g > started' PROVE outcome'[g] = "unset"
    <3>1. g # f
      BY <1>0, <2>8, <2>9, MultiplexerAssumption DEF Futures, JInv, IInv, TypeOK
    <3> QED
      BY <1>0, <2>2, <2>6, <2>9, <3>1 DEF JInv, ItemsUnset
  <2>10. ObservedSet'
    BY <1>0, <2>2, <2>6 DEF JInv, IInv, TypeOK, ObservedSet
  <2> QED
    BY <2>4, <2>7, <2>9, <2>10 DEF ItemsUnset
<1> QED
  BY <1>1, <1>2, <1>3 DEF Step

\* A result that has been obtained is returned to a new call only in the window
\* before its leader erases the entry.
LEMMA JoinInWindow ==
  ASSUME JInv, NEW t \in Threads, NEW k \in Keys, Join(t, k), Top(t)'.future \in observed
  PROVE  \E u \in Threads : At(u, "erase") /\ Top(u).future = Top(t)'.future
<1> DEFINE c == [key |-> k, future |-> _map[k], at |-> "get"]
<1>1. stack' = [stack EXCEPT ![t] = Append(@, c)] /\ _map[k] # NoFuture /\ c \in Calls
  BY MultiplexerAssumption DEF Join, JInv, IInv, TypeOK, NoFuture, Futures, Calls
<1>2. Top(t)' = c
  <2>1. IInv
    BY DEF JInv
  <2>2. /\ Len(stack[t]) \in Nat /\ Len(stack'[t]) = Len(stack[t]) + 1
        /\ stack'[t][Len(stack[t]) + 1] = c
    BY <1>1, <2>1, Entered
  <2> QED
    BY <2>2 DEF Top
<1>3. PICK u \in Threads : \E i \in 1..Len(stack[u]) : Leads(u, i) /\ stack[u][i].key = k
  BY <1>1 DEF JInv, IInv, EntriesAreLeaders
<1>4. PICK i \in 1..Len(stack[u]) : Leads(u, i) /\ stack[u][i].key = k
  BY <1>3
<1>5. stack[u][i].future = _map[k]
  BY <1>4 DEF JInv, IInv, EntriesAreLeaders
<1>6. outcome[_map[k]] # "unset"
  BY <1>2 DEF JInv, ObservedSet
<1>7. stack[u][i].at = "erase"
  BY <1>4, <1>5, <1>6 DEF Leads, JInv, ItemsUnset
<1>8. Len(stack[u]) \in Nat /\ stack[u] # <<>>
  <2>1. stack[u] \in Seq(Calls)
    BY DEF JInv, IInv, TypeOK
  <2> QED
    BY <2>1, <1>4
<1>9. i = Len(stack[u])
  BY <1>7, <1>8 DEF JInv, IInv, OuterAtItem
<1> QED
  BY <1>2, <1>5, <1>7, <1>8, <1>9 DEF At, Top

\* A stale result is never joined after its leader has erased the entry, for
\* any threads, keys, nesting and number of executions.
THEOREM StaleJoinsEnd == Spec => JoinsBeforeErasure
<1> DEFINE A == \A t \in Threads :
                  Len(stack'[t]) > Len(stack[t]) /\ Top(t)'.at = "get" /\ Top(t)'.future \in observed
                    => \E u \in Threads : At(u, "erase") /\ Top(u).future = Top(t)'.future
<1>1. Init => JInv
  <2> SUFFICES ASSUME Init PROVE JInv
    OBVIOUS
  <2>1. OneExecution /\ ItemsUnset /\ ObservedSet
    BY DEF Init, OneExecution, ItemsUnset, ObservedSet
  <2> QED
    BY <2>1, InitInv DEF JInv
<1>2. JInv /\ [Next]_vars => JInv'
  <2> SUFFICES ASSUME JInv, [Next]_vars PROVE JInv'
    OBVIOUS
  <2>1. IInv'
    BY NextInv DEF JInv
  <2>2. CASE UNCHANGED vars
    <3>1. (OneExecution /\ ItemsUnset /\ ObservedSet)'
      BY <2>2 DEF vars, JInv, OneExecution, ItemsUnset, ObservedSet, Leads
    <3> QED
      BY <2>1, <3>1 DEF JInv
  <2>3. CASE Next
    <3>1. (OneExecution /\ ItemsUnset /\ ObservedSet)'
      BY <2>3, JoinExecutions, LeadExecutions, StepExecutions DEF Next
    <3> QED
      BY <2>1, <3>1 DEF JInv
  <2> QED
    BY <2>2, <2>3
<1>3. JInv /\ [Next]_vars => [A]_vars
  <2> SUFFICES ASSUME JInv, Next, NEW t \in Threads,
                      Len(stack'[t]) > Len(stack[t]), Top(t)'.at = "get",
                      Top(t)'.future \in observed
               PROVE  \E u \in Threads : At(u, "erase") /\ Top(u).future = Top(t)'.future
    OBVIOUS
  <2>0. IInv /\ Len(stack[t]) \in Nat
    <3>1. IInv
      BY DEF JInv
    <3>2. stack[t] \in Seq(Calls)
      BY <3>1 DEF IInv, TypeOK
    <3> QED
      BY <3>1, <3>2
  <2>1. CASE \E u \in Threads, k \in Keys : Join(u, k)
    <3>1. PICK u \in Threads, k \in Keys : Join(u, k)
      BY <2>1
    <3>2. u = t
      BY <2>0, <3>1 DEF Join, IInv, TypeOK
    <3> QED
      BY <3>1, <3>2, JoinInWindow
  <2>2. CASE \E u \in Threads, k \in Keys : Lead(u, k)
    <3>1. PICK u \in Threads, k \in Keys : Lead(u, k)
      BY <2>2
    <3> DEFINE c == [key |-> k, future |-> started + 1, at |-> "item"]
    <3>2. stack' = [stack EXCEPT ![u] = Append(@, c)] /\ u = t
      BY <2>0, <3>1 DEF Lead, IInv, TypeOK
    <3>3. c \in Calls
      BY <2>0, <3>1, MultiplexerAssumption DEF Lead, IInv, TypeOK, Calls, Futures
    <3>4. Top(t)' = c
      BY <2>0, <3>2, <3>3, Entered DEF Top
    <3> QED
      BY <3>4
  <2>3. CASE \E u \in Threads : Step(u)
    <3>1. PICK u \in Threads : Step(u)
      BY <2>3
    <3>2. stack[u] # <<>>
      BY <3>1 DEF Step, Erase, Get, SetPromise, At
    <3>3. \/ Moves(u, "get") \/ Moves(u, "erase")
          \/ stack' = [stack EXCEPT ![u] = SubSeq(@, 1, Len(@) - 1)]
      BY <3>1 DEF Step, Erase, Get, SetPromise
    <3>4. ASSUME NEW p \in {"get", "erase"}, Moves(u, p) PROVE FALSE
      <4>1. Len(stack'[u]) = Len(stack[u]) /\ (u # t => stack'[t] = stack[t])
        BY <2>0, <3>2, <3>4, Moved
      <4> QED
        BY <2>0, <4>1
    <3>5. CASE stack' = [stack EXCEPT ![u] = SubSeq(@, 1, Len(@) - 1)]
      <4>1. Len(stack'[u]) = Len(stack[u]) - 1 /\ (u # t => stack'[t] = stack[t])
        BY <2>0, <3>2, <3>5, Left
      <4> QED
        BY <2>0, <4>1
    <3> QED
      BY <3>3, <3>4, <3>5
  <2> QED
    BY <2>1, <2>2, <2>3 DEF Next
<1> QED
  BY <1>1, <1>2, <1>3, PTL DEF Spec, JoinsBeforeErasure
=============================================================================
