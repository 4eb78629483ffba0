-------------------------- MODULE ThreadPoolProofs --------------------------
(***************************************************************************)
(* Every task of the pool is in one place, the destruction leaves nothing  *)
(* in use, with the flag it completes what the owner submitted, and no     *)
(* two-way task blocks while the pool lives: for any number of workers and *)
(* tasks, whatever the tasks do.                                           *)
(***************************************************************************)
EXTENDS ThreadPool, SequenceTheorems, TLAPS

\* How far the destructor has come: the workers before joining have exited.
Joined ==
  /\ \A w \in Workers : w < joining => pc[w] = "exited"
  /\ owner \notin {"joining", "gone"} => joining = 1
  /\ owner = "gone" => joining = NWorkers + 1 /\ work_queue = <<>>

\* What can have become of the tasks of the owner.
OwnTasks ==
  /\ \A t \in fromOwner : st[t] \in {"queued", "running", "done", "dropped"}
  /\ owner # "gone" => \A t \in Tasks : st[t] # "dropped"
  /\ owner \in {"joining", "gone"} /\ flag => \A t \in fromOwner : st[t] \in {"running", "done"}

IInv == TypeOK /\ OnePlace /\ Joined /\ OwnTasks

LEMMA InitInv == Init => IInv
<1> SUFFICES ASSUME Init PROVE IInv
  OBVIOUS
<1>1. 1 \in 1..NWorkers + 1
  BY ThreadPoolAssumption
<1>2. TypeOK
  <2>1. inPool \in [Workers -> BOOLEAN] /\ finished \in [Workers -> BOOLEAN]
    BY DEF Init
  <2>2. keyAlive \in BOOLEAN /\ flag \in BOOLEAN
    BY DEF Init
  <2>3. /\ work_queue \in Seq(Tasks) /\ stack \in [Workers -> Seq(Tasks)]
        /\ st \in [Tasks -> States] /\ kind \in [Tasks -> Kinds]
    BY DEF Init, States, Kinds
  <2> QED
    BY <1>1, <2>1, <2>2, <2>3 DEF Init, TypeOK
<1>3. OnePlace
  BY DEF Init, OnePlace, QueuedOnce, RunningOnce
<1>4. Joined
  BY DEF Init, Joined, Workers
<1>5. OwnTasks
  BY DEF Init, OwnTasks
<1> QED
  BY <1>2, <1>3, <1>4, <1>5 DEF IInv

\* What the submission of a task does to the queue, and to the other tasks.
LEMMA Enqueued ==
  ASSUME IInv, NEW t \in Tasks, NEW k \in Kinds, Enqueue(t, k), UNCHANGED stack
  PROVE  /\ work_queue' \in Seq(Tasks)
         /\ st' \in [Tasks -> States] /\ kind' \in [Tasks -> Kinds]
         /\ st[t] = "new" /\ st'[t] = "queued"
         /\ \A s \in Tasks : s # t => st'[s] = st[s]
         /\ OnePlace'
<1> DEFINE n == Len(work_queue)
<1>1. /\ work_queue \in Seq(Tasks) /\ n \in Nat
      /\ st \in [Tasks -> States] /\ kind \in [Tasks -> Kinds]
      /\ stack \in [Workers -> Seq(Tasks)]
  BY DEF IInv, TypeOK
<1>2. /\ st[t] = "new" /\ st'[t] = "queued"
      /\ \A s \in Tasks : s # t => st'[s] = st[s]
      /\ st' \in [Tasks -> States] /\ kind' \in [Tasks -> Kinds]
  BY <1>1 DEF Enqueue, States
<1>3. /\ work_queue' \in Seq(Tasks)
      /\ Len(work_queue') = n + 1
      /\ \A i \in 1..n : work_queue'[i] = work_queue[i] /\ work_queue[i] \in Tasks
      /\ work_queue'[n + 1] = t
  BY <1>1 DEF Enqueue
<1>4. \A i \in 1..n : work_queue[i] # t
  BY <1>2 DEF IInv, OnePlace, QueuedOnce
<1>5. QueuedOnce'
  <2>1. \A i \in 1..n + 1 : st'[work_queue'[i]] = "queued"
    BY <1>1, <1>2, <1>3, <1>4 DEF IInv, OnePlace, QueuedOnce
  <2>2. ASSUME NEW i \in 1..n + 1, NEW j \in 1..n + 1, work_queue'[i] = work_queue'[j]
        PROVE  i = j
    <3>1. CASE i \in 1..n /\ j \in 1..n
      <4>1. work_queue[i] = work_queue[j]
        BY <1>3, <2>2, <3>1
      <4> QED
        BY <3>1, <4>1 DEF IInv, OnePlace, QueuedOnce
    <3>2. CASE i \notin 1..n \/ j \notin 1..n
      BY <1>1, <1>3, <1>4, <2>2, <3>2
    <3> QED
      BY <3>1, <3>2
  <2>3. ASSUME NEW s \in Tasks, st'[s] = "queued"
        PROVE  \E i \in 1..n + 1 : work_queue'[i] = s
    <3>1. CASE s = t
      BY <1>1, <1>3, <3>1
    <3>2. CASE s # t
      BY <1>1, <1>2, <1>3, <2>3, <3>2 DEF IInv, OnePlace, QueuedOnce
    <3> QED
      BY <3>1, <3>2
  <2> QED
    BY <1>3, <2>1, <2>2, <2>3 DEF QueuedOnce
<1>6. RunningOnce'
  <2>1. \A w \in Workers : \A i \in 1..Len(stack[w]) :
          stack[w][i] \in Tasks /\ st[stack[w][i]] = "running"
    BY <1>1 DEF IInv, OnePlace, RunningOnce
  <2>2. \A w \in Workers : \A i \in 1..Len(stack[w]) : st'[stack[w][i]] = "running"
    BY <1>2, <2>1
  <2>3. \A s \in Tasks : st'[s] = "running" => st[s] = "running"
    BY <1>2
  <2> QED
    BY <2>2, <2>3 DEF IInv, OnePlace, RunningOnce
<1> QED
  BY <1>2, <1>3, <1>5, <1>6 DEF OnePlace

\* What a worker that takes an item does.
LEMMA Taken ==
  ASSUME IInv, NEW w \in Workers, Take(w)
  PROVE  LET t == Head(work_queue)
         IN  /\ work_queue' \in Seq(Tasks) /\ work_queue # <<>>
             /\ t \in Tasks /\ st[t] = "queued" /\ st'[t] = "running"
             /\ st' \in [Tasks -> States]
             /\ \A s \in Tasks : s # t => st'[s] = st[s]
             /\ stack' = [stack EXCEPT ![w] = <<t>>]
             /\ stack[w] = <<>>
             /\ OnePlace'
<1> DEFINE n == Len(work_queue)
           t == Head(work_queue)
<1>1. /\ work_queue \in Seq(Tasks) /\ work_queue # <<>>
      /\ st \in [Tasks -> States] /\ stack \in [Workers -> Seq(Tasks)]
      /\ stack[w] = <<>>
  BY DEF Take, IInv, TypeOK
<1>2. /\ n \in Nat \ {0} /\ t = work_queue[1] /\ t \in Tasks
      /\ \A i \in 1..n : work_queue[i] \in Tasks
  BY <1>1
<1>3. /\ st' = [st EXCEPT ![t] = "running"]
      /\ stack' = [stack EXCEPT ![w] = <<t>>]
      /\ work_queue' = Tail(work_queue)
  BY DEF Take
<1>4. /\ work_queue' \in Seq(Tasks) /\ Len(work_queue') = n - 1
      /\ \A i \in 1..n - 1 : work_queue'[i] = work_queue[i + 1]
  BY <1>1, <1>2, <1>3
<1>5. /\ st[t] = "queued" /\ st'[t] = "running"
      /\ \A s \in Tasks : s # t => st'[s] = st[s]
      /\ st' \in [Tasks -> States]
  BY <1>1, <1>2, <1>3 DEF IInv, OnePlace, QueuedOnce, States
<1>6. \A i \in 2..n : work_queue[i] # t
  BY <1>2 DEF IInv, OnePlace, QueuedOnce
<1>7. QueuedOnce'
  <2>1. \A i \in 1..n - 1 : i + 1 \in 2..n /\ i + 1 \in 1..n
    BY <1>2
  <2>2. \A i \in 1..n - 1 : st'[work_queue'[i]] = "queued"
    BY <1>2, <1>4, <1>5, <1>6, <2>1 DEF IInv, OnePlace, QueuedOnce
  <2>3. ASSUME NEW i \in 1..n - 1, NEW j \in 1..n - 1, work_queue'[i] = work_queue'[j]
        PROVE  i = j
    <3>1. work_queue[i + 1] = work_queue[j + 1]
      BY <1>4, <2>3
    <3>2. i + 1 = j + 1
      BY <2>1, <3>1 DEF IInv, OnePlace, QueuedOnce
    <3> QED
      BY <1>2, <3>2
  <2>4. ASSUME NEW s \in Tasks, st'[s] = "queued"
        PROVE  \E i \in 1..n - 1 : work_queue'[i] = s
    <3>1. s # t /\ st[s] = "queued"
      BY <1>5, <2>4
    <3>2. PICK i \in 1..n : work_queue[i] = s
      BY <3>1 DEF IInv, OnePlace, QueuedOnce
    <3>3. i - 1 \in 1..n - 1 /\ i = (i - 1) + 1
      BY <1>2, <3>1, <3>2
    <3> QED
      BY <1>4, <3>2, <3>3
  <2> QED
    BY <1>4, <2>2, <2>3, <2>4 DEF QueuedOnce
<1>8. RunningOnce'
  <2>1. /\ \A v \in Workers : v # w => stack'[v] = stack[v]
        /\ Len(stack'[w]) = 1 /\ stack'[w][1] = t
    BY <1>1, <1>3
  <2>2. \A v \in Workers : \A i \in 1..Len(stack[v]) :
          stack[v][i] \in Tasks /\ st[stack[v][i]] = "running" /\ stack[v][i] # t
    BY <1>1, <1>5 DEF IInv, OnePlace, RunningOnce
  <2>3. ASSUME NEW v \in Workers, NEW i \in 1..Len(stack'[v])
        PROVE  /\ (v = w /\ i = 1 /\ stack'[v][i] = t)
                  \/ (v # w /\ i \in 1..Len(stack[v]) /\ stack'[v][i] = stack[v][i])
               /\ st'[stack'[v][i]] = "running"
    <3>1. CASE v = w
      BY <1>5, <2>1, <3>1
    <3>2. CASE v # w
      BY <1>5, <2>1, <2>2, <3>2
    <3> QED
      BY <3>1, <3>2
  <2>4. \A u, v \in Workers : \A i \in 1..Len(stack'[u]), j \in 1..Len(stack'[v]) :
          stack'[u][i] = stack'[v][j] => u = v /\ i = j
    BY <2>2, <2>3 DEF IInv, OnePlace, RunningOnce
  <2>5. ASSUME NEW s \in Tasks, st'[s] = "running"
        PROVE  \E v \in Workers : \E i \in 1..Len(stack'[v]) : stack'[v][i] = s
    <3>1. CASE s = t
      BY <2>1, <3>1
    <3>2. CASE s # t
      <4>1. \E v \in Workers : \E i \in 1..Len(stack[v]) : stack[v][i] = s
        BY <1>5, <2>5, <3>2 DEF IInv, OnePlace, RunningOnce
      <4>2. PICK v \in Workers : \E i \in 1..Len(stack[v]) : stack[v][i] = s
        BY <4>1
      <4>3. v # w
        BY <1>1, <4>2
      <4> QED
        BY <2>1, <4>2, <4>3
    <3> QED
      BY <3>1, <3>2
  <2> QED
    BY <2>3, <2>4, <2>5 DEF RunningOnce
<1> QED
  BY <1>1, <1>2, <1>3, <1>4, <1>5, <1>7, <1>8 DEF OnePlace

\* What the get() on a deferred future does: its task runs above the others.
LEMMA Deferred ==
  ASSUME IInv, NEW w \in Workers, NEW t \in Tasks, st[t] = "new",
         st' = [st EXCEPT ![t] = "running"],
         stack' = [stack EXCEPT ![w] = Append(@, t)],
         UNCHANGED work_queue
  PROVE  /\ st' \in [Tasks -> States] /\ st'[t] = "running"
         /\ \A s \in Tasks : s # t => st'[s] = st[s]
         /\ stack' \in [Workers -> Seq(Tasks)] /\ stack'[w] # <<>>
         /\ \A v \in Workers : v # w => stack'[v] = stack[v]
         /\ OnePlace'
<1> DEFINE n == Len(stack[w])
<1>1. /\ st \in [Tasks -> States] /\ stack \in [Workers -> Seq(Tasks)]
      /\ work_queue \in Seq(Tasks) /\ n \in Nat
  BY DEF IInv, TypeOK
<1>2. /\ st' \in [Tasks -> States] /\ st'[t] = "running"
      /\ \A s \in Tasks : s # t => st'[s] = st[s]
  BY <1>1 DEF States
<1>3. /\ stack'[w] = Append(stack[w], t)
      /\ \A v \in Workers : v # w => stack'[v] = stack[v]
      /\ stack[w] \in Seq(Tasks)
  BY <1>1
<1>4. /\ stack' \in [Workers -> Seq(Tasks)] /\ stack'[w] # <<>>
      /\ Len(stack'[w]) = n + 1 /\ stack'[w][n + 1] = t
      /\ \A i \in 1..n : stack'[w][i] = stack[w][i]
  BY <1>1, <1>3
<1>5. QueuedOnce'
  <2>1. \A i \in 1..Len(work_queue) :
          work_queue[i] \in Tasks /\ st[work_queue[i]] = "queued"
    BY <1>1 DEF IInv, OnePlace, QueuedOnce
  <2>2. \A i \in 1..Len(work_queue) : st'[work_queue[i]] = "queued"
    BY <1>2, <2>1
  <2>3. \A s \in Tasks : st'[s] = "queued" => st[s] = "queued"
    BY <1>2
  <2> QED
    BY <2>2, <2>3 DEF IInv, OnePlace, QueuedOnce
<1>6. RunningOnce'
  <2>1. \A v \in Workers : \A i \in 1..Len(stack[v]) :
          stack[v][i] \in Tasks /\ st[stack[v][i]] = "running" /\ stack[v][i] # t
    BY <1>1 DEF IInv, OnePlace, RunningOnce
  <2>2. \A v \in Workers : \A i \in 1..Len(stack[v]) :
          i \in 1..Len(stack'[v]) /\ stack'[v][i] = stack[v][i]
    BY <1>1, <1>3, <1>4
  <2>3. \A v \in Workers : \A i \in 1..Len(stack'[v]) :
          (v = w /\ i = n + 1 /\ stack'[v][i] = t)
            \/ (i \in 1..Len(stack[v]) /\ stack'[v][i] = stack[v][i])
    BY <1>1, <1>3, <1>4
  <2>4. \A v \in Workers : \A i \in 1..Len(stack'[v]) : st'[stack'[v][i]] = "running"
    BY <1>2, <2>1, <2>3
  <2>5. ASSUME NEW u \in Workers, NEW v \in Workers,
               NEW i \in 1..Len(stack'[u]), NEW j \in 1..Len(stack'[v]),
               stack'[u][i] = stack'[v][j]
        PROVE  u = v /\ i = j
    <3>1. CASE stack'[u][i] = t
      BY <2>1, <2>3, <2>5, <3>1
    <3>2. CASE stack'[u][i] # t
      <4>1. /\ i \in 1..Len(stack[u]) /\ stack'[u][i] = stack[u][i]
            /\ j \in 1..Len(stack[v]) /\ stack'[v][j] = stack[v][j]
        BY <2>3, <2>5, <3>2
      <4> QED
        BY <2>5, <4>1 DEF IInv, OnePlace, RunningOnce
    <3> QED
      BY <3>1, <3>2
  <2>6. ASSUME NEW s \in Tasks, st'[s] = "running"
        PROVE  \E v \in Workers : \E i \in 1..Len(stack'[v]) : stack'[v][i] = s
    <3>1. CASE s = t
      BY <1>1, <1>4, <3>1
    <3>2. CASE s # t
      <4>1. \E v \in Workers : \E i \in 1..Len(stack[v]) : stack[v][i] = s
        BY <1>2, <2>6, <3>2 DEF IInv, OnePlace, RunningOnce
      <4> QED
        BY <2>2, <4>1
    <3> QED
      BY <3>1, <3>2
  <2> QED
    BY <2>4, <2>5, <2>6 DEF RunningOnce
<1> QED
  BY <1>2, <1>3, <1>4, <1>5, <1>6 DEF OnePlace

\* What the return of the innermost body does.
LEMMA Returned ==
  ASSUME IInv, NEW w \in Workers, Return(w)
  PROVE  /\ stack[w] # <<>> /\ Innermost(w) \in Tasks
         /\ st[Innermost(w)] = "running" /\ st'[Innermost(w)] = "done"
         /\ st' \in [Tasks -> States]
         /\ \A s \in Tasks : s # Innermost(w) => st'[s] = st[s]
         /\ stack' \in [Workers -> Seq(Tasks)]
         /\ stack'[w] = <<>> <=> Len(stack[w]) = 1
         /\ \A v \in Workers : v # w => stack'[v] = stack[v]
         /\ OnePlace'
<1> DEFINE n == Len(stack[w])
           t == Innermost(w)
<1>1. /\ st \in [Tasks -> States] /\ stack \in [Workers -> Seq(Tasks)]
      /\ work_queue \in Seq(Tasks) /\ stack[w] \in Seq(Tasks) /\ stack[w] # <<>>
  BY DEF Return, Executing, IInv, TypeOK
<1>2. n \in Nat \ {0} /\ n \in 1..n /\ t = stack[w][n] /\ t \in Tasks
  BY <1>1 DEF Innermost
<1>3. /\ st' = [st EXCEPT ![t] = "done"]
      /\ stack' = [stack EXCEPT ![w] = SubSeq(@, 1, Len(@) - 1)]
      /\ UNCHANGED work_queue
  BY DEF Return
<1>4. /\ st[t] = "running" /\ st'[t] = "done" /\ st' \in [Tasks -> States]
      /\ \A s \in Tasks : s # t => st'[s] = st[s]
  BY <1>1, <1>2, <1>3 DEF IInv, OnePlace, RunningOnce, States, Settled
<1>5. /\ stack'[w] = SubSeq(stack[w], 1, n - 1)
      /\ \A v \in Workers : v # w => stack'[v] = stack[v]
  BY <1>1, <1>3
<1>6. /\ stack'[w] \in Seq(Tasks) /\ Len(stack'[w]) = n - 1
      /\ \A i \in 1..n - 1 : stack'[w][i] = stack[w][i]
  <2>1. stack[w] \in Seq(Tasks) /\ n \in Nat \ {0}
    BY <1>1, <1>2
  <2> QED
    BY <1>5, <2>1
<1>7. stack' \in [Workers -> Seq(Tasks)] /\ (stack'[w] = <<>> <=> n = 1)
  <2>1. stack' \in [Workers -> Seq(Tasks)]
    BY <1>1, <1>3, <1>5, <1>6
  <2>2. stack'[w] = <<>> <=> Len(stack'[w]) = 0
    BY <1>6, EmptySeq
  <2> QED
    BY <1>2, <1>6, <2>1, <2>2
<1>8. QueuedOnce'
  <2>1. \A i \in 1..Len(work_queue) :
          work_queue[i] \in Tasks /\ st[work_queue[i]] = "queued"
    BY <1>1 DEF IInv, OnePlace, QueuedOnce
  <2>2. \A i \in 1..Len(work_queue) : st'[work_queue[i]] = "queued"
    BY <1>4, <2>1
  <2>3. \A s \in Tasks : st'[s] = "queued" => st[s] = "queued"
    BY <1>4
  <2> QED
    BY <1>3, <2>2, <2>3 DEF IInv, OnePlace, QueuedOnce
<1>9. RunningOnce'
  <2>1. \A v \in Workers : \A i \in 1..Len(stack[v]) :
          stack[v][i] \in Tasks /\ st[stack[v][i]] = "running"
    BY <1>1 DEF IInv, OnePlace, RunningOnce
  <2>2. \A v \in Workers : \A i \in 1..Len(stack'[v]) :
          i \in 1..Len(stack[v]) /\ stack'[v][i] = stack[v][i] /\ ~(v = w /\ i = n)
    BY <1>2, <1>5, <1>6
  <2>3. \A v \in Workers : \A i \in 1..Len(stack[v]) :
          ~(v = w /\ i = n) => i \in 1..Len(stack'[v])
    BY <1>2, <1>5, <1>6
  <2>4. \A v \in Workers : \A i \in 1..Len(stack[v]) :
          stack[v][i] = t => v = w /\ i = n
    BY <1>2 DEF IInv, OnePlace, RunningOnce
  <2>5. \A v \in Workers : \A i \in 1..Len(stack'[v]) : st'[stack'[v][i]] = "running"
    BY <1>4, <2>1, <2>2, <2>4
  <2>6. \A u, v \in Workers : \A i \in 1..Len(stack'[u]), j \in 1..Len(stack'[v]) :
          stack'[u][i] = stack'[v][j] => u = v /\ i = j
    BY <2>2 DEF IInv, OnePlace, RunningOnce
  <2>7. ASSUME NEW s \in Tasks, st'[s] = "running"
        PROVE  \E v \in Workers : \E i \in 1..Len(stack'[v]) : stack'[v][i] = s
    <3>1. s # t /\ st[s] = "running"
      BY <1>4, <2>7
    <3>2. PICK v \in Workers : \E i \in 1..Len(stack[v]) : stack[v][i] = s
      BY <3>1 DEF IInv, OnePlace, RunningOnce
    <3>3. PICK i \in 1..Len(stack[v]) : stack[v][i] = s
      BY <3>2
    <3>4. ~(v = w /\ i = n)
      BY <1>2, <3>1, <3>3
    <3> QED
      BY <2>2, <2>3, <3>3, <3>4
  <2> QED
    BY <2>5, <2>6, <2>7 DEF RunningOnce
<1> QED
  BY <1>1, <1>2, <1>4, <1>5, <1>7, <1>8, <1>9 DEF OnePlace

\* A step that moves no task.
LEMMA Unmoved ==
  ASSUME IInv, UNCHANGED <<work_queue, st, stack>>
  PROVE  OnePlace'
BY DEF IInv, OnePlace, QueuedOnce, RunningOnce

\* A worker that acts has not been joined, and the pool exists.
LEMMA Alive ==
  ASSUME IInv, NEW w \in Workers, pc[w] # "exited"
  PROVE  owner # "gone" /\ ~(w < joining)
BY ThreadPoolAssumption DEF IInv, Joined, Workers

\* A step of a worker that has not exited leaves the destructor where it is.
LEMMA JoinedKept ==
  ASSUME IInv, NEW w \in Workers, pc[w] # "exited",
         UNCHANGED <<owner, joining>>, \A v \in Workers : v # w => pc'[v] = pc[v]
  PROVE  Joined'
<1>1. owner # "gone" /\ ~(w < joining)
  BY Alive
<1> QED
  BY <1>1 DEF IInv, Joined

\* The moves of a task that its execution is made of.
LEMMA OwnTasksKept ==
  ASSUME IInv, owner # "gone", UNCHANGED <<fromOwner, owner, flag>>,
         \A s \in Tasks : \/ st'[s] = st[s]
                          \/ st[s] = "new" /\ st'[s] \in {"queued", "running", "abandoned"}
                          \/ st[s] = "queued" /\ st'[s] = "running"
                          \/ st[s] = "running" /\ st'[s] = "done"
  PROVE  OwnTasks'
<1>1. fromOwner \subseteq Tasks
  BY DEF IInv, TypeOK
<1> QED
  BY <1>1 DEF IInv, OwnTasks

LEMMA OwnerSubmitsInv ==
  ASSUME IInv, NEW t \in Tasks, NEW k \in Kinds, OwnerSubmits(t, k)
  PROVE  IInv'
<1>1. /\ Enqueue(t, k) /\ owner = "using" /\ fromOwner' = fromOwner \cup {t}
      /\ UNCHANGED <<pc, stack, awaits, inPool, finished, keyAlive, flag, owner, joining>>
  BY DEF OwnerSubmits, workers, destructor
<1>2. /\ work_queue' \in Seq(Tasks) /\ st' \in [Tasks -> States] /\ kind' \in [Tasks -> Kinds]
      /\ st'[t] = "queued" /\ OnePlace'
      /\ \A s \in Tasks : s # t => st'[s] = st[s]
  BY <1>1, Enqueued
<1>3. TypeOK'
  BY <1>1, <1>2 DEF IInv, TypeOK
<1>4. Joined'
  BY <1>1 DEF IInv, Joined
<1>5. OwnTasks'
  <2>1. fromOwner \subseteq Tasks
    BY DEF IInv, TypeOK
  <2> QED
    BY <1>1, <1>2, <2>1 DEF IInv, OwnTasks
<1> QED
  BY <1>2, <1>3, <1>4, <1>5 DEF IInv

\* The steps of the owner that move no task and no worker.
LEMMA OwnerMovesInv ==
  ASSUME IInv,
         \/ \E b \in BOOLEAN : SetFlags(b)
         \/ BeginWait \/ EndWait \/ BeginDestroy \/ Drained \/ Finish \/ Join
  PROVE  IInv'
<1>1. UNCHANGED <<work_queue, st, kind, fromOwner, pc, stack, awaits, inPool>>
  BY DEF SetFlags, BeginWait, EndWait, BeginDestroy, Drained, Finish, Join, tasks, workers
<1>2. OnePlace'
  BY <1>1, Unmoved
<1>3. joining \in Nat /\ joining \in 1..NWorkers + 1 /\ NWorkers \in Nat
  BY ThreadPoolAssumption DEF IInv, TypeOK
<1>4. TypeOK'
  <2>1. CASE \E b \in BOOLEAN : SetFlags(b)
    BY <1>1, <2>1 DEF SetFlags, IInv, TypeOK
  <2>2. CASE BeginWait \/ EndWait \/ Drained
    BY <1>1, <2>2 DEF BeginWait, EndWait, Drained, IInv, TypeOK
  <2>3. CASE BeginDestroy
    BY <1>1, <2>3 DEF BeginDestroy, AfterKeyDelete, IInv, TypeOK
  <2>4. CASE Finish
    BY <1>1, <2>4 DEF Finish, IInv, TypeOK
  <2>5. CASE Join
    <3>1. joining + 1 \in 1..NWorkers + 1
      BY <1>3, <2>5 DEF Join, Workers
    <3> QED
      BY <1>1, <2>5, <3>1 DEF Join, IInv, TypeOK
  <2> QED
    BY <2>1, <2>2, <2>3, <2>4, <2>5
<1>5. Joined'
  <2>1. CASE \E b \in BOOLEAN : SetFlags(b)
    BY <1>1, <2>1 DEF SetFlags, IInv, Joined
  <2>2. CASE BeginWait \/ EndWait \/ Drained
    BY <1>1, <2>2 DEF BeginWait, EndWait, Drained, IInv, Joined
  <2>3. CASE BeginDestroy
    BY <1>1, <2>3 DEF BeginDestroy, AfterKeyDelete, IInv, Joined
  <2>4. CASE Finish
    BY <1>1, <2>4 DEF Finish, IInv, Joined
  <2>5. CASE Join
    <3>1. /\ joining' = joining + 1 /\ owner' = "joining" /\ owner = "joining"
          /\ pc[joining] = "exited"
      BY <2>5 DEF Join
    <3>2. \A w \in Workers : w < joining + 1 => w < joining \/ w = joining
      BY <1>3 DEF Workers
    <3> QED
      BY <1>1, <3>1, <3>2 DEF IInv, Joined
  <2> QED
    BY <2>1, <2>2, <2>3, <2>4, <2>5
<1>6. OwnTasks'
  <2>0. fromOwner \subseteq Tasks
    BY DEF IInv, TypeOK
  <2>1. CASE \E b \in BOOLEAN : SetFlags(b)
    BY <1>1, <2>1 DEF SetFlags, IInv, OwnTasks
  <2>2. CASE BeginWait \/ EndWait \/ Finish \/ Join
    BY <1>1, <2>2 DEF BeginWait, EndWait, Finish, Join, IInv, OwnTasks
  <2>3. CASE BeginDestroy
    BY <1>1, <2>3 DEF BeginDestroy, AfterKeyDelete, IInv, OwnTasks
  <2>4. CASE Drained
    <3>1. owner = "draining" /\ owner' = "joining" /\ work_queue = <<>> /\ flag' = flag
      BY <2>4 DEF Drained
    <3>2. \A t \in Tasks : st[t] # "queued"
      BY <3>1 DEF IInv, OnePlace, QueuedOnce
    <3> QED
      BY <1>1, <2>0, <3>1, <3>2 DEF IInv, OwnTasks
  <2> QED
    BY <2>1, <2>2, <2>3, <2>4
<1> QED
  BY <1>2, <1>4, <1>5, <1>6 DEF IInv

\* With the queue go the tasks that are still in it: none of them is running.
LEMMA DestroyQueueInv ==
  ASSUME IInv, DestroyQueue
  PROVE  IInv'
<1>1. /\ owner = "joining" /\ owner' = "gone" /\ joining \notin Workers
      /\ work_queue' = <<>>
      /\ st' = [t \in Tasks |-> IF st[t] = "queued" THEN "dropped" ELSE st[t]]
      /\ UNCHANGED <<kind, fromOwner, pc, stack, awaits, inPool, finished, keyAlive, flag, joining>>
  BY DEF DestroyQueue, workers
<1>2. joining = NWorkers + 1
  BY <1>1, ThreadPoolAssumption DEF IInv, TypeOK, Workers
<1>3. TypeOK'
  <2>1. st' \in [Tasks -> States]
    BY <1>1 DEF IInv, TypeOK, States, Settled
  <2>2. work_queue' \in Seq(Tasks)
    BY <1>1
  <2> QED
    BY <1>1, <2>1, <2>2 DEF IInv, TypeOK
<1>4. \A t \in Tasks : st'[t] # "queued" /\ (st'[t] = "running" <=> st[t] = "running")
  BY <1>1
<1>5. QueuedOnce'
  BY <1>1, <1>4 DEF QueuedOnce
<1>6. RunningOnce'
  <2>1. \A w \in Workers : \A i \in 1..Len(stack[w]) :
          stack[w][i] \in Tasks /\ st[stack[w][i]] = "running"
    BY DEF IInv, TypeOK, OnePlace, RunningOnce
  <2>2. \A w \in Workers : \A i \in 1..Len(stack[w]) : st'[stack[w][i]] = "running"
    BY <1>4, <2>1
  <2> QED
    BY <1>1, <1>4, <2>2 DEF IInv, OnePlace, RunningOnce
<1>7. Joined'
  BY <1>1, <1>2 DEF IInv, Joined
<1>8. OwnTasks'
  <2>1. fromOwner \subseteq Tasks
    BY DEF IInv, TypeOK
  <2> QED
    BY <1>1, <2>1 DEF IInv, OwnTasks
<1> QED
  BY <1>3, <1>5, <1>6, <1>7, <1>8 DEF IInv, OnePlace

\* The loop of a worker around its items.
LEMMA LoopInv ==
  ASSUME IInv, NEW w \in Workers, Loop(w) \/ Miss(w) \/ GiveUp(w) \/ Resume(w)
  PROVE  IInv'
<1>1. /\ UNCHANGED <<work_queue, st, kind, fromOwner, stack, inPool,
                     finished, keyAlive, flag, owner, joining>>
      /\ pc[w] \in {"loop", "polling", "missed", "running"}
      /\ \A v \in Workers : v # w => pc'[v] = pc[v]
  BY DEF Loop, Miss, GiveUp, Resume, tasks, destructor, IInv, TypeOK
<1>2. /\ pc' \in [Workers -> {"loop", "polling", "missed", "running", "exited"}]
      /\ \A v \in Workers : pc'[v] = "running" <=> pc[v] = "running"
      /\ awaits' \in [Workers -> Tasks \cup {NoTask}]
  BY DEF Loop, Miss, GiveUp, Resume, IInv, TypeOK
<1>3. TypeOK'
  BY <1>1, <1>2 DEF IInv, TypeOK
<1>4. OnePlace'
  BY <1>1, Unmoved
<1>5. Joined'
  BY <1>1, JoinedKept
<1>6. OwnTasks'
  BY <1>1 DEF IInv, OwnTasks
<1> QED
  BY <1>3, <1>4, <1>5, <1>6 DEF IInv

LEMMA TakeInv ==
  ASSUME IInv, NEW w \in Workers, Take(w)
  PROVE  IInv'
<1> DEFINE t == Head(work_queue)
<1>1. /\ UNCHANGED <<kind, fromOwner, awaits, finished, keyAlive, flag, owner, joining>>
      /\ pc[w] # "exited" /\ pc' = [pc EXCEPT ![w] = "running"]
      /\ inPool' = [inPool EXCEPT ![w] = @ \/ (kind[t] = "twoway" /\ keyAlive)]
  BY DEF Take, destructor
<1>2. /\ work_queue' \in Seq(Tasks)
      /\ t \in Tasks /\ st[t] = "queued" /\ st'[t] = "running"
      /\ st' \in [Tasks -> States]
      /\ \A s \in Tasks : s # t => st'[s] = st[s]
      /\ stack' = [stack EXCEPT ![w] = <<t>>]
      /\ OnePlace'
  BY Taken
<1>3. TypeOK'
  <2>1. stack' \in [Workers -> Seq(Tasks)]
    BY <1>2 DEF IInv, TypeOK
  <2>2. inPool' \in [Workers -> BOOLEAN]
    <3>1. (inPool[w] \/ (kind[t] = "twoway" /\ keyAlive)) \in BOOLEAN
      OBVIOUS
    <3> QED
      BY <1>1, <3>1 DEF IInv, TypeOK
  <2>3. \A v \in Workers : pc'[v] = "running" <=> stack'[v] # <<>>
    <3>1. stack'[w] # <<>> /\ pc'[w] = "running"
      BY <1>1, <1>2 DEF IInv, TypeOK
    <3>2. \A v \in Workers : v # w => pc'[v] = pc[v] /\ stack'[v] = stack[v]
      BY <1>1, <1>2 DEF IInv, TypeOK
    <3> QED
      BY <3>1, <3>2 DEF IInv, TypeOK
  <2>4. pc' \in [Workers -> {"loop", "polling", "missed", "running", "exited"}]
    BY <1>1 DEF IInv, TypeOK
  <2> QED
    BY <1>1, <1>2, <2>1, <2>2, <2>3, <2>4 DEF IInv, TypeOK
<1>4. Joined'
  <2>1. \A v \in Workers : v # w => pc'[v] = pc[v]
    BY <1>1 DEF IInv, TypeOK
  <2> QED
    BY <1>1, <2>1, JoinedKept
<1>5. OwnTasks'
  <2>1. owner # "gone"
    BY <1>1, Alive
  <2> QED
    BY <1>1, <1>2, <2>1, OwnTasksKept
<1> QED
  BY <1>2, <1>3, <1>4, <1>5 DEF IInv

\* A body submits a task that goes into the queue, and may wait for it.
LEMMA BodyEnqueuesInv ==
  ASSUME IInv, NEW w \in Workers, NEW t \in Tasks, NEW k \in Kinds, Enqueue(t, k),
         pc[w] # "exited", UNCHANGED <<fromOwner, pc, stack, inPool, destructor>>,
         awaits' \in {awaits, [awaits EXCEPT ![w] = t]}
  PROVE  IInv'
<1>1. UNCHANGED <<finished, keyAlive, flag, owner, joining>>
  BY DEF destructor
<1>2. /\ work_queue' \in Seq(Tasks) /\ st' \in [Tasks -> States] /\ kind' \in [Tasks -> Kinds]
      /\ st[t] = "new" /\ st'[t] = "queued" /\ OnePlace'
      /\ \A s \in Tasks : s # t => st'[s] = st[s]
  BY Enqueued
<1>3. TypeOK'
  <2>1. awaits' \in [Workers -> Tasks \cup {NoTask}]
    BY DEF IInv, TypeOK
  <2> QED
    BY <1>1, <1>2, <2>1 DEF IInv, TypeOK
<1>4. owner # "gone"
  BY Alive
<1>5. Joined'
  BY <1>1, JoinedKept
<1>6. OwnTasks'
  BY <1>1, <1>2, <1>4, OwnTasksKept
<1> QED
  BY <1>2, <1>3, <1>5, <1>6 DEF IInv

LEMMA BodyExecutesInv ==
  ASSUME IInv, NEW w \in Workers, NEW t \in Tasks, BodyExecutes(w, t)
  PROVE  IInv'
BY BodyEnqueuesInv DEF BodyExecutes, Executing, Kinds, workers

LEMMA BodySubmitsInv ==
  ASSUME IInv, NEW w \in Workers, NEW t \in Tasks, BodySubmits(w, t)
  PROVE  IInv'
<1>1. /\ pc[w] # "exited"
      /\ UNCHANGED <<fromOwner, pc, stack, awaits, inPool, destructor>>
  BY DEF BodySubmits, Executing, workers
<1>2. CASE Enqueue(t, "twoway")
  BY <1>1, <1>2, BodyEnqueuesInv DEF Kinds
<1>3. CASE /\ st[t] = "new"
           /\ st' = [st EXCEPT ![t] = "abandoned"]
           /\ kind' = [kind EXCEPT ![t] = "twoway"]
           /\ UNCHANGED work_queue
  <2>1. UNCHANGED <<finished, keyAlive, flag, owner, joining>>
    BY <1>1 DEF destructor
  <2>2. /\ st' \in [Tasks -> States] /\ st'[t] = "abandoned"
        /\ \A s \in Tasks : s # t => st'[s] = st[s]
        /\ kind' \in [Tasks -> Kinds]
    BY <1>3 DEF IInv, TypeOK, States, Settled, Kinds
  <2>3. TypeOK'
    BY <1>1, <1>3, <2>1, <2>2 DEF IInv, TypeOK
  <2>4. QueuedOnce'
    <3>1. \A i \in 1..Len(work_queue) :
            work_queue[i] \in Tasks /\ st[work_queue[i]] = "queued"
      BY DEF IInv, TypeOK, OnePlace, QueuedOnce
    <3>2. \A i \in 1..Len(work_queue) : st'[work_queue[i]] = "queued"
      BY <1>3, <2>2, <3>1
    <3>3. \A s \in Tasks : st'[s] = "queued" => st[s] = "queued"
      BY <2>2
    <3> QED
      BY <1>3, <3>2, <3>3 DEF IInv, OnePlace, QueuedOnce
  <2>5. RunningOnce'
    <3>1. \A v \in Workers : \A i \in 1..Len(stack[v]) :
            stack[v][i] \in Tasks /\ st[stack[v][i]] = "running"
      BY DEF IInv, TypeOK, OnePlace, RunningOnce
    <3>2. \A v \in Workers : \A i \in 1..Len(stack[v]) : st'[stack[v][i]] = "running"
      BY <1>3, <2>2, <3>1
    <3>3. \A s \in Tasks : st'[s] = "running" => st[s] = "running"
      BY <2>2
    <3> QED
      BY <1>1, <3>2, <3>3 DEF IInv, OnePlace, RunningOnce
  <2>6. Joined'
    BY <1>1, <2>1, JoinedKept
  <2>7. OwnTasks'
    <3>1. owner # "gone"
      BY <1>1, Alive
    <3> QED
      BY <1>1, <1>3, <2>1, <2>2, <3>1, OwnTasksKept
  <2> QED
    BY <2>3, <2>4, <2>5, <2>6, <2>7 DEF IInv, OnePlace
<1> QED
  BY <1>2, <1>3 DEF BodySubmits

LEMMA BodySubmitsAndGetsInv ==
  ASSUME IInv, NEW w \in Workers, NEW t \in Tasks, BodySubmitsAndGets(w, t)
  PROVE  IInv'
<1>1. /\ pc[w] = "running"
      /\ UNCHANGED <<fromOwner, pc, inPool, destructor>>
  BY DEF BodySubmitsAndGets, Executing
<1>2. CASE Enqueue(t, "twoway") /\ awaits' = [awaits EXCEPT ![w] = t] /\ UNCHANGED stack
  BY <1>1, <1>2, BodyEnqueuesInv DEF Kinds
<1>3. CASE /\ st[t] = "new"
           /\ st' = [st EXCEPT ![t] = "running"]
           /\ kind' = [kind EXCEPT ![t] = "twoway"]
           /\ stack' = [stack EXCEPT ![w] = Append(@, t)]
           /\ UNCHANGED <<work_queue, awaits>>
  <2>1. UNCHANGED <<finished, keyAlive, flag, owner, joining>>
    BY <1>1 DEF destructor
  <2>2. /\ st' \in [Tasks -> States] /\ st'[t] = "running"
        /\ \A s \in Tasks : s # t => st'[s] = st[s]
        /\ stack' \in [Workers -> Seq(Tasks)] /\ stack'[w] # <<>>
        /\ \A v \in Workers : v # w => stack'[v] = stack[v]
        /\ OnePlace'
    BY <1>3, Deferred
  <2>3. TypeOK'
    <3>1. kind' \in [Tasks -> Kinds]
      BY <1>3 DEF IInv, TypeOK, Kinds
    <3>2. \A v \in Workers : pc'[v] = "running" <=> stack'[v] # <<>>
      BY <1>1, <2>2 DEF IInv, TypeOK
    <3> QED
      BY <1>1, <1>3, <2>1, <2>2, <3>1, <3>2 DEF IInv, TypeOK
  <2>4. Joined'
    BY <1>1, <2>1, JoinedKept
  <2>5. OwnTasks'
    <3>1. owner # "gone"
      BY <1>1, Alive
    <3> QED
      BY <1>1, <1>3, <2>1, <2>2, <3>1, OwnTasksKept
  <2> QED
    BY <2>2, <2>3, <2>4, <2>5 DEF IInv
<1> QED
  BY <1>2, <1>3 DEF BodySubmitsAndGets

LEMMA ReturnInv ==
  ASSUME IInv, NEW w \in Workers, Return(w)
  PROVE  IInv'
<1>1. /\ pc[w] = "running"
      /\ pc' = [pc EXCEPT ![w] = IF Len(stack[w]) = 1 THEN "loop" ELSE "running"]
      /\ UNCHANGED <<work_queue, kind, fromOwner, awaits, inPool,
                     finished, keyAlive, flag, owner, joining>>
  BY DEF Return, Executing, destructor
<1>2. /\ Innermost(w) \in Tasks
      /\ st[Innermost(w)] = "running" /\ st'[Innermost(w)] = "done"
      /\ st' \in [Tasks -> States]
      /\ \A s \in Tasks : s # Innermost(w) => st'[s] = st[s]
      /\ stack' \in [Workers -> Seq(Tasks)]
      /\ stack'[w] = <<>> <=> Len(stack[w]) = 1
      /\ \A v \in Workers : v # w => stack'[v] = stack[v]
      /\ OnePlace'
  BY Returned
<1>3. \A v \in Workers : v # w => pc'[v] = pc[v]
  BY <1>1 DEF IInv, TypeOK
<1>4. TypeOK'
  <2>1. pc' \in [Workers -> {"loop", "polling", "missed", "running", "exited"}]
    BY <1>1 DEF IInv, TypeOK
  <2>2. \A v \in Workers : pc'[v] = "running" <=> stack'[v] # <<>>
    <3>1. pc'[w] = "running" <=> stack'[w] # <<>>
      BY <1>1, <1>2 DEF IInv, TypeOK
    <3> QED
      BY <1>2, <1>3, <3>1 DEF IInv, TypeOK
  <2> QED
    BY <1>1, <1>2, <2>1, <2>2 DEF IInv, TypeOK
<1>5. Joined'
  BY <1>1, <1>3, JoinedKept
<1>6. OwnTasks'
  <2>1. owner # "gone"
    BY <1>1, Alive
  <2> QED
    BY <1>1, <1>2, <2>1, OwnTasksKept
<1> QED
  BY <1>2, <1>4, <1>5, <1>6 DEF IInv

\* Every step preserves the inductive invariant.
LEMMA NextInv == IInv /\ [Next]_vars => IInv'
<1> SUFFICES ASSUME IInv, [Next]_vars PROVE IInv'
  OBVIOUS
<1>1. CASE UNCHANGED vars
  BY <1>1 DEF vars, tasks, workers, destructor, IInv, TypeOK, OnePlace, QueuedOnce, RunningOnce,
              Joined, OwnTasks
<1>2. CASE \E t \in Tasks, k \in Kinds : OwnerSubmits(t, k)
  BY <1>2, OwnerSubmitsInv
<1>3. CASE (\E b \in BOOLEAN : SetFlags(b)) \/ BeginWait \/ BeginDestroy \/ OwnerStep
  BY <1>3, OwnerMovesInv, DestroyQueueInv DEF OwnerStep
<1>4. CASE \E w \in Workers : WorkerStep(w)
  BY <1>4, LoopInv, TakeInv, BodyExecutesInv, BodySubmitsInv, BodySubmitsAndGetsInv, ReturnInv
  DEF WorkerStep, BodyStep
<1> QED
  BY <1>1, <1>2, <1>3, <1>4 DEF Next

\* The members of the pool keep to their types.
THEOREM TypeCorrect == Spec => []TypeOK
<1>1. IInv => TypeOK
  BY DEF IInv
<1> QED
  BY InitInv, NextInv, <1>1, PTL DEF Spec

\* No task is lost, run twice or run by two workers, through queueing, nested
\* calls and destruction.
THEOREM EachTaskInOnePlace == Spec => []OnePlace
<1>1. IInv => OnePlace
  BY DEF IInv
<1> QED
  BY InitInv, NextInv, <1>1, PTL DEF Spec

\* When the destructor has returned every worker has exited and every task that
\* was submitted is settled.
THEOREM SafeDestruction == Spec => []NothingOutlivesPool
<1>1. ASSUME IInv PROVE NothingOutlivesPool
  <2> SUFFICES ASSUME owner = "gone"
               PROVE  /\ \A w \in Workers : pc[w] = "exited"
                      /\ \A t \in Tasks : st[t] \in Settled \cup {"new"}
    BY DEF NothingOutlivesPool
  <2>1. \A w \in Workers : pc[w] = "exited"
    BY <1>1, ThreadPoolAssumption DEF IInv, Joined, Workers
  <2>2. \A w \in Workers : stack[w] = <<>>
    BY <1>1, <2>1 DEF IInv, TypeOK
  <2>3. \A t \in Tasks : st[t] # "queued"
    <3>1. QueuedOnce /\ work_queue = <<>>
      BY <1>1 DEF IInv, Joined, OnePlace
    <3>2. \A i \in 1..Len(work_queue) : FALSE
      BY <3>1
    <3> QED
      BY <3>1, <3>2 DEF QueuedOnce
  <2>4. \A t \in Tasks : st[t] # "running"
    <3>1. RunningOnce
      BY <1>1 DEF IInv, OnePlace
    <3>2. \A w \in Workers : \A i \in 1..Len(stack[w]) : FALSE
      BY <2>2
    <3> QED
      BY <3>1, <3>2 DEF RunningOnce
  <2>5. \A t \in Tasks : st[t] \in States
    BY <1>1 DEF IInv, TypeOK
  <2> QED
    BY <2>1, <2>3, <2>4, <2>5 DEF States
<1> QED
  BY InitInv, NextInv, <1>1, PTL DEF Spec

\* With complete_all_before_delete the destructor returns only after every task
\* that the owner submitted has been executed.
THEOREM CompletesOwnTasks == Spec => []FlagCompletesOwnTasks
<1>1. ASSUME IInv PROVE FlagCompletesOwnTasks
  <2> SUFFICES ASSUME owner = "gone", flag, NEW t \in fromOwner
               PROVE  st[t] = "done"
    BY DEF FlagCompletesOwnTasks
  <2>1. t \in Tasks /\ st[t] \in {"running", "done"}
    BY <1>1 DEF IInv, TypeOK, OwnTasks
  <2>2. \A w \in Workers : stack[w] = <<>>
    BY <1>1, ThreadPoolAssumption DEF IInv, Joined, TypeOK, Workers
  <2> QED
    BY <1>1, <2>1, <2>2 DEF IInv, OnePlace, RunningOnce
<1> QED
  BY InitInv, NextInv, <1>1, PTL DEF Spec
-----------------------------------------------------------------------------
\* While the key lives: a worker that has a two-way task anywhere on its stack is
\* marked, and one that is blocked is so in a task of execute.
Marks ==
  \A w \in Workers : \A i \in 1..Len(stack[w]) : kind[stack[w][i]] = "twoway" => inPool[w]

Blockers ==
  \A w \in Workers : awaits[w] # NoTask => stack[w] # <<>> /\ kind[Innermost(w)] = "execute"

MarkInv == keyAlive => Marks /\ Blockers

\* A submission leaves the kind of the tasks on the stacks alone: they are running.
LEMMA KindsKept ==
  ASSUME IInv, NEW t \in Tasks, NEW k \in Kinds, st[t] = "new", kind' = [kind EXCEPT ![t] = k]
  PROVE  \A w \in Workers : \A i \in 1..Len(stack[w]) :
           /\ stack[w][i] \in Tasks
           /\ kind'[stack[w][i]] = kind[stack[w][i]]
<1> SUFFICES ASSUME NEW w \in Workers, NEW i \in 1..Len(stack[w])
             PROVE  stack[w][i] \in Tasks /\ kind'[stack[w][i]] = kind[stack[w][i]]
  OBVIOUS
<1>1. stack[w][i] \in Tasks /\ st[stack[w][i]] = "running"
  BY DEF IInv, TypeOK, OnePlace, RunningOnce
<1> QED
  BY <1>1 DEF IInv, TypeOK

\* The innermost task is on the stack.
LEMMA InnermostOnStack ==
  ASSUME IInv, NEW w \in Workers, stack[w] # <<>>
  PROVE  /\ Len(stack[w]) \in 1..Len(stack[w])
         /\ Innermost(w) = stack[w][Len(stack[w])]
         /\ Innermost(w) \in Tasks /\ kind[Innermost(w)] \in Kinds
BY DEF IInv, TypeOK, Innermost

\* A submission that moves no worker keeps the marks.
LEMMA SubmissionKeepsMarks ==
  ASSUME IInv, MarkInv, NEW t \in Tasks, NEW k \in Kinds, st[t] = "new",
         kind' = [kind EXCEPT ![t] = k], UNCHANGED <<stack, awaits, inPool, keyAlive>>
  PROVE  MarkInv'
<1> SUFFICES ASSUME keyAlive PROVE Marks' /\ Blockers'
  BY DEF MarkInv
<1>1. \A w \in Workers : \A i \in 1..Len(stack[w]) : kind'[stack[w][i]] = kind[stack[w][i]]
  BY KindsKept
<1>2. Marks'
  BY <1>1 DEF MarkInv, Marks
<1>3. Blockers'
  <2> SUFFICES ASSUME NEW w \in Workers, awaits[w] # NoTask
               PROVE  stack[w] # <<>> /\ kind'[Innermost(w)] = "execute"
    BY DEF Blockers, Innermost
  <2>1. stack[w] # <<>> /\ kind[Innermost(w)] = "execute"
    BY DEF MarkInv, Blockers
  <2> QED
    BY <1>1, <2>1, InnermostOnStack
<1> QED
  BY <1>2, <1>3

\* Of the owner's steps only the deletion of the key matters, and it ends the claim.
LEMMA OwnerKeepsMarks ==
  ASSUME MarkInv, UNCHANGED <<kind, workers>>, keyAlive' => keyAlive
  PROVE  MarkInv'
BY DEF MarkInv, Marks, Blockers, Innermost, workers

\* The wrapper of a two-way task marks the worker before the task runs.
LEMMA TakeKeepsMarks ==
  ASSUME IInv, MarkInv, NEW w \in Workers, Take(w)
  PROVE  MarkInv'
<1> DEFINE t == Head(work_queue)
<1> SUFFICES ASSUME keyAlive PROVE Marks' /\ Blockers'
  BY DEF MarkInv, Take, destructor
<1>1. /\ stack' = [stack EXCEPT ![w] = <<t>>] /\ UNCHANGED <<kind, awaits>>
      /\ inPool' = [inPool EXCEPT ![w] = @ \/ (kind[t] = "twoway" /\ keyAlive)]
      /\ pc[w] # "running"
  BY DEF Take
<1>2. stack[w] = <<>>
  BY <1>1 DEF IInv, TypeOK
<1>3. \A v \in Workers : v # w => stack'[v] = stack[v] /\ inPool'[v] = inPool[v]
  BY <1>1 DEF IInv, TypeOK
<1>4. Marks'
  <2>1. stack'[w] = <<t>> /\ (kind[t] = "twoway" => inPool'[w])
    BY <1>1 DEF IInv, TypeOK
  <2>2. \A i \in 1..Len(stack'[w]) : stack'[w][i] = t
    BY <2>1
  <2>3. ASSUME NEW v \in Workers, NEW i \in 1..Len(stack'[v]), kind'[stack'[v][i]] = "twoway"
        PROVE  inPool'[v]
    <3>1. CASE v = w
      BY <1>1, <2>1, <2>2, <2>3, <3>1
    <3>2. CASE v # w
      BY <1>1, <1>3, <2>3, <3>2 DEF MarkInv, Marks
    <3> QED
      BY <3>1, <3>2
  <2> QED
    BY <2>3 DEF Marks
<1>5. Blockers'
  <2>1. awaits[w] = NoTask
    BY <1>2 DEF MarkInv, Blockers
  <2> QED
    BY <1>1, <1>3, <2>1 DEF MarkInv, Blockers, Innermost
<1> QED
  BY <1>4, <1>5

\* A marked worker defers, so the one that blocks has no two-way task on its stack.
LEMMA GetKeepsMarks ==
  ASSUME IInv, MarkInv, NEW w \in Workers, NEW t \in Tasks, BodySubmitsAndGets(w, t)
  PROVE  MarkInv'
<1> SUFFICES ASSUME keyAlive PROVE Marks' /\ Blockers'
  BY DEF MarkInv, BodySubmitsAndGets, destructor
<1>1. /\ pc[w] = "running" /\ awaits[w] = NoTask /\ st[t] = "new"
      /\ kind' = [kind EXCEPT ![t] = "twoway"] /\ UNCHANGED inPool
      /\ stack[w] # <<>>
  BY DEF BodySubmitsAndGets, Executing, Enqueue, IInv, TypeOK
<1>2. \A v \in Workers : \A i \in 1..Len(stack[v]) : kind'[stack[v][i]] = kind[stack[v][i]]
  BY <1>1, KindsKept DEF Kinds
<1>3. /\ Len(stack[w]) \in 1..Len(stack[w]) /\ Innermost(w) = stack[w][Len(stack[w])]
      /\ Innermost(w) \in Tasks /\ kind[Innermost(w)] \in Kinds
  BY <1>1, InnermostOnStack
<1>4. \A v \in Workers : awaits[v] # NoTask => stack[v] # <<>> /\ kind'[Innermost(v)] = "execute"
  BY <1>2, InnermostOnStack DEF MarkInv, Blockers
<1>5. CASE /\ FALSE \in MarkSeenBy(w) /\ awaits' = [awaits EXCEPT ![w] = t] /\ UNCHANGED stack
  <2>1. ~inPool[w]
    BY <1>5 DEF MarkSeenBy
  <2>2. kind'[Innermost(w)] = "execute"
    BY <1>2, <1>3, <2>1 DEF MarkInv, Marks, Kinds
  <2>3. \A v \in Workers : v # w => awaits'[v] = awaits[v]
    BY <1>5 DEF IInv, TypeOK
  <2>4. Blockers'
    BY <1>1, <1>4, <1>5, <2>2, <2>3 DEF Blockers, Innermost
  <2>5. Marks'
    BY <1>1, <1>2, <1>5 DEF MarkInv, Marks
  <2> QED
    BY <2>4, <2>5
<1>6. CASE /\ TRUE \in MarkSeenBy(w) /\ stack' = [stack EXCEPT ![w] = Append(@, t)]
           /\ UNCHANGED awaits
  <2>1. inPool[w]
    BY <1>6 DEF MarkSeenBy
  <2>2. \A v \in Workers : v # w => stack'[v] = stack[v]
    BY <1>6 DEF IInv, TypeOK
  <2>3. Blockers'
    BY <1>1, <1>4, <1>6, <2>2 DEF Blockers, Innermost
  <2>4. Marks'
    <3> SUFFICES ASSUME NEW v \in Workers, NEW i \in 1..Len(stack'[v]),
                        kind'[stack'[v][i]] = "twoway"
                 PROVE  inPool'[v]
      BY DEF Marks
    <3>1. CASE v = w
      BY <1>1, <2>1, <3>1
    <3>2. CASE v # w
      BY <1>1, <1>2, <2>2, <3>2 DEF MarkInv, Marks
    <3> QED
      BY <3>1, <3>2
  <2> QED
    BY <2>3, <2>4
<1> QED
  BY <1>5, <1>6 DEF BodySubmitsAndGets

\* A return leaves the tasks below, and the mark stays.
LEMMA ReturnKeepsMarks ==
  ASSUME IInv, MarkInv, NEW w \in Workers, Return(w)
  PROVE  MarkInv'
<1> SUFFICES ASSUME keyAlive PROVE Marks' /\ Blockers'
  BY DEF MarkInv, Return, destructor
<1>1. /\ awaits[w] = NoTask /\ UNCHANGED <<kind, awaits, inPool>>
      /\ stack' = [stack EXCEPT ![w] = SubSeq(@, 1, Len(@) - 1)] /\ stack[w] # <<>>
  BY DEF Return, Executing, IInv, TypeOK
<1>2. \A v \in Workers : v # w => stack'[v] = stack[v]
  BY <1>1 DEF IInv, TypeOK
<1>3. /\ Len(stack'[w]) = Len(stack[w]) - 1 /\ Len(stack[w]) \in Nat
      /\ \A i \in 1..Len(stack'[w]) : stack'[w][i] = stack[w][i]
  <2> DEFINE s == stack[w]
  <2>1. s \in Seq(Tasks) /\ s # <<>> /\ Len(s) \in Nat \ {0}
    BY <1>1 DEF IInv, TypeOK
  <2>2. stack'[w] = SubSeq(s, 1, Len(s) - 1)
    BY <1>1 DEF IInv, TypeOK
  <2>3. /\ Len(SubSeq(s, 1, Len(s) - 1)) = Len(s) - 1
        /\ \A i \in 1..Len(s) - 1 : SubSeq(s, 1, Len(s) - 1)[i] = s[i]
    BY <2>1
  <2> QED
    BY <2>1, <2>2, <2>3
<1>4. Marks'
  <2> SUFFICES ASSUME NEW v \in Workers, NEW i \in 1..Len(stack'[v]),
                      kind'[stack'[v][i]] = "twoway"
               PROVE  inPool'[v]
    BY DEF Marks
  <2>1. UNCHANGED <<kind, inPool>>
    BY <1>1
  <2>2. i \in 1..Len(stack[v]) /\ stack'[v][i] = stack[v][i]
    <3>1. CASE v = w
      BY <1>3, <3>1
    <3>2. CASE v # w
      BY <1>2, <3>2
    <3> QED
      BY <3>1, <3>2
  <2> QED
    BY <2>1, <2>2 DEF MarkInv, Marks
<1>5. Blockers'
  BY <1>1, <1>2 DEF MarkInv, Blockers, Innermost
<1> QED
  BY <1>4, <1>5

LEMMA MarkNext == IInv /\ MarkInv /\ [Next]_vars => MarkInv'
<1> SUFFICES ASSUME IInv, MarkInv, [Next]_vars PROVE MarkInv'
  OBVIOUS
<1>1. CASE UNCHANGED vars
  BY <1>1, OwnerKeepsMarks DEF vars, tasks, destructor
<1>2. ASSUME NEW t \in Tasks, NEW k \in Kinds, OwnerSubmits(t, k) PROVE MarkInv'
  BY <1>2, SubmissionKeepsMarks DEF OwnerSubmits, Enqueue, workers, destructor
<1>3. CASE (\E b \in BOOLEAN : SetFlags(b)) \/ BeginWait \/ BeginDestroy \/ OwnerStep
  BY <1>3, OwnerKeepsMarks
  DEF SetFlags, BeginWait, BeginDestroy, OwnerStep, EndWait, Drained, Finish, Join, DestroyQueue,
      tasks
<1>4. ASSUME NEW w \in Workers, WorkerStep(w) PROVE MarkInv'
  <2>1. CASE Loop(w) \/ Miss(w) \/ GiveUp(w)
    <3>1. UNCHANGED <<kind, stack, awaits, inPool, keyAlive>>
      BY <2>1 DEF Loop, Miss, GiveUp, tasks, destructor
    <3> QED
      BY <3>1 DEF MarkInv, Marks, Blockers, Innermost
  <2>2. CASE Resume(w)
    <3>1. /\ UNCHANGED <<kind, stack, inPool, keyAlive>>
          /\ \A v \in Workers : awaits'[v] # NoTask => awaits[v] # NoTask
      BY <2>2 DEF Resume, tasks, destructor, IInv, TypeOK
    <3> QED
      BY <3>1 DEF MarkInv, Marks, Blockers, Innermost
  <2>3. ASSUME NEW t \in Tasks, BodyExecutes(w, t) \/ BodySubmits(w, t) PROVE MarkInv'
    BY <2>3, SubmissionKeepsMarks
    DEF BodyExecutes, BodySubmits, Enqueue, Kinds, workers, destructor
  <2> QED
    BY <1>4, <2>1, <2>2, <2>3, TakeKeepsMarks, GetKeepsMarks, ReturnKeepsMarks
    DEF WorkerStep, BodyStep
<1> QED
  BY <1>1, <1>2, <1>3, <1>4 DEF Next

\* What the comment of twoway_execute promises holds of the tasks submitted by
\* twoway_execute: while the pool lives none of them blocks in a nested get(), for
\* any number of workers, tasks and levels of nesting.
THEOREM TwowayTasksNeverBlock == Spec => []TwowayNeverBlocks
<1>1. Init => MarkInv
  BY DEF Init, MarkInv, Marks, Blockers
<1>2. MarkInv => TwowayNeverBlocks
  BY DEF MarkInv, Blockers, TwowayNeverBlocks
<1> QED
  BY InitInv, NextInv, MarkNext, <1>1, <1>2, PTL DEF Spec
=============================================================================
