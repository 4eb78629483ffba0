----------------------------- MODULE ThreadPool -----------------------------
(***************************************************************************)
(* hadoken::thread_pool_executor (executor/thread_pool_executor.hpp).       *)
(*                                                                         *)
(* The owner of the pool submits tasks, may wait(), and destroys the pool; *)
(* the workers poll the work queue.  What a task does is left open: its    *)
(* body may submit any further task with execute or twoway_execute, may    *)
(* call get() at once on the future it received, and returns at any time.  *)
(*                                                                         *)
(* The work queue is used through what module AbstractQueue promises (and  *)
(* ConcurrentQueue implements): a try_pop takes the oldest item, or gives  *)
(* up after it has found the queue empty.                                  *)
(*                                                                         *)
(* Contract on the tasks: the body given to execute does not throw (an     *)
(* exception would leave worker_thread::run and terminate the program).    *)
(* A task that is "done" has left a value or an exception in its promise.  *)
(***************************************************************************)
EXTENDS Integers, Sequences

CONSTANTS
  Tasks,         \* the tasks that can be submitted, each at most once
  NoTask,
  NWorkers,      \* n_thread, or hardware_concurrency() when that is 0
  NestingIn,     \* the kinds of tasks whose bodies call get() on a two-way task
  NestingLate    \* they may do so after the destruction of the pool has begun

Kinds == {"execute", "twoway"}

ASSUME ThreadPoolAssumption ==
  /\ NoTask \notin Tasks
  /\ NWorkers \in Nat
  /\ NestingIn \subseteq Kinds
  /\ NestingLate \in BOOLEAN

Workers == 1..NWorkers

VARIABLES
  work_queue,   \* _work_queue
  st,           \* what has become of each task, see below
  kind,         \* how it was submitted
  fromOwner,    \* history: the tasks that the owner submitted
  pc,           \* worker: loop, polling, missed, running, exited
  stack,        \* worker: the task it runs and, above it, the deferred ones
                \* that run inside its get() calls; the last is the innermost
  awaits,       \* worker: the task whose promise its get() is blocked on
  inPool,       \* worker: its value of the thread-specific _recursive_key
  finished,     \* worker: finished
  keyAlive,     \* _recursive_key has not been deleted
  flag,         \* complete_all_before_delete
  owner,        \* using, waiting (in wait()), draining, joining, gone
  joining       \* the worker that the destructor is at

tasks == <<st, kind, fromOwner>>
workers == <<pc, stack, awaits, inPool>>
destructor == <<finished, keyAlive, flag, owner, joining>>
vars == <<work_queue, tasks, workers, destructor>>

(***************************************************************************)
(* new        not submitted                                                *)
(* queued     in the work queue                                            *)
(* running    its body has started on some worker                          *)
(* done       its body has returned, its promise is set                    *)
(* abandoned  a deferred future that nobody called get() on: never runs    *)
(* dropped    was still queued when the pool died: its promise is broken   *)
(***************************************************************************)
Settled == {"done", "abandoned", "dropped"}
States == {"new", "queued", "running"} \cup Settled

Init ==
  /\ work_queue = <<>>
  /\ st = [t \in Tasks |-> "new"]
  /\ kind = [t \in Tasks |-> "execute"]
  /\ fromOwner = {}
  /\ pc = [w \in Workers |-> "loop"]
  /\ stack = [w \in Workers |-> <<>>]
  /\ awaits = [w \in Workers |-> NoTask]
  /\ inPool = [w \in Workers |-> FALSE]
  /\ finished = [w \in Workers |-> FALSE]
  /\ keyAlive = TRUE
  /\ flag = FALSE
  /\ owner = "using"
  /\ joining = 1

-----------------------------------------------------------------------------
\* Task t, submitted as a k, enters the queue.
Enqueue(t, k) ==
  /\ st[t] = "new"
  /\ st' = [st EXCEPT ![t] = "queued"]
  /\ kind' = [kind EXCEPT ![t] = k]
  /\ work_queue' = Append(work_queue, t)

\* execute, or twoway_execute by a thread that is not of the pool.
OwnerSubmits(t, k) ==
  /\ owner = "using"
  /\ Enqueue(t, k)
  /\ fromOwner' = fromOwner \cup {t}
  /\ UNCHANGED <<workers, destructor>>

SetFlags(b) ==
  /\ owner = "using"
  /\ flag' = b
  /\ UNCHANGED <<work_queue, tasks, workers, finished, keyAlive, owner, joining>>

\* wait() spins until the queue is empty.
BeginWait ==
  /\ owner = "using"
  /\ owner' = "waiting"
  /\ UNCHANGED <<work_queue, tasks, workers, finished, keyAlive, flag, joining>>

EndWait ==
  /\ owner = "waiting"
  /\ work_queue = <<>>
  /\ owner' = "using"
  /\ UNCHANGED <<work_queue, tasks, workers, finished, keyAlive, flag, joining>>

-----------------------------------------------------------------------------
\* The flag is not looked at.
ForgetsFlag == "joining"

\* Whether the destructor waits before it joins.
AfterKeyDelete == IF flag THEN "draining" ELSE "joining"

\* ~thread_pool_executor(): pthread_key_delete comes first.
BeginDestroy ==
  /\ owner = "using"
  /\ keyAlive' = FALSE
  /\ owner' = AfterKeyDelete
  /\ UNCHANGED <<work_queue, tasks, workers, finished, flag, joining>>

\* The wait() of the destructor.
Drained ==
  /\ owner = "draining"
  /\ work_queue = <<>>
  /\ owner' = "joining"
  /\ UNCHANGED <<work_queue, tasks, workers, finished, keyAlive, flag, joining>>

\* ~worker_thread(), one worker after the other: finished.store(true), join().
Finish ==
  /\ owner = "joining"
  /\ joining \in Workers
  /\ finished' = [finished EXCEPT ![joining] = TRUE]
  /\ ~finished[joining]
  /\ UNCHANGED <<work_queue, tasks, workers, keyAlive, flag, owner, joining>>

\* A destructor that does not join.
Detach ==
  /\ owner = "joining"
  /\ joining \in Workers
  /\ finished[joining]
  /\ joining' = joining + 1
  /\ UNCHANGED <<work_queue, tasks, workers, finished, keyAlive, flag, owner>>

Join ==
  /\ owner = "joining"
  /\ joining \in Workers
  /\ finished[joining]
  /\ pc[joining] = "exited"
  /\ joining' = joining + 1
  /\ UNCHANGED <<work_queue, tasks, workers, finished, keyAlive, flag, owner>>

\* The work queue is destroyed after the workers, with what is left in it.
DestroyQueue ==
  /\ owner = "joining"
  /\ joining \notin Workers
  /\ owner' = "gone"
  /\ work_queue' = <<>>
  /\ st' = [t \in Tasks |-> IF st[t] = "queued" THEN "dropped" ELSE st[t]]
  /\ UNCHANGED <<kind, fromOwner, workers, finished, keyAlive, flag, joining>>

-----------------------------------------------------------------------------
\* while (!finished)
Loop(w) ==
  /\ pc[w] = "loop"
  /\ pc' = [pc EXCEPT ![w] = IF finished[w] THEN "exited" ELSE "polling"]
  /\ UNCHANGED <<work_queue, tasks, stack, awaits, inPool, destructor>>

\* An item that is called before it is taken out of the queue.
PeekItem(w) ==
  /\ pc[w] \in {"polling", "missed"}
  /\ work_queue # <<>>
  /\ LET t == Head(work_queue)
     IN  /\ st' = [st EXCEPT ![t] = "running"]
         /\ stack' = [stack EXCEPT ![w] = <<t>>]
         /\ inPool' = [inPool EXCEPT ![w] = @ \/ (kind[t] = "twoway" /\ keyAlive)]
  /\ pc' = [pc EXCEPT ![w] = "running"]
  /\ UNCHANGED <<work_queue, kind, fromOwner, awaits, destructor>>

\* A two-way item that does not mark its thread.
TakeUnmarked(w) ==
  /\ pc[w] \in {"polling", "missed"}
  /\ work_queue # <<>>
  /\ LET t == Head(work_queue)
     IN  /\ st' = [st EXCEPT ![t] = "running"]
         /\ stack' = [stack EXCEPT ![w] = <<t>>]
  /\ work_queue' = Tail(work_queue)
  /\ pc' = [pc EXCEPT ![w] = "running"]
  /\ UNCHANGED <<kind, fromOwner, awaits, inPool, destructor>>

\* try_pop returns an item and the worker calls it.  The wrapper of a two-way
\* task first sets the key, which does nothing once the key is deleted.
Take(w) ==
  /\ pc[w] \in {"polling", "missed"}
  /\ work_queue # <<>>
  /\ LET t == Head(work_queue)
     IN  /\ st' = [st EXCEPT ![t] = "running"]
         /\ stack' = [stack EXCEPT ![w] = <<t>>]
         /\ inPool' = [inPool EXCEPT ![w] = @ \/ (kind[t] = "twoway" /\ keyAlive)]
  /\ work_queue' = Tail(work_queue)
  /\ pc' = [pc EXCEPT ![w] = "running"]
  /\ UNCHANGED <<kind, fromOwner, awaits, destructor>>

\* A worker whose thread ends when there is nothing to do.
ExitsWhenIdle(w) ==
  /\ pc[w] = "polling"
  /\ work_queue = <<>>
  /\ pc' = [pc EXCEPT ![w] = "exited"]
  /\ UNCHANGED <<work_queue, tasks, stack, awaits, inPool, destructor>>

\* The queue is found empty.
Miss(w) ==
  /\ pc[w] = "polling"
  /\ work_queue = <<>>
  /\ pc' = [pc EXCEPT ![w] = "missed"]
  /\ UNCHANGED <<work_queue, tasks, stack, awaits, inPool, destructor>>

\* A worker that waits for an item without a limit of time.
NeverGivesUp(w) == FALSE

\* try_pop returns nothing after 10 ms.
GiveUp(w) ==
  /\ pc[w] = "missed"
  /\ pc' = [pc EXCEPT ![w] = "loop"]
  /\ UNCHANGED <<work_queue, tasks, stack, awaits, inPool, destructor>>

\* A body is executing on w.
Executing(w) == pc[w] = "running" /\ awaits[w] = NoTask
Innermost(w) == stack[w][Len(stack[w])]

\* What pthread_getspecific(_recursive_key) can tell worker w: after the key is
\* deleted the call is undefined, and answers NULL or the old value.
MarkSeenBy(w) == IF keyAlive THEN {inPool[w]} ELSE {FALSE, inPool[w]}

BodyExecutes(w, t) ==
  /\ Executing(w)
  /\ Enqueue(t, "execute")
  /\ UNCHANGED <<fromOwner, workers, destructor>>

\* twoway_execute whose future is not used: queued, or deferred and forgotten.
BodySubmits(w, t) ==
  /\ Executing(w)
  /\ \/ /\ FALSE \in MarkSeenBy(w)
        /\ Enqueue(t, "twoway")
     \/ /\ TRUE \in MarkSeenBy(w)
        /\ st[t] = "new"
        /\ st' = [st EXCEPT ![t] = "abandoned"]
        /\ kind' = [kind EXCEPT ![t] = "twoway"]
        /\ UNCHANGED work_queue
  /\ UNCHANGED <<fromOwner, workers, destructor>>

\* twoway_execute(t).get(): blocks on the queue, or runs the deferred task here.
BodySubmitsAndGets(w, t) ==
  /\ Executing(w)
  /\ kind[Innermost(w)] \in NestingIn
  /\ keyAlive \/ NestingLate
  /\ \/ /\ FALSE \in MarkSeenBy(w)
        /\ Enqueue(t, "twoway")
        /\ awaits' = [awaits EXCEPT ![w] = t]
        /\ UNCHANGED stack
     \/ /\ TRUE \in MarkSeenBy(w)
        /\ st[t] = "new"
        /\ st' = [st EXCEPT ![t] = "running"]
        /\ kind' = [kind EXCEPT ![t] = "twoway"]
        /\ stack' = [stack EXCEPT ![w] = Append(@, t)]
        /\ UNCHANGED <<work_queue, awaits>>
  /\ UNCHANGED <<fromOwner, pc, inPool, destructor>>

\* get() returns: the promise is set, or broken.
Resume(w) ==
  /\ pc[w] = "running"
  /\ awaits[w] # NoTask
  /\ st[awaits[w]] \in {"done", "dropped"}
  /\ awaits' = [awaits EXCEPT ![w] = NoTask]
  /\ UNCHANGED <<work_queue, tasks, pc, stack, inPool, destructor>>

\* The innermost body returns; with the outermost the worker is back in its loop.
Return(w) ==
  /\ Executing(w)
  /\ st' = [st EXCEPT ![Innermost(w)] = "done"]
  /\ stack' = [stack EXCEPT ![w] = SubSeq(@, 1, Len(@) - 1)]
  /\ pc' = [pc EXCEPT ![w] = IF Len(stack[w]) = 1 THEN "loop" ELSE "running"]
  /\ UNCHANGED <<work_queue, kind, fromOwner, awaits, inPool, destructor>>

-----------------------------------------------------------------------------
OwnerStep == EndWait \/ Drained \/ Finish \/ Join \/ DestroyQueue

BodyStep(w) ==
  \/ \E t \in Tasks : BodyExecutes(w, t) \/ BodySubmits(w, t) \/ BodySubmitsAndGets(w, t)
  \/ Return(w)

WorkerStep(w) == Loop(w) \/ Take(w) \/ Miss(w) \/ GiveUp(w) \/ Resume(w) \/ BodyStep(w)

Next ==
  \/ \E t \in Tasks, k \in Kinds : OwnerSubmits(t, k)
  \/ \E b \in BOOLEAN : SetFlags(b)
  \/ BeginWait
  \/ BeginDestroy
  \/ OwnerStep
  \/ \E w \in Workers : WorkerStep(w)

(***************************************************************************)
(* Every thread is scheduled, try_pop times out, and a body that is not    *)
(* blocked returns (it can submit only so many tasks before).  The owner   *)
(* need not submit, wait or destroy.                                       *)
(***************************************************************************)
Fairness == WF_vars(OwnerStep) /\ \A w \in Workers : WF_vars(WorkerStep(w))

Spec == Init /\ [][Next]_vars
FairSpec == Spec /\ Fairness
-----------------------------------------------------------------------------
TypeOK ==
  /\ work_queue \in Seq(Tasks)
  /\ st \in [Tasks -> States]
  /\ kind \in [Tasks -> Kinds]
  /\ fromOwner \in SUBSET Tasks
  /\ pc \in [Workers -> {"loop", "polling", "missed", "running", "exited"}]
  /\ stack \in [Workers -> Seq(Tasks)]
  /\ awaits \in [Workers -> Tasks \cup {NoTask}]
  /\ inPool \in [Workers -> BOOLEAN]
  /\ finished \in [Workers -> BOOLEAN]
  /\ keyAlive \in BOOLEAN
  /\ flag \in BOOLEAN
  /\ owner \in {"using", "waiting", "draining", "joining", "gone"}
  /\ joining \in 1..NWorkers + 1
  /\ \A w \in Workers : pc[w] = "running" <=> stack[w] # <<>>

QueuedOnce ==
  /\ \A i \in 1..Len(work_queue) : st[work_queue[i]] = "queued"
  /\ \A i, j \in 1..Len(work_queue) : work_queue[i] = work_queue[j] => i = j
  /\ \A t \in Tasks : st[t] = "queued" => \E i \in 1..Len(work_queue) : work_queue[i] = t

RunningOnce ==
  /\ \A w \in Workers : \A i \in 1..Len(stack[w]) : st[stack[w][i]] = "running"
  /\ \A v, w \in Workers : \A i \in 1..Len(stack[v]), j \in 1..Len(stack[w]) :
       stack[v][i] = stack[w][j] => v = w /\ i = j
  /\ \A t \in Tasks : st[t] = "running" =>
       \E w \in Workers : \E i \in 1..Len(stack[w]) : stack[w][i] = t

\* A task is in one place: what was submitted is in the queue once, or runs on
\* one worker, or is settled, through every hand-over between the queue, the
\* workers (lines 67-74) and the deferred futures of nested calls (line 144).
OnePlace == QueuedOnce /\ RunningOnce

\* When the destructor has returned nothing of the pool is left in use: no
\* worker is polling the queue or running a task, and every future that was
\* handed out is ready, broken or was abandoned (members, lines 160-163).
NothingOutlivesPool ==
  owner = "gone" =>
    /\ \A w \in Workers : pc[w] = "exited"
    /\ \A t \in Tasks : st[t] \in Settled \cup {"new"}

\* With complete_all_before_delete (lines 113-115) every task that the owner
\* submitted has been executed when the destructor returns, although its wait()
\* only looks at the queue and tasks keep submitting others meanwhile.
FlagCompletesOwnTasks ==
  owner = "gone" /\ flag => \A t \in fromOwner : st[t] = "done"

\* "if it is already a pooled_thread, we do not to avoid deadlock" (lines
\* 123-125): as long as the pool lives, no get() of a task that was submitted by
\* twoway_execute ever waits for the queue, whichever worker the task is on and
\* however deep in the get() calls of others it runs.
TwowayNeverBlocks ==
  keyAlive => \A w \in Workers : awaits[w] # NoTask => kind[Innermost(w)] = "execute"

\* "if it is already a pooled_thread, we do not to avoid deadlock" (lines
\* 123-125): a task that calls get() on a task it submitted is never stuck.
NestedGetReturns == \A w \in Workers : (awaits[w] # NoTask) ~> (awaits[w] = NoTask)

(***************************************************************************)
(* The deadlock that the code allows: each worker that is left is in a     *)
(* get() whose promise is not set.  A pool can come to this by tasks of    *)
(* execute, whose workers are not marked, and after pthread_key_delete by  *)
(* any task.                                                               *)
(***************************************************************************)
Blocked(w) == awaits[w] # NoTask /\ st[awaits[w]] \notin {"done", "dropped"}

Stuck ==
  /\ \E w \in Workers : Blocked(w)
  /\ \A w \in Workers : Blocked(w) \/ pc[w] = "exited"

\* Every task that was queued ends executed, or broken by the destruction, unless
\* all the workers that are left block at once: one worker that does not, and
\* every other get() is answered.
TasksSettle == \A t \in Tasks : (st[t] = "queued") ~> (st[t] \in Settled \/ Stuck)

\* The destructor returns (lines 60-65, 111-116), whatever the workers were doing
\* when it started and do meanwhile, unless all that are left block at once.
DestructorReturns == (owner \in {"draining", "joining"}) ~> (owner = "gone" \/ Stuck)
=============================================================================
