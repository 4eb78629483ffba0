------------------------- MODULE ParallelAlgorithms -------------------------
(***************************************************************************)
(* One call of an algorithm of hadoken::parallel with a parallel policy    *)
(* (parallel/bits).  __execute_grid gives one task per executor to the     *)
(* system pool and waits for each; a task works on one slice of the range. *)
(* A caller on a thread of the pool that a two-way task has marked gets    *)
(* deferred futures, which run when it waits for them.  Any other caller,  *)
(* a task of execute on an unmarked thread of the pool among them, has its *)
(* tasks queued (see ThreadPool).                                          *)
(*                                                                         *)
(* Elements are sequences and the operation of inclusive_scan appends them:*)
(* the sum of a range tells which elements were added, and in which order. *)
(* for_each applies its function by appending the number of the element.   *)
(*                                                                         *)
(* A function may throw.  The call throws when it comes to that task, and  *)
(* if the tasks are queued the later ones are not waited for: they go on,  *)
(* and refer to variables that are gone (c11_thread_algorithm_impl.hpp:88).*)
(* What they do to the variables of the call is then undefined; nothing is *)
(* claimed of the results of a call that threw.                            *)
(*                                                                         *)
(* Contract: hardware_concurrency() is not 0.                              *)
(***************************************************************************)
EXTENDS Ranges, FiniteSets, Functions

CONSTANTS
  NExec,       \* __get_number_executor()
  MaxElems,    \* bound: length of the range
  Algorithms   \* those that are called

Searches == {"all_of", "any_of", "none_of"}

ASSUME ParallelAssumption ==
  /\ NExec \in Nat \ {0}
  /\ MaxElems \in Nat
  /\ Algorithms \subseteq Searches \cup {"for_each", "count_if", "inclusive_scan"}

Ids == 0..NExec - 1

VARIABLES
  call,      \* the arguments of the call, see Calls
  caller,    \* what the caller does: "submit", "get", or it is "back"
  threw,     \* the call ended with an exception
  pass,      \* the number of the for_range
  turn,      \* the task that is submitted or waited for next
  task,      \* the tasks of the grid
  at,        \* where a task is in its slice
  acc,       \* what it has found, counted or summed up so far
  it,        \* limit_it: the next of limits_vec that a task adds
  memory,    \* the range; inclusive_scan puts its output over its input
  counter,   \* the atomic of count_if
  res,       \* the atomic of the searches
  limits,    \* limits_vec
  locked,    \* _limit_lock
  seen       \* limits_vec as the task in push_back has read it

params == call
grid == <<caller, threw, pass, turn>>
tasks == <<task, at, acc, it>>
results == <<memory, counter, res>>
lockvars == <<limits, locked, seen>>
vars == <<params, grid, tasks, results, lockvars>>

(***************************************************************************)
(* pred are the elements that satisfy the predicate, throwing those the    *)
(* function throws for; marked: the caller's thread has the key of the     *)
(* pool set (thread_pool_executor.hpp:126).                                *)
(***************************************************************************)
Calls ==
  {c \in [algorithm : Algorithms, n : 0..MaxElems, pred : SUBSET (1..MaxElems),
          throwing : SUBSET (1..MaxElems), marked : BOOLEAN] :
     c.pred \cup c.throwing \subseteq 1..c.n}

algorithm == call.algorithm
n == call.n

TaskStates == {"none", "queued", "deferred", "running", "pushing", "done", "failed"}
NoTasks == [id \in Ids |-> "none"]
Zero == [id \in Ids |-> 0]
Empty == [id \in Ids |-> <<>>]

\* inclusive_scan returns at once from an empty range.
EmptyScan == algorithm = "inclusive_scan" /\ n = 0

Init ==
  /\ call \in Calls
  /\ caller = IF EmptyScan THEN "back" ELSE "submit"
  /\ threw = FALSE
  /\ pass = 1
  /\ turn = 0
  /\ task = NoTasks
  /\ at = Zero
  /\ acc = Empty
  /\ it = Zero
  /\ memory = [p \in 1..n |-> <<p>>]
  /\ counter = 0
  /\ res = (algorithm # "any_of")
  /\ limits = <<>>
  /\ locked = FALSE
  /\ seen = Empty

Slice(id) == IF algorithm = "count_if" THEN CountSlice(n, id, NExec) ELSE TakeSplice(n, id, NExec)

NextTurn(phase) ==
  IF turn + 1 < NExec THEN turn' = turn + 1 /\ UNCHANGED caller
                      ELSE turn' = 0 /\ caller' = phase

Submit ==
  /\ caller = "submit"
  /\ task' = [task EXCEPT ![turn] = IF call.marked THEN "deferred" ELSE "queued"]
  /\ NextTurn("get")
  /\ UNCHANGED <<params, threw, pass, at, acc, it, results, lockvars>>

\* The second pass of inclusive_scan begins with the sum of the first slice,
\* and has nothing to do in that one.
InFirstSlice(id) == pass = 2 /\ Slice(id).first < limits[1].end

Start(id) ==
  /\ task[id] = "queued" \/ (task[id] = "deferred" /\ caller = "get" /\ turn = id)
  /\ task' = [task EXCEPT ![id] = IF InFirstSlice(id) THEN "done" ELSE "running"]
  /\ at' = [at EXCEPT ![id] = Slice(id).first]
  /\ acc' = [acc EXCEPT ![id] = IF pass = 1 THEN <<>> ELSE limits[1].sum]
  /\ it' = [it EXCEPT ![id] = 2]
  /\ UNCHANGED <<params, grid, results, lockvars>>

\* A task has elements of its slice left, p is the next of them.
AtElement(id, p) ==
  /\ task[id] = "running"
  /\ at[id] < Slice(id).last
  /\ p = at[id] + 1

AtEnd(id) == task[id] = "running" /\ at[id] = Slice(id).last

\* The limits of the second pass that lie before the element are added first.
LimitsLeft(id) ==
  pass = 2 /\ it[id] <= Len(limits) /\ at[id] >= limits[it[id]].end

Work(id, p) == AtElement(id, p) /\ ~LimitsLeft(id) /\ p \notin call.throwing

Throw(id, p) ==
  /\ AtElement(id, p)
  /\ ~LimitsLeft(id)
  /\ p \in call.throwing
  /\ task' = [task EXCEPT ![id] = "failed"]
  /\ UNCHANGED <<params, grid, at, acc, it, results, lockvars>>

\* for_each and those that call it or for_range in the same way.
ForEach(id, p) ==
  /\ algorithm = "for_each"
  /\ Work(id, p)
  /\ memory' = [memory EXCEPT ![p] = Append(@, p)]
  /\ at' = [at EXCEPT ![id] = p]
  /\ UNCHANGED <<params, grid, task, acc, it, counter, res, lockvars>>

Count(id, p) ==
  /\ algorithm = "count_if"
  /\ Work(id, p)
  /\ acc' = IF p \in call.pred THEN [acc EXCEPT ![id] = Append(@, p)] ELSE acc
  /\ at' = [at EXCEPT ![id] = p]
  /\ UNCHANGED <<params, grid, task, it, results, lockvars>>

\* The search of a slice stops at the first element that decides it.
Decides(p) == IF algorithm = "all_of" THEN p \notin call.pred ELSE p \in call.pred

Search(id, p) ==
  /\ algorithm \in Searches
  /\ Work(id, p)
  /\ IF Decides(p)
       THEN acc' = [acc EXCEPT ![id] = <<p>>] /\ at' = [at EXCEPT ![id] = Slice(id).last]
       ELSE UNCHANGED acc /\ at' = [at EXCEPT ![id] = p]
  /\ UNCHANGED <<params, grid, task, it, results, lockvars>>

\* std::partial_sum in the first pass; the second adds what lies before.
Sum(id, p) ==
  /\ algorithm = "inclusive_scan"
  /\ Work(id, p)
  /\ memory' = [memory EXCEPT ![p] = acc[id] \o @]
  /\ acc' = IF pass = 1 THEN [acc EXCEPT ![id] = acc[id] \o memory[p]] ELSE acc
  /\ at' = [at EXCEPT ![id] = p]
  /\ UNCHANGED <<params, grid, task, it, counter, res, lockvars>>

AddLimit(id, p) ==
  /\ AtElement(id, p)
  /\ LimitsLeft(id)
  /\ acc' = [acc EXCEPT ![id] = @ \o limits[it[id]].sum]
  /\ it' = [it EXCEPT ![id] = @ + 1]
  /\ UNCHANGED <<params, grid, task, at, results, lockvars>>

-----------------------------------------------------------------------------
\* The end of a task, with the atomic update of the result.
Finish(id) ==
  /\ AtEnd(id)
  /\ ~(algorithm = "inclusive_scan" /\ pass = 1)
  /\ task' = [task EXCEPT ![id] = "done"]
  /\ counter' = IF algorithm = "count_if" THEN counter + Len(acc[id]) ELSE counter
  /\ res' = IF algorithm \in Searches /\ acc[id] # <<>> THEN algorithm = "any_of" ELSE res
  /\ UNCHANGED <<params, grid, at, acc, it, memory, lockvars>>

\* A lock that lets everybody in.
NoLock(id) ==
  /\ AtEnd(id)
  /\ algorithm = "inclusive_scan" /\ pass = 1
  /\ locked' = TRUE
  /\ seen' = [seen EXCEPT ![id] = limits]
  /\ task' = [task EXCEPT ![id] = "pushing"]
  /\ UNCHANGED <<params, grid, at, acc, it, results, limits>>

\* spin_lock::lock succeeds, and push_back begins.
Lock(id) ==
  /\ AtEnd(id)
  /\ algorithm = "inclusive_scan" /\ pass = 1
  /\ ~locked
  /\ locked' = TRUE
  /\ seen' = [seen EXCEPT ![id] = limits]
  /\ task' = [task EXCEPT ![id] = "pushing"]
  /\ UNCHANGED <<params, grid, at, acc, it, results, limits>>

\* A spin_lock that is not released.
PushLocked(id) ==
  /\ task[id] = "pushing"
  /\ limits' = Append(seen[id], [end |-> Slice(id).last, sum |-> memory[Slice(id).last]])
  /\ task' = [task EXCEPT ![id] = "done"]
  /\ UNCHANGED <<params, grid, at, acc, it, results, seen, locked>>

\* The sum at the end of the slice.  An empty slice is at the end of the range,
\* and local_n_elems - 1 wraps to one step back: it reads the sum another task
\* is still writing, or has not written yet.
Push(id) ==
  /\ task[id] = "pushing"
  /\ \E sum \in {memory[Slice(id).last]} \cup (IF Slice(id).first = n THEN {<<>>} ELSE {}) :
       limits' = Append(seen[id], [end |-> Slice(id).last, sum |-> sum])
  /\ locked' = FALSE
  /\ task' = [task EXCEPT ![id] = "done"]
  /\ UNCHANGED <<params, grid, at, acc, it, results, seen>>

-----------------------------------------------------------------------------
\* wait() in place of get(): what a task has thrown is lost.
WaitOnly ==
  /\ caller = "get"
  /\ task[turn] \in {"done", "failed"}
  /\ turn + 1 < NExec
  /\ turn' = turn + 1
  /\ UNCHANGED <<params, caller, threw, pass, tasks, results, lockvars>>

Get ==
  /\ caller = "get"
  /\ task[turn] = "done"
  /\ turn + 1 < NExec
  /\ turn' = turn + 1
  /\ UNCHANGED <<params, caller, threw, pass, tasks, results, lockvars>>

\* std::sort with the order of the ends: any order of those that are equal.
SortedLimits ==
  {s \in {[i \in DOMAIN limits |-> limits[f[i]]] : f \in Bijection(DOMAIN limits, DOMAIN limits)} :
     \A i, j \in DOMAIN limits : i < j => s[i].end <= s[j].end}

\* The second pass on limits in the order the slices have finished.
SecondPassUnsorted ==
  /\ pass = 1 /\ algorithm = "inclusive_scan"
  /\ pass' = 2
  /\ caller' = "submit"
  /\ UNCHANGED limits
  /\ task' = NoTasks

SecondPass ==
  /\ pass = 1 /\ algorithm = "inclusive_scan"
  /\ pass' = 2
  /\ caller' = "submit"
  /\ limits' \in SortedLimits
  /\ task' = NoTasks

Leave ==
  /\ ~(pass = 1 /\ algorithm = "inclusive_scan")
  /\ caller' = "back"
  /\ UNCHANGED <<pass, limits, task>>

LastGet ==
  /\ caller = "get"
  /\ turn + 1 = NExec
  /\ task[turn] = "done"
  /\ SecondPass \/ Leave
  /\ turn' = 0
  /\ UNCHANGED <<params, threw, at, acc, it, results, locked, seen>>

\* get() throws: the futures and everything the tasks refer to are destroyed.
GetThrows ==
  /\ caller = "get"
  /\ task[turn] = "failed"
  /\ caller' = "back"
  /\ threw' = TRUE
  /\ UNCHANGED <<params, pass, turn, tasks, results, lockvars>>

Caller == Submit \/ Get \/ LastGet \/ GetThrows

Element(id, p) ==
  ForEach(id, p) \/ Count(id, p) \/ Search(id, p) \/ Sum(id, p) \/ AddLimit(id, p) \/ Throw(id, p)

Task(id) ==
  Start(id) \/ (\E p \in 1..n : Element(id, p)) \/ Finish(id) \/ Lock(id) \/ Push(id)

Next == Caller \/ \E id \in Ids : Task(id)

\* The caller and the workers of the pool are scheduled, and a worker takes up
\* what is queued: the pool has one that does not itself wait for a queued task,
\* which callers that block in tasks of execute can take from it (ThreadPool).
Fairness == WF_vars(Caller) /\ \A id \in Ids : WF_vars(Task(id))

Spec == Init /\ [][Next]_vars
FairSpec == Spec /\ Fairness
-----------------------------------------------------------------------------
Elements == 1..MaxElems

TypeOK ==
  /\ call \in Calls
  /\ caller \in {"submit", "get", "back"}
  /\ threw \in BOOLEAN
  /\ pass \in {1, 2}
  /\ turn \in Ids
  /\ task \in [Ids -> TaskStates]
  /\ at \in [Ids -> 0..n]
  /\ acc \in [Ids -> Seq(Elements)]
  /\ it \in [Ids -> Nat]
  /\ memory \in [1..n -> Seq(Elements)]
  /\ counter \in Nat
  /\ res \in BOOLEAN
  /\ limits \in Seq([end : 0..n, sum : Seq(Elements)])
  /\ locked \in BOOLEAN
  /\ seen \in [Ids -> Seq([end : 0..n, sum : Seq(Elements)])]

\* The parallel algorithms return what the sequential ones do (the other branch
\* of each), for any number of elements and executors and any scheduling.
SameAsSequential ==
  caller = "back" /\ ~threw =>
    /\ memory = [p \in 1..n |-> CASE algorithm = "for_each" -> <<p, p>>
                                  [] algorithm = "inclusive_scan" -> [i \in 1..p |-> i]
                                  [] OTHER -> <<p>>]
    /\ algorithm = "count_if" => counter = Cardinality(call.pred)
    /\ algorithm = "all_of" => res = (call.pred = 1..n)
    /\ algorithm = "any_of" => res = (call.pred # {})
    /\ algorithm = "none_of" => res = (call.pred = {})

\* The second pass never looks behind limits_vec (line 109 of
\* parallel_numeric_generic.hpp), although it compares before it checks the end.
LimitsSuffice ==
  \A id \in Ids :
    pass = 2 /\ task[id] = "running" /\ at[id] < Slice(id).last => it[id] <= Len(limits)

\* The variables of a call and of its slices, in both passes.
WellFormed == TypeOK /\ LimitsSuffice

\* A call that returns has waited for every task, and no function of them has
\* thrown; it throws only what one of them threw (c11_thread_algorithm_impl.hpp,
\* lines 83-89), in whichever order the tasks run and fail.
AllTasksReported ==
  caller = "back" =>
    IF threw THEN \E id \in Ids : task[id] = "failed"
    ELSE (\A id \in Ids : task[id] = "done") \/ EmptyScan

\* take_splice cuts a range like split_range, as test_container.cpp (265-270)
\* expects, whatever the number of parts.
SpliceIsSplit ==
  \A k \in 1..MaxElems + 1 : \A i \in 1..k : TakeSplice(n, i - 1, k) = SplitRange(n, k)[i]

\* A call ends, with or without an exception: nobody spins for ever, and no
\* get() waits for a task that does not run, as long as the pool takes up tasks.
CallReturns == caller # "back" ~> caller = "back"
=============================================================================
