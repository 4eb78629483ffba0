---------------------- MODULE ParallelAlgorithmsProofs ----------------------
(***************************************************************************)
(* The slices of a grid tile the range, a call returns after all its tasks *)
(* and hides no exception of theirs, inclusive_scan finds the limits it    *)
(* looks for, and a call returns what the sequential algorithm does.       *)
(***************************************************************************)
EXTENDS ParallelAlgorithms, FiniteSetTheorems, SequenceTheorems, TLAPS

LEMMA Division ==
  ASSUME NEW m \in Nat, NEW k \in Nat \ {0}
  PROVE  /\ m \div k \in Nat
         /\ m % k \in Nat /\ m % k < k
         /\ m = k * (m \div k) + (m % k)
  OBVIOUS

\* The slices of take_splice follow on one another, from the beginning to the
\* end of the range, for any number of elements and slices.
THEOREM SplicesTile ==
  ASSUME NEW m \in Nat, NEW k \in Nat \ {0}
  PROVE  /\ TakeSplice(m, 0, k).first = 0
         /\ TakeSplice(m, k - 1, k).last = m
         /\ \A id \in 0..k - 2 : TakeSplice(m, id, k).last = TakeSplice(m, id + 1, k).first
         /\ \A id \in 0..k - 1 : TakeSplice(m, id, k).first <= TakeSplice(m, id, k).last
<1> DEFINE q == m \div k
           r == m % k
<1>1. q \in Nat /\ r \in Nat /\ r < k /\ m = k * q + r
  BY Division
<1> HIDE DEF q, r
<1>2. \A id \in Nat : /\ TakeSplice(m, id, k).first = q * id + Least(r, id)
                      /\ TakeSplice(m, id, k).last
                           = q * id + Least(r, id) + q + (IF id < r THEN 1 ELSE 0)
  BY DEF TakeSplice, Span, q, r
<1>3. \A id \in Nat : q * id + q = q * (id + 1) /\ q * id \in Nat
  BY <1>1
<1>4. \A id \in Nat : Least(r, id) + (IF id < r THEN 1 ELSE 0) = Least(r, id + 1) /\ Least(r, id) \in Nat
  BY <1>1 DEF Least
<1>5. ASSUME NEW id \in Nat
      PROVE  /\ TakeSplice(m, id, k).last = q * (id + 1) + Least(r, id + 1)
             /\ TakeSplice(m, id, k).first <= TakeSplice(m, id, k).last
  <2> DEFINE a == q * id
             b == q * (id + 1)
             c == Least(r, id)
             d == IF id < r THEN 1 ELSE 0
  <2>1. a + q = b /\ a \in Nat /\ b \in Nat /\ c \in Nat /\ d \in Nat /\ c + d = Least(r, id + 1)
    BY <1>1, <1>3, <1>4
  <2>2. TakeSplice(m, id, k).first = a + c /\ TakeSplice(m, id, k).last = a + c + q + d
    BY <1>2
  <2> HIDE DEF a, b, c, d
  <2>3. a + c + q + d = b + (c + d) /\ a + c <= a + c + q + d
    BY <1>1, <2>1
  <2> QED
    BY <2>1, <2>2, <2>3 DEF b
<1>6. TakeSplice(m, 0, k).first = 0
  BY <1>1, <1>2 DEF Least
<1>7. TakeSplice(m, k - 1, k).last = m
  <2>1. k - 1 \in Nat /\ (k - 1) + 1 = k /\ Least(r, k) = r /\ q * k = k * q
    BY <1>1 DEF Least
  <2> QED
    BY <1>1, <1>5, <2>1
<1>8. \A id \in 0..k - 2 : TakeSplice(m, id, k).last = TakeSplice(m, id + 1, k).first
  BY <1>2, <1>5
<1>9. \A id \in 0..k - 1 : TakeSplice(m, id, k).first <= TakeSplice(m, id, k).last
  BY <1>5
<1> QED
  BY <1>6, <1>7, <1>8, <1>9

-----------------------------------------------------------------------------
\* While the tasks are submitted the later ones do not exist, while they are
\* waited for the earlier ones are done, and at the end all are.
InTurn ==
  /\ caller = "submit" => \A id \in Ids : task[id] = "none" <=> id >= turn
  /\ caller = "get" => \A id \in Ids : /\ task[id] # "none"
                                       /\ id < turn => task[id] = "done"
  /\ caller = "back" /\ ~threw => \/ \A id \in Ids : task[id] = "done"
                                  \/ EmptyScan /\ \A id \in Ids : task[id] = "none"

Shape ==
  /\ caller \in {"submit", "get", "back"}
  /\ threw \in BOOLEAN
  /\ threw => caller = "back" /\ \E id \in Ids : task[id] = "failed"
  /\ turn \in Ids
  /\ task \in [Ids -> TaskStates]

IInv == Shape /\ InTurn

LEMMA InitInv == Init => IInv
<1> SUFFICES ASSUME Init PROVE IInv
  OBVIOUS
<1>1. 0 \in Ids
  BY ParallelAssumption DEF Ids
<1>3. /\ task = NoTasks /\ threw = FALSE /\ turn = 0 /\ caller \in {"submit", "back"}
      /\ caller = "back" => EmptyScan
  BY DEF Init
<1>4. \A id \in Ids : task[id] = "none"
  BY <1>3 DEF NoTasks
<1>5. task \in [Ids -> TaskStates]
  BY <1>3 DEF NoTasks, TaskStates
<1>6. Shape
  BY <1>1, <1>3, <1>5 DEF Shape
<1>7. \A id \in Ids : id >= 0
  BY ParallelAssumption DEF Ids
<1> QED
  BY <1>3, <1>4, <1>6, <1>7 DEF IInv, InTurn

\* A step of a task that is running, into a state that is not "failed".
LEMMA RunningGoesOn ==
  ASSUME IInv, NEW id \in Ids, NEW s \in {"running", "pushing", "done"},
         task[id] \in {"running", "pushing"},
         task' = [task EXCEPT ![id] = s], UNCHANGED <<params, grid>>
  PROVE  IInv'
<1>1. \A j \in Ids : task'[j] = IF j = id THEN s ELSE task[j]
  BY DEF IInv, Shape
<1>2. \A j \in Ids : task[j] = "failed" => task'[j] = "failed"
  BY <1>1
<1>3. Shape'
  BY <1>2 DEF IInv, Shape, params, grid, TaskStates
<1>4. InTurn'
  <2>1. UNCHANGED <<caller, threw, turn>>
    BY DEF grid
  <2>2. task[id] \notin {"none", "done"}
    OBVIOUS
  <2>3. \A j \in Ids : /\ task[j] \in {"none", "done"} => task'[j] = task[j]
                       /\ task[j] # "none" => task'[j] # "none"
    BY <1>1, <2>2
  <2>4. ~(caller = "back" /\ ~threw)
    BY <2>2 DEF IInv, InTurn
  <2> QED
    BY <2>1, <2>3, <2>4 DEF IInv, InTurn
<1> QED
  BY <1>3, <1>4 DEF IInv

LEMMA CallerInv == ASSUME IInv, Caller PROVE IInv'
<1>0. Ids = 0..NExec - 1 /\ NExec \in Nat \ {0}
  BY ParallelAssumption DEF Ids
<1>1. CASE Submit
  <2>1. /\ caller = "submit" /\ UNCHANGED <<call, threw>> /\ threw = FALSE
        /\ task' \in [Ids -> TaskStates]
        /\ \A id \in Ids : task'[id] = IF id = turn THEN task'[turn] ELSE task[id]
        /\ task'[turn] \in {"queued", "deferred"}
    BY <1>1 DEF IInv, Shape, Submit, params, TaskStates
  <2>2. \/ turn + 1 < NExec /\ turn' = turn + 1 /\ caller' = "submit"
        \/ turn + 1 >= NExec /\ turn' = 0 /\ caller' = "get"
    BY <1>0, <1>1, <2>1 DEF IInv, Shape, Submit, NextTurn
  <2>3. turn \in Ids /\ turn' \in Ids
    BY <1>0, <2>2 DEF IInv, Shape
  <2>4. Shape'
    BY <2>1, <2>2, <2>3 DEF IInv, Shape
  <2>5. InTurn'
    <3>1. CASE turn + 1 < NExec
      <4>1. caller' = "submit" /\ turn' = turn + 1
        BY <1>0, <2>2, <2>3, <3>1
      <4>2. \A id \in Ids : task'[id] = "none" <=> id >= turn'
        BY <1>0, <2>1, <2>3, <4>1 DEF IInv, InTurn
      <4> QED
        BY <4>1, <4>2 DEF InTurn
    <3>2. CASE turn + 1 >= NExec
      <4>1. caller' = "get" /\ turn' = 0
        BY <1>0, <2>2, <2>3, <3>2
      <4>2. \A id \in Ids : task'[id] # "none" /\ ~(id < turn')
        BY <1>0, <2>1, <2>3, <3>2, <4>1 DEF IInv, InTurn
      <4> QED
        BY <4>1, <4>2 DEF InTurn
    <3> QED
      BY <1>0, <2>3, <3>1, <3>2
  <2> QED
    BY <2>4, <2>5 DEF IInv
<1>2. CASE Get
  <2>1. /\ caller = "get" /\ caller' = "get" /\ UNCHANGED <<call, threw, task>>
        /\ task[turn] = "done" /\ turn' = turn + 1 /\ turn + 1 < NExec
    BY <1>2 DEF Get, params, tasks
  <2>2. Shape'
    BY <1>0, <2>1 DEF IInv, Shape
  <2>3. InTurn'
    BY <1>0, <2>1 DEF IInv, Shape, InTurn
  <2> QED
    BY <2>2, <2>3 DEF IInv
<1>3. CASE LastGet
  <2>1. /\ caller = "get" /\ UNCHANGED <<call, threw>> /\ turn' = 0 /\ 0 \in Ids
        /\ turn + 1 = NExec /\ task[turn] = "done"
        /\ (caller' = "submit" /\ task' = NoTasks) \/ (caller' = "back" /\ task' = task)
    BY <1>0, <1>3 DEF LastGet, SecondPass, Leave, params
  <2>2. \A id \in Ids : task[id] = "done"
    BY <1>0, <2>1 DEF IInv, Shape, InTurn
  <2>3. \A id \in Ids : task'[id] = IF caller' = "submit" THEN "none" ELSE "done"
    BY <2>1, <2>2 DEF NoTasks
  <2>4. threw = FALSE
    BY <2>1 DEF IInv, Shape
  <2>5. Shape'
    <3>1. task' \in [Ids -> TaskStates]
      BY <2>1 DEF IInv, Shape, NoTasks, TaskStates
    <3> QED
      BY <2>1, <2>4, <3>1 DEF IInv, Shape
  <2>6. InTurn'
    <3>1. \A id \in Ids : id >= 0
      BY <1>0
    <3> QED
      BY <2>1, <2>3, <3>1 DEF InTurn
  <2> QED
    BY <2>5, <2>6 DEF IInv
<1>4. CASE GetThrows
  <2>1. /\ caller = "get" /\ caller' = "back" /\ threw' = TRUE /\ UNCHANGED <<call, turn, task>>
        /\ task[turn] = "failed" /\ turn \in Ids
    BY <1>4 DEF GetThrows, params, tasks, IInv, Shape
  <2>2. Shape'
    BY <2>1 DEF IInv, Shape
  <2>3. InTurn'
    BY <2>1 DEF InTurn
  <2> QED
    BY <2>2, <2>3 DEF IInv
<1> QED
  BY <1>1, <1>2, <1>3, <1>4 DEF Caller

LEMMA StartInv == ASSUME IInv, NEW id \in Ids, Start(id) PROVE IInv'
<1>1. /\ UNCHANGED <<call, caller, threw, turn>>
      /\ task[id] = "queued" \/ (task[id] = "deferred" /\ caller = "get" /\ turn = id)
      /\ task' = [task EXCEPT ![id] = task'[id]]
      /\ task'[id] \in {"running", "done"}
  BY DEF Start, params, grid, IInv, Shape
<1>2. \A j \in Ids : task'[j] = IF j = id THEN task'[id] ELSE task[j]
  BY <1>1 DEF IInv, Shape
<1>3. Shape'
  <2>1. \A j \in Ids : task[j] = "failed" => task'[j] = "failed"
    BY <1>1, <1>2
  <2> QED
    BY <1>1, <2>1 DEF IInv, Shape, TaskStates
<1>4. InTurn'
  BY <1>1, <1>2 DEF IInv, InTurn
<1> QED
  BY <1>3, <1>4 DEF IInv

LEMMA ThrowInv == ASSUME IInv, NEW id \in Ids, NEW p \in 1..n, Throw(id, p) PROVE IInv'
<1>1. /\ UNCHANGED <<call, caller, threw, turn>>
      /\ task[id] = "running" /\ task' = [task EXCEPT ![id] = "failed"]
  BY DEF Throw, AtElement, params, grid
<1>2. \A j \in Ids : task'[j] = IF j = id THEN "failed" ELSE task[j]
  BY <1>1 DEF IInv, Shape
<1>3. Shape'
  <2>1. \A j \in Ids : task[j] = "failed" => task'[j] = "failed"
    BY <1>2
  <2> QED
    BY <1>1, <2>1 DEF IInv, Shape, TaskStates
<1>4. InTurn'
  BY <1>1, <1>2 DEF IInv, InTurn
<1> QED
  BY <1>3, <1>4 DEF IInv

\* A step that leaves the tasks in their states.
LEMMA SameStates == ASSUME IInv, UNCHANGED <<params, grid, task>> PROVE IInv'
  BY DEF IInv, Shape, InTurn, EmptyScan, n, algorithm, params, grid

LEMMA TaskInv == ASSUME IInv, NEW id \in Ids, Task(id) PROVE IInv'
<1>1. CASE Start(id)
  BY <1>1, StartInv
<1>2. ASSUME NEW p \in 1..n, Element(id, p) PROVE IInv'
  <2>1. CASE Throw(id, p)
    BY <2>1, ThrowInv
  <2>2. CASE ForEach(id, p)
    BY <2>2, SameStates DEF ForEach
  <2>3. CASE Count(id, p)
    BY <2>3, SameStates DEF Count
  <2>4. CASE Search(id, p)
    BY <2>4, SameStates DEF Search
  <2>5. CASE Sum(id, p)
    BY <2>5, SameStates DEF Sum
  <2>6. CASE AddLimit(id, p)
    BY <2>6, SameStates DEF AddLimit
  <2> QED
    BY <1>2, <2>1, <2>2, <2>3, <2>4, <2>5, <2>6 DEF Element
<1>3. CASE Finish(id)
  BY <1>3, RunningGoesOn DEF Finish, AtEnd
<1>4. CASE Lock(id)
  BY <1>4, RunningGoesOn DEF Lock, AtEnd
<1>5. CASE Push(id)
  BY <1>5, RunningGoesOn DEF Push
<1> QED
  BY <1>1, <1>2, <1>3, <1>4, <1>5 DEF Task

LEMMA NextInv == IInv /\ [Next]_vars => IInv'
<1> SUFFICES ASSUME IInv, [Next]_vars PROVE IInv'
  OBVIOUS
<1>1. CASE UNCHANGED vars
  BY <1>1, SameStates DEF vars, tasks
<1>2. CASE Next
  BY <1>2, CallerInv, TaskInv DEF Next
<1> QED
  BY <1>1, <1>2

\* A call returns only after all its tasks, and throws only what one of them threw,
\* for any number of executors and elements, any algorithm and any schedule.
THEOREM ReturnsAfterItsTasks == Spec => []AllTasksReported
<1>1. IInv => AllTasksReported
  BY DEF IInv, Shape, InTurn, AllTasksReported
<1> QED
  BY <1>1, InitInv, NextInv, PTL DEF Spec

-----------------------------------------------------------------------------
(* The slices of a call cover the range, in order and without a gap. *)

\* A set of numbers has a least one: the induction of this module.
LEMMA LeastElement ==
  ASSUME NEW T, T \subseteq Nat, T # {}
  PROVE  \E x \in T : \A y \in T : x <= y
<1>1. IsWellFoundedOn(OpToRel(<, Nat), Nat)
  BY NatLessThanWellFounded
<1>2. PICK x \in T : \A y \in T : ~(<<y, x>> \in OpToRel(<, Nat))
  BY <1>1, WFMin
<1>3. \A y \in T : ~(y < x)
  BY <1>2, Zenon DEF OpToRel
<1> QED
  BY <1>3

\* Where a slice of take_splice begins, and that it is empty only at the end.
LEMMA SpliceEnds ==
  ASSUME NEW m \in Nat, NEW k \in Nat \ {0}, NEW id \in 0..k - 1
  PROVE  /\ TakeSplice(m, id, k) = Span((m \div k) * id + Least(m % k, id),
                                        (m \div k) * (id + 1) + Least(m % k, id + 1))
         /\ TakeSplice(m, id, k).last < m => TakeSplice(m, id, k).first < TakeSplice(m, id, k).last
<1> DEFINE q == m \div k
           r == m % k
           a == q * id
           d == IF id < r THEN 1 ELSE 0
<1>1. q \in Nat /\ r \in Nat /\ r < k /\ m = k * q + r
  BY Division
<1>2. TakeSplice(m, id, k) = Span(a + Least(r, id), a + Least(r, id) + q + d)
  BY DEF TakeSplice
<1> HIDE DEF q, r
<1>3. /\ a \in Nat /\ q * (id + 1) = a + q
      /\ Least(r, id) \in Nat /\ Least(r, id) + d = Least(r, id + 1)
  BY <1>1 DEF Least
<1> HIDE DEF a
<1>4. TakeSplice(m, id, k) = Span(a + Least(r, id), q * (id + 1) + Least(r, id + 1))
  BY <1>1, <1>2, <1>3
<1>5. TakeSplice(m, id, k).last < m => TakeSplice(m, id, k).first < TakeSplice(m, id, k).last
  <2>1. TakeSplice(m, id, k).first = a + Least(r, id) /\ TakeSplice(m, id, k).last = a + Least(r, id) + q + d
    BY <1>2 DEF Span
  <2>2. CASE q + d > 0
    BY <1>1, <1>3, <2>1, <2>2
  <2>3. CASE q + d = 0
    <3>1. q = 0 /\ id >= r /\ a = 0
      BY <1>1, <2>3 DEF a
    <3>2. m = r /\ Least(r, id) = r
      BY <1>1, <3>1 DEF Least
    <3> QED
      BY <1>1, <2>1, <2>3, <3>1, <3>2
  <2> QED
    BY <1>1, <2>2, <2>3
<1> QED
  BY <1>4, <1>5 DEF a, q, r

first(id) == Slice(id).first
last(id) == Slice(id).last

\* What the slices of a call have in common, whichever function makes them.
Tiled ==
  /\ n \in Nat /\ NExec \in Nat \ {0}
  /\ \A id \in Ids : first(id) \in Nat /\ last(id) \in Nat /\ first(id) <= last(id)
  /\ first(0) = 0 /\ last(NExec - 1) = n
  /\ \A id \in 0..NExec - 2 : last(id) = first(id + 1)
  /\ algorithm # "count_if" => \A id \in Ids : last(id) < n => first(id) < last(id)

LEMMA SlicesTile == ASSUME n \in Nat PROVE Tiled
<1>1. NExec \in Nat \ {0} /\ Ids = 0..NExec - 1
  BY ParallelAssumption DEF Ids
<1>2. CASE algorithm # "count_if"
  <2>1. \A id : first(id) = TakeSplice(n, id, NExec).first /\ last(id) = TakeSplice(n, id, NExec).last
    BY <1>2 DEF first, last, Slice
  <2>2. \A id \in Ids : first(id) \in Nat /\ last(id) \in Nat
    <3> SUFFICES ASSUME NEW id \in Ids PROVE first(id) \in Nat /\ last(id) \in Nat
      OBVIOUS
    <3>1. n \div NExec \in Nat /\ n % NExec \in Nat
      BY <1>1, Division
    <3>2. /\ (n \div NExec) * id \in Nat /\ (n \div NExec) * (id + 1) \in Nat
          /\ Least(n % NExec, id) \in Nat /\ Least(n % NExec, id + 1) \in Nat
      BY <1>1, <3>1 DEF Least
    <3>3. TakeSplice(n, id, NExec) = Span((n \div NExec) * id + Least(n % NExec, id),
                                          (n \div NExec) * (id + 1) + Least(n % NExec, id + 1))
      BY <1>1, SpliceEnds
    <3>4. \A a, b : Span(a, b).first = a /\ Span(a, b).last = b
      BY DEF Span
    <3> QED
      BY <2>1, <3>2, <3>3, <3>4
  <2>3. \A id \in Ids : last(id) < n => first(id) < last(id)
    BY <1>1, <2>1, SpliceEnds
  <2> QED
    BY <1>1, <2>1, <2>2, <2>3, SplicesTile DEF Tiled
<1>3. CASE algorithm = "count_if"
  <2> DEFINE q == n \div NExec
  <2>1. q \in Nat /\ NExec * q <= n
    BY <1>1, Division
  <2> HIDE DEF q
  <2>2. \A id \in Ids : first(id) = id * q /\ last(id) = IF id + 1 = NExec THEN n ELSE id * q + q
    BY <1>3 DEF first, last, Slice, CountSlice, Span, q
  <2>3. \A id \in Ids : id * q \in Nat /\ (id + 1) * q = id * q + q
    BY <1>1, <2>1
  <2>4. (NExec - 1) * q + q = NExec * q /\ (NExec - 1) * q \in Nat
    BY <1>1, <2>1
  <2>5. \A id \in Ids : first(id) \in Nat /\ last(id) \in Nat /\ first(id) <= last(id)
    BY <1>1, <2>1, <2>2, <2>3, <2>4
  <2>6. first(0) = 0 /\ last(NExec - 1) = n
    BY <1>1, <2>1, <2>2
  <2>7. \A id \in 0..NExec - 2 : last(id) = first(id + 1)
    BY <1>1, <2>2, <2>3
  <2> QED
    BY <1>1, <1>3, <2>5, <2>6, <2>7 DEF Tiled
<1> QED
  BY <1>2, <1>3

\* The slices are disjoint and in order, and they cover the range.
LEMMA SlicesInOrder ==
  ASSUME Tiled, NEW i \in Ids, NEW j \in Ids, i < j
  PROVE  last(i) <= first(j)
<1> DEFINE Before == {k \in i + 1..NExec - 1 : ~(last(i) <= first(k))}
<1> SUFFICES ASSUME Before # {} PROVE FALSE
  BY DEF Ids, Tiled
<1>1. i \in Nat /\ NExec \in Nat \ {0} /\ i \in 0..NExec - 1 /\ Before \subseteq Nat
  BY DEF Ids, Tiled
<1>2. PICK k \in Before : \A l \in Before : k <= l
  BY <1>1, LeastElement
<1>3. CASE k = i + 1
  BY <1>1, <1>3 DEF Tiled, Ids
<1>4. CASE k > i + 1
  <2>1. k - 1 \in i + 1..NExec - 1 /\ k - 1 \notin Before
    BY <1>1, <1>2, <1>4
  <2>2. last(i) <= first(k - 1) /\ k - 1 \in Ids /\ k - 1 \in 0..NExec - 2 /\ k \in Ids /\ (k - 1) + 1 = k
    BY <1>1, <2>1 DEF Ids
  <2>3. last(i) <= first(k)
    <3>1. first(k - 1) <= last(k - 1) /\ last(k - 1) = first(k)
      BY <2>2 DEF Tiled
    <3>2. last(i) \in Nat /\ first(k - 1) \in Nat /\ first(k) \in Nat
      BY <2>2 DEF Tiled
    <3> QED
      BY <2>2, <3>1, <3>2
  <2> QED
    BY <2>3
<1> QED
  BY <1>1, <1>3, <1>4

LEMMA Covered ==
  ASSUME Tiled, NEW p \in 1..n
  PROVE  \E id \in Ids : first(id) < p /\ p <= last(id)
<1> DEFINE Behind == {id \in Ids : p <= last(id)}
<1>1. n \in Nat /\ NExec \in Nat \ {0} /\ NExec - 1 \in Ids /\ p \in Nat \ {0} /\ p <= n
  BY DEF Tiled, Ids
<1>2. Behind \subseteq Nat /\ NExec - 1 \in Behind
  BY <1>1 DEF Tiled, Ids
<1>3. PICK id \in Behind : \A j \in Behind : id <= j
  BY <1>2, LeastElement
<1>4. CASE id = 0
  BY <1>1, <1>4 DEF Tiled
<1>5. CASE id # 0
  <2>1. id - 1 \in 0..NExec - 2 /\ id - 1 \in Ids /\ (id - 1) + 1 = id /\ id - 1 \notin Behind
    BY <1>1, <1>3, <1>5 DEF Ids
  <2>2. last(id - 1) < p /\ last(id - 1) = first(id)
    BY <1>1, <2>1 DEF Tiled
  <2> QED
    BY <1>3, <2>2
<1> QED
  BY <1>4, <1>5

LEMMA OneSlice ==
  ASSUME Tiled, NEW p \in Nat, NEW i \in Ids, NEW j \in Ids,
         first(i) < p, p <= last(i), first(j) < p, p <= last(j)
  PROVE  i = j
<1>1. i \in Nat /\ j \in Nat /\ first(i) \in Nat /\ last(i) \in Nat /\ first(j) \in Nat /\ last(j) \in Nat
  BY DEF Tiled, Ids
<1>2. CASE i < j
  BY <1>1, <1>2, SlicesInOrder
<1>3. CASE j < i
  BY <1>1, <1>3, SlicesInOrder
<1> QED
  BY <1>1, <1>2, <1>3

LEMMA Within == ASSUME Tiled, NEW id \in Ids PROVE first(id) \in 0..n /\ last(id) \in 0..n
<1>1. first(id) \in Nat /\ last(id) \in Nat /\ first(id) <= last(id) /\ n \in Nat /\ id \in Nat
  BY DEF Tiled, Ids
<1>2. NExec - 1 \in Ids /\ last(NExec - 1) = n /\ id <= NExec - 1 /\ first(NExec - 1) \in Nat
        /\ first(NExec - 1) <= last(NExec - 1) /\ NExec \in Nat
  BY DEF Tiled, Ids
<1>3. CASE id = NExec - 1
  BY <1>1, <1>2, <1>3
<1>4. CASE id < NExec - 1
  BY <1>1, <1>2, <1>4, SlicesInOrder
<1> QED
  BY <1>1, <1>2, <1>3, <1>4

-----------------------------------------------------------------------------
(* split_range cuts as take_splice does. *)

\* The rounds of split_range end where the slices of take_splice do.
LEMMA SplitEnds ==
  ASSUME NEW m \in Nat, NEW k \in Nat \ {0}
  PROVE  \A i \in 1..k : SplitRange(m, k)[i] = TakeSplice(m, i - 1, k)
<1> DEFINE q == m \div k
           r == m % k
           round(f, i) == IF i = 0 THEN 0
                          ELSE LET segment_size == q + (IF r > i - 1 THEN 1 ELSE 0)
                               IN  f[i - 1] + Least(Largest(segment_size, 1), m - f[i - 1])
           ends == CHOOSE f : f = [i \in 0..k |-> round(f, i)]
           goal == [i \in 0..k |-> q * i + Least(r, i)]
<1>1. SplitRange(m, k) = [i \in 1..k |-> Span(ends[i - 1], ends[i])]
  BY DEF SplitRange
<1>2. q \in Nat /\ r \in Nat /\ r < k /\ m = k * q + r
  BY Division
<1> HIDE DEF q, r
<1>3. \A i \in 0..k : q * i \in Nat /\ (i # 0 => q * i = q * (i - 1) + q) /\ q * i + q * (k - i) = k * q /\ q * (k - i) \in Nat
  BY <1>2
<1>4. \A i \in 0..k : goal[i] \in Nat /\ goal[i] <= m /\ (q = 0 /\ r <= i => goal[i] = m)
  <2> SUFFICES ASSUME NEW i \in 0..k
               PROVE  goal[i] \in Nat /\ goal[i] <= m /\ (q = 0 /\ r <= i => goal[i] = m)
    OBVIOUS
  <2>1. Least(r, i) \in Nat /\ Least(r, i) <= r /\ (r <= i => Least(r, i) = r)
    BY <1>2 DEF Least
  <2>2. q * i \in Nat /\ q * i <= k * q /\ k * q \in Nat /\ (q = 0 => q * i = 0 /\ k * q = 0)
    BY <1>2, <1>3
  <2> QED
    BY <1>2, <2>1, <2>2
<1>5. goal = [i \in 0..k |-> round(goal, i)]
  <2> SUFFICES ASSUME NEW i \in 0..k PROVE goal[i] = round(goal, i)
    OBVIOUS
  <2>1. CASE i = 0
    BY <1>2, <2>1 DEF Least
  <2>2. CASE i # 0
    <3> DEFINE segment_size == q + (IF r > i - 1 THEN 1 ELSE 0)
    <3>1. i - 1 \in 0..k /\ i \in Nat
      BY <2>2
    <3>2. goal[i] = goal[i - 1] + segment_size
      <4>1. Least(r, i) = Least(r, i - 1) + (IF r > i - 1 THEN 1 ELSE 0) /\ Least(r, i - 1) \in Nat
        BY <1>2, <3>1 DEF Least
      <4>2. q * i = q * (i - 1) + q /\ q * (i - 1) \in Nat
        BY <1>3, <2>2, <3>1
      <4> QED
        BY <1>2, <3>1, <4>1, <4>2
    <3>3. Least(Largest(segment_size, 1), m - goal[i - 1]) = segment_size
      <4>1. segment_size \in Nat /\ goal[i] <= m /\ goal[i - 1] \in Nat /\ goal[i] \in Nat
        BY <1>2, <1>4, <3>1
      <4>2. CASE segment_size = 0
        <5>1. goal[i - 1] = m
          BY <1>2, <1>4, <3>1, <4>2
        <5> HIDE DEF goal, segment_size
        <5> QED
          BY <4>2, <5>1 DEF Least, Largest
      <4>3. CASE segment_size # 0
        <5> HIDE DEF goal, segment_size
        <5> QED
          BY <3>2, <4>1, <4>3 DEF Least, Largest
      <4> QED
        BY <4>2, <4>3
    <3> HIDE DEF goal
    <3> QED
      BY <2>2, <3>2, <3>3
  <2> QED
    BY <2>1, <2>2
<1>6. ends = [i \in 0..k |-> round(ends, i)]
  <2> HIDE DEF goal, round
  <2> QED
    BY <1>5
<1> HIDE DEF ends
<1>7. \A i \in 0..k : ends[i] = goal[i]
  <2> HIDE DEF goal
  <2> DEFINE Wrong == {i \in 0..k : ends[i] # goal[i]}
  <2> SUFFICES ASSUME Wrong # {} PROVE FALSE
    BY Zenon
  <2>1. PICK i \in Wrong : \A j \in Wrong : i <= j
    <3>1. Wrong \subseteq Nat
      OBVIOUS
    <3> HIDE DEF Wrong
    <3> QED
      BY <3>1, LeastElement
  <2>2. ends[i] = round(ends, i) /\ goal[i] = round(goal, i) /\ i \in 0..k
    <3> HIDE DEF round
    <3> QED
      BY <1>5, <1>6
  <2>3. CASE i = 0
    BY <2>2, <2>3
  <2>4. CASE i # 0
    <3>1. i - 1 \in 0..k /\ ~(i <= i - 1)
      BY <2>4
    <3>2. ends[i - 1] = goal[i - 1]
      BY <2>1, <3>1
    <3> QED
      BY <2>2, <3>2
  <2> QED
    BY <2>3, <2>4
<1> QED
  <2> SUFFICES ASSUME NEW i \in 1..k PROVE SplitRange(m, k)[i] = TakeSplice(m, i - 1, k)
    OBVIOUS
  <2>1. i - 1 \in 0..k /\ i \in 0..k /\ i - 1 \in 0..k - 1 /\ (i - 1) + 1 = i
    OBVIOUS
  <2>2. SplitRange(m, k)[i] = Span(goal[i - 1], goal[i])
    <3> HIDE DEF goal
    <3> QED
      BY <1>1, <1>7, <2>1
  <2>3. SplitRange(m, k)[i] = Span(q * (i - 1) + Least(r, i - 1), q * i + Least(r, i))
    BY <2>1, <2>2
  <2> QED
    BY <2>1, <2>3, SpliceEnds DEF q, r

LEMMA SizeIsNatural == call \in Calls => n \in Nat /\ n <= MaxElems /\ Tiled
<1> SUFFICES ASSUME call \in Calls PROVE n \in Nat /\ n <= MaxElems /\ Tiled
  OBVIOUS
<1>1. n \in 0..MaxElems /\ MaxElems \in Nat
  BY ParallelAssumption DEF Calls, n
<1> QED
  BY <1>1, SlicesTile

KnownCall == call \in Calls

\* take_splice cuts every range like split_range, into any number of parts.
THEOREM SplicesSplit == Spec => []SpliceIsSplit
<1>1. Init => KnownCall
  BY DEF Init, KnownCall
<1>2. KnownCall /\ [Next]_vars => KnownCall'
  <2> SUFFICES ASSUME [Next]_vars PROVE call' = call
    BY DEF KnownCall
  <2> QED
    BY DEF Next, Caller, Submit, Get, LastGet, GetThrows, Task, Start, Element, ForEach, Count, Search,
       Sum, AddLimit, Throw, Finish, Lock, Push, params, vars
<1>3. KnownCall => SpliceIsSplit
  <2> SUFFICES ASSUME KnownCall, NEW k \in 1..MaxElems + 1, NEW i \in 1..k
               PROVE  TakeSplice(n, i - 1, k) = SplitRange(n, k)[i]
    BY DEF SpliceIsSplit
  <2>1. n \in Nat /\ k \in Nat \ {0}
    BY SizeIsNatural DEF KnownCall
  <2> QED
    BY <2>1, SplitEnds
<1> QED
  BY <1>1, <1>2, <1>3, PTL DEF Spec
-----------------------------------------------------------------------------
(* limits_vec: one task at a time adds to it, and it is complete in the end. *)

Scanning == algorithm = "inclusive_scan"

\* Only one task is in push_back, and nobody changes limits_vec meanwhile.
Exclusive ==
  /\ \A id \in Ids : task[id] = "pushing" => locked /\ seen[id] = limits /\ Scanning /\ pass = 1
  /\ \A i, j \in Ids : task[i] = "pushing" /\ task[j] = "pushing" => i = j

\* No limit is lost, and the second pass has them in order.
Reported ==
  /\ pass = 2 => Scanning
  /\ Scanning /\ n = 0 => caller = "back" /\ \A id \in Ids : task[id] = "none"
  /\ Scanning => \A id \in Ids : pass = 2 \/ task[id] = "done" =>
                   \E j \in DOMAIN limits : limits[j].end = last(id)
  /\ pass = 2 => \A i, j \in DOMAIN limits : i < j => limits[i].end <= limits[j].end

\* A task is in its slice, and in the second pass behind the limits it has added.
Placed ==
  \A id \in Ids :
    /\ task[id] \in {"running", "pushing"} => first(id) <= at[id] /\ at[id] <= last(id)
    /\ task[id] = "running" /\ pass = 2 =>
         it[id] \in 2..Len(limits) + 1 /\ limits[it[id] - 1].end <= at[id]

Bookkeeping == TypeOK /\ Exclusive /\ Reported /\ Placed

Limit == [end : 0..n, sum : Seq(Elements)]

LEMMA BookkeepingInit == Init => Bookkeeping
<1> SUFFICES ASSUME Init PROVE Bookkeeping
  OBVIOUS
<1>1. /\ call \in Calls /\ n \in Nat /\ n <= MaxElems
      /\ caller = (IF Scanning /\ n = 0 THEN "back" ELSE "submit") /\ threw = FALSE
      /\ pass = 1 /\ turn = 0 /\ task = NoTasks /\ at = Zero /\ acc = Empty /\ it = Zero
      /\ memory = [p \in 1..n |-> <<p>>] /\ counter = 0 /\ res = (algorithm # "any_of")
      /\ limits = <<>> /\ locked = FALSE /\ seen = Empty
  BY SizeIsNatural DEF Init, EmptyScan, Scanning
<1>2. \A id \in Ids : task[id] = "none"
  BY <1>1 DEF NoTasks
<1>3. TypeOK
  <2>1. task \in [Ids -> TaskStates] /\ at \in [Ids -> 0..n] /\ acc \in [Ids -> Seq(Elements)]
        /\ it \in [Ids -> Nat]
    BY <1>1 DEF NoTasks, TaskStates, Zero, Empty
  <2>2. memory \in [1..n -> Seq(Elements)]
    <3>1. \A p \in 1..n : <<p>> \in Seq(Elements)
      BY <1>1, ParallelAssumption DEF Elements
    <3> QED
      BY <1>1, <3>1
  <2>3. turn \in Ids
    BY <1>1, ParallelAssumption DEF Ids
  <2>4. limits \in Seq([end : 0..n, sum : Seq(Elements)])
        /\ seen \in [Ids -> Seq([end : 0..n, sum : Seq(Elements)])]
    BY <1>1 DEF Empty
  <2> QED
    BY <1>1, <2>1, <2>2, <2>3, <2>4 DEF TypeOK
<1>4. Exclusive /\ Reported /\ Placed
  BY <1>1, <1>2 DEF Exclusive, Reported, Placed
<1> QED
  BY <1>3, <1>4 DEF Bookkeeping

LEMMA Fixed ==
  ASSUME call' = call
  PROVE  /\ n' = n /\ algorithm' = algorithm /\ Scanning' = Scanning
         /\ \A id \in Ids : first(id)' = first(id) /\ last(id)' = last(id)
BY DEF n, algorithm, Scanning, first, last, Slice

\* A task goes on in its slice; nothing is pushed or decided.
LEMMA GoesOn ==
  ASSUME Bookkeeping, NEW id \in Ids, task[id] = "running", first(id) <= at'[id], at'[id] <= last(id),
         UNCHANGED <<params, grid, task, lockvars, counter, res>>,
         at' \in [Ids -> 0..n], it' \in [Ids -> Nat],
         \A j \in Ids : j # id => at'[j] = at[j] /\ it'[j] = it[j],
         pass = 2 => it'[id] \in 2..Len(limits) + 1 /\ limits[it'[id] - 1].end <= at'[id],
         acc' \in [Ids -> Seq(Elements)], memory' \in [1..n -> Seq(Elements)]
  PROVE  Bookkeeping'
<1>1. /\ UNCHANGED <<call, caller, threw, pass, turn, task, limits, locked, seen>>
      /\ n' = n /\ algorithm' = algorithm /\ Scanning' = Scanning
      /\ \A j \in Ids : first(j)' = first(j) /\ last(j)' = last(j)
  BY Fixed DEF params, grid, lockvars
<1>2. Exclusive' /\ Reported'
  BY <1>1 DEF Bookkeeping, Exclusive, Reported
<1>3. TypeOK'
  BY <1>1 DEF Bookkeeping, TypeOK
<1>4. Placed'
  <2> SUFFICES ASSUME NEW j \in Ids
               PROVE  /\ task[j] \in {"running", "pushing"} => first(j) <= at'[j] /\ at'[j] <= last(j)
                      /\ task[j] = "running" /\ pass = 2 =>
                           it'[j] \in 2..Len(limits) + 1 /\ limits[it'[j] - 1].end <= at'[j]
    BY <1>1 DEF Placed
  <2> QED
    BY DEF Bookkeeping, Placed
<1> QED
  BY <1>2, <1>3, <1>4 DEF Bookkeeping

\* What a task that has an element left knows.
LEMMA AtItsElement ==
  ASSUME Bookkeeping, NEW id \in Ids, NEW p \in 1..n, AtElement(id, p)
  PROVE  /\ task[id] = "running" /\ at[id] = p - 1 /\ first(id) < p /\ p <= last(id)
         /\ last(id) \in 0..n /\ first(id) \in 0..n /\ n \in Nat /\ n <= MaxElems /\ MaxElems \in Nat
         /\ pass = 2 => it[id] \in 2..Len(limits) + 1 /\ limits[it[id] - 1].end <= at[id]
<1>1. /\ call \in Calls /\ at[id] \in 0..n
      /\ task[id] = "running" => first(id) <= at[id]
      /\ task[id] = "running" /\ pass = 2 =>
           it[id] \in 2..Len(limits) + 1 /\ limits[it[id] - 1].end <= at[id]
  BY DEF Bookkeeping, TypeOK, Placed
<1>2. task[id] = "running" /\ at[id] < last(id) /\ p = at[id] + 1
  BY DEF AtElement, last
<1>3. first(id) \in 0..n /\ last(id) \in 0..n /\ n \in Nat /\ n <= MaxElems
  BY <1>1, SizeIsNatural, Within
<1> QED
  BY <1>1, <1>2, <1>3, ParallelAssumption

LEMMA LimitTypes ==
  ASSUME limits \in Seq(Limit), NEW j \in 1..Len(limits)
  PROVE  limits[j].end \in 0..n /\ limits[j].sum \in Seq(Elements)
<1>1. limits[j] \in Limit
  OBVIOUS
<1> QED
  BY <1>1 DEF Limit

LEMMA ElementBooks ==
  ASSUME Bookkeeping, NEW id \in Ids, NEW p \in 1..n, Element(id, p), ~Throw(id, p)
  PROVE  Bookkeeping'
<1>1. AtElement(id, p)
  BY DEF Element, ForEach, Count, Search, Sum, AddLimit, Work
<1>2. /\ task[id] = "running" /\ at[id] = p - 1 /\ first(id) < p /\ p <= last(id)
      /\ last(id) \in 0..n /\ first(id) \in 0..n /\ n \in Nat /\ n <= MaxElems /\ MaxElems \in Nat
      /\ pass = 2 => it[id] \in 2..Len(limits) + 1 /\ limits[it[id] - 1].end <= at[id]
  BY <1>1, AtItsElement
<1>3. /\ at \in [Ids -> 0..n] /\ it \in [Ids -> Nat] /\ acc \in [Ids -> Seq(Elements)]
      /\ memory \in [1..n -> Seq(Elements)] /\ limits \in Seq(Limit)
  BY DEF Bookkeeping, TypeOK, Limit
<1>4. p \in Elements /\ acc[id] \in Seq(Elements) /\ memory[p] \in Seq(Elements) /\ <<p>> \in Seq(Elements)
  BY <1>2, <1>3 DEF Elements
<1>5. pass = 2 => limits[it[id] - 1].end \in 0..n
  BY <1>2, <1>3, LimitTypes
<1>6. CASE \/ ForEach(id, p) \/ Count(id, p) \/ Sum(id, p)
           \/ Search(id, p) /\ ~Decides(p)
  <2>1. /\ at' = [at EXCEPT ![id] = p] /\ it' = it
        /\ UNCHANGED <<params, grid, task, lockvars, counter, res>>
    BY <1>6 DEF ForEach, Count, Sum, Search, results
  <2>2. /\ at' \in [Ids -> 0..n] /\ at'[id] = p /\ \A j \in Ids : j # id => at'[j] = at[j]
    BY <1>3, <2>1
  <2>3. acc' \in [Ids -> Seq(Elements)] /\ memory' \in [1..n -> Seq(Elements)]
    <3>1. CASE ForEach(id, p)
      BY <1>3, <1>4, <3>1 DEF ForEach
    <3>2. CASE Count(id, p)
      BY <1>3, <1>4, <3>2 DEF Count, results
    <3>3. CASE Sum(id, p)
      BY <1>3, <1>4, <3>3 DEF Sum
    <3>4. CASE Search(id, p) /\ ~Decides(p)
      BY <1>3, <3>4 DEF Search, results
    <3> QED
      BY <1>6, <3>1, <3>2, <3>3, <3>4
  <2>4. pass = 2 => it'[id] \in 2..Len(limits) + 1 /\ limits[it'[id] - 1].end <= at'[id]
    BY <1>2, <1>5, <2>1, <2>2
  <2>5. first(id) <= at'[id] /\ at'[id] <= last(id)
    BY <1>2, <2>2
  <2> QED
    BY <1>2, <1>3, <2>1, <2>2, <2>3, <2>4, <2>5, GoesOn
<1>7. CASE Search(id, p) /\ Decides(p)
  <2>1. /\ at' = [at EXCEPT ![id] = last(id)] /\ it' = it /\ acc' = [acc EXCEPT ![id] = <<p>>]
        /\ memory' = memory /\ UNCHANGED <<params, grid, task, lockvars, counter, res>>
        /\ algorithm \in Searches
    BY <1>7 DEF Search, results, last
  <2>2. pass # 2
    BY <2>1 DEF Bookkeeping, Reported, Scanning, Searches
  <2>3. /\ at' \in [Ids -> 0..n] /\ at'[id] = last(id) /\ \A j \in Ids : j # id => at'[j] = at[j]
        /\ acc' \in [Ids -> Seq(Elements)]
    BY <1>2, <1>3, <1>4, <2>1
  <2>4. first(id) <= at'[id] /\ at'[id] <= last(id)
    BY <1>2, <2>3
  <2> QED
    BY <1>2, <1>3, <2>1, <2>2, <2>3, <2>4, GoesOn
<1>8. CASE AddLimit(id, p)
  <2>1. /\ acc' = [acc EXCEPT ![id] = @ \o limits[it[id]].sum] /\ it' = [it EXCEPT ![id] = @ + 1]
        /\ memory' = memory /\ at' = at /\ UNCHANGED <<params, grid, task, lockvars, counter, res>>
        /\ pass = 2 /\ it[id] <= Len(limits) /\ at[id] >= limits[it[id]].end
    BY <1>8 DEF AddLimit, LimitsLeft, results
  <2>2. it[id] \in 1..Len(limits) /\ limits[it[id]].sum \in Seq(Elements) /\ limits[it[id]].end \in 0..n
    <3>1. it[id] \in Nat /\ Len(limits) \in Nat /\ 2 <= it[id]
      <4>1. Len(limits) \in Nat
        BY <1>3
      <4> QED
        BY <1>2, <1>3, <2>1, <4>1
    <3>2. it[id] \in 1..Len(limits)
      BY <2>1, <3>1
    <3> QED
      BY <1>3, <3>2, LimitTypes
  <2>3. /\ it' \in [Ids -> Nat] /\ it'[id] = it[id] + 1 /\ \A j \in Ids : j # id => it'[j] = it[j]
        /\ acc' \in [Ids -> Seq(Elements)]
    BY <1>3, <1>4, <2>1, <2>2
  <2>4. it'[id] \in 2..Len(limits) + 1 /\ limits[it'[id] - 1].end <= at'[id]
    <3>1. it[id] + 1 \in 2..Len(limits) + 1 /\ (it[id] + 1) - 1 = it[id]
      <4>1. Len(limits) \in Nat /\ it[id] \in 1..Len(limits)
        BY <1>3, <2>2
      <4> QED
        BY <4>1
    <3> QED
      BY <2>1, <2>2, <2>3, <3>1
  <2>5. first(id) <= at'[id] /\ at'[id] <= last(id)
    BY <1>2, <2>1
  <2> QED
    BY <1>2, <1>3, <2>1, <2>3, <2>4, <2>5, GoesOn
<1> QED
  BY <1>6, <1>7, <1>8 DEF Element

\* A task comes into the state k.
LEMMA TaskStateBooks ==
  ASSUME Bookkeeping, NEW id \in Ids, NEW k \in TaskStates \ {"none", "pushing"}, task[id] # "none",
         UNCHANGED <<params, grid, memory, seen>>, task' = [task EXCEPT ![id] = k],
         at' \in [Ids -> 0..n], it' \in [Ids -> Nat], acc' \in [Ids -> Seq(Elements)],
         counter' \in Nat, res' \in BOOLEAN, locked' \in BOOLEAN, limits' \in Seq(Limit),
         \A j \in Ids : j # id => at'[j] = at[j] /\ it'[j] = it[j],
         \/ limits' = limits /\ locked' = locked
         \/ task[id] = "pushing" /\ \E l \in Limit : limits' = Append(limits, l) /\ l.end = last(id),
         k = "running" => /\ first(id) <= at'[id] /\ at'[id] <= last(id)
                          /\ pass = 2 => it'[id] \in 2..Len(limits) + 1 /\ limits[it'[id] - 1].end <= at'[id],
         Scanning /\ pass = 1 /\ k = "done" => task[id] = "pushing" /\ limits' # limits
  PROVE  Bookkeeping'
<1>1. /\ UNCHANGED <<call, caller, threw, pass, turn, memory, seen>>
      /\ n' = n /\ algorithm' = algorithm /\ Scanning' = Scanning
      /\ \A j \in Ids : first(j)' = first(j) /\ last(j)' = last(j)
  BY Fixed DEF params, grid
<1>2. /\ TypeOK /\ Exclusive /\ Reported /\ Placed /\ task \in [Ids -> TaskStates] /\ limits \in Seq(Limit)
  BY DEF Bookkeeping, TypeOK, Limit
<1>3. task' \in [Ids -> TaskStates] /\ \A j \in Ids : task'[j] = IF j = id THEN k ELSE task[j]
  BY <1>2
<1>4. TypeOK'
  BY <1>1, <1>2, <1>3 DEF TypeOK, Limit
<1>5. task[id] = "pushing" => Scanning /\ pass = 1 /\ \A j \in Ids : j # id => task[j] # "pushing"
  BY <1>2 DEF Exclusive
<1>6. Exclusive'
  <2>1. CASE limits' = limits /\ locked' = locked
    BY <1>1, <1>2, <1>3, <2>1 DEF Exclusive
  <2>2. CASE task[id] = "pushing"
    BY <1>3, <1>5, <2>2 DEF Exclusive
  <2> QED
    BY <2>1, <2>2
<1>7. \A j \in DOMAIN limits : j \in DOMAIN limits' /\ limits'[j] = limits[j]
  <2>1. CASE limits' = limits
    BY <2>1
  <2>2. CASE \E l \in Limit : limits' = Append(limits, l)
    BY <1>2, <2>2
  <2> QED
    BY <2>1, <2>2
<1>8. Scanning => \A j \in Ids : pass = 2 \/ task'[j] = "done" =>
                    \E i \in DOMAIN limits' : limits'[i].end = last(j)
  <2> SUFFICES ASSUME Scanning, NEW j \in Ids, pass = 2 \/ task'[j] = "done"
               PROVE  \E i \in DOMAIN limits' : limits'[i].end = last(j)
    OBVIOUS
  <2>1. CASE pass = 2 \/ task[j] = "done"
    <3>1. PICK i \in DOMAIN limits : limits[i].end = last(j)
      BY <1>2, <2>1 DEF Reported
    <3> QED
      BY <1>7, <3>1
  <2>2. CASE pass # 2 /\ task[j] # "done"
    <3>1. j = id /\ k = "done" /\ pass = 1
      BY <1>2, <1>3, <2>2 DEF TypeOK
    <3>2. PICK l \in Limit : limits' = Append(limits, l) /\ l.end = last(id)
      BY <3>1
    <3>3. Len(limits) + 1 \in DOMAIN limits' /\ limits'[Len(limits) + 1] = l
      BY <1>2, <3>2
    <3> QED
      BY <3>1, <3>2, <3>3
  <2> QED
    BY <2>1, <2>2
<1>9. pass = 2 => limits' = limits
  BY <1>5
<1>10. Reported'
  <2>1. ~(Scanning /\ n = 0)
    BY <1>2 DEF Reported
  <2> QED
    BY <1>1, <1>2, <1>8, <1>9, <2>1 DEF Reported
<1>11. Placed'
  <2> SUFFICES ASSUME NEW j \in Ids
               PROVE  /\ task'[j] \in {"running", "pushing"} => first(j) <= at'[j] /\ at'[j] <= last(j)
                      /\ task'[j] = "running" /\ pass = 2 =>
                           it'[j] \in 2..Len(limits) + 1 /\ limits[it'[j] - 1].end <= at'[j]
    BY <1>1, <1>9 DEF Placed
  <2>1. CASE j = id
    BY <1>3, <2>1
  <2>2. CASE j # id
    BY <1>2, <1>3, <2>2 DEF Placed
  <2> QED
    BY <2>1, <2>2
<1> QED
  BY <1>4, <1>6, <1>10, <1>11 DEF Bookkeeping

\* The first slice is the one that ends first, and it is not empty.
LEMMA LimitsAreThere ==
  ASSUME Bookkeeping, pass = 2
  PROVE  1 \in DOMAIN limits /\ Len(limits) \in Nat \ {0}
<1>1. limits \in Seq(Limit) /\ 0 \in Ids /\ Scanning
  BY ParallelAssumption DEF Bookkeeping, TypeOK, Limit, Ids, Reported
<1>2. PICK j \in DOMAIN limits : limits[j].end = last(0)
  BY <1>1 DEF Bookkeeping, Reported
<1> QED
  BY <1>1, <1>2

LEMMA StartBooks == ASSUME Bookkeeping, NEW id \in Ids, Start(id) PROVE Bookkeeping'
<1>1. /\ task[id] \in {"queued", "deferred"}
      /\ task' = [task EXCEPT ![id] = IF InFirstSlice(id) THEN "done" ELSE "running"]
      /\ at' = [at EXCEPT ![id] = first(id)]
      /\ acc' = [acc EXCEPT ![id] = IF pass = 1 THEN <<>> ELSE limits[1].sum]
      /\ it' = [it EXCEPT ![id] = 2]
      /\ UNCHANGED <<params, grid, memory, counter, res, limits, locked, seen>>
  BY DEF Start, first, results, lockvars
<1>2. /\ at \in [Ids -> 0..n] /\ it \in [Ids -> Nat] /\ acc \in [Ids -> Seq(Elements)]
      /\ counter \in Nat /\ res \in BOOLEAN /\ locked \in BOOLEAN /\ limits \in Seq(Limit)
      /\ pass \in {1, 2} /\ n \in Nat /\ Tiled /\ first(id) \in 0..n /\ last(id) \in 0..n /\ first(id) <= last(id)
  BY SizeIsNatural, Within DEF Bookkeeping, TypeOK, Limit, Tiled
<1>3. at' \in [Ids -> 0..n] /\ it' \in [Ids -> Nat] /\ at'[id] = first(id) /\ it'[id] = 2
      /\ \A j \in Ids : j # id => at'[j] = at[j] /\ it'[j] = it[j]
  BY <1>1, <1>2
<1>4. acc' \in [Ids -> Seq(Elements)]
  <2>1. CASE pass = 1
    BY <1>1, <1>2, <2>1
  <2>2. CASE pass = 2
    <3>1. limits[1].sum \in Seq(Elements)
      BY <1>2, <2>2, LimitsAreThere, LimitTypes
    <3> QED
      BY <1>1, <1>2, <2>2, <3>1
  <2> QED
    BY <1>2, <2>1, <2>2
<1>5. CASE InFirstSlice(id)
  <2>1. /\ task' = [task EXCEPT ![id] = "done"] /\ pass # 1
        /\ "done" \in TaskStates \ {"none", "pushing"} /\ "done" # "running"
    BY <1>1, <1>5 DEF TaskStates, InFirstSlice
  <2>2. task[id] # "none" /\ limits' \in Seq(Limit) /\ locked' \in BOOLEAN /\ res' \in BOOLEAN
        /\ counter' \in Nat /\ UNCHANGED <<params, grid, memory, seen>> /\ limits' = limits /\ locked' = locked
    BY <1>1, <1>2
  <2> QED
    BY <1>3, <1>4, <2>1, <2>2, TaskStateBooks
<1>6. CASE ~InFirstSlice(id)
  <2>1. pass = 2 => it'[id] \in 2..Len(limits) + 1 /\ limits[it'[id] - 1].end <= at'[id]
    <3> SUFFICES ASSUME pass = 2
                 PROVE  it'[id] \in 2..Len(limits) + 1 /\ limits[it'[id] - 1].end <= at'[id]
      OBVIOUS
    <3>1. 2 \in 2..Len(limits) + 1 /\ limits[1].end \in 0..n
      BY <1>2, LimitsAreThere, LimitTypes
    <3>2. limits[1].end <= first(id)
      BY <1>2, <1>6, <3>1 DEF InFirstSlice, first
    <3> QED
      BY <1>3, <3>1, <3>2
  <2> QED
    <3>1. /\ task' = [task EXCEPT ![id] = "running"]
          /\ "running" \in TaskStates \ {"none", "pushing"} /\ "running" # "done"
      BY <1>1, <1>6 DEF TaskStates
    <3>2. task[id] # "none" /\ limits' \in Seq(Limit) /\ locked' \in BOOLEAN /\ res' \in BOOLEAN
          /\ counter' \in Nat /\ UNCHANGED <<params, grid, memory, seen>> /\ limits' = limits /\ locked' = locked
      BY <1>1, <1>2
    <3>3. first(id) <= at'[id] /\ at'[id] <= last(id)
      BY <1>2, <1>3
    <3> QED
      BY <1>3, <1>4, <2>1, <3>1, <3>2, <3>3, TaskStateBooks
<1> QED
  BY <1>5, <1>6

LEMMA EndBooks ==
  ASSUME Bookkeeping, NEW id \in Ids, Finish(id) \/ \E p \in 1..n : Throw(id, p)
  PROVE  Bookkeeping'
<1>1. /\ at \in [Ids -> 0..n] /\ it \in [Ids -> Nat] /\ acc \in [Ids -> Seq(Elements)]
      /\ counter \in Nat /\ res \in BOOLEAN /\ locked \in BOOLEAN /\ limits \in Seq(Limit)
  BY DEF Bookkeeping, TypeOK, Limit
<1>2. /\ task[id] # "none" /\ UNCHANGED <<params, grid, at, acc, it, memory, limits, locked, seen>>
  BY DEF Finish, AtEnd, Throw, AtElement, results, lockvars
<1>3. counter' \in Nat /\ res' \in BOOLEAN
  <2>1. CASE Finish(id)
    <3>1. Len(acc[id]) \in Nat
      BY <1>1
    <3>2. counter' \in Nat
      BY <1>1, <2>1, <3>1 DEF Finish
    <3>3. res' \in BOOLEAN
      BY <1>1, <2>1 DEF Finish
    <3> QED
      BY <3>2, <3>3
  <2>2. CASE \E p \in 1..n : Throw(id, p)
    BY <1>1, <2>2 DEF Throw, results
  <2> QED
    BY <2>1, <2>2
<1>4. PICK k \in {"done", "failed"} : /\ task' = [task EXCEPT ![id] = k]
                                      /\ ~(Scanning /\ pass = 1 /\ k = "done")
  BY DEF Finish, Throw, Scanning
<1>5. k \in TaskStates \ {"none", "pushing"} /\ k # "running"
  BY DEF TaskStates
<1>6. at' \in [Ids -> 0..n] /\ it' \in [Ids -> Nat] /\ acc' \in [Ids -> Seq(Elements)]
      /\ locked' \in BOOLEAN /\ limits' \in Seq(Limit)
      /\ \A j \in Ids : j # id => at'[j] = at[j] /\ it'[j] = it[j]
  BY <1>1, <1>2
<1> QED
  BY <1>2, <1>3, <1>4, <1>5, <1>6, TaskStateBooks

LEMMA PushBooks ==
  ASSUME Bookkeeping, NEW id \in Ids, Push(id)
  PROVE  Bookkeeping'
<1>1. /\ at \in [Ids -> 0..n] /\ it \in [Ids -> Nat] /\ acc \in [Ids -> Seq(Elements)]
      /\ counter \in Nat /\ res \in BOOLEAN /\ limits \in Seq(Limit) /\ call \in Calls
      /\ memory \in [1..n -> Seq(Elements)]
  BY DEF Bookkeeping, TypeOK, Limit
<1>2. /\ task[id] = "pushing" /\ UNCHANGED <<params, grid, at, acc, it, memory, counter, res, seen>>
      /\ locked' = FALSE /\ task' = [task EXCEPT ![id] = "done"]
  BY DEF Push, results
<1>3. Tiled /\ n \in Nat /\ last(id) \in 0..n /\ n # 0 /\ seen[id] = limits /\ Scanning /\ pass = 1
  BY <1>1, <1>2, SizeIsNatural, Within DEF Bookkeeping, Exclusive, Reported
<1>4. last(id) \in 1..n
  <2>1. last(id) < n => first(id) < last(id)
    BY <1>3 DEF Tiled, Scanning
  <2>2. first(id) \in Nat
    BY <1>3 DEF Tiled
  <2> QED
    BY <1>3, <2>1, <2>2
<1>5. \E l \in Limit : limits' = Append(limits, l) /\ l.end = last(id)
  <2>1. PICK sum \in {memory[last(id)]} \cup {<<>>} :
          limits' = Append(limits, [end |-> last(id), sum |-> sum])
    BY <1>3 DEF Push, last
  <2>2. sum \in Seq(Elements)
    <3>1. memory[last(id)] \in Seq(Elements) /\ <<>> \in Seq(Elements)
      BY <1>1, <1>4
    <3> QED
      BY <2>1, <3>1
  <2>3. [end |-> last(id), sum |-> sum] \in Limit
    BY <1>3, <2>2 DEF Limit
  <2> QED
    BY <2>1, <2>3
<1>6. limits' \in Seq(Limit) /\ limits' # limits
  <2>1. PICK l \in Limit : limits' = Append(limits, l)
    BY <1>5
  <2>2. limits' \in Seq(Limit) /\ Len(limits') = Len(limits) + 1 /\ Len(limits) \in Nat
    BY <1>1, <2>1
  <2>3. Len(limits') # Len(limits)
    BY <2>2
  <2> QED
    BY <2>2, <2>3
<1>7. "done" \in TaskStates \ {"none", "pushing"} /\ "done" # "running" /\ task[id] # "none" /\ locked' \in BOOLEAN
  BY <1>2 DEF TaskStates
<1>8. at' \in [Ids -> 0..n] /\ it' \in [Ids -> Nat] /\ acc' \in [Ids -> Seq(Elements)]
      /\ counter' \in Nat /\ res' \in BOOLEAN
      /\ \A j \in Ids : j # id => at'[j] = at[j] /\ it'[j] = it[j]
  BY <1>1, <1>2
<1> QED
  BY <1>2, <1>5, <1>6, <1>7, <1>8, TaskStateBooks

\* spin_lock::lock: whoever is in push_back has it, so nobody is.
LEMMA LockBooks ==
  ASSUME Bookkeeping, NEW id \in Ids, Lock(id)
  PROVE  Bookkeeping'
<1>1. /\ task[id] = "running" /\ Scanning /\ pass = 1 /\ ~locked
      /\ locked' = TRUE /\ seen' = [seen EXCEPT ![id] = limits] /\ task' = [task EXCEPT ![id] = "pushing"]
      /\ UNCHANGED <<call, caller, threw, pass, turn, at, acc, it, memory, counter, res, limits>>
      /\ n' = n /\ algorithm' = algorithm /\ Scanning' = Scanning
      /\ \A j \in Ids : first(j)' = first(j) /\ last(j)' = last(j)
  BY Fixed DEF Lock, AtEnd, Scanning, params, grid, results
<1>2. /\ TypeOK /\ Exclusive /\ Reported /\ Placed /\ task \in [Ids -> TaskStates] /\ limits \in Seq(Limit)
      /\ seen \in [Ids -> Seq(Limit)]
  BY DEF Bookkeeping, TypeOK, Limit
<1>3. /\ task' \in [Ids -> TaskStates] /\ \A j \in Ids : task'[j] = IF j = id THEN "pushing" ELSE task[j]
      /\ seen' \in [Ids -> Seq(Limit)] /\ seen'[id] = limits
  BY <1>1, <1>2 DEF TaskStates
<1>4. TypeOK'
  BY <1>1, <1>2, <1>3 DEF TypeOK, Limit
<1>5. \A j \in Ids : task[j] # "pushing"
  BY <1>1, <1>2 DEF Exclusive
<1>6. Exclusive'
  BY <1>1, <1>3, <1>5 DEF Exclusive
<1>7. Reported'
  BY <1>1, <1>2, <1>3 DEF Reported
<1>8. Placed'
  BY <1>1, <1>2, <1>3 DEF Placed
<1> QED
  BY <1>4, <1>6, <1>7, <1>8 DEF Bookkeeping

\* The limits are sorted when all tasks have reported theirs.
LEMMA SecondPassBooks ==
  ASSUME Bookkeeping, IInv, LastGet, SecondPass
  PROVE  Bookkeeping'
<1>1. /\ pass = 1 /\ Scanning /\ pass' = 2 /\ caller' = "submit" /\ limits' \in SortedLimits
      /\ task' = NoTasks /\ turn' = 0 /\ turn + 1 = NExec /\ task[turn] = "done" /\ caller = "get"
      /\ UNCHANGED <<call, threw, at, acc, it, memory, counter, res, locked, seen>>
      /\ n' = n /\ algorithm' = algorithm /\ Scanning' = Scanning
      /\ \A j \in Ids : first(j)' = first(j) /\ last(j)' = last(j)
  BY Fixed DEF LastGet, SecondPass, Scanning, params, results
<1>2. /\ TypeOK /\ Exclusive /\ Reported /\ limits \in Seq(Limit)
  BY DEF Bookkeeping, TypeOK, Limit
<1>3. \A id \in Ids : task[id] = "done"
  <2>1. NExec \in Nat \ {0} /\ turn = NExec - 1 /\ Ids = 0..NExec - 1
    BY <1>1, <1>2, ParallelAssumption DEF TypeOK, Ids
  <2> QED
    BY <1>1, <2>1 DEF IInv, InTurn
<1>4. PICK f \in Bijection(DOMAIN limits, DOMAIN limits) : limits' = [i \in DOMAIN limits |-> limits[f[i]]]
  BY <1>1 DEF SortedLimits
<1>5. /\ f \in [DOMAIN limits -> DOMAIN limits]
      /\ \A j \in DOMAIN limits : \E i \in DOMAIN limits : f[i] = j
  BY DEF Bijection, Injection, Surjection
<1>6. limits' \in Seq(Limit) /\ DOMAIN limits' = DOMAIN limits
  <2>1. DOMAIN limits = 1..Len(limits) /\ Len(limits) \in Nat /\ \A j \in DOMAIN limits : limits[j] \in Limit
    BY <1>2
  <2>2. \A i \in 1..Len(limits) : limits[f[i]] \in Limit
    BY <1>5, <2>1
  <2> QED
    BY <1>4, <2>1, <2>2
<1>7. \A i, j \in DOMAIN limits' : i < j => limits'[i].end <= limits'[j].end
  BY <1>1, <1>6 DEF SortedLimits
<1>8. \A id \in Ids : \E j \in DOMAIN limits' : limits'[j].end = last(id)
  <2> SUFFICES ASSUME NEW id \in Ids PROVE \E j \in DOMAIN limits' : limits'[j].end = last(id)
    OBVIOUS
  <2>1. PICK j \in DOMAIN limits : limits[j].end = last(id)
    BY <1>1, <1>2, <1>3 DEF Reported
  <2>2. PICK i \in DOMAIN limits : f[i] = j
    BY <1>5
  <2> QED
    BY <1>4, <1>6, <2>1, <2>2
<1>9. \A id \in Ids : task'[id] = "none"
  BY <1>1 DEF NoTasks
<1>10. TypeOK'
  <2>1. task' \in [Ids -> TaskStates] /\ turn' \in Ids
    BY <1>1, ParallelAssumption DEF NoTasks, TaskStates, Ids
  <2> QED
    BY <1>1, <1>2, <1>6, <2>1 DEF TypeOK, Limit
<1>11. Exclusive' /\ Placed'
  BY <1>9 DEF Exclusive, Placed
<1>12. Reported'
  <2>1. ~(Scanning /\ n = 0)
    BY <1>1, <1>2 DEF Reported
  <2> QED
    BY <1>1, <1>7, <1>8, <2>1 DEF Reported
<1> QED
  BY <1>10, <1>11, <1>12 DEF Bookkeeping

LEMMA CallerBooks ==
  ASSUME Bookkeeping, IInv, Caller
  PROVE  Bookkeeping'
<1>1. TypeOK /\ Exclusive /\ Reported /\ Placed /\ NExec \in Nat \ {0} /\ Ids = 0..NExec - 1
  BY ParallelAssumption DEF Bookkeeping, Ids
<1>2. CASE Submit
  <2>1. /\ caller = "submit" /\ task' = [task EXCEPT ![turn] = task'[turn]]
        /\ task'[turn] \in {"deferred", "queued"} /\ turn \in Ids
        /\ UNCHANGED <<call, threw, pass, at, acc, it, memory, counter, res, limits, locked, seen>>
        /\ n' = n /\ algorithm' = algorithm /\ Scanning' = Scanning
        /\ \A j \in Ids : first(j)' = first(j) /\ last(j)' = last(j)
    BY <1>1, <1>2, Fixed DEF Submit, TypeOK, params, results, lockvars
  <2>2. caller' \in {"submit", "get"} /\ turn' \in Ids
    BY <1>1, <1>2, <2>1 DEF Submit, NextTurn
  <2>3. /\ task' \in [Ids -> TaskStates]
        /\ \A j \in Ids : task'[j] = task[j] \/ task'[j] \notin {"none", "running", "pushing", "done"}
    BY <1>1, <2>1 DEF TypeOK, TaskStates
  <2>4. TypeOK'
    BY <1>1, <2>1, <2>2, <2>3 DEF TypeOK
  <2>5. Exclusive' /\ Placed'
    BY <1>1, <2>1, <2>3 DEF Exclusive, Placed
  <2>6. Reported'
    BY <1>1, <2>1, <2>3 DEF Reported
  <2> QED
    BY <2>4, <2>5, <2>6 DEF Bookkeeping
<1>3. CASE Get \/ GetThrows \/ (LastGet /\ Leave)
  <2>1. /\ UNCHANGED <<call, task, pass, at, acc, it, memory, counter, res, limits, locked, seen>>
        /\ n' = n /\ algorithm' = algorithm /\ Scanning' = Scanning
        /\ \A j \in Ids : first(j)' = first(j) /\ last(j)' = last(j)
    BY <1>3, Fixed DEF Get, GetThrows, LastGet, Leave, params, tasks, results, lockvars
  <2>2. caller' \in {"get", "back"} /\ threw' \in BOOLEAN /\ turn' \in Ids /\ caller = "get"
    <3>1. threw \in BOOLEAN /\ turn \in 0..NExec - 1
      BY <1>1 DEF TypeOK
    <3>2. CASE Get
      BY <1>1, <3>1, <3>2 DEF Get
    <3>3. CASE GetThrows
      BY <1>1, <3>1, <3>3 DEF GetThrows
    <3>4. CASE LastGet /\ Leave
      BY <1>1, <3>1, <3>4 DEF LastGet, Leave
    <3> QED
      BY <1>3, <3>2, <3>3, <3>4
  <2>3. TypeOK' /\ Exclusive' /\ Placed'
    BY <1>1, <2>1, <2>2 DEF TypeOK, Exclusive, Placed
  <2>4. Reported'
    BY <1>1, <2>1, <2>2 DEF Reported
  <2> QED
    BY <2>3, <2>4 DEF Bookkeeping
<1>4. CASE LastGet /\ SecondPass
  BY <1>4, SecondPassBooks
<1> QED
  BY <1>2, <1>3, <1>4 DEF Caller, LastGet

LEMMA BookkeepingNext == Bookkeeping /\ IInv /\ [Next]_vars => Bookkeeping'
<1> SUFFICES ASSUME Bookkeeping, IInv, [Next]_vars PROVE Bookkeeping'
  OBVIOUS
<1>1. CASE Caller
  BY <1>1, CallerBooks
<1>2. ASSUME NEW id \in Ids, Task(id) PROVE Bookkeeping'
  <2>1. ASSUME NEW p \in 1..n, Element(id, p) PROVE Bookkeeping'
    BY <2>1, ElementBooks, EndBooks
  <2> QED
    BY <1>2, <2>1, StartBooks, EndBooks, LockBooks, PushBooks DEF Task
<1>3. CASE UNCHANGED vars
  <2>1. /\ UNCHANGED <<call, caller, threw, pass, turn, task, at, acc, it, memory, counter, res, limits, locked, seen>>
        /\ n' = n /\ algorithm' = algorithm /\ Scanning' = Scanning
        /\ \A j \in Ids : first(j)' = first(j) /\ last(j)' = last(j)
    BY <1>3, Fixed DEF vars, params, grid, tasks, results, lockvars
  <2> QED
    BY <2>1 DEF Bookkeeping, TypeOK, Exclusive, Reported, Placed
<1> QED
  BY <1>1, <1>2, <1>3 DEF Next

\* The limits in order lead up to the end of the range.
LEMMA BooksSuffice == Bookkeeping => WellFormed
<1> SUFFICES ASSUME Bookkeeping, NEW id \in Ids, pass = 2, task[id] = "running", at[id] < last(id),
                    ~(it[id] <= Len(limits))
             PROVE  FALSE
  BY DEF WellFormed, LimitsSuffice, Bookkeeping, last
<1>1. /\ it[id] \in 2..Len(limits) + 1 /\ limits[it[id] - 1].end <= at[id]
      /\ limits \in Seq(Limit) /\ call \in Calls /\ at[id] \in 0..n
  BY DEF Bookkeeping, Placed, TypeOK, Limit
<1>2. Tiled /\ n \in Nat /\ last(id) \in 0..n /\ NExec - 1 \in Ids /\ last(NExec - 1) = n
  BY <1>1, SizeIsNatural, Within, ParallelAssumption DEF Tiled, Ids
<1>3. Len(limits) \in Nat /\ it[id] - 1 = Len(limits) /\ 1 <= Len(limits)
  <2>1. Len(limits) \in Nat
    BY <1>1
  <2> QED
    BY <1>1, <2>1
<1>4. PICK j \in DOMAIN limits : limits[j].end = n
  BY <1>2 DEF Bookkeeping, Reported
<1>5. j <= Len(limits) /\ j \in 1..Len(limits) /\ Len(limits) \in DOMAIN limits
  BY <1>1, <1>3, <1>4
<1>6. limits[Len(limits)].end >= n
  <2>1. limits[Len(limits)].end \in 0..n
    BY <1>1, <1>3, LimitTypes
  <2>2. CASE j = Len(limits)
    BY <1>2, <1>4, <2>2
  <2>3. CASE j < Len(limits)
    BY <1>4, <1>5, <2>1, <2>3 DEF Bookkeeping, Reported
  <2> QED
    BY <1>5, <2>2, <2>3
<1>7. limits[Len(limits)].end <= at[id]
  BY <1>1, <1>3
<1> QED
  BY <1>1, <1>2, <1>3, <1>6, <1>7, LimitTypes

\* The variables of a call keep to their types, and the second pass of
\* inclusive_scan never looks behind the last limit (line 109 of
\* parallel_numeric_generic.hpp), for any number of elements and executors, with
\* exceptions or without: the spin lock loses no limit, and the last limit in
\* order is at the end of the range.
THEOREM LimitsFound == Spec => []WellFormed
BY BooksSuffice, InitInv, NextInv, BookkeepingInit, BookkeepingNext, PTL DEF Spec

-----------------------------------------------------------------------------
(* What the elements, the sums and the results are at every moment. *)

\* The sum of the elements behind a up to b, in order.
SumOf(a, b) == [i \in 1..b - a |-> a + i]

\* The task is behind the elements of its slice up to this one.
Reached(id) == IF task[id] \in {"none", "queued", "deferred"} THEN first(id) ELSE at[id]

Value(id, p) ==
  CASE algorithm = "for_each" -> IF p <= Reached(id) THEN <<p, p>> ELSE <<p>>
    [] Scanning /\ pass = 1 -> IF p <= Reached(id) THEN SumOf(first(id), p) ELSE <<p>>
    [] Scanning /\ pass = 2 -> IF p <= Reached(id) THEN SumOf(0, p) ELSE SumOf(first(id), p)
    [] OTHER -> <<p>>

\* What the tasks have done with the elements behind them.
Written == \A id \in Ids : \A p \in first(id) + 1..last(id) : memory[p] = Value(id, p)

\* The end of a slice, which the second pass does not visit in the first one.
Ended ==
  \A id \in Ids :
    /\ task[id] = "pushing" => at[id] = last(id)
    /\ task[id] = "done" => at[id] = last(id) \/ (pass = 2 /\ first(id) = 0)

\* The limits before the end of the range are those of different slices, and
\* have their sums.
Told ==
  /\ \A i \in DOMAIN limits :
       \E id \in Ids : /\ limits[i].end = last(id)
                       /\ last(id) < n => limits[i].sum = SumOf(first(id), last(id))
                       /\ pass = 1 => task[id] = "done"
  /\ \A i, j \in DOMAIN limits : i # j /\ limits[i].end = limits[j].end => limits[i].end = n

\* What a task that sums up has in hand: all before its element.
Summed ==
  Scanning =>
    \A id \in Ids : task[id] = "running" =>
      IF pass = 1 THEN acc[id] = SumOf(first(id), at[id])
      ELSE LET e == limits[it[id] - 1].end IN e < n => acc[id] = SumOf(0, e)

PredIn(id, p) == call.pred \cap (first(id) + 1..p)

Counted ==
  algorithm = "count_if" =>
    /\ \A id \in Ids : task[id] = "running" => Len(acc[id]) = Cardinality(PredIn(id, at[id]))
    /\ counter = Cardinality(UNION {PredIn(id, last(id)) : id \in {j \in Ids : task[j] = "done"}})

Found ==
  algorithm \in Searches =>
    /\ \A id \in Ids : task[id] \in {"running", "done"} =>
         IF acc[id] = <<>> THEN \A p \in first(id) + 1..at[id] : ~Decides(p)
                           ELSE \E p \in 1..n : Decides(p)
    /\ res = IF \E id \in Ids : task[id] = "done" /\ acc[id] # <<>>
               THEN algorithm = "any_of" ELSE algorithm # "any_of"

Complete ==
  caller = "back" /\ ~threw =>
    \/ Scanning /\ n = 0
    \/ (\A id \in Ids : task[id] = "done") /\ (Scanning => pass = 2)

Results == Written /\ Ended /\ Told /\ Summed /\ Counted /\ Found /\ Complete

LEMMA SumLooks ==
  ASSUME NEW a \in Nat, NEW b \in Nat, a <= b
  PROVE  SumOf(a, b) \in Seq(Nat) /\ Len(SumOf(a, b)) = b - a /\ \A i \in 1..b - a : SumOf(a, b)[i] = a + i
<1>1. b - a \in Nat /\ \A i \in 1..b - a : a + i \in Nat
  OBVIOUS
<1>2. SumOf(a, b) \in [1..b - a -> Nat]
  BY <1>1 DEF SumOf
<1>3. SumOf(a, b) \in Seq(Nat) /\ Len(SumOf(a, b)) = b - a
  <2> DEFINE t == SumOf(a, b)
             l == b - a
  <2>1. t \in [1..l -> Nat] /\ l \in Nat
    BY <1>1, <1>2
  <2> HIDE DEF t, l
  <2>2. t \in Seq(Nat) /\ Len(t) = l
    BY <2>1
  <2> QED
    BY <2>2 DEF t, l
<1> QED
  BY <1>3 DEF SumOf

\* A sequence that continues the elements behind a by those behind b.
LEMMA SumContinues ==
  ASSUME NEW a \in Nat, NEW b \in Nat, NEW d \in Nat, a <= b, b <= d,
         NEW s \in Seq(Nat), Len(s) = d - b, \A i \in 1..d - b : s[i] = b + i
  PROVE  SumOf(a, b) \o s = SumOf(a, d)
<1> DEFINE t == SumOf(a, b)
           u == SumOf(a, d)
<1>1. t \in Seq(Nat) /\ Len(t) = b - a /\ \A i \in 1..b - a : t[i] = a + i
  BY SumLooks
<1>2. u \in Seq(Nat) /\ Len(u) = d - a /\ \A i \in 1..d - a : u[i] = a + i
  <2>1. a <= d
    OBVIOUS
  <2> QED
    BY <2>1, SumLooks
<1> HIDE DEF t, u
<1>3. t \o s \in Seq(Nat) /\ Len(t \o s) = (b - a) + (d - b)
  <2>1. t \o s \in Seq(Nat) /\ Len(t \o s) = Len(t) + Len(s)
    BY <1>1, ConcatProperties, Zenon
  <2> QED
    BY <1>1, <2>1, Zenon
<1>4. (b - a) + (d - b) = d - a /\ d - b \in Nat /\ b - a \in Nat
  OBVIOUS
<1>5. ASSUME NEW i \in 1..d - a PROVE (t \o s)[i] = a + i
  <2>1. (t \o s)[i] = IF i <= b - a THEN t[i] ELSE s[i - (b - a)]
    <3>1. Len(t) = b - a /\ i \in 1..Len(t) + Len(s)
      BY <1>1, <1>4
    <3> QED
      BY <1>1, <3>1, ConcatProperties
  <2>2. CASE i <= b - a
    BY <1>1, <2>1, <2>2
  <2>3. CASE ~(i <= b - a)
    <3>1. i - (b - a) \in 1..d - b /\ b + (i - (b - a)) = a + i
      BY <2>3
    <3>2. s[i - (b - a)] = a + i
      BY <3>1
    <3> QED
      BY <2>1, <2>3, <3>2
  <2> QED
    BY <2>2, <2>3, Zenon
<1>6. Len(t \o s) = Len(u) /\ \A i \in 1..Len(u) : (t \o s)[i] = u[i]
  BY <1>2, <1>3, <1>4, <1>5
<1> QED
  BY <1>2, <1>3, <1>6, SeqEqual DEF t, u

LEMMA SumsAdd ==
  ASSUME NEW a \in Nat, NEW b \in Nat, NEW c \in Nat, a <= b, b <= c
  PROVE  /\ SumOf(a, b) \o SumOf(b, c) = SumOf(a, c)
         /\ SumOf(a, a) = <<>>
         /\ SumOf(a, b) \o <<b + 1>> = SumOf(a, b + 1)
<1>1. SumOf(a, b) \o SumOf(b, c) = SumOf(a, c)
  <2>1. SumOf(b, c) \in Seq(Nat) /\ Len(SumOf(b, c)) = c - b /\ \A i \in 1..c - b : SumOf(b, c)[i] = b + i
    BY SumLooks
  <2> QED
    BY <2>1, SumContinues
<1>2. SumOf(a, a) = <<>>
  BY DEF SumOf
<1>3. SumOf(a, b) \o <<b + 1>> = SumOf(a, b + 1)
  <2>1. <<b + 1>> \in Seq(Nat) /\ Len(<<b + 1>>) = (b + 1) - b
        /\ \A i \in 1..(b + 1) - b : <<b + 1>>[i] = b + i
    OBVIOUS
  <2>2. b + 1 \in Nat /\ b <= b + 1
    OBVIOUS
  <2> QED
    BY <2>1, <2>2, SumContinues
<1> QED
  BY <1>1, <1>2, <1>3

\* Slices that end at the same place are at the end of the range.
LEMMA DistinctEnds ==
  ASSUME Tiled, algorithm # "count_if", NEW i \in Ids, NEW j \in Ids, last(i) = last(j), last(i) < n
  PROVE  i = j
<1>1. i \in Nat /\ j \in Nat /\ first(i) < last(i) /\ first(j) < last(j)
      /\ first(i) \in Nat /\ last(i) \in Nat /\ first(j) \in Nat /\ last(j) \in Nat
  BY DEF Tiled, Ids
<1>2. ~(i < j)
  BY <1>1, SlicesInOrder
<1>3. ~(j < i)
  BY <1>1, SlicesInOrder
<1> QED
  BY <1>1, <1>2, <1>3

LEMMA EndsInOrder ==
  ASSUME Tiled, NEW i \in Ids, NEW j \in Ids
  PROVE  /\ last(i) < last(j) => last(i) <= first(j)
         /\ i <= j => last(i) <= last(j)
<1>1. i \in Nat /\ j \in Nat /\ first(i) <= last(i) /\ first(j) <= last(j)
      /\ first(i) \in Nat /\ last(i) \in Nat /\ first(j) \in Nat /\ last(j) \in Nat
  BY DEF Tiled, Ids
<1>2. i < j => last(i) <= first(j)
  BY SlicesInOrder
<1>3. j < i => last(j) <= first(i)
  BY SlicesInOrder
<1> QED
  BY <1>1, <1>2, <1>3

LEMMA LimitIsEnd ==
  ASSUME Bookkeeping, Told, NEW k \in 1..Len(limits)
  PROVE  /\ limits \in Seq(Limit) /\ Len(limits) \in Nat /\ Tiled /\ n \in Nat /\ limits[k].end \in 0..n
         /\ \E id \in Ids : /\ limits[k].end = last(id)
                            /\ last(id) < n => limits[k].sum = SumOf(first(id), last(id))
<1>1. limits \in Seq(Limit) /\ call \in Calls
  BY DEF Bookkeeping, TypeOK, Limit
<1>2. Len(limits) \in Nat /\ DOMAIN limits = 1..Len(limits)
  BY <1>1
<1> QED
  BY <1>1, <1>2, SizeIsNatural, LimitTypes DEF Told

\* In the second pass the first limit is that of the first slice.
LEMMA FirstLimit ==
  ASSUME Bookkeeping, Told, pass = 2
  PROVE  /\ limits[1].end = last(0)
         /\ limits[1].end < n => limits[1].sum = SumOf(0, limits[1].end)
<1>1. 1 \in 1..Len(limits) /\ Len(limits) \in Nat \ {0} /\ limits \in Seq(Limit)
  <2>1. Len(limits) \in Nat \ {0}
    BY LimitsAreThere
  <2> QED
    BY <2>1 DEF Bookkeeping, TypeOK, Limit
<1>2. PICK id \in Ids : /\ limits[1].end = last(id)
                        /\ last(id) < n => limits[1].sum = SumOf(first(id), last(id))
  BY <1>1, LimitIsEnd
<1>3. Tiled /\ 0 \in Ids /\ Scanning
  BY <1>1, LimitIsEnd DEF Tiled, Ids, Bookkeeping, Reported
<1>4. PICK m \in DOMAIN limits : limits[m].end = last(0)
  BY <1>3 DEF Bookkeeping, Reported
<1>5. m \in 1..Len(limits) /\ (1 < m => limits[1].end <= limits[m].end)
  BY <1>1 DEF Bookkeeping, Reported
<1>6. last(id) \in Nat /\ last(0) \in Nat /\ id \in Nat
  BY <1>3 DEF Tiled, Ids
<1>7. last(id) <= last(0)
  <2>1. m \in Nat
    BY <1>1, <1>5
  <2>2. CASE m = 1
    BY <1>2, <1>4, <1>6, <2>2
  <2>3. CASE 1 < m
    BY <1>2, <1>4, <1>5, <2>3
  <2> QED
    BY <1>5, <2>1, <2>2, <2>3
<1>8. last(0) <= last(id)
  BY <1>3, <1>6, EndsInOrder
<1>9. last(id) = last(0)
  BY <1>6, <1>7, <1>8
<1>10. last(id) < n => id = 0
  BY <1>3, <1>9, DistinctEnds DEF Scanning
<1> QED
  BY <1>2, <1>3, <1>9, <1>10 DEF Tiled

\* Where a limit lies before the end of a slice, and the next one behind its
\* beginning, the slice begins at the limit.
LEMMA NextLimit ==
  ASSUME Bookkeeping, Told, pass = 2, NEW id \in Ids, NEW k \in 1..Len(limits), k + 1 <= Len(limits),
         limits[k].end < last(id), first(id) < limits[k + 1].end
  PROVE  limits[k].end = first(id)
<1>1. /\ limits \in Seq(Limit) /\ Len(limits) \in Nat /\ Tiled /\ k \in Nat
      /\ limits[k].end \in Nat /\ limits[k + 1].end \in Nat
  <2>1. Len(limits) \in Nat /\ n \in Nat
    BY LimitIsEnd
  <2>2. k + 1 \in 1..Len(limits)
    BY <2>1
  <2> QED
    BY <2>1, <2>2, LimitIsEnd
<1>2. PICK j \in Ids : limits[k].end = last(j)
  BY LimitIsEnd
<1>3. /\ NExec \in Nat \ {0} /\ Ids = 0..NExec - 1 /\ Scanning /\ 0 \in Ids
      /\ first(id) \in Nat /\ last(id) \in Nat /\ first(0) = 0
  BY <1>1 DEF Tiled, Ids, Bookkeeping, Reported
<1>4. last(j) <= first(id)
  BY <1>1, <1>2, EndsInOrder
<1>5. id # 0
  <2>1. last(0) <= last(j) /\ last(j) \in Nat
    BY <1>1, <1>3, EndsInOrder DEF Tiled
  <2> QED
    BY <1>2, <1>3, <2>1
<1>6. id - 1 \in 0..NExec - 2 /\ id - 1 \in Ids /\ (id - 1) + 1 = id
  BY <1>3, <1>5
<1>7. PICK m \in DOMAIN limits : limits[m].end = last(id - 1)
  BY <1>3, <1>6 DEF Bookkeeping, Reported
<1>8. limits[m].end = first(id) /\ m \in 1..Len(limits)
  <2>1. last(id - 1) = first(id)
    BY <1>1, <1>6 DEF Tiled
  <2> QED
    BY <1>1, <1>7, <2>1
<1>9. m <= k
  <2> SUFFICES ASSUME k + 1 <= m PROVE FALSE
    BY <1>1, <1>8
  <2>1. k + 1 \in DOMAIN limits /\ (k + 1 < m => limits[k + 1].end <= limits[m].end)
    BY <1>1, <1>8 DEF Bookkeeping, Reported
  <2> QED
    BY <1>1, <1>3, <1>8, <2>1
<1>10. first(id) <= limits[k].end
  <2>1. m < k => limits[m].end <= limits[k].end
    BY <1>1, <1>8 DEF Bookkeeping, Reported
  <2> QED
    BY <1>1, <1>3, <1>8, <1>9, <2>1
<1> QED
  BY <1>1, <1>2, <1>3, <1>4, <1>10

-----------------------------------------------------------------------------
(* A step of one task changes what belongs to its own slice. *)

LEMMA ValueCases ==
  ASSUME pass \in {1, 2}, NEW id, NEW p
  PROVE  /\ algorithm = "for_each" => Value(id, p) = IF p <= Reached(id) THEN <<p, p>> ELSE <<p>>
         /\ Scanning /\ pass = 1 => Value(id, p) = IF p <= Reached(id) THEN SumOf(first(id), p) ELSE <<p>>
         /\ Scanning /\ pass = 2 => Value(id, p) = IF p <= Reached(id) THEN SumOf(0, p) ELSE SumOf(first(id), p)
         /\ algorithm # "for_each" /\ ~Scanning => Value(id, p) = <<p>>
<1>1. CASE algorithm = "for_each"
  BY <1>1 DEF Value, Scanning
<1>2. CASE Scanning /\ pass = 1
  BY <1>2 DEF Value, Scanning
<1>3. CASE Scanning /\ pass = 2
  BY <1>3 DEF Value, Scanning
<1>4. CASE algorithm # "for_each" /\ ~Scanning
  BY <1>4 DEF Value
<1> QED
  BY <1>1, <1>2, <1>3, <1>4

\* A step of one task, which leaves the others alone.
OfTask(id) ==
  /\ UNCHANGED <<call, caller, threw, pass, turn>>
  /\ \A j \in Ids : j # id => /\ task'[j] = task[j] /\ at'[j] = at[j]
                              /\ acc'[j] = acc[j] /\ it'[j] = it[j]

\* What a step of a task does to the results is what it does to its own slice.
LEMMA OwnSlice ==
  ASSUME Bookkeeping, IInv, Results, NEW id \in Ids, OfTask(id), task[id] \notin {"none", "done"},
         task'[id] # "none",
         \A q \in 1..n : ~(first(id) < q /\ q <= last(id)) => memory'[q] = memory[q],
         \A p \in first(id) + 1..last(id) : memory'[p] = Value(id, p)',
         task'[id] = "pushing" => at'[id] = last(id),
         task'[id] = "done" => at'[id] = last(id) \/ (pass = 2 /\ first(id) = 0),
         limits' = limits \/ (Told' /\ pass = 1),
         Scanning /\ task'[id] = "running" =>
           IF pass = 1 THEN acc'[id] = SumOf(first(id), at'[id])
           ELSE LET e == limits[it'[id] - 1].end IN e < n => acc'[id] = SumOf(0, e),
         algorithm = "count_if" =>
           /\ task'[id] = "running" => Len(acc'[id]) = Cardinality(PredIn(id, at'[id]))
           /\ \/ counter' = counter /\ task'[id] # "done"
              \/ counter' = Cardinality(UNION {PredIn(j, last(j)) : j \in {j \in Ids : task'[j] = "done"}}),
         algorithm \in Searches =>
           /\ task'[id] \in {"running", "done"} =>
                IF acc'[id] = <<>> THEN \A p \in first(id) + 1..at'[id] : ~Decides(p)
                                   ELSE \E p \in 1..n : Decides(p)
           /\ \/ res' = res /\ task'[id] # "done"
              \/ res' = IF \E j \in Ids : task'[j] = "done" /\ acc'[j] # <<>>
                          THEN algorithm = "any_of" ELSE algorithm # "any_of"
  PROVE  Results'
<1>1. /\ n' = n /\ algorithm' = algorithm /\ Scanning' = Scanning
      /\ \A j \in Ids : first(j)' = first(j) /\ last(j)' = last(j)
      /\ UNCHANGED <<call, caller, threw, pass, turn>>
  BY Fixed DEF OfTask
<1>2. Tiled /\ n \in Nat /\ pass \in {1, 2} /\ limits \in Seq(Limit)
  BY SizeIsNatural DEF Bookkeeping, TypeOK, Limit
<1>3. \A j \in Ids : j # id => Reached(j)' = Reached(j)
  BY <1>1 DEF OfTask, Reached
<1>4. Written'
  <2> SUFFICES ASSUME NEW j \in Ids, NEW p \in first(j) + 1..last(j)
               PROVE  memory'[p] = Value(j, p)'
    BY <1>1 DEF Written
  <2>1. CASE j = id
    BY <2>1
  <2>2. CASE j # id
    <3>1. p \in 1..n /\ p \in Nat /\ first(j) < p /\ p <= last(j)
      <4>1. first(j) \in 0..n /\ last(j) \in 0..n
        BY <1>2, Within
      <4> QED
        BY <1>2, <4>1
    <3>2. ~(first(id) < p /\ p <= last(id))
      BY <1>2, <2>2, <3>1, OneSlice
    <3>3. memory'[p] = Value(j, p)
      BY <3>1, <3>2 DEF Results, Written
    <3>4. Value(j, p)' = Value(j, p)
      BY <1>1, <1>3, <2>2 DEF Value
    <3> QED
      BY <3>3, <3>4
  <2> QED
    BY <2>1, <2>2
<1>5. Ended'
  <2> SUFFICES ASSUME NEW j \in Ids
               PROVE  /\ task'[j] = "pushing" => at'[j] = last(j)
                      /\ task'[j] = "done" => at'[j] = last(j) \/ (pass = 2 /\ first(j) = 0)
    BY <1>1 DEF Ended
  <2> QED
    BY DEF OfTask, Results, Ended
<1>6. Told'
  <2> SUFFICES ASSUME limits' = limits PROVE Told'
    OBVIOUS
  <2>1. \A j \in Ids : task[j] = "done" => task'[j] = "done"
    BY DEF OfTask
  <2> QED
    BY <1>1, <2>1 DEF Results, Told
<1>7. Summed'
  <2> SUFFICES ASSUME Scanning, NEW j \in Ids, task'[j] = "running"
               PROVE  IF pass = 1 THEN acc'[j] = SumOf(first(j), at'[j])
                      ELSE LET e == limits'[it'[j] - 1].end IN e < n => acc'[j] = SumOf(0, e)
    BY <1>1 DEF Summed
  <2>1. CASE j = id
    BY <1>2, <2>1
  <2>2. CASE j # id
    BY <1>2, <2>2 DEF OfTask, Results, Summed
  <2> QED
    BY <2>1, <2>2
<1>8. ASSUME task'[id] # "done"
      PROVE  \A j \in Ids : task'[j] = "done" <=> task[j] = "done" /\ j # id
  BY <1>8 DEF OfTask
<1>9. Counted'
  <2> SUFFICES ASSUME algorithm = "count_if" PROVE Counted'
    BY <1>1 DEF Counted
  <2>1. \A p : \A j \in Ids : PredIn(j, p)' = PredIn(j, p)
    BY <1>1 DEF PredIn
  <2>2. \A j \in Ids : task'[j] = "running" => Len(acc'[j]) = Cardinality(PredIn(j, at'[j]))
    BY DEF OfTask, Results, Counted
  <2>3. counter' = Cardinality(UNION {PredIn(j, last(j)) : j \in {j \in Ids : task'[j] = "done"}})
    <3>1. ASSUME counter' = counter, task'[id] # "done"
          PROVE  counter' = Cardinality(UNION {PredIn(j, last(j)) : j \in {j \in Ids : task'[j] = "done"}})
      <4>1. {j \in Ids : task'[j] = "done"} = {j \in Ids : task[j] = "done"}
        BY <1>8, <3>1
      <4> QED
        BY <3>1, <4>1 DEF Results, Counted
    <3> QED
      BY <3>1
  <2>4. UNION {PredIn(j, last(j)) : j \in {j \in Ids : task'[j] = "done"}}
          = UNION {PredIn(j, last(j))' : j \in {j \in Ids : task'[j] = "done"}}
    BY <1>1 DEF PredIn
  <2> QED
    BY <1>1, <2>1, <2>2, <2>3, <2>4 DEF Counted
<1>10. Found'
  <2> SUFFICES ASSUME algorithm \in Searches PROVE Found'
    BY <1>1 DEF Found
  <2>1. \A p : Decides(p)' = Decides(p)
    BY <1>1 DEF Decides
  <2>2. \A j \in Ids : task'[j] \in {"running", "done"} =>
         IF acc'[j] = <<>> THEN \A p \in first(j) + 1..at'[j] : ~Decides(p)
                           ELSE \E p \in 1..n : Decides(p)
    BY DEF OfTask, Results, Found
  <2>3. res' = IF \E j \in Ids : task'[j] = "done" /\ acc'[j] # <<>>
                 THEN algorithm = "any_of" ELSE algorithm # "any_of"
    <3>1. ASSUME res' = res, task'[id] # "done"
          PROVE  res' = IF \E j \in Ids : task'[j] = "done" /\ acc'[j] # <<>>
                          THEN algorithm = "any_of" ELSE algorithm # "any_of"
      <4>1. (\E j \in Ids : task'[j] = "done" /\ acc'[j] # <<>>)
              <=> \E j \in Ids : task[j] = "done" /\ acc[j] # <<>>
        BY <1>8, <3>1 DEF OfTask
      <4> QED
        BY <3>1, <4>1 DEF Results, Found
    <3> QED
      BY <3>1
  <2> QED
    BY <1>1, <2>1, <2>2, <2>3 DEF Found
<1>11. Complete'
  <2>1. ~(caller = "back" /\ ~threw)
    BY DEF IInv, InTurn
  <2> QED
    BY <1>1, <2>1 DEF Complete
<1> QED
  BY <1>4, <1>5, <1>6, <1>7, <1>9, <1>10, <1>11 DEF Results

-----------------------------------------------------------------------------
(* The steps of the tasks. *)

LEMMA NextValues ==
  ASSUME UNCHANGED <<call, pass>>, pass \in {1, 2}, NEW id \in Ids, NEW p
  PROVE  /\ Reached(id)' = Reached(id) => Value(id, p)' = Value(id, p)
         /\ algorithm = "for_each" => Value(id, p)' = IF p <= Reached(id)' THEN <<p, p>> ELSE <<p>>
         /\ Scanning /\ pass = 1 =>
              Value(id, p)' = IF p <= Reached(id)' THEN SumOf(first(id), p) ELSE <<p>>
         /\ Scanning /\ pass = 2 =>
              Value(id, p)' = IF p <= Reached(id)' THEN SumOf(0, p) ELSE SumOf(first(id), p)
         /\ algorithm # "for_each" /\ ~Scanning => Value(id, p)' = <<p>>
<1>1. algorithm' = algorithm /\ Scanning' = Scanning /\ first(id)' = first(id)
  BY Fixed
<1>2. Reached(id)' = Reached(id) => Value(id, p)' = Value(id, p)
  BY <1>1 DEF Value
<1>3. CASE algorithm = "for_each"
  BY <1>1, <1>2, <1>3 DEF Value, Scanning
<1>4. CASE Scanning /\ pass = 1
  BY <1>1, <1>2, <1>4 DEF Value, Scanning
<1>5. CASE Scanning /\ pass = 2
  BY <1>1, <1>2, <1>5 DEF Value, Scanning
<1>6. CASE algorithm # "for_each" /\ ~Scanning
  BY <1>1, <1>2, <1>6 DEF Value
<1> QED
  BY <1>3, <1>4, <1>5, <1>6

\* What every step of a task can rely on.
LEMMA TaskFacts ==
  ASSUME Bookkeeping, Results, NEW id \in Ids
  PROVE  /\ Tiled /\ n \in Nat /\ pass \in {1, 2} /\ limits \in Seq(Limit)
         /\ first(id) \in Nat /\ last(id) \in 0..n /\ first(id) <= last(id)
         /\ task \in [Ids -> TaskStates] /\ at \in [Ids -> 0..n] /\ acc \in [Ids -> Seq(Elements)]
         /\ it \in [Ids -> Nat] /\ memory \in [1..n -> Seq(Elements)]
         /\ pass = 2 => Scanning
         /\ \A p \in first(id) + 1..last(id) : memory[p] = Value(id, p) /\ p \in 1..n
<1>1. /\ Tiled /\ n \in Nat /\ pass \in {1, 2} /\ limits \in Seq(Limit)
      /\ first(id) \in Nat /\ last(id) \in 0..n /\ first(id) <= last(id)
  BY SizeIsNatural, Within DEF Bookkeeping, TypeOK, Limit, Tiled
<1>2. \A p \in first(id) + 1..last(id) : p \in 1..n
  BY <1>1
<1>3. \A p \in first(id) + 1..last(id) : memory[p] = Value(id, p)
  BY DEF Results, Written
<1>4. /\ task \in [Ids -> TaskStates] /\ at \in [Ids -> 0..n] /\ acc \in [Ids -> Seq(Elements)]
      /\ it \in [Ids -> Nat] /\ memory \in [1..n -> Seq(Elements)]
      /\ pass = 2 => Scanning
  BY DEF Bookkeeping, TypeOK, Reported
<1> QED
  BY <1>1, <1>2, <1>3, <1>4

\* A step that leaves the memory, the limits and where the task is alone.
LEMMA StaysThere ==
  ASSUME Bookkeeping, Results, NEW id \in Ids, UNCHANGED <<call, pass, memory>>,
         Reached(id)' = Reached(id)
  PROVE  /\ \A q \in 1..n : ~(first(id) < q /\ q <= last(id)) => memory'[q] = memory[q]
         /\ \A p \in first(id) + 1..last(id) : memory'[p] = Value(id, p)'
<1>1. /\ pass \in {1, 2} /\ \A p \in first(id) + 1..last(id) : memory[p] = Value(id, p)
  BY TaskFacts
<1> QED
  BY <1>1, NextValues

LEMMA StartResults ==
  ASSUME Bookkeeping, IInv, Results, NEW id \in Ids, Start(id)
  PROVE  Results'
<1> DEFINE k == IF InFirstSlice(id) THEN "done" ELSE "running"
<1>1. /\ task[id] \in {"queued", "deferred"}
      /\ task' = [task EXCEPT ![id] = k]
      /\ at' = [at EXCEPT ![id] = first(id)]
      /\ acc' = [acc EXCEPT ![id] = IF pass = 1 THEN <<>> ELSE limits[1].sum]
      /\ it' = [it EXCEPT ![id] = 2]
      /\ UNCHANGED <<call, caller, threw, pass, turn, memory, counter, res, limits>>
  BY DEF Start, first, results, lockvars, params, grid
<1>2. /\ Tiled /\ n \in Nat /\ pass \in {1, 2} /\ limits \in Seq(Limit)
      /\ first(id) \in Nat /\ last(id) \in 0..n /\ first(id) <= last(id)
      /\ task \in [Ids -> TaskStates] /\ at \in [Ids -> 0..n] /\ acc \in [Ids -> Seq(Elements)]
      /\ it \in [Ids -> Nat] /\ (pass = 2 => Scanning)
  BY TaskFacts
<1>3. k \in {"done", "running"} /\ (k = "done" => InFirstSlice(id))
  OBVIOUS
<1> HIDE DEF k
<1>4. /\ OfTask(id) /\ task'[id] = k /\ at'[id] = first(id) /\ it'[id] = 2
      /\ acc'[id] = IF pass = 1 THEN <<>> ELSE limits[1].sum
  BY <1>1, <1>2 DEF OfTask
<1>5. task[id] \notin {"none", "done"} /\ task'[id] # "none" /\ task'[id] # "pushing"
  BY <1>1, <1>3, <1>4
<1>6. Reached(id)' = Reached(id)
  <2>1. first(id)' = first(id)
    BY <1>1, Fixed
  <2> QED
    BY <1>1, <1>3, <1>4, <2>1 DEF Reached
<1>7. /\ \A q \in 1..n : ~(first(id) < q /\ q <= last(id)) => memory'[q] = memory[q]
      /\ \A p \in first(id) + 1..last(id) : memory'[p] = Value(id, p)'
  BY <1>1, <1>6, StaysThere
<1>8. task'[id] = "done" => pass = 2 /\ first(id) = 0
  <2> SUFFICES ASSUME task'[id] = "done" PROVE pass = 2 /\ first(id) = 0
    OBVIOUS
  <2>1. pass = 2 /\ first(id) < limits[1].end
    BY <1>3, <1>4 DEF InFirstSlice, first
  <2>2. first(id) < last(0)
    BY <2>1, FirstLimit DEF Results
  <2>3. 0 \in Ids /\ id \in Nat /\ last(0) \in Nat /\ first(0) = 0
    BY <1>2 DEF Tiled, Ids
  <2>4. ~(0 < id)
    BY <1>2, <2>2, <2>3, SlicesInOrder
  <2> QED
    BY <2>1, <2>3, <2>4
<1>9. /\ SumOf(first(id), first(id)) = <<>> /\ \A p \in first(id) + 1..first(id) : FALSE
  <2>1. first(id) \in Nat /\ first(id) <= first(id)
    BY <1>2
  <2>2. SumOf(first(id), first(id)) = <<>>
    BY <2>1, SumsAdd
  <2> QED
    BY <2>1, <2>2
<1>10. Scanning /\ task'[id] = "running" =>
         IF pass = 1 THEN acc'[id] = SumOf(first(id), at'[id])
         ELSE LET e == limits[it'[id] - 1].end IN e < n => acc'[id] = SumOf(0, e)
  <2>1. CASE pass = 1
    BY <1>4, <1>9, <2>1
  <2>2. CASE pass = 2
    BY <1>4, <2>2, FirstLimit DEF Results
  <2> QED
    BY <1>2, <2>1, <2>2
<1>11. ASSUME ~Scanning PROVE task'[id] = "running" /\ acc'[id] = <<>>
  BY <1>2, <1>3, <1>4, <1>8, <1>11
<1>12. algorithm = "count_if" => /\ task'[id] = "running" => Len(acc'[id]) = Cardinality(PredIn(id, at'[id]))
                                 /\ counter' = counter /\ task'[id] # "done"
  <2> SUFFICES ASSUME algorithm = "count_if"
               PROVE  Len(acc'[id]) = Cardinality(PredIn(id, at'[id])) /\ task'[id] # "done"
    BY <1>1
  <2>1. PredIn(id, at'[id]) = {}
    BY <1>4, <1>9 DEF PredIn
  <2> QED
    BY <1>11, <2>1, FS_EmptySet DEF Scanning
<1>13. algorithm \in Searches =>
         /\ task'[id] \in {"running", "done"} =>
              IF acc'[id] = <<>> THEN \A p \in first(id) + 1..at'[id] : ~Decides(p)
                                 ELSE \E p \in 1..n : Decides(p)
         /\ res' = res /\ task'[id] # "done"
  BY <1>1, <1>4, <1>9, <1>11 DEF Scanning, Searches
<1> QED
  BY <1>1, <1>4, <1>5, <1>7, <1>8, <1>10, <1>12, <1>13, OwnSlice

\* A task writes its element.
LEMMA OneWritten ==
  ASSUME Bookkeeping, Results, NEW id \in Ids, NEW p \in 1..n, AtElement(id, p),
         UNCHANGED <<call, pass, task>>, at'[id] = p,
         NEW x, memory' = [memory EXCEPT ![p] = x], x = Value(id, p)'
  PROVE  /\ \A q \in 1..n : ~(first(id) < q /\ q <= last(id)) => memory'[q] = memory[q]
         /\ \A q \in first(id) + 1..last(id) : memory'[q] = Value(id, q)'
<1>1. /\ task[id] = "running" /\ at[id] = p - 1 /\ first(id) < p /\ p <= last(id)
      /\ memory \in [1..n -> Seq(Elements)] /\ pass \in {1, 2} /\ n \in Nat
      /\ \A q \in first(id) + 1..last(id) : memory[q] = Value(id, q) /\ q \in 1..n
  BY AtItsElement, TaskFacts
<1>2. \A q \in 1..n : memory'[q] = IF q = p THEN x ELSE memory[q]
  BY <1>1
<1>3. Reached(id) = p - 1 /\ Reached(id)' = p
  BY <1>1 DEF Reached
<1>4. ASSUME NEW q \in 1..n, q # p PROVE Value(id, q)' = Value(id, q)
  <2>1. q <= p - 1 <=> q <= p
    BY <1>1, <1>4
  <2>2. algorithm' = algorithm /\ Scanning' = Scanning /\ first(id)' = first(id)
    BY Fixed
  <2> QED
    BY <1>3, <2>1, <2>2 DEF Value
<1> QED
  BY <1>1, <1>2, <1>4

LEMMA NotWritten ==
  ASSUME Bookkeeping, Results, NEW id \in Ids, algorithm # "for_each", ~Scanning,
         UNCHANGED <<call, pass, memory>>
  PROVE  /\ \A q \in 1..n : ~(first(id) < q /\ q <= last(id)) => memory'[q] = memory[q]
         /\ \A q \in first(id) + 1..last(id) : memory'[q] = Value(id, q)'
<1>1. pass \in {1, 2} /\ \A q \in first(id) + 1..last(id) : memory[q] = Value(id, q)
  BY TaskFacts
<1>2. \A q : Value(id, q) = <<q>> /\ Value(id, q)' = <<q>>
  BY <1>1, ValueCases, NextValues
<1> QED
  BY <1>1, <1>2

\* What the steps of a task with elements left have in common.
LEMMA ElementFacts ==
  ASSUME Bookkeeping, Results, NEW id \in Ids, NEW p \in 1..n, AtElement(id, p)
  PROVE  /\ task[id] = "running" /\ at[id] = p - 1 /\ first(id) < p /\ p <= last(id)
         /\ n \in Nat /\ last(id) \in 0..n /\ first(id) \in Nat /\ pass \in {1, 2}
         /\ (pass = 2 => Scanning) /\ Reached(id) = p - 1
         /\ memory[p] = Value(id, p) /\ memory \in [1..n -> Seq(Elements)]
         /\ at \in [Ids -> 0..n] /\ acc \in [Ids -> Seq(Elements)] /\ it \in [Ids -> Nat]
<1>1. task[id] = "running" /\ at[id] = p - 1 /\ first(id) < p /\ p <= last(id)
  BY AtItsElement
<1>2. p \in first(id) + 1..last(id)
  BY <1>1, TaskFacts
<1> QED
  BY <1>1, <1>2, TaskFacts DEF Reached

LEMMA ForEachResults ==
  ASSUME Bookkeeping, IInv, Results, NEW id \in Ids, NEW p \in 1..n, ForEach(id, p)
  PROVE  Results'
<1>1. /\ AtElement(id, p) /\ algorithm = "for_each" /\ ~Scanning
      /\ memory' = [memory EXCEPT ![p] = Append(@, p)] /\ at' = [at EXCEPT ![id] = p]
      /\ UNCHANGED <<call, caller, threw, pass, turn, task, acc, it, limits>>
  BY DEF ForEach, Work, Scanning, params, grid, lockvars
<1>2. /\ task[id] = "running" /\ first(id) < p /\ p <= last(id) /\ Reached(id) = p - 1
      /\ pass \in {1, 2} /\ memory[p] = Value(id, p) /\ at \in [Ids -> 0..n] /\ n \in Nat
  BY <1>1, ElementFacts
<1>3. OfTask(id) /\ at'[id] = p /\ task'[id] = "running"
  BY <1>1, <1>2 DEF OfTask
<1>4. memory[p] = <<p>> /\ Value(id, p)' = <<p, p>>
  <2>1. ~(p <= Reached(id)) /\ Reached(id)' = p /\ p <= p
    BY <1>2, <1>3 DEF Reached
  <2> QED
    BY <1>1, <1>2, <2>1, ValueCases, NextValues
<1>5. Append(memory[p], p) = <<p, p>>
  <2>1. Append(<<p>>, p) = <<p, p>>
    <3> DEFINE t == Append(<<p>>, p)
               u == <<p, p>>
    <3>1. t \in Seq({p}) /\ Len(t) = 2 /\ t[1] = p /\ t[2] = p
      OBVIOUS
    <3>2. u \in Seq({p}) /\ Len(u) = 2 /\ u[1] = p /\ u[2] = p
      OBVIOUS
    <3> HIDE DEF t, u
    <3>3. \A i \in 1..Len(t) : t[i] = u[i]
      BY <3>1, <3>2
    <3> QED
      BY <3>1, <3>2, <3>3, SeqEqual DEF t, u
  <2> QED
    BY <1>4, <2>1
<1>6. /\ \A q \in 1..n : ~(first(id) < q /\ q <= last(id)) => memory'[q] = memory[q]
      /\ \A q \in first(id) + 1..last(id) : memory'[q] = Value(id, q)'
  <2> DEFINE x == Append(memory[p], p)
  <2>1. memory' = [memory EXCEPT ![p] = x] /\ x = Value(id, p)'
    BY <1>1, <1>4, <1>5
  <2> HIDE DEF x
  <2> QED
    BY <1>1, <1>3, <2>1, OneWritten
<1>7. algorithm # "count_if" /\ algorithm \notin Searches
  BY <1>1 DEF Searches
<1>8. task[id] \notin {"none", "done"} /\ task'[id] \notin {"none", "pushing", "done"}
  BY <1>2, <1>3
<1> QED
  BY <1>1, <1>3, <1>6, <1>7, <1>8, OwnSlice

LEMMA PredGrows ==
  ASSUME call \in Calls, NEW id \in Ids, NEW p \in 1..n, first(id) < p, first(id) \in Nat
  PROVE  /\ IsFiniteSet(PredIn(id, p - 1)) /\ p \notin PredIn(id, p - 1)
         /\ p \in call.pred => PredIn(id, p) = PredIn(id, p - 1) \cup {p}
         /\ p \notin call.pred => PredIn(id, p) = PredIn(id, p - 1)
<1>1. n \in Nat /\ p \in Nat
  BY SizeIsNatural
<1>2. first(id) + 1..p = (first(id) + 1..p - 1) \cup {p} /\ p \notin first(id) + 1..p - 1
  BY <1>1
<1>3. IsFiniteSet(first(id) + 1..p - 1)
  <2>1. first(id) + 1 \in Int /\ p - 1 \in Int
    BY <1>1
  <2> QED
    BY <2>1, FS_Interval
<1>4. IsFiniteSet(PredIn(id, p - 1))
  BY <1>3, FS_Subset DEF PredIn
<1> QED
  BY <1>2, <1>4 DEF PredIn

LEMMA CountResults ==
  ASSUME Bookkeeping, IInv, Results, NEW id \in Ids, NEW p \in 1..n, Count(id, p)
  PROVE  Results'
<1>1. /\ AtElement(id, p) /\ algorithm = "count_if" /\ ~Scanning
      /\ acc' = IF p \in call.pred THEN [acc EXCEPT ![id] = Append(@, p)] ELSE acc
      /\ at' = [at EXCEPT ![id] = p]
      /\ UNCHANGED <<call, caller, threw, pass, turn, task, it, limits, memory, counter, res>>
  BY DEF Count, Work, Scanning, params, grid, lockvars, results
<1>2. /\ task[id] = "running" /\ first(id) < p /\ p <= last(id) /\ at[id] = p - 1 /\ first(id) \in Nat
      /\ at \in [Ids -> 0..n] /\ n \in Nat /\ acc \in [Ids -> Seq(Elements)]
  BY <1>1, ElementFacts
<1>3. OfTask(id) /\ at'[id] = p /\ task'[id] = "running"
  BY <1>1, <1>2 DEF OfTask
<1>4. /\ \A q \in 1..n : ~(first(id) < q /\ q <= last(id)) => memory'[q] = memory[q]
      /\ \A q \in first(id) + 1..last(id) : memory'[q] = Value(id, q)'
  BY <1>1, NotWritten
<1>5. Len(acc'[id]) = Cardinality(PredIn(id, at'[id]))
  <2>1. Len(acc[id]) = Cardinality(PredIn(id, p - 1)) /\ call \in Calls /\ acc[id] \in Seq(Elements)
    BY <1>1, <1>2 DEF Results, Counted, Bookkeeping, TypeOK
  <2>2. /\ IsFiniteSet(PredIn(id, p - 1)) /\ p \notin PredIn(id, p - 1)
        /\ p \in call.pred => PredIn(id, p) = PredIn(id, p - 1) \cup {p}
        /\ p \notin call.pred => PredIn(id, p) = PredIn(id, p - 1)
    BY <1>2, <2>1, PredGrows
  <2>3. CASE p \in call.pred
    <3>1. acc'[id] = Append(acc[id], p)
      BY <1>1, <1>2, <2>3
    <3>2. Len(acc'[id]) = Len(acc[id]) + 1
      BY <2>1, <3>1
    <3>3. Cardinality(PredIn(id, p)) = Cardinality(PredIn(id, p - 1)) + 1
      BY <2>2, <2>3, FS_AddElement
    <3> QED
      BY <1>3, <2>1, <3>2, <3>3
  <2>4. CASE p \notin call.pred
    BY <1>1, <1>3, <2>1, <2>2, <2>4
  <2> QED
    BY <2>3, <2>4
<1>6. algorithm \notin Searches
  BY <1>1 DEF Searches
<1>7. task[id] \notin {"none", "done"} /\ task'[id] \notin {"none", "pushing", "done"}
  BY <1>2, <1>3
<1> QED
  BY <1>1, <1>3, <1>4, <1>5, <1>6, <1>7, OwnSlice

LEMMA SearchResults ==
  ASSUME Bookkeeping, IInv, Results, NEW id \in Ids, NEW p \in 1..n, Search(id, p)
  PROVE  Results'
<1>1. /\ AtElement(id, p) /\ algorithm \in Searches /\ ~Scanning /\ algorithm # "for_each" /\ algorithm # "count_if"
      /\ IF Decides(p)
           THEN acc' = [acc EXCEPT ![id] = <<p>>] /\ at' = [at EXCEPT ![id] = last(id)]
           ELSE acc' = acc /\ at' = [at EXCEPT ![id] = p]
      /\ UNCHANGED <<call, caller, threw, pass, turn, task, it, limits, memory, counter, res>>
  BY DEF Search, Work, Scanning, Searches, params, grid, lockvars, results, last
<1>2. /\ task[id] = "running" /\ first(id) < p /\ p <= last(id) /\ at[id] = p - 1 /\ first(id) \in Nat
      /\ at \in [Ids -> 0..n] /\ n \in Nat /\ acc \in [Ids -> Seq(Elements)]
  BY <1>1, ElementFacts
<1>3. OfTask(id) /\ task'[id] = "running"
  BY <1>1, <1>2 DEF OfTask
<1>4. /\ \A q \in 1..n : ~(first(id) < q /\ q <= last(id)) => memory'[q] = memory[q]
      /\ \A q \in first(id) + 1..last(id) : memory'[q] = Value(id, q)'
  BY <1>1, NotWritten
<1>5. IF acc[id] = <<>> THEN \A q \in first(id) + 1..at[id] : ~Decides(q)
                        ELSE \E q \in 1..n : Decides(q)
  BY <1>1, <1>2 DEF Results, Found
<1>6. IF acc'[id] = <<>> THEN \A q \in first(id) + 1..at'[id] : ~Decides(q)
                         ELSE \E q \in 1..n : Decides(q)
  <2>1. CASE Decides(p)
    <3>1. acc'[id] = <<p>> /\ <<p>> # <<>>
      BY <1>1, <1>2, <2>1
    <3> QED
      BY <2>1, <3>1
  <2>2. CASE ~Decides(p)
    <3>1. acc'[id] = acc[id] /\ at'[id] = p
      BY <1>1, <1>2, <2>2
    <3>2. \A q \in first(id) + 1..p : q = p \/ q \in first(id) + 1..at[id]
      BY <1>2
    <3> QED
      BY <1>5, <2>2, <3>1, <3>2
  <2> QED
    BY <2>1, <2>2
<1>7. task[id] \notin {"none", "done"} /\ task'[id] \notin {"none", "pushing", "done"}
  BY <1>2, <1>3
<1> QED
  BY <1>1, <1>3, <1>4, <1>6, <1>7, OwnSlice

\* Where the second pass is at an element no limit is left before it, and the
\* last that was added is at the beginning of its slice.
LEMMA AddedUpToSlice ==
  ASSUME Bookkeeping, Results, WellFormed, NEW id \in Ids, NEW p \in 1..n,
         AtElement(id, p), ~LimitsLeft(id), pass = 2
  PROVE  acc[id] = SumOf(0, first(id))
<1>1. /\ task[id] = "running" /\ at[id] = p - 1 /\ first(id) < p /\ p <= last(id)
      /\ n \in Nat /\ last(id) \in 0..n /\ first(id) \in Nat /\ Scanning
  BY ElementFacts
<1>2. /\ it[id] \in 2..Len(limits) + 1 /\ limits[it[id] - 1].end <= at[id]
  BY <1>1 DEF Bookkeeping, Placed
<1>3. it[id] <= Len(limits) /\ at[id] < last(id)
  BY <1>1 DEF WellFormed, LimitsSuffice, last
<1>4. Len(limits) \in Nat /\ it[id] - 1 \in 1..Len(limits) /\ it[id] \in 1..Len(limits) /\ (it[id] - 1) + 1 = it[id]
  <2>1. Len(limits) \in Nat
    BY LimitsAreThere
  <2> QED
    BY <1>2, <1>3, <2>1
<1>5. limits[it[id]].end \in 0..n /\ limits[it[id] - 1].end \in 0..n
  BY <1>4, LimitIsEnd DEF Results
<1>6. at[id] < limits[it[id]].end
  BY <1>1, <1>3, <1>4, <1>5 DEF LimitsLeft
<1>7. limits[it[id] - 1].end < last(id) /\ first(id) < limits[(it[id] - 1) + 1].end
  BY <1>1, <1>2, <1>3, <1>4, <1>5, <1>6
<1>8. limits[it[id] - 1].end = first(id)
  BY <1>3, <1>4, <1>7, NextLimit DEF Results
<1>9. first(id) < n
  BY <1>1
<1> QED
  BY <1>1, <1>8, <1>9 DEF Results, Summed

LEMMA SumResults ==
  ASSUME Bookkeeping, IInv, Results, WellFormed, NEW id \in Ids, NEW p \in 1..n, Sum(id, p)
  PROVE  Results'
<1>1. /\ AtElement(id, p) /\ ~LimitsLeft(id) /\ Scanning /\ algorithm # "count_if" /\ algorithm \notin Searches
      /\ memory' = [memory EXCEPT ![p] = acc[id] \o @]
      /\ acc' = IF pass = 1 THEN [acc EXCEPT ![id] = acc[id] \o memory[p]] ELSE acc
      /\ at' = [at EXCEPT ![id] = p]
      /\ UNCHANGED <<call, caller, threw, pass, turn, task, it, limits, counter, res>>
  BY DEF Sum, Work, Scanning, Searches, params, grid, lockvars
<1>2. /\ task[id] = "running" /\ first(id) < p /\ p <= last(id) /\ at[id] = p - 1 /\ first(id) \in Nat
      /\ at \in [Ids -> 0..n] /\ n \in Nat /\ acc \in [Ids -> Seq(Elements)] /\ Reached(id) = p - 1
      /\ pass \in {1, 2} /\ memory[p] = Value(id, p) /\ memory \in [1..n -> Seq(Elements)]
  BY <1>1, ElementFacts
<1>3. OfTask(id) /\ at'[id] = p /\ task'[id] = "running" /\ Reached(id)' = p
  BY <1>1, <1>2 DEF OfTask, Reached
<1>4. ~(p <= Reached(id)) /\ p <= Reached(id)'
  BY <1>2, <1>3
<1>5. acc[id] \o memory[p] = Value(id, p)' /\ (pass = 1 => acc'[id] = SumOf(first(id), p))
  <2>1. CASE pass = 1
    <3>1. memory[p] = <<p>> /\ Value(id, p)' = SumOf(first(id), p)
      BY <1>1, <1>2, <1>4, <2>1, ValueCases, NextValues
    <3>2. acc[id] = SumOf(first(id), p - 1)
      BY <1>1, <1>2, <2>1 DEF Results, Summed
    <3>3. SumOf(first(id), p - 1) \o <<p>> = SumOf(first(id), p)
      <4>1. p - 1 \in Nat /\ first(id) <= p - 1 /\ (p - 1) + 1 = p /\ p - 1 <= p - 1
        BY <1>2
      <4> QED
        BY <1>2, <4>1, SumsAdd
    <3> QED
      BY <1>1, <1>2, <2>1, <3>1, <3>2, <3>3
  <2>2. CASE pass = 2
    <3>1. memory[p] = SumOf(first(id), p) /\ Value(id, p)' = SumOf(0, p)
      BY <1>1, <1>2, <1>4, <2>2, ValueCases, NextValues
    <3>2. acc[id] = SumOf(0, first(id))
      BY <1>1, <2>2, AddedUpToSlice
    <3>3. SumOf(0, first(id)) \o SumOf(first(id), p) = SumOf(0, p)
      <4>1. 0 \in Nat /\ p \in Nat /\ 0 <= first(id) /\ first(id) <= p
        BY <1>2
      <4> QED
        BY <1>2, <4>1, SumsAdd
    <3> QED
      BY <2>2, <3>1, <3>2, <3>3
  <2> QED
    BY <1>2, <2>1, <2>2
<1>6. /\ \A q \in 1..n : ~(first(id) < q /\ q <= last(id)) => memory'[q] = memory[q]
      /\ \A q \in first(id) + 1..last(id) : memory'[q] = Value(id, q)'
  <2> DEFINE x == acc[id] \o memory[p]
  <2>1. memory' = [memory EXCEPT ![p] = x] /\ x = Value(id, p)'
    BY <1>1, <1>5
  <2> HIDE DEF x
  <2> QED
    BY <1>1, <1>3, <2>1, OneWritten
<1>7. IF pass = 1 THEN acc'[id] = SumOf(first(id), at'[id])
      ELSE LET e == limits[it'[id] - 1].end IN e < n => acc'[id] = SumOf(0, e)
  <2>1. CASE pass = 1
    BY <1>3, <1>5, <2>1
  <2>2. CASE pass # 1
    BY <1>1, <1>2, <2>2 DEF Results, Summed
  <2> QED
    BY <2>1, <2>2
<1>8. task[id] \notin {"none", "done"} /\ task'[id] \notin {"none", "pushing", "done"}
  BY <1>2, <1>3
<1> QED
  BY <1>1, <1>3, <1>6, <1>7, <1>8, OwnSlice

\* One limit more: those added so far are all elements before it.
LEMMA AddLimitResults ==
  ASSUME Bookkeeping, IInv, Results, NEW id \in Ids, NEW p \in 1..n, AddLimit(id, p)
  PROVE  Results'
<1>1. /\ AtElement(id, p) /\ pass = 2 /\ it[id] <= Len(limits) /\ at[id] >= limits[it[id]].end
      /\ acc' = [acc EXCEPT ![id] = @ \o limits[it[id]].sum]
      /\ it' = [it EXCEPT ![id] = @ + 1]
      /\ UNCHANGED <<call, caller, threw, pass, turn, task, at, limits, memory, counter, res>>
  BY DEF AddLimit, LimitsLeft, params, grid, lockvars, results
<1>2. /\ task[id] = "running" /\ p <= last(id) /\ at[id] = p - 1 /\ Scanning
      /\ last(id) \in 0..n /\ n \in Nat /\ acc \in [Ids -> Seq(Elements)] /\ it \in [Ids -> Nat]
      /\ algorithm # "count_if" /\ algorithm \notin Searches
  BY <1>1, ElementFacts DEF Scanning, Searches
<1>3. OfTask(id) /\ task'[id] = "running" /\ it'[id] = it[id] + 1 /\ Reached(id)' = Reached(id)
      /\ acc'[id] = acc[id] \o limits[it[id]].sum
  <2>1. first(id)' = first(id)
    BY <1>1, Fixed
  <2> QED
    BY <1>1, <1>2, <2>1 DEF OfTask, Reached
<1>4. /\ \A q \in 1..n : ~(first(id) < q /\ q <= last(id)) => memory'[q] = memory[q]
      /\ \A q \in first(id) + 1..last(id) : memory'[q] = Value(id, q)'
  BY <1>1, <1>3, StaysThere
<1>5. it[id] \in 2..Len(limits) + 1 /\ it[id] - 1 \in 1..Len(limits) /\ it[id] \in 1..Len(limits)
      /\ (it[id] - 1) + 1 = it[id] /\ DOMAIN limits = 1..Len(limits)
  <2>1. Len(limits) \in Nat /\ it[id] \in 2..Len(limits) + 1
    BY <1>1, <1>2, LimitsAreThere DEF Bookkeeping, Placed
  <2>2. DOMAIN limits = 1..Len(limits)
    BY DEF Bookkeeping, TypeOK
  <2> QED
    BY <1>1, <2>1, <2>2
<1>6. PICK j \in Ids : /\ limits[it[id]].end = last(j)
                       /\ last(j) < n => limits[it[id]].sum = SumOf(first(j), last(j))
  BY <1>5, LimitIsEnd DEF Results
<1>7. /\ limits[it[id]].end \in 0..n /\ limits[it[id] - 1].end \in 0..n /\ Tiled
      /\ first(j) \in Nat /\ last(j) \in 0..n
  BY <1>5, LimitIsEnd, TaskFacts DEF Results
<1>8. last(j) < n
  BY <1>1, <1>2, <1>6, <1>7
<1>9. limits[it[id] - 1].end < last(j)
  <2>1. limits[it[id] - 1].end <= limits[it[id]].end
    BY <1>1, <1>5 DEF Bookkeeping, Reported
  <2>2. limits[it[id] - 1].end # limits[it[id]].end
    <3>1. it[id] - 1 # it[id]
      BY <1>5
    <3> QED
      BY <1>5, <1>6, <1>7, <1>8, <3>1 DEF Results, Told
  <2> QED
    BY <1>6, <1>7, <2>1, <2>2
<1>10. first(j) < last(j)
  BY <1>2, <1>7, <1>8 DEF Tiled
<1>11. limits[it[id] - 1].end = first(j)
  <2>1. (it[id] - 1) + 1 <= Len(limits) /\ first(j) < limits[(it[id] - 1) + 1].end
    BY <1>1, <1>5, <1>6, <1>10
  <2> DEFINE k == it[id] - 1
  <2>2. /\ k \in 1..Len(limits) /\ k + 1 <= Len(limits) /\ first(j) < limits[k + 1].end
        /\ limits[k].end < last(j) /\ Told
    BY <1>5, <1>9, <2>1 DEF Results
  <2> HIDE DEF k
  <2>3. limits[k].end = first(j)
    BY <1>1, <2>2, NextLimit
  <2> QED
    BY <2>3 DEF k
<1>12. acc[id] = SumOf(0, first(j))
  <2>1. limits[it[id] - 1].end < n
    BY <1>2, <1>7, <1>8, <1>9
  <2> QED
    BY <1>1, <1>2, <1>11, <2>1 DEF Results, Summed
<1>13. SumOf(0, first(j)) \o SumOf(first(j), last(j)) = SumOf(0, last(j))
  <2>1. 0 \in Nat /\ 0 <= first(j) /\ first(j) <= last(j) /\ last(j) \in Nat
    BY <1>7, <1>10
  <2> QED
    BY <1>7, <2>1, SumsAdd
<1>14. limits[it'[id] - 1].end = last(j) /\ acc'[id] = SumOf(0, last(j))
  <2>1. it'[id] - 1 = it[id]
    BY <1>3, <1>5
  <2> QED
    BY <1>3, <1>6, <1>8, <1>12, <1>13, <2>1
<1>15. task[id] \notin {"none", "done"} /\ task'[id] \notin {"none", "pushing", "done"}
  BY <1>2, <1>3
<1>16. IF pass = 1 THEN acc'[id] = SumOf(first(id), at'[id])
       ELSE LET e == limits[it'[id] - 1].end IN e < n => acc'[id] = SumOf(0, e)
  BY <1>1, <1>14
<1> QED
  BY <1>1, <1>2, <1>3, <1>4, <1>15, <1>16, OwnSlice

\* The task fails, or it gets the lock.
LEMMA StopResults ==
  ASSUME Bookkeeping, IInv, Results, NEW id \in Ids, Lock(id) \/ \E p \in 1..n : Throw(id, p)
  PROVE  Results'
<1>1. PICK k \in {"pushing", "failed"} :
        /\ task[id] = "running" /\ task' = [task EXCEPT ![id] = k]
        /\ k = "pushing" => at[id] = last(id) /\ Scanning
        /\ UNCHANGED <<call, caller, threw, pass, turn, at, acc, it, limits, memory, counter, res>>
  BY DEF Lock, Throw, AtEnd, AtElement, last, Scanning, params, grid, lockvars, results
<1>2. task \in [Ids -> TaskStates]
  BY TaskFacts
<1>3. OfTask(id) /\ task'[id] = k /\ Reached(id)' = Reached(id)
  <2>1. first(id)' = first(id)
    BY <1>1, Fixed
  <2> QED
    BY <1>1, <1>2, <2>1 DEF OfTask, Reached
<1>4. /\ \A q \in 1..n : ~(first(id) < q /\ q <= last(id)) => memory'[q] = memory[q]
      /\ \A q \in first(id) + 1..last(id) : memory'[q] = Value(id, q)'
  BY <1>1, <1>3, StaysThere
<1>5. /\ task[id] \notin {"none", "done"} /\ task'[id] \notin {"none", "running", "done"}
      /\ task'[id] = "pushing" => at'[id] = last(id)
  BY <1>1, <1>3
<1> QED
  BY <1>1, <1>3, <1>4, <1>5, OwnSlice

\* What the tasks that are done have counted together.
LEMMA CountsAdd ==
  ASSUME Bookkeeping, NEW id \in Ids, task[id] # "done", OfTask(id), task'[id] = "done"
  PROVE  LET before == UNION {PredIn(j, last(j)) : j \in {j \in Ids : task[j] = "done"}}
             after  == UNION {PredIn(j, last(j)) : j \in {j \in Ids : task'[j] = "done"}}
         IN  Cardinality(after) = Cardinality(before) + Cardinality(PredIn(id, last(id)))
<1> DEFINE before == UNION {PredIn(j, last(j)) : j \in {j \in Ids : task[j] = "done"}}
           after == UNION {PredIn(j, last(j)) : j \in {j \in Ids : task'[j] = "done"}}
           mine == PredIn(id, last(id))
<1>1. Tiled /\ n \in Nat /\ call \in Calls
  BY SizeIsNatural DEF Bookkeeping, TypeOK
<1>2. {j \in Ids : task'[j] = "done"} = {j \in Ids : task[j] = "done"} \cup {id}
  BY DEF OfTask
<1>3. after = before \cup mine
  BY <1>2
<1>4. ASSUME NEW p \in before, p \in mine PROVE FALSE
  <2>1. PICK j \in Ids : task[j] = "done" /\ p \in PredIn(j, last(j))
    OBVIOUS
  <2>2. p \in first(j) + 1..last(j) /\ p \in first(id) + 1..last(id)
    BY <1>4, <2>1 DEF PredIn
  <2>3. p \in Nat /\ first(j) < p /\ p <= last(j) /\ first(id) < p /\ p <= last(id)
    <3>1. first(j) \in Nat /\ last(j) \in Nat /\ first(id) \in Nat /\ last(id) \in Nat
      BY <1>1 DEF Tiled
    <3> QED
      BY <2>2, <3>1
  <2>4. j = id
    BY <1>1, <2>3, OneSlice
  <2> QED
    BY <2>1, <2>4
<1>5. IsFiniteSet(before) /\ IsFiniteSet(mine)
  <2>1. before \subseteq call.pred /\ mine \subseteq call.pred
    BY DEF PredIn
  <2>2. call.pred \subseteq 1..n /\ IsFiniteSet(1..n)
    <3>1. IsFiniteSet(1..n)
      BY <1>1, FS_Interval
    <3> QED
      BY <1>1, <3>1 DEF Calls, n
  <2> HIDE DEF before, mine
  <2>3. before \in SUBSET (1..n) /\ mine \in SUBSET (1..n)
    BY <2>1, <2>2
  <2> QED
    BY <2>2, <2>3, FS_Subset
<1> HIDE DEF before, after, mine
<1>6. before \cap mine = {}
  BY <1>4
<1>7. /\ Cardinality(before \cup mine) = Cardinality(before) + Cardinality(mine) - Cardinality(before \cap mine)
      /\ Cardinality(before) \in Nat /\ Cardinality(mine) \in Nat /\ Cardinality({}) = 0
  BY <1>5, FS_Union, FS_CardinalityType, FS_EmptySet
<1>8. Cardinality(after) = Cardinality(before) + Cardinality(mine)
  <2>1. Cardinality(after) = Cardinality(before \cup mine) /\ Cardinality(before \cap mine) = 0
    BY <1>3, <1>6, <1>7, Zenon
  <2> QED
    BY <1>7, <2>1
<1> QED
  BY <1>8 DEF before, after, mine

LEMMA FinishResults ==
  ASSUME Bookkeeping, IInv, Results, NEW id \in Ids, Finish(id)
  PROVE  Results'
<1>1. /\ task[id] = "running" /\ at[id] = last(id) /\ ~(Scanning /\ pass = 1)
      /\ task' = [task EXCEPT ![id] = "done"]
      /\ counter' = IF algorithm = "count_if" THEN counter + Len(acc[id]) ELSE counter
      /\ res' = IF algorithm \in Searches /\ acc[id] # <<>> THEN algorithm = "any_of" ELSE res
      /\ UNCHANGED <<call, caller, threw, pass, turn, at, acc, it, limits, memory>>
  BY DEF Finish, AtEnd, last, Scanning, params, grid, lockvars
<1>2. task \in [Ids -> TaskStates]
  BY TaskFacts
<1>3. OfTask(id) /\ task'[id] = "done" /\ Reached(id)' = Reached(id)
      /\ \A j \in Ids : task'[j] = "done" <=> task[j] = "done" \/ j = id
  <2>1. first(id)' = first(id)
    BY <1>1, Fixed
  <2> QED
    BY <1>1, <1>2, <2>1 DEF OfTask, Reached
<1>4. /\ \A q \in 1..n : ~(first(id) < q /\ q <= last(id)) => memory'[q] = memory[q]
      /\ \A q \in first(id) + 1..last(id) : memory'[q] = Value(id, q)'
  BY <1>1, <1>3, StaysThere
<1>5. algorithm = "count_if" =>
        counter' = Cardinality(UNION {PredIn(j, last(j)) : j \in {j \in Ids : task'[j] = "done"}})
  <2> SUFFICES ASSUME algorithm = "count_if"
      PROVE  counter' = Cardinality(UNION {PredIn(j, last(j)) : j \in {j \in Ids : task'[j] = "done"}})
    OBVIOUS
  <2>1. /\ Len(acc[id]) = Cardinality(PredIn(id, last(id)))
        /\ counter = Cardinality(UNION {PredIn(j, last(j)) : j \in {j \in Ids : task[j] = "done"}})
    BY <1>1 DEF Results, Counted
  <2>2. task[id] # "done"
    BY <1>1
  <2> QED
    BY <1>1, <1>3, <2>1, <2>2, CountsAdd
<1>6. algorithm \in Searches =>
        /\ IF acc'[id] = <<>> THEN \A p \in first(id) + 1..at'[id] : ~Decides(p)
                              ELSE \E p \in 1..n : Decides(p)
        /\ res' = IF \E j \in Ids : task'[j] = "done" /\ acc'[j] # <<>>
                    THEN algorithm = "any_of" ELSE algorithm # "any_of"
  BY <1>1, <1>3 DEF Results, Found
<1>7. task[id] \notin {"none", "done"} /\ task'[id] \notin {"none", "running", "pushing"}
  BY <1>1, <1>3
<1> QED
  BY <1>1, <1>3, <1>4, <1>5, <1>6, <1>7, OwnSlice

\* The limit of a slice that ends before the range has its sum, and is the first
\* one there.
LEMMA PushTold ==
  ASSUME Bookkeeping, Results, NEW id \in Ids, Push(id)
  PROVE  Told'
<1>1. /\ task[id] = "pushing" /\ task' = [task EXCEPT ![id] = "done"]
      /\ UNCHANGED <<call, pass, memory>> /\ pass = 1 /\ Scanning /\ seen[id] = limits
      /\ n' = n /\ \A j \in Ids : first(j)' = first(j) /\ last(j)' = last(j)
  BY Fixed DEF Push, params, grid, results, Bookkeeping, Exclusive
<1>2. /\ Tiled /\ n \in Nat /\ limits \in Seq(Limit) /\ task \in [Ids -> TaskStates]
      /\ first(id) \in Nat /\ last(id) \in 0..n /\ first(id) <= last(id)
      /\ \A p \in first(id) + 1..last(id) : memory[p] = Value(id, p) /\ p \in 1..n
  BY TaskFacts
<1>3. PICK sum : /\ limits' = Append(limits, [end |-> last(id), sum |-> sum])
                 /\ sum = memory[last(id)] \/ first(id) = n
  BY <1>1 DEF Push, first, last
<1>4. last(id) < n => sum = SumOf(first(id), last(id))
  <2> SUFFICES ASSUME last(id) < n PROVE sum = SumOf(first(id), last(id))
    OBVIOUS
  <2>1. first(id) < last(id)
    BY <1>1, <1>2 DEF Tiled, Scanning
  <2>2. sum = memory[last(id)] /\ last(id) \in first(id) + 1..last(id)
    BY <1>2, <1>3, <2>1
  <2>3. last(id) <= Reached(id)
    BY <1>1, <1>2 DEF Reached, Results, Ended
  <2>4. Value(id, last(id)) = SumOf(first(id), last(id))
    BY <1>1, <2>3, ValueCases
  <2> QED
    BY <1>2, <2>2, <2>4
<1> DEFINE l == Len(limits)
<1>5. /\ l \in Nat /\ DOMAIN limits' = 1..l + 1 /\ DOMAIN limits = 1..l
      /\ \A i \in 1..l : limits'[i] = limits[i]
      /\ limits'[l + 1] = [end |-> last(id), sum |-> sum]
  <2> DEFINE new == [end |-> last(id), sum |-> sum]
  <2>1. limits' = Append(limits, new) /\ limits \in Seq(Limit \cup {new}) /\ new \in Limit \cup {new}
    BY <1>2, <1>3
  <2> HIDE DEF new
  <2>2. /\ l \in Nat /\ DOMAIN limits' = 1..l + 1 /\ DOMAIN limits = 1..l
        /\ \A i \in 1..l : limits'[i] = limits[i] /\ limits'[l + 1] = new
    BY <2>1
  <2>3. limits'[l + 1] = new
    BY <2>1
  <2> QED
    BY <2>2, <2>3 DEF new
<1> HIDE DEF l
<1>6. \A j \in Ids : task[j] = "done" => task'[j] = "done" /\ j # id
  BY <1>1, <1>2
<1>7. \A i \in 1..l : \E j \in Ids : /\ limits[i].end = last(j) /\ j # id /\ task'[j] = "done"
                                     /\ last(j) < n => limits[i].sum = SumOf(first(j), last(j))
  BY <1>1, <1>5, <1>6 DEF Results, Told
<1>8. task'[id] = "done"
  BY <1>1, <1>2
<1>9. ASSUME NEW i \in 1..l + 1
      PROVE  \E j \in Ids : /\ limits'[i].end = last(j)
                            /\ last(j) < n => limits'[i].sum = SumOf(first(j), last(j))
                            /\ task'[j] = "done"
  <2>1. CASE i \in 1..l
    <3>1. PICK j \in Ids : /\ limits[i].end = last(j) /\ task'[j] = "done"
                           /\ last(j) < n => limits[i].sum = SumOf(first(j), last(j))
      BY <1>7, <2>1
    <3> QED
      BY <1>5, <2>1, <3>1
  <2>2. CASE i = l + 1
    <3>1. limits'[i].end = last(id) /\ limits'[i].sum = sum
      BY <1>5, <2>2
    <3> QED
      BY <1>4, <1>8, <3>1
  <2> QED
    BY <1>5, <2>1, <2>2
<1>10. ASSUME NEW i \in 1..l, limits[i].end = last(id) PROVE last(id) = n
  <2>1. PICK j \in Ids : last(id) = last(j) /\ j # id
    <3>1. PICK j \in Ids : limits[i].end = last(j) /\ j # id
      BY <1>7
    <3> QED
      BY <1>10, <3>1
  <2>2. ~(last(id) < n)
    BY <1>1, <1>2, <2>1, DistinctEnds DEF Scanning
  <2> QED
    BY <1>2, <2>2
<1>11. ASSUME NEW i \in 1..l + 1, NEW j \in 1..l + 1, i # j, limits'[i].end = limits'[j].end
       PROVE  limits'[i].end = n
  <2>1. limits'[l + 1].end = last(id)
    BY <1>5
  <2>2. CASE i \in 1..l /\ j \in 1..l
    BY <1>5, <1>11, <2>2 DEF Results, Told
  <2>3. CASE i = l + 1 /\ j \in 1..l
    BY <1>5, <1>10, <1>11, <2>1, <2>3
  <2>4. CASE j = l + 1 /\ i \in 1..l
    BY <1>5, <1>10, <1>11, <2>1, <2>4
  <2> QED
    BY <1>5, <1>11, <2>2, <2>3, <2>4
<1> QED
  BY <1>1, <1>5, <1>9, <1>11 DEF Told

LEMMA PushResults ==
  ASSUME Bookkeeping, IInv, Results, NEW id \in Ids, Push(id)
  PROVE  Results'
<1>1. /\ task[id] = "pushing" /\ task' = [task EXCEPT ![id] = "done"] /\ pass = 1 /\ Scanning
      /\ algorithm # "count_if" /\ algorithm \notin Searches
      /\ UNCHANGED <<call, caller, threw, pass, turn, at, acc, it, memory, counter, res>>
  BY DEF Push, params, grid, results, Bookkeeping, Exclusive, Scanning, Searches
<1>2. task \in [Ids -> TaskStates] /\ at[id] = last(id)
  BY <1>1, TaskFacts DEF Results, Ended
<1>3. OfTask(id) /\ task'[id] = "done" /\ Reached(id)' = Reached(id)
  <2>1. first(id)' = first(id)
    BY <1>1, Fixed
  <2> QED
    BY <1>1, <1>2, <2>1 DEF OfTask, Reached
<1>4. /\ \A q \in 1..n : ~(first(id) < q /\ q <= last(id)) => memory'[q] = memory[q]
      /\ \A q \in first(id) + 1..last(id) : memory'[q] = Value(id, q)'
  BY <1>1, <1>3, StaysThere
<1>5. Told'
  BY PushTold
<1>6. task[id] \notin {"none", "done"} /\ task'[id] \notin {"none", "running", "pushing"}
  BY <1>1, <1>3
<1> QED
  BY <1>1, <1>2, <1>3, <1>4, <1>5, <1>6, OwnSlice

-----------------------------------------------------------------------------
(* The steps of the caller, and the result of the call. *)

\* The results are those of the tasks: a step of the caller that leaves them
\* where they are changes none.
LEMMA CallerSame ==
  ASSUME Bookkeeping, Results, Complete',
         UNCHANGED <<call, pass, at, acc, it, memory, counter, res, limits>>,
         \A j \in Ids : \/ task'[j] = task[j]
                        \/ task[j] = "none" /\ task'[j] \in {"queued", "deferred"}
  PROVE  Results'
<1>1. /\ n' = n /\ algorithm' = algorithm /\ Scanning' = Scanning
      /\ \A j \in Ids : first(j)' = first(j) /\ last(j)' = last(j)
  BY Fixed
<1>2. \A j \in Ids : \A k \in {"running", "pushing", "done"} : task'[j] = k <=> task[j] = k
  OBVIOUS
<1>3. Written'
  <2> SUFFICES ASSUME NEW j \in Ids, NEW p \in first(j) + 1..last(j)
               PROVE  memory'[p] = Value(j, p)'
    BY <1>1 DEF Written
  <2>1. Reached(j)' = Reached(j)
    BY <1>1 DEF Reached
  <2>2. Value(j, p)' = Value(j, p)
    BY <1>1, <2>1 DEF Value
  <2> QED
    BY <2>2 DEF Results, Written
<1>4. Ended' /\ Told' /\ Summed'
  <2>1. Ended'
    BY <1>1, <1>2 DEF Results, Ended
  <2>2. Told'
    BY <1>1, <1>2 DEF Results, Told
  <2>3. Summed'
    BY <1>1, <1>2 DEF Results, Summed
  <2> QED
    BY <2>1, <2>2, <2>3
<1>5. Counted'
  <2>1. {j \in Ids : task'[j] = "done"} = {j \in Ids : task[j] = "done"}
    BY <1>2
  <2>2. \A j \in Ids : \A p : PredIn(j, p)' = PredIn(j, p)
    BY <1>1 DEF PredIn
  <2>3. UNION {PredIn(j, last(j))' : j \in {j \in Ids : task'[j] = "done"}}
          = UNION {PredIn(j, last(j)) : j \in {j \in Ids : task[j] = "done"}}
    BY <1>1, <2>1 DEF PredIn
  <2> QED
    BY <1>1, <1>2, <2>2, <2>3 DEF Results, Counted
<1>6. Found'
  <2>1. \A p : Decides(p)' = Decides(p)
    BY <1>1 DEF Decides
  <2> QED
    BY <1>1, <1>2, <2>1 DEF Results, Found
<1> QED
  BY <1>3, <1>4, <1>5, <1>6 DEF Results

LEMMA AllDone ==
  ASSUME IInv, LastGet
  PROVE  \A id \in Ids : task[id] = "done"
<1>1. NExec \in Nat \ {0} /\ Ids = 0..NExec - 1 /\ turn = NExec - 1 /\ task[turn] = "done" /\ caller = "get"
  BY ParallelAssumption DEF Ids, IInv, Shape, LastGet
<1> QED
  BY <1>1 DEF IInv, InTurn

\* Sorting the limits loses none, and leaves equal ones apart.
LEMMA SortTold ==
  ASSUME Bookkeeping, Results, UNCHANGED call, limits' \in SortedLimits, pass' = 2
  PROVE  Told'
<1>1. limits \in Seq(Limit) /\ n' = n /\ \A j \in Ids : first(j)' = first(j) /\ last(j)' = last(j)
  BY Fixed DEF Bookkeeping, TypeOK, Limit
<1>2. PICK f \in Bijection(DOMAIN limits, DOMAIN limits) : limits' = [i \in DOMAIN limits |-> limits[f[i]]]
  BY DEF SortedLimits
<1>3. /\ f \in [DOMAIN limits -> DOMAIN limits]
      /\ \A i, j \in DOMAIN limits : f[i] = f[j] => i = j
  BY DEF Bijection, Injection, IsInjective
<1>4. DOMAIN limits' = DOMAIN limits /\ \A i \in DOMAIN limits : limits'[i] = limits[f[i]] /\ f[i] \in DOMAIN limits
  BY <1>2, <1>3
<1>5. \A i \in DOMAIN limits :
        \E id \in Ids : /\ limits'[i].end = last(id)
                        /\ last(id) < n => limits'[i].sum = SumOf(first(id), last(id))
  BY <1>4 DEF Results, Told
<1>6. \A i, j \in DOMAIN limits : i # j /\ limits'[i].end = limits'[j].end => limits'[i].end = n
  <2> SUFFICES ASSUME NEW i \in DOMAIN limits, NEW j \in DOMAIN limits, i # j,
                      limits'[i].end = limits'[j].end
               PROVE  limits'[i].end = n
    OBVIOUS
  <2>1. f[i] \in DOMAIN limits /\ f[j] \in DOMAIN limits /\ f[i] # f[j]
    BY <1>3, <1>4
  <2>2. limits[f[i]].end = limits[f[j]].end
    BY <1>4
  <2> QED
    BY <1>4, <2>1, <2>2 DEF Results, Told
<1> QED
  BY <1>1, <1>4, <1>5, <1>6 DEF Told

LEMMA SecondPassResults ==
  ASSUME Bookkeeping, IInv, Results, LastGet, SecondPass
  PROVE  Results'
<1>1. /\ pass = 1 /\ Scanning /\ algorithm # "count_if" /\ algorithm \notin Searches
      /\ pass' = 2 /\ caller' = "submit" /\ task' = NoTasks /\ limits' \in SortedLimits
      /\ UNCHANGED <<call, threw, at, acc, it, memory, counter, res>>
      /\ n' = n /\ algorithm' = algorithm /\ Scanning' = Scanning
      /\ \A j \in Ids : first(j)' = first(j) /\ last(j)' = last(j)
  BY Fixed DEF LastGet, SecondPass, Scanning, Searches, params, results
<1>2. \A id \in Ids : task[id] = "done" /\ task'[id] = "none"
  BY <1>1, AllDone DEF NoTasks
<1>3. Written'
  <2> SUFFICES ASSUME NEW j \in Ids, NEW p \in first(j) + 1..last(j)
               PROVE  memory'[p] = Value(j, p)'
    BY <1>1 DEF Written
  <2>1. Reached(j) = last(j) /\ Reached(j)' = first(j) /\ p \in Nat /\ first(j) < p /\ p <= last(j)
    <3>1. first(j) \in Nat /\ last(j) \in Nat /\ first(j)' = first(j)
      BY <1>1, TaskFacts
    <3>2. p \in Nat /\ first(j) < p /\ p <= last(j)
      BY <3>1
    <3>3. Reached(j) = last(j) /\ Reached(j)' = first(j)
      BY <1>1, <1>2 DEF Reached, Results, Ended
    <3> QED
      BY <3>2, <3>3
  <2>2. memory[p] = SumOf(first(j), p)
    BY <1>1, <2>1, ValueCases DEF Results, Written
  <2>3. Value(j, p)' = SumOf(first(j), p)
    <3>1. ~(p <= first(j)) /\ first(j)' = first(j)
      <4>1. first(j) \in Nat
        BY TaskFacts
      <4> QED
        BY <1>1, <2>1, <4>1
    <3> QED
      BY <1>1, <2>1, <3>1 DEF Value, Scanning
  <2> QED
    BY <1>1, <2>2, <2>3
<1>4. Told'
  BY <1>1, SortTold
<1>5. Ended' /\ Summed' /\ Counted' /\ Found' /\ Complete'
  BY <1>1, <1>2 DEF Ended, Summed, Counted, Found, Complete
<1> QED
  BY <1>3, <1>4, <1>5 DEF Results

LEMMA CallerResults ==
  ASSUME Bookkeeping, IInv, Results, Caller
  PROVE  Results'
<1>1. NExec \in Nat \ {0} /\ Ids = 0..NExec - 1 /\ turn \in Ids /\ task \in [Ids -> TaskStates]
  BY ParallelAssumption DEF Ids, Bookkeeping, TypeOK
<1>2. CASE Submit
  <2>1. /\ caller = "submit" /\ caller' # "back" /\ task[turn] = "none"
        /\ UNCHANGED <<call, pass, at, acc, it, memory, counter, res, limits>>
        /\ \A j \in Ids : \/ task'[j] = task[j]
                          \/ task[j] = "none" /\ task'[j] \in {"queued", "deferred"}
    BY <1>1, <1>2 DEF Submit, NextTurn, IInv, InTurn, params, results, lockvars
  <2> QED
    BY <2>1, CallerSame DEF Complete
<1>3. CASE Get \/ GetThrows
  <2>1. /\ UNCHANGED <<call, pass, at, acc, it, memory, counter, res, limits, task>>
        /\ caller' # "back" \/ threw'
    BY <1>3 DEF Get, GetThrows, params, tasks, results, lockvars
  <2> QED
    BY <2>1, CallerSame DEF Complete
<1>4. CASE LastGet /\ Leave
  <2>1. /\ UNCHANGED <<call, pass, at, acc, it, memory, counter, res, limits, task>>
        /\ ~(pass = 1 /\ Scanning) /\ pass \in {1, 2} /\ Scanning' = Scanning
    BY <1>4, Fixed DEF LastGet, Leave, Scanning, params, results, Bookkeeping, TypeOK
  <2>2. Complete'
    BY <1>4, <2>1, AllDone DEF Complete
  <2> QED
    BY <2>1, <2>2, CallerSame
<1>5. CASE LastGet /\ SecondPass
  BY <1>5, SecondPassResults
<1> QED
  BY <1>2, <1>3, <1>4, <1>5 DEF Caller, LastGet

LEMMA ResultsInit == Init => Results
<1> SUFFICES ASSUME Init PROVE Results
  OBVIOUS
<1>1. /\ call \in Calls /\ n \in Nat /\ Tiled /\ pass = 1 /\ task = NoTasks /\ limits = <<>>
      /\ memory = [p \in 1..n |-> <<p>>] /\ counter = 0 /\ res = (algorithm # "any_of")
      /\ caller = (IF Scanning /\ n = 0 THEN "back" ELSE "submit")
  BY SizeIsNatural DEF Init, EmptyScan, Scanning
<1>2. \A id \in Ids : task[id] = "none"
  BY <1>1 DEF NoTasks
<1>3. Written
  <2> SUFFICES ASSUME NEW j \in Ids, NEW p \in first(j) + 1..last(j) PROVE memory[p] = Value(j, p)
    BY DEF Written
  <2>1. first(j) \in Nat /\ last(j) \in 0..n
    BY <1>1, Within DEF Tiled
  <2>2. p \in 1..n /\ ~(p <= first(j)) /\ Reached(j) = first(j)
    BY <1>1, <1>2, <2>1 DEF Reached
  <2>3. Value(j, p) = <<p>>
    BY <1>1, <2>2, ValueCases
  <2> QED
    BY <1>1, <2>2, <2>3
<1>4. Ended /\ Told /\ Summed /\ Found /\ Complete
  BY <1>1, <1>2 DEF Ended, Told, Summed, Found, Complete
<1>5. Counted
  <2>1. {j \in Ids : task[j] = "done"} = {}
    BY <1>2
  <2>2. UNION {PredIn(j, last(j)) : j \in {}} = {}
    OBVIOUS
  <2>3. Cardinality({}) = 0
    BY FS_EmptySet
  <2> QED
    BY <1>1, <1>2, <2>1, <2>2, <2>3 DEF Counted
<1> QED
  BY <1>3, <1>4, <1>5 DEF Results

LEMMA ResultsNext == Results /\ Bookkeeping /\ WellFormed /\ IInv /\ [Next]_vars => Results'
<1> SUFFICES ASSUME Results, Bookkeeping, WellFormed, IInv, [Next]_vars PROVE Results'
  OBVIOUS
<1>1. CASE Caller
  BY <1>1, CallerResults
<1>2. ASSUME NEW id \in Ids, Task(id) PROVE Results'
  <2>1. ASSUME NEW p \in 1..n, Element(id, p) PROVE Results'
    BY <2>1, ForEachResults, CountResults, SearchResults, SumResults, AddLimitResults, StopResults DEF Element
  <2> QED
    BY <1>2, <2>1, StartResults, FinishResults, StopResults, PushResults DEF Task
<1>3. CASE UNCHANGED vars
  <2>1. UNCHANGED <<call, caller, threw, pass, task, at, acc, it, memory, counter, res, limits>>
    BY <1>3 DEF vars, params, grid, tasks, results, lockvars
  <2>2. Scanning' = Scanning /\ n' = n
    BY <2>1, Fixed
  <2>3. Complete'
    BY <2>1, <2>2 DEF Results, Complete
  <2> QED
    BY <2>1, <2>3, CallerSame
<1> QED
  BY <1>1, <1>2, <1>3 DEF Next

\* Every algorithm returns what its sequential form does: for any number of
\* elements and executors, any predicate and any order in which the tasks run.
THEOREM ParallelIsSequential == Spec => []SameAsSequential
<1>1. Results /\ Bookkeeping => SameAsSequential
  <2> SUFFICES ASSUME Results, Bookkeeping, caller = "back", ~threw
      PROVE
        /\ memory = [p \in 1..n |-> CASE algorithm = "for_each" -> <<p, p>>
                                      [] algorithm = "inclusive_scan" -> [i \in 1..p |-> i]
                                      [] OTHER -> <<p>>]
        /\ algorithm = "count_if" => counter = Cardinality(call.pred)
        /\ algorithm = "all_of" => res = (call.pred = 1..n)
        /\ algorithm = "any_of" => res = (call.pred # {})
        /\ algorithm = "none_of" => res = (call.pred = {})
    BY DEF SameAsSequential
  <2>1. /\ memory \in [1..n -> Seq(Elements)] /\ n \in Nat /\ Tiled /\ pass \in {1, 2}
        /\ call.pred \subseteq 1..n /\ (pass = 2 => Scanning)
    BY SizeIsNatural DEF Bookkeeping, TypeOK, Reported, Calls, n
  <2>2. \/ Scanning /\ n = 0
        \/ (\A id \in Ids : task[id] = "done") /\ (Scanning => pass = 2)
    BY DEF Results, Complete
  <2>3. CASE Scanning /\ n = 0
    <3>1. 1..n = {}
      BY <2>3
    <3>2. algorithm = "inclusive_scan"
      BY <2>3 DEF Scanning
    <3> QED
      BY <2>1, <3>1, <3>2
  <2>4. CASE (\A id \in Ids : task[id] = "done") /\ (Scanning => pass = 2)
    <3>1. ASSUME NEW p \in 1..n
          PROVE  memory[p] = CASE algorithm = "for_each" -> <<p, p>>
                               [] algorithm = "inclusive_scan" -> [i \in 1..p |-> i]
                               [] OTHER -> <<p>>
      <4>1. PICK id \in Ids : first(id) < p /\ p <= last(id)
        BY <2>1, Covered
      <4>2. first(id) \in Nat /\ last(id) \in 0..n /\ p \in first(id) + 1..last(id)
        BY <2>1, <4>1, Within DEF Tiled
      <4>3. memory[p] = Value(id, p) /\ Reached(id) = at[id]
        BY <2>4, <4>2 DEF Results, Written, Reached
      <4>4. at[id] = last(id) \/ (pass = 2 /\ first(id) = 0)
        BY <2>4 DEF Results, Ended
      <4>5. CASE algorithm = "for_each"
        BY <2>1, <4>1, <4>3, <4>4, <4>5, ValueCases DEF Scanning
      <4>6. CASE Scanning
        <5>1. memory[p] = SumOf(0, p)
          BY <2>1, <2>4, <4>1, <4>3, <4>4, <4>6, ValueCases
        <5>2. SumOf(0, p) = [i \in 1..p |-> i]
          BY DEF SumOf
        <5> QED
          BY <4>6, <5>1, <5>2 DEF Scanning
      <4>7. CASE algorithm # "for_each" /\ ~Scanning
        BY <2>1, <4>3, <4>7, ValueCases DEF Scanning
      <4> QED
        BY <4>5, <4>6, <4>7
    <3>2. algorithm = "count_if" => counter = Cardinality(call.pred)
      <4>1. \A p \in call.pred : \E id \in Ids : p \in PredIn(id, last(id))
        <5> SUFFICES ASSUME NEW p \in call.pred PROVE \E id \in Ids : p \in PredIn(id, last(id))
          OBVIOUS
        <5>1. p \in 1..n
          BY <2>1
        <5>2. PICK id \in Ids : first(id) < p /\ p <= last(id)
          BY <2>1, <5>1, Covered
        <5>3. p \in first(id) + 1..last(id)
          BY <2>1, <5>1, <5>2 DEF Tiled
        <5> QED
          BY <5>3 DEF PredIn
      <4>2. UNION {PredIn(j, last(j)) : j \in {j \in Ids : task[j] = "done"}} = call.pred
        BY <2>4, <4>1 DEF PredIn
      <4> QED
        BY <4>2 DEF Results, Counted
    <3>3. ASSUME algorithm \in Searches
          PROVE  res = IF \E p \in 1..n : Decides(p) THEN algorithm = "any_of" ELSE algorithm # "any_of"
      <4>1. (\E p \in 1..n : Decides(p)) <=> \E id \in Ids : acc[id] # <<>>
        <5>1. ASSUME NEW p \in 1..n, Decides(p) PROVE \E id \in Ids : acc[id] # <<>>
          <6>1. PICK id \in Ids : first(id) < p /\ p <= last(id)
            BY <2>1, Covered
          <6>2. p \in first(id) + 1..last(id) /\ at[id] = last(id)
            BY <2>1, <2>4, <3>3, <6>1 DEF Tiled, Results, Ended, Scanning, Searches
          <6> QED
            BY <2>4, <3>3, <5>1, <6>2 DEF Results, Found
        <5> QED
          BY <2>4, <3>3, <5>1 DEF Results, Found
      <4> QED
        BY <2>4, <3>3, <4>1 DEF Results, Found
    <3>4. /\ algorithm = "all_of" => res = (call.pred = 1..n)
          /\ algorithm = "any_of" => res = (call.pred # {})
          /\ algorithm = "none_of" => res = (call.pred = {})
      BY <2>1, <3>3 DEF Decides, Searches
    <3> QED
      BY <2>1, <3>1, <3>2, <3>4
  <2> QED
    BY <2>2, <2>3, <2>4
<1>2. Bookkeeping => WellFormed
  BY BooksSuffice
<1> QED
  BY <1>1, <1>2, InitInv, NextInv, BookkeepingInit, BookkeepingNext, ResultsInit, ResultsNext, PTL DEF Spec
=============================================================================
