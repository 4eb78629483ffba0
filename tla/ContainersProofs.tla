-------------------------- MODULE ContainersProofs --------------------------
(***************************************************************************)
(* The containers.  small_vector: the pointers of the vectors, the blocks  *)
(* and the objects on the heap agree, and each vector is a sequence, for   *)
(* any number of vectors, any length of the internal arrays and any        *)
(* values.  concurrent_queue: every element is handed over once and in     *)
(* order, for any number of consumers, any sizes and any number of pushes, *)
(* and the queue implements the atomic one.                                *)
(***************************************************************************)
EXTENDS SmallVector, ConcurrentQueue, FiniteSetTheorems, SequenceTheorems, TLAPS

\* A set of numbers has a least one: the induction of this module.
LEMMA Least ==
  ASSUME NEW T, T \subseteq Nat, T # {}
  PROVE  \E x \in T : \A y \in T : x <= y
<1>1. IsWellFoundedOn(OpToRel(<, Nat), Nat)
  BY NatLessThanWellFounded
<1>2. PICK x \in T : \A y \in T : ~(<<y, x>> \in OpToRel(<, Nat))
  BY <1>1, WFMin
<1>3. \A y \in T : ~(y < x)
  BY <1>2, Zenon DEF OpToRel
<1> QED
  BY <1>3

\* allocation_size << 1
LEMMA Doubled ==
  ASSUME NEW p, IsPowerOfTwo(p)
  PROVE  IsPowerOfTwo(2 * p)
<1>1. p \in Nat \ {0} /\ 2 * p \in Nat \ {0}
  BY DEF IsPowerOfTwo
<1> SUFFICES ASSUME NEW d \in 1..(2 * p) \div 2, NEW e \in 1..(2 * p) \div 2,
                    2 * p = (2 * d + 1) * e
             PROVE  FALSE
  BY <1>1 DEF IsPowerOfTwo
<1>0. d \in 1..p /\ e \in 1..p
  BY <1>1
<1>2. PICK f \in Nat : e = 2 * f \/ e = 2 * f + 1
  <2>1. e \in Nat /\ e \div 2 \in Nat /\ (e = 2 * (e \div 2) \/ e = 2 * (e \div 2) + 1)
    BY <1>1
  <2> QED
    BY <2>1
<1>3. CASE e = 2 * f + 1
  <2>1. d * f \in Int /\ (2 * d + 1) * (2 * f + 1) = 2 * (2 * (d * f) + d + f) + 1
    BY <1>0, <1>1
  <2> QED
    BY <1>0, <1>1, <1>3, <2>1
<1>4. CASE e = 2 * f
  <2>1. d * f \in Int /\ p = 2 * (d * f) + f /\ (2 * d + 1) * f = 2 * (d * f) + f
    BY <1>0, <1>1, <1>4
  <2>2. f >= 1 /\ d * f >= d /\ d * f >= f
    BY <1>0, <1>1, <1>4, <2>1
  <2>3. 2 * f <= p /\ 2 * d <= p
    BY <1>0, <1>1, <2>1, <2>2
  <2>4. f \in 1..p \div 2 /\ d \in 1..p \div 2
    BY <1>0, <1>1, <2>2, <2>3
  <2> QED
    BY <2>1, <2>4 DEF IsPowerOfTwo
<1> QED
  BY <1>2, <1>3, <1>4

\* The loop of _resize_to_fit ends, with less than twice what is required.
LEMMA PowerInReach ==
  ASSUME NEW required \in Nat \ {0}
  PROVE  \E p \in required..2 * required : IsPowerOfTwo(p)
<1> DEFINE Reached(m) == \E p \in m..2 * m : IsPowerOfTwo(p)
           Missed == {m \in Nat \ {0} : ~Reached(m)}
<1> SUFFICES ASSUME Missed # {} PROVE FALSE
  OBVIOUS
<1>1. PICK m \in Missed : \A k \in Missed : m <= k
  BY Least
<1>2. IsPowerOfTwo(1)
  BY DEF IsPowerOfTwo
<1>3. m \in Nat \ {0} /\ ~Reached(m)
  OBVIOUS
<1>4. m # 1
  BY <1>2, <1>3
<1>5. m - 1 \in Nat \ {0} /\ m - 1 \notin Missed
  BY <1>1, <1>3, <1>4
<1>6. PICK p \in m - 1..2 * (m - 1) : IsPowerOfTwo(p)
  BY <1>5
<1>7. CASE p = m - 1
  <2>1. IsPowerOfTwo(2 * p) /\ 2 * p \in m..2 * m
    BY <1>3, <1>4, <1>6, <1>7, Doubled
  <2> QED
    BY <1>3, <2>1
<1>8. CASE p # m - 1
  <2>1. p \in m..2 * m
    BY <1>3, <1>6, <1>8
  <2> QED
    BY <1>3, <1>6, <2>1
<1> QED
  BY <1>7, <1>8

LEMMA AllocationFits ==
  ASSUME NEW required \in Nat \ {0}
  PROVE  /\ AllocationSize(required) \in Nat
         /\ required <= AllocationSize(required)
         /\ IsPowerOfTwo(AllocationSize(required))
<1> DEFINE Enough == {p \in required..2 * required : IsPowerOfTwo(p)}
<1>1. Enough # {} /\ Enough \subseteq Nat
  BY PowerInReach
<1>2. PICK p \in Enough : \A q \in Enough : p <= q
  BY <1>1, Least
<1>3. \E r \in required..2 * required :
        IsPowerOfTwo(r) /\ \A q \in required..r - 1 : ~IsPowerOfTwo(q)
  <2>1. \A q \in required..p - 1 : ~IsPowerOfTwo(q)
    BY <1>2
  <2> QED
    BY <1>2, <2>1
<1>4. /\ AllocationSize(required) \in required..2 * required
      /\ IsPowerOfTwo(AllocationSize(required))
  BY <1>3 DEF AllocationSize
<1> QED
  BY <1>4
-----------------------------------------------------------------------------
(***************************************************************************)
(* The invariant, as a predicate on the memory o and on what the vectors   *)
(* say of it, so that it can be stated between a growth and what follows.  *)
(***************************************************************************)
Allocated(o, b, s, c) ==
  /\ o \in [Vectors \cup Blocks -> Seq(Slots)]
  /\ b \in [Vectors -> Vectors \cup Blocks]
  /\ s \in [Vectors -> 0..MaxLen]
  /\ c \in [Vectors -> Nat \ {0}]

\* The internal array keeps its length while the vector is elsewhere.
Measured(o, b, s, c) ==
  \A v \in Vectors :
    /\ Len(o[v]) = N
    /\ b[v] \in Vectors => b[v] = v
    /\ c[v] = Len(o[b[v]])
    /\ s[v] <= c[v]
    /\ c[v] = N \/ IsPowerOfTwo(c[v])

\* No two vectors are in the same place, and no block is without a vector.
Owned(o, b) ==
  /\ \A v, w \in Vectors : v # w => b[v] # b[w]
  /\ \A d \in Blocks : o[d] # <<>> => \E v \in Vectors : b[v] = d

\* Every element is an object, in the internal array too, and there is nothing
\* else on the heap.
Constructed(o, b, s, c) ==
  \A v \in Vectors : \A i \in 1..c[v] :
    /\ i <= s[v] => o[b[v]][i] # Raw
    /\ b[v] \in Blocks /\ i > s[v] => o[b[v]][i] = Raw

Represented(o, b, s, c) ==
  Allocated(o, b, s, c) /\ Measured(o, b, s, c) /\ Owned(o, b) /\ Constructed(o, b, s, c)

IInv == Represented(objects, begin, size, capacity) /\ misuse \subseteq {"internal", "overwritten"}

\* It is what the run checks, and more.
LEMMA Representation == IInv => WellFormed
<1> SUFFICES ASSUME IInv PROVE WellFormed
  OBVIOUS
<1>1. /\ Allocated(objects, begin, size, capacity) /\ Measured(objects, begin, size, capacity)
      /\ Owned(objects, begin) /\ Constructed(objects, begin, size, capacity)
      /\ misuse \subseteq {"internal", "overwritten"}
  BY DEF IInv, Represented
<1>2. TypeOK
  BY <1>1 DEF Allocated, Measured, TypeOK
<1>3. PointersAgree
  BY <1>1 DEF Measured, PointersAgree
<1>4. OneOwner
  BY <1>1 DEF Owned, OneOwner
<1>5. HeapObjectsAreElements
  <2> SUFFICES ASSUME NEW v \in Vectors, begin[v] \in Blocks, NEW i \in 1..capacity[v]
               PROVE  objects[begin[v]][i] = Raw <=> i > size[v]
    BY <1>1 DEF HeapObjectsAreElements
  <2>1. size[v] \in Nat /\ i \in Int
    BY <1>1 DEF Allocated
  <2> QED
    BY <1>1, <2>1 DEF Constructed
<1> QED
  BY <1>2, <1>3, <1>4, <1>5 DEF WellFormed

LEMMA InitInv == Init => IInv
<1> SUFFICES ASSUME Init PROVE IInv
  OBVIOUS
<1> USE SmallVectorAssumption
<1>1. Internal \in Seq(Slots) /\ Len(Internal) = N /\ <<>> \in Seq(Slots)
  BY DEF Internal, Slots
<1>2. /\ \A v \in Vectors : objects[v] = Internal /\ begin[v] = v /\ size[v] = 0 /\ capacity[v] = N
      /\ \A b \in Blocks : objects[b] = <<>>
  BY DEF Init
<1>3. Allocated(objects, begin, size, capacity)
  BY <1>1 DEF Init, Allocated
<1>4. Measured(objects, begin, size, capacity)
  BY <1>1, <1>2 DEF Measured
<1>5. Owned(objects, begin)
  BY <1>2 DEF Owned
<1>6. Constructed(objects, begin, size, capacity)
  BY <1>2 DEF Constructed
<1> QED
  BY <1>3, <1>4, <1>5, <1>6 DEF Init, IInv, Represented

\* There is memory for a vector to move to: each vector has one block at most.
LEMMA FreeBlock ==
  ASSUME IInv
  PROVE  NewBlock \in Blocks /\ objects[NewBlock] = <<>>
<1> SUFFICES ASSUME \A b \in Blocks : objects[b] # <<>> PROVE FALSE
  BY DEF NewBlock
<1> DEFINE owner == [b \in Blocks |-> CHOOSE v \in Vectors : begin[v] = b]
<1>1. \A b \in Blocks : owner[b] \in Vectors /\ begin[owner[b]] = b
  BY DEF IInv, Represented, Owned
<1>2. IsFiniteSet(Blocks) /\ Cardinality(Blocks) = MaxBlocks
  BY FS_Interval, SmallVectorAssumption, FS_CardinalityType DEF Blocks
<1>3. owner \in [Blocks -> Vectors]
  BY <1>1
<1>4. \E b, d \in Blocks : b # d /\ owner[b] = owner[d]
  <2>1. Cardinality(Vectors) < Cardinality(Blocks) /\ IsFiniteSet(Vectors)
    BY <1>2, SmallVectorAssumption, FS_CardinalityType
  <2> HIDE DEF owner
  <2> QED
    BY <1>2, <1>3, <2>1, FS_PigeonHole
<1> QED
  BY <1>1, <1>4

\* Nobody is in a block that is free.
LEMMA NobodyInNewBlock ==
  ASSUME IInv, NEW v \in Vectors
  PROVE  begin[v] # NewBlock
<1>1. /\ objects[begin[v]] \in Seq(Slots)
      /\ Len(objects[begin[v]]) = capacity[v] /\ capacity[v] \in Nat \ {0}
  BY DEF IInv, Represented, Allocated, Measured
<1>2. objects[begin[v]] # <<>>
  BY <1>1
<1> QED
  BY <1>2, FreeBlock

FittedBegin(v, required) == [begin EXCEPT ![v] = Fitted(v, required).begin]
FittedCapacity(v, required) == [capacity EXCEPT ![v] = Fitted(v, required).capacity]

SameElements(o, b) ==
  \A u \in Vectors : \A i \in 1..size[u] : o[b[u]][i] = objects[begin[u]][i]

\* What is where after a move to n slots of a new block.
LEMMA MovedObjects ==
  ASSUME IInv, NEW v \in Vectors, NEW n \in Nat, size[v] <= n
  PROVE  /\ Moved(v, n) \in [Vectors \cup Blocks -> Seq(Slots)]
         /\ Moved(v, n)[NewBlock] = [i \in 1..n |-> IF i <= size[v] THEN objects[begin[v]][i] ELSE Raw]
         /\ begin[v] \in Blocks => Moved(v, n)[begin[v]] = <<>>
         /\ begin[v] = v => Moved(v, n)[v] \in Seq(Slots) /\ Len(Moved(v, n)[v]) = N
         /\ \A d \in Vectors \cup Blocks : d \notin {NewBlock, begin[v]} => Moved(v, n)[d] = objects[d]
<1> DEFINE new == [i \in 1..n |-> IF i <= size[v] THEN objects[begin[v]][i] ELSE Raw]
           array == [i \in 1..N |-> IF i <= size[v] THEN Raw ELSE objects[v][i]]
           old == IF _is_static(v) THEN array ELSE <<>>
<1>1. /\ objects \in [Vectors \cup Blocks -> Seq(Slots)]
      /\ begin[v] \in Vectors \cup Blocks /\ (begin[v] \in Vectors => begin[v] = v)
      /\ size[v] \in Nat /\ size[v] <= Len(objects[begin[v]]) /\ Len(objects[v]) = N
      /\ NewBlock \in Blocks /\ NewBlock # begin[v] /\ Vectors \cap Blocks = {}
  BY FreeBlock, NobodyInNewBlock, SmallVectorAssumption DEF IInv, Represented, Allocated, Measured
<1>2. Raw \in Slots
  BY DEF Slots
<1>3. new \in Seq(Slots)
  <2>1. \A i \in 1..n : i <= size[v] => objects[begin[v]][i] \in Slots
    BY <1>1
  <2> QED
    BY <1>2, <2>1
<1>4. array \in Seq(Slots) /\ Len(array) = N
  <2>1. \A i \in 1..N : objects[v][i] \in Slots
    BY <1>1
  <2> QED
    BY <1>2, <2>1, SmallVectorAssumption
<1>5. old \in Seq(Slots)
  BY <1>4
<1>6. Moved(v, n) = [objects EXCEPT ![NewBlock] = new, ![begin[v]] = old]
  BY <1>1 DEF Moved, _is_static
<1> HIDE DEF new, array
<1>7. /\ Moved(v, n) \in [Vectors \cup Blocks -> Seq(Slots)]
      /\ Moved(v, n)[NewBlock] = new /\ Moved(v, n)[begin[v]] = old
      /\ \A d \in Vectors \cup Blocks : d \notin {NewBlock, begin[v]} => Moved(v, n)[d] = objects[d]
  <2> HIDE DEF old
  <2> QED
    BY <1>1, <1>3, <1>5, <1>6
<1>8. begin[v] \in Blocks => old = <<>>
  BY <1>1 DEF _is_static
<1>9. begin[v] = v => old = array
  BY DEF _is_static
<1> QED
  BY <1>1, <1>4, <1>7, <1>8, <1>9 DEF new

\* _resize_to_fit keeps the elements of all vectors where their owners find
\* them, and everything else that is required of the memory.
LEMMA FittedInv ==
  ASSUME IInv, NEW v \in Vectors, NEW required \in Nat
  PROVE  /\ Represented(Fitted(v, required).objects, FittedBegin(v, required), size,
                        FittedCapacity(v, required))
         /\ SameElements(Fitted(v, required).objects, FittedBegin(v, required))
         /\ required <= Fitted(v, required).capacity
<1>1. /\ Allocated(objects, begin, size, capacity) /\ Measured(objects, begin, size, capacity)
      /\ Owned(objects, begin) /\ Constructed(objects, begin, size, capacity)
  BY DEF IInv, Represented
<1>2. capacity[v] \in Nat \ {0} /\ size[v] \in Nat /\ size[v] <= capacity[v]
  BY <1>1 DEF Allocated, Measured
<1>3. CASE capacity[v] >= required
  <2>1. /\ Fitted(v, required).objects = objects /\ Fitted(v, required).begin = begin[v]
        /\ Fitted(v, required).capacity = capacity[v]
    BY <1>3 DEF Fitted
  <2>2. FittedBegin(v, required) = begin /\ FittedCapacity(v, required) = capacity
    BY <1>1, <2>1 DEF FittedBegin, FittedCapacity, Allocated
  <2> QED
    BY <1>1, <1>3, <2>1, <2>2 DEF Represented, SameElements
<1>4. CASE capacity[v] < required
  <2> DEFINE n == AllocationSize(required)
             o == Moved(v, n)
             b == [begin EXCEPT ![v] = NewBlock]
             c == [capacity EXCEPT ![v] = n]
  <2>1. n \in Nat \ {0} /\ required <= n /\ IsPowerOfTwo(n)
    BY <1>2, <1>4, AllocationFits
  <2>2. /\ Fitted(v, required).objects = o /\ Fitted(v, required).capacity = n
        /\ FittedBegin(v, required) = b /\ FittedCapacity(v, required) = c
    <3>1. ~(capacity[v] >= required)
      BY <1>2, <1>4
    <3>2. Fitted(v, required) = [objects |-> o, begin |-> NewBlock, capacity |-> n]
      BY <3>1 DEF Fitted
    <3> HIDE DEF n, o
    <3> QED
      BY <3>2 DEF FittedBegin, FittedCapacity
  <2> HIDE DEF n
  <2>3. /\ o \in [Vectors \cup Blocks -> Seq(Slots)]
        /\ o[NewBlock] = [i \in 1..n |-> IF i <= size[v] THEN objects[begin[v]][i] ELSE Raw]
        /\ begin[v] \in Blocks => o[begin[v]] = <<>>
        /\ begin[v] = v => o[v] \in Seq(Slots) /\ Len(o[v]) = N
        /\ \A d \in Vectors \cup Blocks : d \notin {NewBlock, begin[v]} => o[d] = objects[d]
    <3>1. n \in Nat /\ size[v] <= n
      BY <1>2, <1>4, <2>1
    <3> QED
      BY <3>1, MovedObjects, Zenon
  <2> HIDE DEF o
  <2>4. /\ NewBlock \in Blocks /\ Vectors \cap Blocks = {} /\ objects[NewBlock] = <<>>
        /\ \A u \in Vectors : begin[u] # NewBlock /\ begin[u] \in Vectors \cup Blocks
        /\ \A u \in Vectors : begin[u] \in Vectors => begin[u] = u
    BY <1>1, FreeBlock, NobodyInNewBlock, SmallVectorAssumption DEF Allocated, Measured
  <2>5. /\ b \in [Vectors -> Vectors \cup Blocks] /\ b[v] = NewBlock /\ c[v] = n
        /\ \A u \in Vectors : u # v => b[u] = begin[u] /\ c[u] = capacity[u]
        /\ c \in [Vectors -> Nat \ {0}]
    BY <1>1, <2>1, <2>4 DEF Allocated
  <2> HIDE DEF b, c
  <2>6. Len(o[NewBlock]) = n
        /\ \A i \in 1..n : o[NewBlock][i] = IF i <= size[v] THEN objects[begin[v]][i] ELSE Raw
    BY <2>1, <2>3
  <2>7. \A u \in Vectors : u # v => begin[u] # begin[v] /\ o[begin[u]] = objects[begin[u]]
    BY <1>1, <2>3, <2>4 DEF Owned
  <2>8. \A u \in Vectors : Len(o[u]) = N
    <3> SUFFICES ASSUME NEW u \in Vectors PROVE Len(o[u]) = N
      OBVIOUS
    <3>1. CASE u = begin[v]
      BY <2>3, <2>4, <3>1
    <3>2. CASE u # begin[v]
      BY <1>1, <2>3, <2>4, <3>2 DEF Measured
    <3> QED
      BY <3>1, <3>2
  <2>9. Allocated(o, b, size, c)
    BY <1>1, <2>3, <2>5 DEF Allocated
  <2>10. Measured(o, b, size, c)
    <3> SUFFICES ASSUME NEW u \in Vectors
                 PROVE  /\ b[u] \in Vectors => b[u] = u
                        /\ c[u] = Len(o[b[u]]) /\ size[u] <= c[u]
                        /\ c[u] = N \/ IsPowerOfTwo(c[u])
      BY <2>8 DEF Measured
    <3>1. CASE u = v
      BY <1>2, <1>4, <2>1, <2>4, <2>5, <2>6, <3>1
    <3>2. CASE u # v
      BY <1>1, <2>4, <2>5, <2>7, <3>2 DEF Measured
    <3> QED
      BY <3>1, <3>2
  <2>11. Owned(o, b)
    <3>1. \A u, w \in Vectors : u # w => b[u] # b[w]
      BY <1>1, <2>4, <2>5 DEF Owned
    <3>2. ASSUME NEW d \in Blocks, o[d] # <<>> PROVE \E u \in Vectors : b[u] = d
      <4>1. CASE d = NewBlock
        BY <2>5, <4>1
      <4>2. CASE d # NewBlock
        <5>1. d # begin[v] /\ objects[d] # <<>>
          BY <2>3, <3>2, <4>2
        <5>2. PICK u \in Vectors : begin[u] = d
          BY <1>1, <5>1 DEF Owned
        <5> QED
          BY <2>5, <5>1, <5>2
      <4> QED
        BY <4>1, <4>2
    <3> QED
      BY <3>1, <3>2 DEF Owned
  <2>12. SameElements(o, b)
    <3> SUFFICES ASSUME NEW u \in Vectors, NEW i \in 1..size[u]
                 PROVE  o[b[u]][i] = objects[begin[u]][i]
      BY DEF SameElements
    <3>1. CASE u = v
      BY <1>2, <1>4, <2>1, <2>5, <2>6, <3>1
    <3>2. CASE u # v
      BY <2>5, <2>7, <3>2
    <3> QED
      BY <3>1, <3>2
  <2>13. Constructed(o, b, size, c)
    <3> SUFFICES ASSUME NEW u \in Vectors, NEW i \in 1..c[u]
                 PROVE  /\ i <= size[u] => o[b[u]][i] # Raw
                        /\ b[u] \in Blocks /\ i > size[u] => o[b[u]][i] = Raw
      BY DEF Constructed
    <3>1. CASE u = v
      <4>1. i \in 1..n /\ (i <= size[v] => i \in 1..capacity[v])
        BY <1>2, <2>5, <3>1
      <4>2. i <= size[v] => objects[begin[v]][i] # Raw
        BY <1>1, <4>1 DEF Constructed
      <4> QED
        BY <1>2, <2>5, <2>6, <3>1, <4>1, <4>2
    <3>2. CASE u # v
      BY <1>1, <2>5, <2>7, <3>2 DEF Constructed
    <3> QED
      BY <3>1, <3>2
  <2> QED
    BY <2>1, <2>2, <2>9, <2>10, <2>11, <2>12, <2>13 DEF Represented
<1> QED
  BY <1>2, <1>3, <1>4
-----------------------------------------------------------------------------
\* The slots of one vector are written, and it has m elements then.
LEMMA Written ==
  ASSUME NEW o, NEW b, NEW s, NEW c, Represented(o, b, s, c),
         NEW v \in Vectors, NEW m \in 0..MaxLen, m <= c[v],
         NEW t \in Seq(Slots), Len(t) = c[v],
         \A i \in 1..c[v] : /\ i <= m => t[i] # Raw
                            /\ b[v] \in Blocks /\ i > m => t[i] = Raw
  PROVE  /\ Represented([o EXCEPT ![b[v]] = t], b, [s EXCEPT ![v] = m], c)
         /\ \A u \in Vectors : u # v => [o EXCEPT ![b[v]] = t][b[u]] = o[b[u]]
         /\ [o EXCEPT ![b[v]] = t][b[v]] = t
<1> DEFINE p == [o EXCEPT ![b[v]] = t]
           z == [s EXCEPT ![v] = m]
<1>1. /\ o \in [Vectors \cup Blocks -> Seq(Slots)] /\ b \in [Vectors -> Vectors \cup Blocks]
      /\ s \in [Vectors -> 0..MaxLen] /\ c \in [Vectors -> Nat \ {0}]
      /\ Measured(o, b, s, c) /\ Owned(o, b) /\ Constructed(o, b, s, c)
  BY DEF Represented, Allocated
<1>2. /\ p \in [Vectors \cup Blocks -> Seq(Slots)] /\ p[b[v]] = t
      /\ \A d \in Vectors \cup Blocks : d # b[v] => p[d] = o[d]
      /\ z \in [Vectors -> 0..MaxLen] /\ z[v] = m
      /\ \A u \in Vectors : u # v => z[u] = s[u]
  BY <1>1
<1> HIDE DEF p, z
<1>3. \A u \in Vectors : u # v => b[u] # b[v] /\ p[b[u]] = o[b[u]]
  BY <1>1, <1>2 DEF Owned
<1>4. Allocated(p, b, z, c)
  BY <1>1, <1>2 DEF Allocated
<1>5. Measured(p, b, z, c)
  <2> SUFFICES ASSUME NEW u \in Vectors
               PROVE  /\ Len(p[u]) = N /\ (b[u] \in Vectors => b[u] = u)
                      /\ c[u] = Len(p[b[u]]) /\ z[u] <= c[u]
                      /\ c[u] = N \/ IsPowerOfTwo(c[u])
    BY DEF Measured
  <2>1. Len(p[u]) = N
    <3>1. CASE u = b[v]
      <4>1. u = v
        BY <1>1, <3>1 DEF Measured
      <4> QED
        BY <1>1, <1>2, <3>1, <4>1 DEF Measured
    <3>2. CASE u # b[v]
      BY <1>1, <1>2, <3>2 DEF Measured
    <3> QED
      BY <3>1, <3>2
  <2>2. c[u] = Len(p[b[u]]) /\ z[u] <= c[u]
    BY <1>1, <1>2, <1>3 DEF Measured
  <2> QED
    BY <1>1, <2>1, <2>2 DEF Measured
<1>6. Owned(p, b)
  <2>1. ASSUME NEW d \in Blocks, p[d] # <<>> PROVE \E u \in Vectors : b[u] = d
    BY <1>1, <1>2, <2>1 DEF Owned
  <2> QED
    BY <1>1, <2>1 DEF Owned
<1>7. Constructed(p, b, z, c)
  <2> SUFFICES ASSUME NEW u \in Vectors, NEW i \in 1..c[u]
               PROVE  /\ i <= z[u] => p[b[u]][i] # Raw
                      /\ b[u] \in Blocks /\ i > z[u] => p[b[u]][i] = Raw
    BY DEF Constructed
  <2>1. CASE u = v
    BY <1>2, <2>1
  <2>2. CASE u # v
    BY <1>1, <1>2, <1>3, <2>2 DEF Constructed
  <2> QED
    BY <2>1, <2>2
<1> QED
  BY <1>2, <1>3, <1>4, <1>5, <1>6, <1>7 DEF Represented, p, z

\* Two vectors on the heap exchange their pointers.
LEMMA Exchanged ==
  ASSUME NEW o, NEW b, NEW s, NEW c, Represented(o, b, s, c),
         NEW v \in Vectors, NEW w \in Vectors, v # w, b[v] \in Blocks, b[w] \in Blocks
  PROVE  Represented(o, [b EXCEPT ![v] = b[w], ![w] = b[v]],
                     [s EXCEPT ![v] = s[w], ![w] = s[v]], [c EXCEPT ![v] = c[w], ![w] = c[v]])
<1> DEFINE bb == [b EXCEPT ![v] = b[w], ![w] = b[v]]
           ss == [s EXCEPT ![v] = s[w], ![w] = s[v]]
           cc == [c EXCEPT ![v] = c[w], ![w] = c[v]]
           Other(u) == IF u = v THEN w ELSE IF u = w THEN v ELSE u
<1>1. /\ o \in [Vectors \cup Blocks -> Seq(Slots)] /\ b \in [Vectors -> Vectors \cup Blocks]
      /\ s \in [Vectors -> 0..MaxLen] /\ c \in [Vectors -> Nat \ {0}]
      /\ Measured(o, b, s, c) /\ Owned(o, b) /\ Constructed(o, b, s, c)
      /\ Vectors \cap Blocks = {}
  BY SmallVectorAssumption DEF Represented, Allocated
<1>2. /\ bb \in [Vectors -> Vectors \cup Blocks] /\ ss \in [Vectors -> 0..MaxLen]
      /\ cc \in [Vectors -> Nat \ {0}]
  BY <1>1
<1>3. \A u \in Vectors : /\ Other(u) \in Vectors /\ bb[u] = b[Other(u)]
                         /\ ss[u] = s[Other(u)] /\ cc[u] = c[Other(u)]
  BY <1>1
<1>4. \A u \in Vectors : Other(Other(u)) = u /\ (b[Other(u)] \in Vectors => Other(u) = u)
  BY <1>1
<1> HIDE DEF bb, ss, cc, Other
<1>5. Allocated(o, bb, ss, cc)
  BY <1>1, <1>2 DEF Allocated
<1>6. Measured(o, bb, ss, cc)
  BY <1>1, <1>3, <1>4 DEF Measured
<1>7. Owned(o, bb)
  <2>1. \A u, t \in Vectors : u # t => Other(u) # Other(t)
    BY <1>4
  <2>2. \A u, t \in Vectors : u # t => bb[u] # bb[t]
    BY <1>1, <1>3, <2>1 DEF Owned
  <2>3. ASSUME NEW d \in Blocks, o[d] # <<>> PROVE \E u \in Vectors : bb[u] = d
    <3>1. PICK u \in Vectors : b[u] = d
      BY <1>1, <2>3 DEF Owned
    <3>2. Other(u) \in Vectors /\ bb[Other(u)] = d
      BY <1>3, <1>4, <3>1
    <3> QED
      BY <3>2
  <2> QED
    BY <2>2, <2>3 DEF Owned
<1>8. Constructed(o, bb, ss, cc)
  <2> SUFFICES ASSUME NEW u \in Vectors, NEW i \in 1..cc[u]
               PROVE  /\ i <= ss[u] => o[bb[u]][i] # Raw
                      /\ bb[u] \in Blocks /\ i > ss[u] => o[bb[u]][i] = Raw
    BY DEF Constructed
  <2>1. Other(u) \in Vectors /\ i \in 1..c[Other(u)]
    BY <1>3
  <2>2. /\ i <= s[Other(u)] => o[b[Other(u)]][i] # Raw
        /\ b[Other(u)] \in Blocks /\ i > s[Other(u)] => o[b[Other(u)]][i] = Raw
    BY <1>1, <2>1 DEF Constructed
  <2> QED
    BY <1>3, <2>2
<1> QED
  BY <1>5, <1>6, <1>7, <1>8 DEF Represented, bb, ss, cc

\* An array of objects is a sequence.
LEMMA Array ==
  ASSUME NEW S, NEW k \in Nat, NEW t, t = [i \in 1..k |-> t[i]], \A i \in 1..k : t[i] \in S
  PROVE  t \in Seq(S) /\ Len(t) = k
OBVIOUS

\* How the loops of push_back, emplace_back and resize change the elements.
Extended(v, n, x) ==
  [i \in 1..size[v] + n |-> IF i <= size[v] THEN objects[begin[v]][i] ELSE x]

ElementsIn(o, b, s) == [v \in Vectors |-> [i \in 1..s[v] |-> o[b[v]][i]]]

LEMMA ExtendInv ==
  ASSUME IInv, NEW v \in Vectors, NEW n \in Nat \ {0}, size[v] + n <= MaxLen,
         NEW x \in Values \cup {Default}, Extend(v, n, x)
  PROVE  /\ IInv'
         /\ ElementsIn(objects, begin, size)'
              = [ElementsIn(objects, begin, size) EXCEPT ![v] = Extended(v, n, x)]
<1> DEFINE m == size[v] + n
           o == Fitted(v, m).objects
           f == Fitted(v, m).begin
           b == FittedBegin(v, m)
           c == FittedCapacity(v, m)
           t == [i \in DOMAIN o[f] |-> IF i \in size[v] + 1..m THEN x ELSE o[f][i]]
<1>1. /\ size \in [Vectors -> 0..MaxLen] /\ begin \in [Vectors -> Vectors \cup Blocks]
      /\ capacity \in [Vectors -> Nat \ {0}] /\ MaxLen \in Nat /\ misuse \subseteq {"internal", "overwritten"}
  BY SmallVectorAssumption DEF IInv, Represented, Allocated
<1>2. m \in Nat /\ m \in 0..MaxLen /\ size[v] \in Nat
  BY <1>1
<1>3. Represented(o, b, size, c) /\ SameElements(o, b) /\ m <= Fitted(v, m).capacity
  BY <1>2, FittedInv
<1>4. b[v] = f /\ c[v] = Fitted(v, m).capacity /\ \A u \in Vectors : u # v => b[u] = begin[u]
  BY <1>1 DEF FittedBegin, FittedCapacity
<1>5. /\ objects' = [o EXCEPT ![f] = t] /\ begin' = b /\ capacity' = c
      /\ size' = [size EXCEPT ![v] = m]
      /\ misuse' = misuse \cup (IF ~\E i \in size[v] + 1..m : o[f][i] # Raw THEN {}
                               ELSE IF f = v THEN {"overwritten"} ELSE {"leak"})
  BY DEF Extend, FittedBegin, FittedCapacity
<1> HIDE DEF o, f, b, c
<1>6. /\ o \in [Vectors \cup Blocks -> Seq(Slots)] /\ f \in Vectors \cup Blocks
      /\ Len(o[f]) = c[v] /\ c[v] \in Nat \ {0} /\ m <= c[v]
      /\ \A i \in 1..c[v] : /\ i <= size[v] => o[f][i] # Raw
                            /\ f \in Blocks /\ i > size[v] => o[f][i] = Raw
  <2>1. /\ o \in [Vectors \cup Blocks -> Seq(Slots)] /\ b \in [Vectors -> Vectors \cup Blocks]
        /\ c \in [Vectors -> Nat \ {0}]
    BY <1>3 DEF Represented, Allocated
  <2>2. Len(o[f]) = c[v]
    BY <1>3, <1>4 DEF Represented, Measured
  <2>3. \A i \in 1..c[v] : /\ i <= size[v] => o[f][i] # Raw
                           /\ f \in Blocks /\ i > size[v] => o[f][i] = Raw
    BY <1>3, <1>4 DEF Represented, Constructed
  <2> QED
    BY <1>3, <1>4, <2>1, <2>2, <2>3
<1>7. x \in Slots /\ x # Raw
  BY SmallVectorAssumption DEF Slots
<1>8. DOMAIN o[f] = 1..c[v] /\ \A i \in 1..c[v] : o[f][i] \in Slots
  BY <1>6
<1>9. /\ t \in Seq(Slots) /\ Len(t) = c[v]
      /\ \A i \in 1..c[v] : t[i] = IF i \in size[v] + 1..m THEN x ELSE o[f][i]
  <2>1. t = [i \in 1..c[v] |-> IF i \in size[v] + 1..m THEN x ELSE o[f][i]]
    BY <1>8
  <2>2. \A i \in 1..c[v] : (IF i \in size[v] + 1..m THEN x ELSE o[f][i]) \in Slots
    BY <1>7, <1>8
  <2> HIDE DEF t, m
  <2>3. \A i \in 1..c[v] : t[i] = IF i \in size[v] + 1..m THEN x ELSE o[f][i]
    BY <2>1
  <2>4. t = [i \in 1..c[v] |-> t[i]] /\ \A i \in 1..c[v] : t[i] \in Slots
    BY <2>1, <2>2, <2>3
  <2> QED
    BY <1>6, <2>3, <2>4, Array
<1> HIDE DEF t
<1>10. \A i \in 1..c[v] : /\ i <= m => t[i] # Raw
                          /\ f \in Blocks /\ i > m => t[i] = Raw
  BY <1>2, <1>6, <1>7, <1>9
<1>11. /\ Represented(objects', begin', size', capacity')
       /\ \A u \in Vectors : u # v => objects'[b[u]] = o[b[u]]
       /\ objects'[f] = t
  <2>1. /\ Represented([o EXCEPT ![b[v]] = t], b, [size EXCEPT ![v] = m], c)
        /\ \A u \in Vectors : u # v => [o EXCEPT ![b[v]] = t][b[u]] = o[b[u]]
        /\ [o EXCEPT ![b[v]] = t][b[v]] = t
    <3>1. /\ Represented(o, b, size, c) /\ m \in 0..MaxLen /\ m <= c[v]
          /\ t \in Seq(Slots) /\ Len(t) = c[v]
          /\ \A i \in 1..c[v] : /\ i <= m => t[i] # Raw
                                /\ b[v] \in Blocks /\ i > m => t[i] = Raw
      BY <1>2, <1>3, <1>4, <1>6, <1>9, <1>10
    <3> HIDE DEF m
    <3> QED
      BY <3>1, Written
  <2> HIDE DEF m
  <2> QED
    BY <1>4, <1>5, <2>1
<1>12. IInv'
  <2>1. CASE f \in Blocks
    <3>1. \A i \in size[v] + 1..m : i \in 1..c[v] /\ i > size[v]
      BY <1>2, <1>6
    <3>2. \A i \in size[v] + 1..m : o[f][i] = Raw
      BY <1>6, <2>1, <3>1
    <3> QED
      BY <1>1, <1>5, <1>11, <3>2 DEF IInv
  <2>2. CASE f \in Vectors
    <3>1. f = v
      BY <1>3, <1>4, <2>2 DEF Represented, Measured
    <3> QED
      BY <1>1, <1>5, <1>11, <3>1 DEF IInv
  <2> QED
    BY <1>6, <2>1, <2>2
<1>13. ASSUME NEW u \in Vectors, u # v
       PROVE  [i \in 1..size'[u] |-> objects'[begin'[u]][i]] = [i \in 1..size[u] |-> objects[begin[u]][i]]
  BY <1>1, <1>3, <1>4, <1>5, <1>11, <1>13 DEF SameElements
<1>14. [i \in 1..size'[v] |-> objects'[begin'[v]][i]] = Extended(v, n, x)
  <2>1. size'[v] = m
    BY <1>1, <1>5
  <2>2. ASSUME NEW i \in 1..m
        PROVE  objects'[begin'[v]][i] = IF i <= size[v] THEN objects[begin[v]][i] ELSE x
    <3>1. i \in 1..c[v] /\ objects'[begin'[v]][i] = t[i]
      BY <1>2, <1>4, <1>5, <1>6, <1>11
    <3>2. i <= size[v] => o[f][i] = objects[begin[v]][i]
      BY <1>2, <1>3, <1>4 DEF SameElements
    <3> QED
      BY <1>2, <1>9, <3>1, <3>2
  <2> QED
    BY <2>1, <2>2 DEF Extended
<1>15. ElementsIn(objects', begin', size')
         = [ElementsIn(objects, begin, size) EXCEPT ![v] = Extended(v, n, x)]
  BY <1>13, <1>14 DEF ElementsIn
<1> QED
  BY <1>12, <1>15 DEF ElementsIn

\* The parts of the invariant, for the vectors of a step.
LEMMA Parts ==
  ASSUME IInv
  PROVE  /\ Represented(objects, begin, size, capacity) /\ misuse \subseteq {"internal", "overwritten"}
         /\ objects \in [Vectors \cup Blocks -> Seq(Slots)]
         /\ begin \in [Vectors -> Vectors \cup Blocks]
         /\ size \in [Vectors -> 0..MaxLen] /\ MaxLen \in Nat
         /\ capacity \in [Vectors -> Nat \ {0}]
         /\ \A v \in Vectors :
              /\ Len(objects[v]) = N /\ (begin[v] \in Vectors => begin[v] = v)
              /\ capacity[v] = Len(objects[begin[v]])
              /\ size[v] \in Nat /\ size[v] <= capacity[v]
         /\ \A v, w \in Vectors : v # w => begin[v] # begin[w]
         /\ \A v \in Vectors : \A i \in 1..capacity[v] :
              /\ i <= size[v] => objects[begin[v]][i] # Raw
              /\ begin[v] \in Blocks /\ i > size[v] => objects[begin[v]][i] = Raw
         /\ Vectors \cap Blocks = {} /\ N \in Nat \ {0}
<1>1. /\ Allocated(objects, begin, size, capacity) /\ Measured(objects, begin, size, capacity)
      /\ Owned(objects, begin) /\ Constructed(objects, begin, size, capacity)
      /\ misuse \subseteq {"internal", "overwritten"}
  BY DEF IInv, Represented
<1>2. \A v, w \in Vectors : v # w => begin[v] # begin[w]
  BY <1>1 DEF Owned
<1>3. \A v \in Vectors : \A i \in 1..capacity[v] :
        /\ i <= size[v] => objects[begin[v]][i] # Raw
        /\ begin[v] \in Blocks /\ i > size[v] => objects[begin[v]][i] = Raw
  BY <1>1 DEF Constructed
<1>4. /\ objects \in [Vectors \cup Blocks -> Seq(Slots)]
      /\ begin \in [Vectors -> Vectors \cup Blocks]
      /\ size \in [Vectors -> 0..MaxLen] /\ MaxLen \in Nat
      /\ capacity \in [Vectors -> Nat \ {0}]
  BY <1>1, SmallVectorAssumption DEF Allocated
<1>5. \A v \in Vectors :
        /\ Len(objects[v]) = N /\ (begin[v] \in Vectors => begin[v] = v)
        /\ capacity[v] = Len(objects[begin[v]])
        /\ size[v] \in Nat /\ size[v] <= capacity[v]
  BY <1>1, <1>4 DEF Measured
<1> QED
  BY <1>1, <1>2, <1>3, <1>4, <1>5, SmallVectorAssumption DEF IInv

\* pop_back and resize destroy the last elements, which are all objects.
LEMMA ShrinkInv ==
  ASSUME IInv, NEW v \in Vectors, NEW n \in 1..size[v], Shrink(v, n)
  PROVE  /\ IInv'
         /\ ElementsIn(objects, begin, size)'
              = [ElementsIn(objects, begin, size) EXCEPT
                   ![v] = [i \in 1..size[v] - n |-> objects[begin[v]][i]]]
<1> DEFINE m == size[v] - n
           a == objects[begin[v]]
           t == [i \in DOMAIN a |-> IF i \in m + 1..size[v] THEN Raw ELSE a[i]]
<1>1. /\ m \in 0..MaxLen /\ m <= capacity[v] /\ m \in Nat /\ size[v] \in Nat /\ n \in Nat \ {0}
      /\ begin[v] \in Vectors \cup Blocks /\ a \in Seq(Slots) /\ Len(a) = capacity[v]
      /\ capacity[v] \in Nat
  BY Parts
<1>2. /\ objects' = [objects EXCEPT ![begin[v]] = t] /\ begin' = begin /\ capacity' = capacity
      /\ size' = [size EXCEPT ![v] = m]
  BY DEF Shrink
<1>3. misuse' = misuse
  <2>1. \A i \in m + 1..size[v] : a[i] # Raw
    BY <1>1, Parts
  <2> QED
    BY <2>1 DEF Shrink
<1>4. \A i \in 1..capacity[v] : t[i] = IF i \in m + 1..size[v] THEN Raw ELSE a[i]
  BY <1>1
<1>5. t \in Seq(Slots) /\ Len(t) = capacity[v]
  <2>1. t = [i \in 1..capacity[v] |-> t[i]] /\ \A i \in 1..capacity[v] : t[i] \in Slots
    BY <1>1, <1>4 DEF Slots
  <2> HIDE DEF t
  <2> QED
    BY <1>1, <2>1, Array
<1> HIDE DEF t, m
<1>6. \A i \in 1..capacity[v] : /\ i <= m => t[i] # Raw
                                /\ begin[v] \in Blocks /\ i > m => t[i] = Raw
  <2> SUFFICES ASSUME NEW i \in 1..capacity[v]
               PROVE  /\ i <= m => t[i] # Raw
                      /\ begin[v] \in Blocks /\ i > m => t[i] = Raw
    OBVIOUS
  <2>1. /\ i <= size[v] => a[i] # Raw
        /\ begin[v] \in Blocks /\ i > size[v] => a[i] = Raw
    BY Parts
  <2>2. t[i] = IF i \in m + 1..size[v] THEN Raw ELSE a[i]
    BY <1>4
  <2>3. m \in Nat /\ m <= size[v] /\ size[v] \in Nat /\ i \in Nat
    BY <1>1 DEF m
  <2> QED
    BY <2>1, <2>2, <2>3
<1>7. /\ Represented([objects EXCEPT ![begin[v]] = t], begin, [size EXCEPT ![v] = m], capacity)
      /\ \A u \in Vectors : u # v => [objects EXCEPT ![begin[v]] = t][begin[u]] = objects[begin[u]]
      /\ [objects EXCEPT ![begin[v]] = t][begin[v]] = t
  BY <1>1, <1>5, <1>6, Parts, Written
<1>8. IInv'
  BY <1>2, <1>3, <1>7, Parts DEF IInv
<1>9. ASSUME NEW u \in Vectors, u # v
      PROVE  [i \in 1..size'[u] |-> objects'[begin'[u]][i]] = [i \in 1..size[u] |-> objects[begin[u]][i]]
  BY <1>2, <1>7, <1>9, Parts
<1>10. [i \in 1..size'[v] |-> objects'[begin'[v]][i]] = [i \in 1..m |-> objects[begin[v]][i]]
  <2>1. size'[v] = m /\ objects'[begin'[v]] = t
    BY <1>2, <1>7, Parts
  <2>2. \A i \in 1..m : t[i] = objects[begin[v]][i]
    BY <1>1, <1>4
  <2> QED
    BY <2>1, <2>2
<1>11. ElementsIn(objects', begin', size')
         = [ElementsIn(objects, begin, size) EXCEPT ![v] = [i \in 1..m |-> objects[begin[v]][i]]]
  BY <1>9, <1>10 DEF ElementsIn
<1> QED
  BY <1>8, <1>11 DEF ElementsIn, m

\* What a swap has to do to the elements.
LEMMA ContentsSwapped ==
  ASSUME NEW v \in Vectors, NEW w \in Vectors, v # w,
         size'[v] = size[w] /\ \A i \in 1..size[w] : objects'[begin'[v]][i] = objects[begin[w]][i],
         size'[w] = size[v] /\ \A i \in 1..size[v] : objects'[begin'[w]][i] = objects[begin[v]][i],
         \A u \in Vectors : u \notin {v, w} =>
           size'[u] = size[u] /\ \A i \in 1..size[u] : objects'[begin'[u]][i] = objects[begin[u]][i]
  PROVE  ElementsIn(objects', begin', size')
           = [ElementsIn(objects, begin, size) EXCEPT
                ![v] = ElementsIn(objects, begin, size)[w], ![w] = ElementsIn(objects, begin, size)[v]]
<1> DEFINE g == ElementsIn(objects, begin, size)
           h == ElementsIn(objects', begin', size')
<1>1. h[v] = g[w]
  BY DEF ElementsIn
<1>2. h[w] = g[v]
  BY DEF ElementsIn
<1>3. \A u \in Vectors : u \notin {v, w} => h[u] = g[u]
  BY DEF ElementsIn
<1>4. g = [u \in Vectors |-> g[u]] /\ h = [u \in Vectors |-> h[u]]
  BY DEF ElementsIn
<1> HIDE DEF g, h
<1>5. h = [g EXCEPT ![v] = g[w], ![w] = g[v]]
  BY <1>1, <1>2, <1>3, <1>4
<1> QED
  BY <1>5 DEF g, h

\* A place that is written twice.
LEMMA Overridden ==
  ASSUME NEW v \in Vectors, NEW w \in Vectors, NEW u \in {v, w}, NEW S, NEW e \in [Vectors -> S],
         NEW g, NEW x, NEW y
  PROVE  [[e EXCEPT ![u] = g] EXCEPT ![v] = x, ![w] = y] = [e EXCEPT ![v] = x, ![w] = y]
OBVIOUS

\* Element by element.
LEMMA SwapStaticInv ==
  ASSUME IInv, NEW v \in Vectors, NEW w \in Vectors, v # w,
         _is_static(v), _is_static(w), SwapStatic(v, w)
  PROVE  /\ IInv'
         /\ ElementsIn(objects, begin, size)'
              = [ElementsIn(objects, begin, size) EXCEPT
                   ![v] = ElementsIn(objects, begin, size)[w], ![w] = ElementsIn(objects, begin, size)[v]]
<1> DEFINE o == [objects EXCEPT ![v] = objects[w]]
           s == [size EXCEPT ![v] = size[w]]
<1>1. /\ begin[v] = v /\ begin[w] = w /\ capacity[v] = N /\ capacity[w] = N
      /\ \A u \in Vectors : objects[u] \in Seq(Slots) /\ Len(objects[u]) = N
      /\ \A u \in Vectors : size[u] \in 0..MaxLen /\ size[u] \in Nat
      /\ size[v] <= N /\ size[w] <= N /\ v \notin Blocks /\ w \notin Blocks
  BY Parts DEF _is_static
<1>2. /\ objects' = [o EXCEPT ![w] = objects[v]] /\ size' = [s EXCEPT ![w] = size[v]]
      /\ begin' = begin /\ capacity' = capacity
      /\ misuse' \subseteq misuse \cup {"internal"}
  BY DEF SwapStatic
<1>3. /\ Represented(o, begin, s, capacity) /\ o[v] = objects[w]
      /\ \A u \in Vectors : u # v => o[begin[u]] = objects[begin[u]]
  <2>1. \A i \in 1..capacity[v] : /\ i <= size[w] => objects[w][i] # Raw
                                  /\ begin[v] \in Blocks /\ i > size[w] => objects[w][i] = Raw
    BY <1>1, Parts
  <2>2. /\ Represented([objects EXCEPT ![begin[v]] = objects[w]], begin, [size EXCEPT ![v] = size[w]], capacity)
        /\ \A u \in Vectors : u # v => [objects EXCEPT ![begin[v]] = objects[w]][begin[u]] = objects[begin[u]]
        /\ [objects EXCEPT ![begin[v]] = objects[w]][begin[v]] = objects[w]
    <3>1. /\ Represented(objects, begin, size, capacity) /\ size[w] <= capacity[v]
          /\ objects[w] \in Seq(Slots) /\ Len(objects[w]) = capacity[v] /\ size[w] \in 0..MaxLen
      BY <1>1, Parts
    <3> QED
      BY <2>1, <3>1, Written
  <2> QED
    BY <1>1, <2>2
<1> HIDE DEF o
<1>4. /\ Represented(objects', begin, size', capacity) /\ objects'[w] = objects[v]
      /\ \A u \in Vectors : u # w => objects'[begin[u]] = o[begin[u]]
  <2>1. \A i \in 1..capacity[w] : /\ i <= size[v] => objects[v][i] # Raw
                                  /\ begin[w] \in Blocks /\ i > size[v] => objects[v][i] = Raw
    BY <1>1, Parts
  <2> HIDE DEF s
  <2>2. /\ Represented([o EXCEPT ![begin[w]] = objects[v]], begin, [s EXCEPT ![w] = size[v]], capacity)
        /\ \A u \in Vectors : u # w => [o EXCEPT ![begin[w]] = objects[v]][begin[u]] = o[begin[u]]
        /\ [o EXCEPT ![begin[w]] = objects[v]][begin[w]] = objects[v]
    <3>1. /\ size[v] <= capacity[w] /\ objects[v] \in Seq(Slots)
          /\ Len(objects[v]) = capacity[w] /\ size[v] \in 0..MaxLen
      BY <1>1, Parts
    <3> QED
      BY <1>3, <2>1, <3>1, Written
  <2> QED
    BY <1>1, <1>2, <2>2
<1>5. IInv'
  BY <1>2, <1>4, Parts DEF IInv
<1>6. /\ size'[v] = size[w] /\ size'[w] = size[v] /\ objects'[v] = objects[w]
      /\ \A u \in Vectors : u \notin {v, w} => size'[u] = size[u] /\ objects'[begin[u]] = objects[begin[u]]
  BY <1>1, <1>2, <1>3, <1>4, Parts
<1>7. ElementsIn(objects', begin', size')
        = [ElementsIn(objects, begin, size) EXCEPT
             ![v] = ElementsIn(objects, begin, size)[w], ![w] = ElementsIn(objects, begin, size)[v]]
  <2>1. \A i \in 1..size[w] : objects'[begin'[v]][i] = objects[begin[w]][i]
    BY <1>1, <1>2, <1>6
  <2>2. \A i \in 1..size[v] : objects'[begin'[w]][i] = objects[begin[v]][i]
    BY <1>1, <1>2, <1>4
  <2>3. \A u \in Vectors : u \notin {v, w} =>
          size'[u] = size[u] /\ \A i \in 1..size[u] : objects'[begin'[u]][i] = objects[begin[u]][i]
    BY <1>2, <1>6
  <2>4. size'[v] = size[w] /\ size'[w] = size[v]
    BY <1>6
  <2> QED
    BY <2>1, <2>2, <2>3, <2>4, ContentsSwapped, Zenon
<1> QED
  BY <1>5, <1>7 DEF ElementsIn

\* The exchange of the pointers, when what was static has moved to the heap.
LEMMA PointersSwapped ==
  ASSUME IInv, NEW v \in Vectors, NEW w \in Vectors, v # w,
         NEW b, NEW c, Represented(objects', b, size, c), SameElements(objects', b),
         b[v] \in Blocks, b[w] \in Blocks,
         begin' = [b EXCEPT ![v] = b[w], ![w] = b[v]],
         capacity' = [c EXCEPT ![v] = c[w], ![w] = c[v]],
         size' = [size EXCEPT ![v] = size[w], ![w] = size[v]], misuse' = misuse
  PROVE  /\ IInv'
         /\ ElementsIn(objects, begin, size)'
              = [ElementsIn(objects, begin, size) EXCEPT
                   ![v] = ElementsIn(objects, begin, size)[w], ![w] = ElementsIn(objects, begin, size)[v]]
<1>1. IInv'
  BY Exchanged, Parts DEF IInv
<1>2. /\ \A u \in Vectors : \A i \in 1..size[u] : objects'[b[u]][i] = objects[begin[u]][i]
      /\ b \in [Vectors -> Vectors \cup Blocks] /\ size \in [Vectors -> 0..MaxLen]
  BY DEF SameElements, Represented, Allocated
<1>3. /\ begin'[v] = b[w] /\ begin'[w] = b[v] /\ size'[v] = size[w] /\ size'[w] = size[v]
      /\ \A u \in Vectors : u \notin {v, w} => begin'[u] = b[u] /\ size'[u] = size[u]
  BY <1>2
<1>4. \A i \in 1..size[w] : objects'[begin'[v]][i] = objects[begin[w]][i]
  BY <1>2, <1>3
<1>5. \A i \in 1..size[v] : objects'[begin'[w]][i] = objects[begin[v]][i]
  BY <1>2, <1>3
<1>6. \A u \in Vectors : u \notin {v, w} =>
        size'[u] = size[u] /\ \A i \in 1..size[u] : objects'[begin'[u]][i] = objects[begin[u]][i]
  BY <1>2, <1>3
<1>7. ElementsIn(objects', begin', size')
        = [ElementsIn(objects, begin, size) EXCEPT
             ![v] = ElementsIn(objects, begin, size)[w], ![w] = ElementsIn(objects, begin, size)[v]]
  BY <1>3, <1>4, <1>5, <1>6, ContentsSwapped, Zenon
<1> QED
  BY <1>1, <1>7 DEF ElementsIn

\* One of the two, at least, is on the heap before.
LEMMA SwapPointersInv ==
  ASSUME IInv, NEW v \in Vectors, NEW w \in Vectors, v # w,
         ~(_is_static(v) /\ _is_static(w)), SwapPointers(v, w)
  PROVE  /\ IInv'
         /\ ElementsIn(objects, begin, size)'
              = [ElementsIn(objects, begin, size) EXCEPT
                   ![v] = ElementsIn(objects, begin, size)[w], ![w] = ElementsIn(objects, begin, size)[v]]
<1> DEFINE f == [u \in Vectors |-> IF _is_static(u) THEN Fitted(u, 2 * N) ELSE Fitted(u, 0)]
           moved == CHOOSE u \in {v, w} : \A t \in {v, w} : _is_static(u) \/ ~_is_static(t)
<1>1. /\ objects' = f[moved].objects
      /\ begin' = [begin EXCEPT ![v] = f[w].begin, ![w] = f[v].begin]
      /\ capacity' = [capacity EXCEPT ![v] = f[w].capacity, ![w] = f[v].capacity]
      /\ size' = [size EXCEPT ![v] = size[w], ![w] = size[v]]
      /\ misuse' = misuse
  BY DEF SwapPointers
<1>2. \A u \in Vectors : ~_is_static(u) =>
        /\ begin[u] \in Blocks
        /\ f[u] = [objects |-> objects, begin |-> begin[u], capacity |-> capacity[u]]
  <2> SUFFICES ASSUME NEW u \in Vectors, ~_is_static(u)
               PROVE  /\ begin[u] \in Blocks
                      /\ f[u] = [objects |-> objects, begin |-> begin[u], capacity |-> capacity[u]]
    OBVIOUS
  <2>1. begin[u] \in Blocks /\ capacity[u] >= 0
    BY Parts DEF _is_static
  <2> QED
    BY <2>1 DEF Fitted
<1>3. \A u \in Vectors : _is_static(u) => f[u] = Fitted(u, 2 * N) /\ f[u].begin \in Blocks
  <2> SUFFICES ASSUME NEW u \in Vectors, _is_static(u)
               PROVE  f[u] = Fitted(u, 2 * N) /\ f[u].begin \in Blocks
    OBVIOUS
  <2>1. ~(capacity[u] >= 2 * N)
    BY Parts DEF _is_static
  <2>2. Fitted(u, 2 * N).begin = NewBlock
    BY <2>1 DEF Fitted
  <2> QED
    BY <2>2, FreeBlock
<1>4. ASSUME NEW u \in {v, w}, _is_static(u)
      PROVE  moved = u /\ \A t \in {v, w} : t # u => ~_is_static(t)
  BY <1>4
<1>5. moved \in {v, w}
  <2>1. \E u \in {v, w} : \A t \in {v, w} : _is_static(u) \/ ~_is_static(t)
    OBVIOUS
  <2> QED
    BY <2>1
<1> HIDE DEF f, moved
<1>6. CASE ~_is_static(v) /\ ~_is_static(w)
  <2>1. /\ objects' = objects /\ begin[v] \in Blocks /\ begin[w] \in Blocks
        /\ begin' = [begin EXCEPT ![v] = begin[w], ![w] = begin[v]]
        /\ capacity' = [capacity EXCEPT ![v] = capacity[w], ![w] = capacity[v]]
    <3>1. /\ f[v] = [objects |-> objects, begin |-> begin[v], capacity |-> capacity[v]]
          /\ f[w] = [objects |-> objects, begin |-> begin[w], capacity |-> capacity[w]]
          /\ begin[v] \in Blocks /\ begin[w] \in Blocks
      BY <1>2, <1>6
    <3>2. /\ f[v].objects = objects /\ f[v].begin = begin[v] /\ f[v].capacity = capacity[v]
          /\ f[w].objects = objects /\ f[w].begin = begin[w] /\ f[w].capacity = capacity[w]
      BY <3>1
    <3>3. f[moved].objects = objects
      BY <1>5, <3>2
    <3> QED
      BY <1>1, <3>1, <3>2, <3>3
  <2>2. SameElements(objects', begin) /\ Represented(objects', begin, size, capacity)
    BY <2>1, Parts DEF SameElements
  <2> QED
    BY <1>1, <2>1, <2>2, PointersSwapped
<1>7. ASSUME NEW u \in {v, w}, _is_static(u)
      PROVE  \E b, c : /\ Represented(objects', b, size, c) /\ SameElements(objects', b)
                       /\ b[v] \in Blocks /\ b[w] \in Blocks
                       /\ begin' = [b EXCEPT ![v] = b[w], ![w] = b[v]]
                       /\ capacity' = [c EXCEPT ![v] = c[w], ![w] = c[v]]
  <2> DEFINE b == FittedBegin(u, 2 * N)
             c == FittedCapacity(u, 2 * N)
  <2>1. moved = u /\ \A t \in {v, w} : t # u => ~_is_static(t)
    BY <1>4, <1>7
  <2>2. f[u] = Fitted(u, 2 * N) /\ f[u].begin \in Blocks /\ 2 * N \in Nat
    BY <1>3, <1>7, Parts
  <2>3. Represented(objects', b, size, c) /\ SameElements(objects', b)
    BY <1>1, <2>1, <2>2, FittedInv
  <2>4. /\ b[u] = f[u].begin /\ c[u] = f[u].capacity
        /\ \A t \in Vectors : t # u => b[t] = begin[t] /\ c[t] = capacity[t]
    BY <2>2, Parts DEF FittedBegin, FittedCapacity
  <2> HIDE DEF b, c
  <2>5. \A t \in {v, w} : b[t] = f[t].begin /\ c[t] = f[t].capacity /\ b[t] \in Blocks
    <3> SUFFICES ASSUME NEW t \in {v, w}
                 PROVE  b[t] = f[t].begin /\ c[t] = f[t].capacity /\ b[t] \in Blocks
      OBVIOUS
    <3>1. CASE t = u
      BY <2>2, <2>4, <3>1
    <3>2. CASE t # u
      <4>1. /\ f[t] = [objects |-> objects, begin |-> begin[t], capacity |-> capacity[t]]
            /\ begin[t] \in Blocks
        BY <1>2, <2>1, <3>2
      <4>2. f[t].begin = begin[t] /\ f[t].capacity = capacity[t]
        BY <4>1
      <4> QED
        BY <2>4, <3>2, <4>1, <4>2
    <3> QED
      BY <3>1, <3>2
  <2>6. /\ begin' = [begin EXCEPT ![v] = b[w], ![w] = b[v]]
        /\ capacity' = [capacity EXCEPT ![v] = c[w], ![w] = c[v]]
    BY <1>1, <2>5
  <2>7. /\ begin' = [b EXCEPT ![v] = b[w], ![w] = b[v]]
        /\ capacity' = [c EXCEPT ![v] = c[w], ![w] = c[v]]
    <3>1. /\ begin \in [Vectors -> Vectors \cup Blocks] /\ capacity \in [Vectors -> Nat \ {0}]
          /\ b = [begin EXCEPT ![u] = Fitted(u, 2 * N).begin]
          /\ c = [capacity EXCEPT ![u] = Fitted(u, 2 * N).capacity]
      BY Parts DEF b, c, FittedBegin, FittedCapacity
    <3>2. \A x, y : [b EXCEPT ![v] = x, ![w] = y] = [begin EXCEPT ![v] = x, ![w] = y]
      BY <1>7, <3>1, Overridden, Zenon
    <3>3. \A x, y : [c EXCEPT ![v] = x, ![w] = y] = [capacity EXCEPT ![v] = x, ![w] = y]
      BY <1>7, <3>1, Overridden, Zenon
    <3> QED
      BY <2>6, <3>2, <3>3
  <2> QED
    BY <2>3, <2>5, <2>7
<1>8. CASE \E u \in {v, w} : _is_static(u)
  <2>1. PICK b, c : /\ Represented(objects', b, size, c) /\ SameElements(objects', b)
                    /\ b[v] \in Blocks /\ b[w] \in Blocks
                    /\ begin' = [b EXCEPT ![v] = b[w], ![w] = b[v]]
                    /\ capacity' = [c EXCEPT ![v] = c[w], ![w] = c[v]]
    BY <1>7, <1>8
  <2> QED
    BY <1>1, <2>1, PointersSwapped
<1> QED
  BY <1>6, <1>8

\* A vector is destroyed, with its block, and there is a new one in its place.
LEMMA RenewInv ==
  ASSUME IInv, NEW v \in Vectors, Renew(v)
  PROVE  /\ IInv'
         /\ ElementsIn(objects, begin, size)' = [ElementsIn(objects, begin, size) EXCEPT ![v] = <<>>]
<1>1. /\ begin' = [begin EXCEPT ![v] = v] /\ size' = [size EXCEPT ![v] = 0]
      /\ capacity' = [capacity EXCEPT ![v] = N]
      /\ objects' = IF begin[v] # v THEN [objects EXCEPT ![begin[v]] = <<>>, ![v] = Internal]
                                    ELSE [objects EXCEPT ![v] = Internal]
  BY DEF Renew, _is_static
<1>2. /\ Internal \in Seq(Slots) /\ Len(Internal) = N /\ <<>> \in Seq(Slots)
  BY SmallVectorAssumption DEF Internal, Slots
<1>3. /\ objects' \in [Vectors \cup Blocks -> Seq(Slots)] /\ objects'[v] = Internal
      /\ begin[v] # v => begin[v] \in Blocks /\ objects'[begin[v]] = <<>>
      /\ \A d \in Vectors \cup Blocks : d \notin {v, begin[v]} => objects'[d] = objects[d]
  <2>1. /\ objects \in [Vectors \cup Blocks -> Seq(Slots)] /\ begin[v] \in Vectors \cup Blocks
        /\ begin[v] \in Vectors => begin[v] = v
    BY Parts
  <2> HIDE DEF Internal
  <2>2. CASE begin[v] = v
    BY <1>1, <1>2, <2>1, <2>2
  <2>3. CASE begin[v] # v
    <3>1. objects' = [objects EXCEPT ![begin[v]] = <<>>, ![v] = Internal] /\ begin[v] \in Blocks
      BY <1>1, <2>1, <2>3
    <3> QED
      BY <1>2, <2>1, <2>3, <3>1
  <2> QED
    BY <2>2, <2>3
<1>4. /\ begin'[v] = v /\ size'[v] = 0 /\ capacity'[v] = N
      /\ \A u \in Vectors : u # v => begin'[u] = begin[u] /\ size'[u] = size[u] /\ capacity'[u] = capacity[u]
      /\ begin' \in [Vectors -> Vectors \cup Blocks] /\ size' \in [Vectors -> 0..MaxLen]
      /\ capacity' \in [Vectors -> Nat \ {0}]
  BY <1>1, Parts
<1>5. \A u \in Vectors : u # v => begin[u] \notin {v, begin[v]} /\ objects'[begin[u]] = objects[begin[u]]
  BY <1>3, Parts
<1>6. \A u \in Vectors : u # v => objects'[u] = objects[u]
  BY <1>3, Parts
<1>7. Allocated(objects', begin', size', capacity')
  BY <1>3, <1>4 DEF Allocated
<1>8. Measured(objects', begin', size', capacity')
  <2> SUFFICES ASSUME NEW u \in Vectors
               PROVE  /\ Len(objects'[u]) = N /\ (begin'[u] \in Vectors => begin'[u] = u)
                      /\ capacity'[u] = Len(objects'[begin'[u]]) /\ size'[u] <= capacity'[u]
                      /\ capacity'[u] = N \/ IsPowerOfTwo(capacity'[u])
    BY DEF Measured
  <2>1. CASE u = v
    BY <1>2, <1>3, <1>4, <2>1, Parts
  <2>2. CASE u # v
    <3>1. capacity[u] = N \/ IsPowerOfTwo(capacity[u])
      BY DEF IInv, Represented, Measured
    <3> QED
      BY <1>4, <1>5, <1>6, <2>2, <3>1, Parts
  <2> QED
    BY <2>1, <2>2
<1>9. Owned(objects', begin')
  <2>1. \A u, w \in Vectors : u # w => begin'[u] # begin'[w]
    BY <1>4, <1>5, Parts
  <2>2. ASSUME NEW d \in Blocks, objects'[d] # <<>> PROVE \E u \in Vectors : begin'[u] = d
    <3>1. d # v /\ d # begin[v] /\ objects[d] # <<>>
      BY <1>3, <2>2, Parts
    <3>2. PICK u \in Vectors : begin[u] = d
      BY <3>1 DEF IInv, Represented, Owned
    <3> QED
      BY <1>4, <3>1, <3>2
  <2> QED
    BY <2>1, <2>2 DEF Owned
<1>10. Constructed(objects', begin', size', capacity')
  <2> SUFFICES ASSUME NEW u \in Vectors, NEW i \in 1..capacity'[u]
               PROVE  /\ i <= size'[u] => objects'[begin'[u]][i] # Raw
                      /\ begin'[u] \in Blocks /\ i > size'[u] => objects'[begin'[u]][i] = Raw
    BY DEF Constructed
  <2>1. CASE u = v
    BY <1>4, <2>1, Parts
  <2>2. CASE u # v
    BY <1>4, <1>5, <2>2, Parts
  <2> QED
    BY <2>1, <2>2
<1>11. misuse' \subseteq {"internal", "overwritten"}
  <2> DEFINE left == {i \in DOMAIN objects[begin[v]] : objects[begin[v]][i] # Raw}
             inBlock == begin[v] # v
  <2>1. misuse' = misuse
           \cup (IF \E i \in 1..N : objects[v][i] = Raw THEN {"internal"} ELSE {})
           \cup (IF inBlock /\ ~(1..size[v] \subseteq left) THEN {"heap"} ELSE {})
           \cup (IF inBlock /\ ~(left \subseteq 1..size[v]) THEN {"leak"} ELSE {})
    BY DEF Renew, _is_static
  <2>2. inBlock => left = 1..size[v]
    <3> SUFFICES ASSUME inBlock PROVE left = 1..size[v]
      OBVIOUS
    <3>1. /\ begin[v] \in Blocks /\ DOMAIN objects[begin[v]] = 1..capacity[v]
          /\ size[v] \in Nat /\ capacity[v] \in Nat /\ size[v] <= capacity[v]
      BY Parts
    <3>2. \A i \in 1..capacity[v] : objects[begin[v]][i] # Raw <=> i <= size[v]
      <4> SUFFICES ASSUME NEW i \in 1..capacity[v]
                   PROVE  objects[begin[v]][i] # Raw <=> i <= size[v]
        OBVIOUS
      <4>1. /\ i <= size[v] => objects[begin[v]][i] # Raw
            /\ begin[v] \in Blocks /\ i > size[v] => objects[begin[v]][i] = Raw
        BY Parts
      <4> QED
        BY <3>1, <4>1
    <3> QED
      BY <3>1, <3>2
  <2> HIDE DEF left, inBlock
  <2>3. misuse' = misuse \cup (IF \E i \in 1..N : objects[v][i] = Raw THEN {"internal"} ELSE {})
    BY <2>1, <2>2
  <2> QED
    BY <2>3, Parts
<1>12. IInv'
  BY <1>7, <1>8, <1>9, <1>10, <1>11 DEF IInv, Represented
<1>13. ASSUME NEW u \in Vectors, u # v
       PROVE  [i \in 1..size'[u] |-> objects'[begin'[u]][i]] = [i \in 1..size[u] |-> objects[begin[u]][i]]
  BY <1>4, <1>5, <1>13
<1>14. [i \in 1..size'[v] |-> objects'[begin'[v]][i]] = <<>>
  BY <1>4
<1>15. ElementsIn(objects', begin', size') = [ElementsIn(objects, begin, size) EXCEPT ![v] = <<>>]
  BY <1>13, <1>14 DEF ElementsIn
<1> QED
  BY <1>12, <1>15 DEF ElementsIn
-----------------------------------------------------------------------------
contents == ElementsIn(objects, begin, size)

\* The elements of a vector are a prefix of what is in its memory.
LEMMA Prefixes ==
  ASSUME NEW o, NEW b, NEW s, NEW c, Represented(o, b, s, c)
  PROVE  [v \in Vectors |-> SubSeq(o[b[v]], 1, s[v])] = ElementsIn(o, b, s)
<1> SUFFICES ASSUME NEW v \in Vectors
             PROVE  SubSeq(o[b[v]], 1, s[v]) = [i \in 1..s[v] |-> o[b[v]][i]]
  BY DEF ElementsIn
<1>1. /\ o[b[v]] \in Seq(Slots) /\ s[v] \in Nat /\ s[v] <= Len(o[b[v]])
  BY SmallVectorAssumption DEF Represented, Allocated, Measured
<1> QED
  BY <1>1

LEMMA Lengths ==
  ASSUME IInv, NEW v \in Vectors
  PROVE  /\ contents[v] \in Seq(Slots) /\ Len(contents[v]) = size[v] /\ size[v] \in Nat
         /\ \A i \in 1..size[v] : contents[v][i] = objects[begin[v]][i]
<1>1. contents[v] = [i \in 1..size[v] |-> objects[begin[v]][i]]
  BY DEF contents, ElementsIn
<1>2. \A i \in 1..size[v] : objects[begin[v]][i] \in Slots
  BY Parts
<1>3. size[v] \in Nat
  BY Parts
<1> QED
  BY <1>1, <1>2, <1>3

\* Each call does to the elements what it does to a sequence.
LEMMA PushStep ==
  ASSUME IInv, NEW v \in Vectors, NEW x \in Values, push_back(v, x)
  PROVE  IInv' /\ contents' = [contents EXCEPT ![v] = Append(contents[v], x)]
<1>1. IInv' /\ contents' = [contents EXCEPT ![v] = Extended(v, 1, x)]
  <2>1. size[v] + 1 <= MaxLen /\ Extend(v, 1, x)
    BY Parts DEF push_back
  <2> QED
    BY <2>1, ExtendInv DEF contents
<1>2. Extended(v, 1, x) = Append(contents[v], x)
  <2>1. /\ contents[v] \in Seq(Slots) /\ Len(contents[v]) = size[v] /\ size[v] \in Nat
        /\ \A i \in 1..size[v] : contents[v][i] = objects[begin[v]][i]
    BY Lengths
  <2>2. x \in Slots
    BY DEF Slots
  <2> QED
    BY <2>1, <2>2 DEF Extended
<1> QED
  BY <1>1, <1>2

LEMMA PopStep ==
  ASSUME IInv, NEW v \in Vectors, pop_back(v)
  PROVE  /\ IInv' /\ contents[v] # <<>>
         /\ contents' = [contents EXCEPT ![v] = SubSeq(contents[v], 1, Len(contents[v]) - 1)]
<1>1. /\ contents[v] \in Seq(Slots) /\ Len(contents[v]) = size[v] /\ size[v] \in Nat
      /\ \A i \in 1..size[v] : contents[v][i] = objects[begin[v]][i]
  BY Lengths
<1>2. 1 \in 1..size[v] /\ Shrink(v, 1)
  BY <1>1 DEF pop_back
<1>3. IInv' /\ contents' = [contents EXCEPT ![v] = [i \in 1..size[v] - 1 |-> objects[begin[v]][i]]]
  BY <1>2, ShrinkInv DEF contents
<1>4. [i \in 1..size[v] - 1 |-> objects[begin[v]][i]] = SubSeq(contents[v], 1, Len(contents[v]) - 1)
  BY <1>1, <1>2
<1>5. contents[v] # <<>>
  BY <1>1, <1>2
<1> QED
  BY <1>3, <1>4, <1>5

LEMMA ResizeStep ==
  ASSUME IInv, NEW v \in Vectors, NEW n \in 0..MaxLen, resize(v, n)
  PROVE  /\ IInv'
         /\ contents' = [contents EXCEPT ![v] =
              [i \in 1..n |-> IF i <= Len(contents[v]) THEN contents[v][i] ELSE Default]]
<1> DEFINE resized == [i \in 1..n |-> IF i <= Len(contents[v]) THEN contents[v][i] ELSE Default]
<1>1. /\ contents[v] \in Seq(Slots) /\ Len(contents[v]) = size[v] /\ size[v] \in Nat /\ n \in Nat
      /\ \A i \in 1..size[v] : contents[v][i] = objects[begin[v]][i]
  BY Lengths, Parts
<1>2. CASE n > size[v] /\ Extend(v, n - size[v], Default)
  <2>1. /\ n - size[v] \in Nat \ {0} /\ size[v] + (n - size[v]) <= MaxLen
        /\ size[v] + (n - size[v]) = n
    BY <1>1, <1>2, Parts
  <2>2. IInv' /\ contents' = [contents EXCEPT ![v] = Extended(v, n - size[v], Default)]
    BY <1>2, <2>1, ExtendInv DEF contents
  <2>3. Extended(v, n - size[v], Default) = resized
    BY <1>1, <2>1 DEF Extended
  <2> QED
    BY <2>2, <2>3
<1>3. CASE n < size[v] /\ Shrink(v, size[v] - n)
  <2>1. size[v] - n \in 1..size[v] /\ size[v] - (size[v] - n) = n
    BY <1>1, <1>3
  <2>2. IInv' /\ contents' = [contents EXCEPT ![v] = [i \in 1..n |-> objects[begin[v]][i]]]
    BY <1>3, <2>1, ShrinkInv DEF contents
  <2>3. [i \in 1..n |-> objects[begin[v]][i]] = resized
    BY <1>1, <1>3
  <2> QED
    BY <2>2, <2>3
<1> QED
  BY <1>2, <1>3 DEF resize

LEMMA SwapStep ==
  ASSUME IInv, NEW v \in Vectors, NEW w \in Vectors, swap(v, w)
  PROVE  IInv' /\ contents' = [contents EXCEPT ![v] = contents[w], ![w] = contents[v]]
<1>1. v # w
  BY DEF swap
<1>2. CASE _is_static(v) /\ _is_static(w)
  BY <1>1, <1>2, SwapStaticInv DEF swap, contents
<1>3. CASE ~(_is_static(v) /\ _is_static(w))
  BY <1>1, <1>3, SwapPointersInv DEF swap, contents
<1> QED
  BY <1>2, <1>3

LEMMA RenewStep ==
  ASSUME IInv, NEW v \in Vectors, Renew(v)
  PROVE  IInv' /\ contents' = [contents EXCEPT ![v] = <<>>]
BY RenewInv DEF contents

LEMMA NextInv == IInv /\ [Next]_vars => IInv'
<1> SUFFICES ASSUME IInv, [Next]_vars PROVE IInv'
  OBVIOUS
<1>1. ASSUME NEW v \in Vectors, NEW x \in Values, push_back(v, x) PROVE IInv'
  BY <1>1, PushStep
<1>2. ASSUME NEW v \in Vectors, pop_back(v) PROVE IInv'
  BY <1>2, PopStep
<1>3. ASSUME NEW v \in Vectors, NEW n \in 0..MaxLen, resize(v, n) PROVE IInv'
  BY <1>3, ResizeStep
<1>4. ASSUME NEW v \in Vectors, Renew(v) PROVE IInv'
  BY <1>4, RenewStep
<1>5. ASSUME NEW v \in Vectors, NEW w \in Vectors, swap(v, w) PROVE IInv'
  BY <1>5, SwapStep
<1>6. CASE UNCHANGED vars
  BY <1>6 DEF vars, IInv
<1> QED
  BY <1>1, <1>2, <1>3, <1>4, <1>5, <1>6 DEF Next

\* The representation is sound after any calls on any vectors: the pointers
\* agree with the memory, no block is lost or shared, and the objects on the
\* heap are the elements, for any number of vectors and any length of the array.
THEOREM RepresentationSound == Spec => []WellFormed
BY InitInv, NextInv, Representation, PTL DEF Spec

\* A vector that moves between its array and the heap, and is exchanged with
\* others, implements a sequence.
THEOREM Refinement == Spec => ImplementsSequences
<1> DEFINE view == [v \in Vectors |-> Elements(v)]
<1>1. IInv => view = contents
  BY Prefixes DEF IInv, Elements, contents
<1>2. Init => Abstract!Init
  <2>1. ASSUME Init, NEW v \in Vectors PROVE Elements(v) = <<>>
    BY <2>1 DEF Init, Elements
  <2> QED
    BY <2>1 DEF Abstract!Init
<1>3. IInv /\ [Next]_vars /\ IInv' => [Abstract!Next]_view
  <2> SUFFICES ASSUME IInv, [Next]_vars, IInv' PROVE [Abstract!Next]_view
    OBVIOUS
  <2>1. view = contents
    BY <1>1
  <2>2. view' = contents'
    <3>1. Represented(objects', begin', size', capacity')
      BY DEF IInv
    <3>2. view' = [v \in Vectors |-> SubSeq(objects'[begin'[v]], 1, size'[v])]
      BY DEF Elements
    <3>3. view' = ElementsIn(objects', begin', size')
      BY <3>1, <3>2, Prefixes
    <3> QED
      BY <3>3 DEF contents, ElementsIn
  <2> HIDE DEF view
  <2>3. ASSUME NEW v \in Vectors, NEW x \in Values, push_back(v, x) PROVE Abstract!Push(v)
    BY <2>1, <2>2, <2>3, PushStep DEF Abstract!Push, view
  <2>4. ASSUME NEW v \in Vectors, pop_back(v) PROVE Abstract!Pop(v)
    BY <2>1, <2>2, <2>4, PopStep DEF Abstract!Pop, view
  <2>5. ASSUME NEW v \in Vectors, NEW n \in 0..MaxLen, resize(v, n) PROVE Abstract!Resize(v)
    <3>1. view' = [view EXCEPT ![v] = [i \in 1..n |-> IF i <= Len(view[v]) THEN view[v][i] ELSE Default]]
      BY <2>1, <2>2, <2>5, ResizeStep
    <3> QED
      BY <3>1 DEF Abstract!Resize, view
  <2>6. ASSUME NEW v \in Vectors, Renew(v) PROVE Abstract!Renew(v)
    BY <2>1, <2>2, <2>6, RenewStep DEF Abstract!Renew, view
  <2>7. ASSUME NEW v \in Vectors, NEW w \in Vectors, swap(v, w) PROVE Abstract!Swap(v, w)
    BY <2>1, <2>2, <2>7, SwapStep DEF Abstract!Swap, view
  <2>8. CASE UNCHANGED vars
    BY <2>8 DEF vars, view, Elements
  <2> QED
    BY <2>3, <2>4, <2>5, <2>6, <2>7, <2>8 DEF Next, Abstract!Next, view
<1> QED
  BY InitInv, NextInv, <1>2, <1>3, PTL DEF Spec, ImplementsSequences, Abstract!Spec
-----------------------------------------------------------------------------
(* concurrent_queue. *)

\* The head of a sequence is its first element, and one of its set.
LEMMA FirstElement ==
  ASSUME NEW S, NEW s \in Seq(S), s # <<>>
  PROVE  Head(s) \in S /\ Head(s) = s[1]
<1>1. Head(s) = s[1]
  OBVIOUS
<1> QED
  BY <1>1, HeadTailProperties

QueueInv == QueueTypeOK /\ InOrder /\ CapacityCoversContents

LEMMA QueueInitInv == QueueInit => QueueInv
BY ConcurrentQueueAssumption DEF QueueInit, QueueInv, QueueTypeOK, InOrder, CapacityCoversContents

\* Appending the next number keeps the numbering of the queued elements.
LEMMA PushInv ==
  ASSUME QueueInv, Push
  PROVE  QueueInv'
<1>1. /\ _dek \in Seq(1..MaxPush) /\ delivered \in Seq(1..MaxPush)
      /\ pushed \in 0..MaxPush /\ pushed + 1 \in 1..MaxPush
      /\ pushed' = pushed + 1 /\ delivered' = delivered
      /\ _dek' = Append(_dek, pushed + 1)
  BY ConcurrentQueueAssumption DEF QueueInv, QueueTypeOK, Push
<1>2. /\ _dek' \in Seq(1..MaxPush)
      /\ Len(_dek') = Len(_dek) + 1
      /\ \A i \in 1..Len(_dek) : _dek'[i] = _dek[i]
      /\ _dek'[Len(_dek) + 1] = pushed + 1
  BY <1>1
<1>3. InOrder'
  <2>1. Len(delivered') + Len(_dek') = pushed'
    BY <1>1, <1>2 DEF QueueInv, InOrder
  <2>2. \A i \in 1..Len(_dek') : _dek'[i] = Len(delivered') + i
    BY <1>1, <1>2 DEF QueueInv, InOrder
  <2> QED
    BY <1>1, <2>1, <2>2 DEF QueueInv, InOrder
<1>4. /\ Len(_dek') \in 0..MaxPush
      /\ Len(_dek') <= _buffer_capacity' /\ _buffer_capacity' \in 0..MaxPush
  <2>1. Len(_dek') \in 0..MaxPush
    BY <1>1, <1>2, <1>3, ConcurrentQueueAssumption DEF InOrder, QueueInv, QueueTypeOK
  <2> QED
    BY <2>1 DEF Push, NewCapacity, Larger, QueueInv, QueueTypeOK
<1>5. pc' \in [Consumers -> {"idle", "calling", "waiting", "woken"}]
  BY DEF QueueInv, QueueTypeOK, Push, NotifyOne, Waiting
<1> QED
  BY <1>1, <1>2, <1>3, <1>4, <1>5 DEF QueueInv, QueueTypeOK, CapacityCoversContents, Push

\* The element at the front is the next one in order.
LEMMA TakeInv ==
  ASSUME QueueInv, NEW c \in Consumers, Take(c)
  PROVE  QueueInv'
<1>1. /\ _dek \in Seq(1..MaxPush) /\ delivered \in Seq(1..MaxPush)
      /\ _dek # <<>>
      /\ _dek' = Tail(_dek) /\ delivered' = Append(delivered, Head(_dek))
      /\ UNCHANGED <<pushed, _buffer_capacity, _small_allocation>>
  BY DEF QueueInv, QueueTypeOK, Take, Empty
<1>2. /\ _dek' \in Seq(1..MaxPush)
      /\ Len(_dek') = Len(_dek) - 1 /\ Len(_dek) \in Nat \ {0}
      /\ \A i \in 1..Len(_dek') : _dek'[i] = _dek[i + 1]
  BY <1>1
<1>3. /\ delivered' \in Seq(1..MaxPush)
      /\ Len(delivered') = Len(delivered) + 1
      /\ \A i \in 1..Len(delivered) : delivered'[i] = delivered[i]
      /\ delivered'[Len(delivered) + 1] = _dek[1]
  <2>1. Head(_dek) \in 1..MaxPush /\ Head(_dek) = _dek[1]
    BY <1>1, FirstElement
  <2>2. delivered' = Append(delivered, _dek[1]) /\ _dek[1] \in 1..MaxPush
    BY <1>1, <2>1
  <2> QED
    BY <1>1, <2>2
<1>4. InOrder'
  <2>1. Len(delivered') + Len(_dek') = pushed'
    BY <1>1, <1>2, <1>3 DEF QueueInv, InOrder
  <2>2. \A i \in 1..Len(delivered') : delivered'[i] = i
    BY <1>1, <1>2, <1>3 DEF QueueInv, InOrder
  <2>3. \A i \in 1..Len(_dek') : _dek'[i] = Len(delivered') + i
    BY <1>1, <1>2, <1>3 DEF QueueInv, InOrder
  <2> QED
    BY <2>1, <2>2, <2>3 DEF InOrder
<1>5. Len(_dek') <= _buffer_capacity'
  BY <1>1, <1>2 DEF QueueInv, QueueTypeOK, CapacityCoversContents
<1> QED
  BY <1>1, <1>2, <1>3, <1>4, <1>5 DEF QueueInv, QueueTypeOK, CapacityCoversContents, Take

\* Only an empty buffer is given back.
LEMMA SleepInv ==
  ASSUME QueueInv, NEW c \in Consumers, Sleep(c)
  PROVE  QueueInv'
<1>1. _dek' = _dek /\ _dek = <<>> /\ UNCHANGED <<pushed, delivered, _small_allocation>>
  BY DEF Sleep, Empty
<1>2. _buffer_capacity' \in 0..MaxPush
  BY ConcurrentQueueAssumption DEF Sleep, QueueInv, QueueTypeOK
<1> QED
  BY <1>1, <1>2 DEF QueueInv, QueueTypeOK, InOrder, CapacityCoversContents, Sleep

\* Every step preserves the order, the capacity bound and the types.
LEMMA QueueNextInv == QueueInv /\ [QueueNext]_queueVars => QueueInv'
<1> SUFFICES ASSUME QueueInv, [QueueNext]_queueVars PROVE QueueInv'
  OBVIOUS
<1>1. CASE Push
  BY <1>1, PushInv
<1>2. ASSUME NEW c \in Consumers, Call(c) PROVE QueueInv'
  BY <1>2 DEF Call, QueueInv, QueueTypeOK, InOrder, CapacityCoversContents
<1>3. ASSUME NEW c \in Consumers, TryPop(c) PROVE QueueInv'
  <2>1. CASE Timeout(c)
    BY <2>1 DEF Timeout, QueueInv, QueueTypeOK, InOrder, CapacityCoversContents
  <2> QED
    BY <1>3, <2>1, TakeInv, SleepInv DEF TryPop
<1>4. ASSUME NEW c \in Consumers, Wake(c) PROVE QueueInv'
  BY <1>4 DEF Wake, QueueInv, QueueTypeOK, InOrder, CapacityCoversContents
<1>5. ASSUME NEW v \in SmallSizes, SetSmallBufferSize(v) PROVE QueueInv'
  BY <1>5 DEF SetSmallBufferSize, QueueInv, QueueTypeOK, InOrder, CapacityCoversContents
<1>6. CASE UNCHANGED queueVars
  BY <1>6 DEF queueVars, QueueInv, QueueTypeOK, InOrder, CapacityCoversContents
<1> QED
  BY <1>1, <1>2, <1>3, <1>4, <1>5, <1>6 DEF QueueNext

\* The members of the queue and the places of its callers keep to their types.
THEOREM QueueTypeCorrect == QueueSpec => []QueueTypeOK
<1>1. QueueInv => QueueTypeOK
  BY DEF QueueInv
<1> QED
  BY QueueInitInv, QueueNextInv, <1>1, PTL DEF QueueSpec

\* No element is lost, handed over twice or overtaken, for any number of
\* consumers, also when a large buffer is given back.
THEOREM DeliveredInOrder == QueueSpec => []InOrder
<1>1. QueueInv => InOrder
  BY DEF QueueInv
<1> QED
  BY QueueInitInv, QueueNextInv, <1>1, PTL DEF QueueSpec

\* What decides whether a buffer is given back, _buffer_capacity, never
\* understates what the deque holds, for any sizes and thresholds.
THEOREM HighWaterMark == QueueSpec => []CapacityCoversContents
<1>1. QueueInv => CapacityCoversContents
  BY DEF QueueInv
<1> QED
  BY QueueInitInv, QueueNextInv, <1>1, PTL DEF QueueSpec
-----------------------------------------------------------------------------
CallingSet == {c \in Consumers : pc[c] # "idle"}
MissedSet == {c \in Consumers : pc[c] \in {"waiting", "woken"}}

\* A push wakes at most one waiter, which stays a caller that missed.
LEMMA PushRefines ==
  ASSUME QueueInv, Push
  PROVE  Queue!Push
<1>1. \A c \in Consumers : /\ pc'[c] # "idle" <=> pc[c] # "idle"
                           /\ pc'[c] \in {"waiting", "woken"} <=> pc[c] \in {"waiting", "woken"}
  BY DEF QueueInv, QueueTypeOK, Push, NotifyOne, Waiting
<1>2. CallingSet' = CallingSet /\ MissedSet' = MissedSet
  BY <1>1 DEF CallingSet, MissedSet
<1> QED
  BY <1>2 DEF Push, Queue!Push, CallingSet, MissedSet

\* The steps of a consumer are the calls, takes, misses and returns of the
\* atomic queue.
LEMMA ConsumerRefines ==
  ASSUME QueueInv, NEW c \in Consumers, Call(c) \/ TryPop(c)
  PROVE  Queue!Next
<1>1. \A d \in Consumers : d # c => pc'[d] = pc[d]
  BY DEF QueueInv, QueueTypeOK, Call, TryPop, Take, Sleep, Timeout
<1>2. CASE Call(c)
  <2>1. /\ c \notin CallingSet /\ CallingSet' = CallingSet \cup {c} /\ MissedSet' = MissedSet
    BY <1>1, <1>2 DEF Call, QueueInv, QueueTypeOK, CallingSet, MissedSet
  <2>2. Queue!Call(c)
    BY <1>2, <2>1 DEF Call, Queue!Call, CallingSet, MissedSet
  <2> QED
    BY <2>2 DEF Queue!Next
<1>3. CASE Take(c)
  <2>1. /\ c \in CallingSet /\ CallingSet' = CallingSet \ {c} /\ MissedSet' = MissedSet \ {c}
    BY <1>1, <1>3 DEF Take, Looking, QueueInv, QueueTypeOK, CallingSet, MissedSet
  <2>2. Queue!Take(c)
    BY <1>3, <2>1 DEF Take, Empty, Queue!Take, CallingSet, MissedSet
  <2> QED
    BY <2>2 DEF Queue!Next
<1>4. CASE Sleep(c)
  <2>1. /\ c \in CallingSet /\ CallingSet' = CallingSet /\ MissedSet' = MissedSet \cup {c}
    BY <1>1, <1>4 DEF Sleep, Looking, Empty, QueueInv, QueueTypeOK, CallingSet, MissedSet
  <2>2. Queue!Miss(c)
    BY <1>4, <2>1 DEF Sleep, Empty, Queue!Miss, CallingSet, MissedSet
  <2> QED
    BY <2>2 DEF Queue!Next
<1>5. CASE Timeout(c)
  <2>1. /\ c \in MissedSet /\ CallingSet' = CallingSet \ {c} /\ MissedSet' = MissedSet \ {c}
    BY <1>1, <1>5 DEF Timeout, QueueInv, QueueTypeOK, CallingSet, MissedSet
  <2>2. Queue!GiveUp(c)
    BY <1>5, <2>1 DEF Timeout, Queue!GiveUp, CallingSet, MissedSet
  <2> QED
    BY <2>2 DEF Queue!Next
<1> QED
  BY <1>2, <1>3, <1>4, <1>5 DEF TryPop

\* A spurious wake-up is no step of the atomic queue: the woken consumer is
\* still a caller that missed.
LEMMA WakeRefines ==
  ASSUME QueueInv, NEW c \in Consumers, Wake(c)
  PROVE  UNCHANGED Queue!vars
<1>1. \A d \in Consumers : /\ pc'[d] # "idle" <=> pc[d] # "idle"
                           /\ pc'[d] \in {"waiting", "woken"} <=> pc[d] \in {"waiting", "woken"}
  BY DEF QueueInv, QueueTypeOK, Wake
<1>2. CallingSet' = CallingSet /\ MissedSet' = MissedSet
  BY <1>1 DEF CallingSet, MissedSet
<1> QED
  BY <1>2 DEF Wake, Queue!vars, CallingSet, MissedSet

\* The queue with its mutex, condition variable and timeouts implements the
\* queue whose operations are atomic.
THEOREM QueueRefinement == QueueSpec => ImplementsAbstractQueue
<1>1. QueueInit => Queue!Init
  BY DEF QueueInit, Queue!Init
<1>2. QueueInv /\ [QueueNext]_queueVars => [Queue!Next]_(Queue!vars)
  <2> SUFFICES ASSUME QueueInv, [QueueNext]_queueVars PROVE [Queue!Next]_(Queue!vars)
    OBVIOUS
  <2>1. CASE Push
    BY <2>1, PushRefines DEF Queue!Next
  <2>2. CASE \E c \in Consumers : Call(c) \/ Wake(c) \/ TryPop(c)
    BY <2>2, ConsumerRefines, WakeRefines
  <2>3. CASE \E v \in SmallSizes : SetSmallBufferSize(v)
    BY <2>3 DEF SetSmallBufferSize, Queue!vars
  <2>4. CASE UNCHANGED queueVars
    BY <2>4 DEF queueVars, Queue!vars
  <2> QED
    BY <2>1, <2>2, <2>3, <2>4 DEF QueueNext
<1> QED
  BY QueueInitInv, QueueNextInv, <1>1, <1>2, PTL DEF QueueSpec, ImplementsAbstractQueue, Queue!Spec
=============================================================================
