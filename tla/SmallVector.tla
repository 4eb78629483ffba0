---------------------------- MODULE SmallVector ----------------------------
(***************************************************************************)
(* hadoken::containers::small_vector (containers/bits/small_vector_bits.hpp) *)
(* of a class with a constructor and a destructor: the objects in the      *)
(* internal arrays of the vectors and in the blocks on the heap, which are *)
(* constructed, moved and destroyed.  swap() exchanges two vectors.        *)
(*                                                                         *)
(* Contract: nobody copies a vector (the implicit copy shares the storage) *)
(* or pushes an element of the same vector, and pop_back is not called on  *)
(* an empty one (its assert).                                              *)
(***************************************************************************)
EXTENDS Integers, Sequences, FiniteSets

CONSTANTS
  Vectors,     \* a vector is also the name of its internal array
  Values,
  Default,     \* T()
  Raw,         \* memory without an object
  N,           \* the length of the internal array
  MaxLen,      \* bound: elements of a vector
  MaxBlocks    \* blocks on the heap: one for each vector, and the one it moves to

Blocks == 1..MaxBlocks
Slots == Values \cup {Default, Raw}

ASSUME SmallVectorAssumption ==
  /\ N \in Nat \ {0} /\ MaxLen \in Nat
  /\ IsFiniteSet(Vectors)
  /\ MaxBlocks \in Nat /\ MaxBlocks > Cardinality(Vectors)
  /\ Raw \notin Values \cup {Default}
  /\ Vectors \cap Blocks = {}

VARIABLES
  objects,   \* what is in the internal arrays and in the blocks; <<>> when free
  begin,     \* _begin: the array or block a vector is in
  size,      \* _end - _begin
  capacity,  \* _end_memory - _begin
  misuse     \* history: objects that were destroyed or used while there was
             \* none ("internal", "heap"), that another was constructed over
             \* ("overwritten") or that were never destroyed ("leak")

vars == <<objects, begin, size, capacity, misuse>>

Internal == [i \in 1..N |-> Default]

Init ==
  /\ objects = [b \in Vectors \cup Blocks |-> IF b \in Vectors THEN Internal ELSE <<>>]
  /\ begin = [v \in Vectors |-> v]
  /\ size = [v \in Vectors |-> 0]
  /\ capacity = [v \in Vectors |-> N]
  /\ misuse = {}

_is_static(v) == begin[v] = v
Place(v) == IF _is_static(v) THEN "internal" ELSE "heap"
Elements(v) == SubSeq(objects[begin[v]], 1, size[v])

\* The memory that operator new returns.
NewBlock == CHOOSE b \in Blocks : objects[b] = <<>>

\* The values of allocation_size in the loop of _resize_to_fit: the numbers
\* without an odd divisor, but 1.
IsPowerOfTwo(p) == p \in Nat \ {0} /\ \A d, e \in 1..p \div 2 : p # (2 * d + 1) * e

\* The first of them that is enough.
AllocationSize(required) ==
  CHOOSE p \in required..2 * required :
    IsPowerOfTwo(p) /\ \A q \in required..p - 1 : ~IsPowerOfTwo(q)

\* A move to the new memory that leaves the old block allocated.
KeepsOldBlock(v, n) ==
  [objects EXCEPT
     ![NewBlock] = [i \in 1..n |-> IF i <= size[v] THEN objects[begin[v]][i] ELSE Raw],
     ![begin[v]] = [i \in DOMAIN @ |-> IF i <= size[v] THEN Raw ELSE @[i]]]

\* The objects after those of v have moved to a new block of n: each is moved
\* and the old one destroyed, and the old block is given back.
Moved(v, n) ==
  [objects EXCEPT
     ![NewBlock] = [i \in 1..n |-> IF i <= size[v] THEN objects[begin[v]][i] ELSE Raw],
     ![begin[v]] = IF _is_static(v) THEN [i \in 1..N |-> IF i <= size[v] THEN Raw ELSE @[i]]
                                    ELSE <<>>]

\* What _resize_to_fit makes of v.
Fitted(v, required) ==
  IF capacity[v] >= required
    THEN [objects |-> objects, begin |-> begin[v], capacity |-> capacity[v]]
    ELSE [objects |-> Moved(v, AllocationSize(required)), begin |-> NewBlock,
          capacity |-> AllocationSize(required)]

-----------------------------------------------------------------------------
\* The end of v after n default or given objects have been added: push_back and
\* emplace_back construct one, resize constructs T() as often as needed.  In the
\* internal array they do it over the objects that are there.
Extend(v, n, x) ==
  LET f == Fitted(v, size[v] + n)
      added == size[v] + 1..size[v] + n
      over == \E i \in added : f.objects[f.begin][i] # Raw
  IN  /\ objects' = [f.objects EXCEPT ![f.begin] =
                       [i \in DOMAIN @ |-> IF i \in added THEN x ELSE @[i]]]
      /\ begin' = [begin EXCEPT ![v] = f.begin]
      /\ capacity' = [capacity EXCEPT ![v] = f.capacity]
      /\ size' = [size EXCEPT ![v] = @ + n]
      /\ misuse' = misuse \cup (IF ~over THEN {} ELSE IF f.begin = v THEN {"overwritten"} ELSE {"leak"})

push_back(v, x) ==
  /\ size[v] < MaxLen
  /\ Extend(v, 1, x)

\* n elements are taken off the end and destroyed.
Shrink(v, n) ==
  LET gone == size[v] - n + 1..size[v]
      slots == objects[begin[v]]
  IN  /\ size' = [size EXCEPT ![v] = @ - n]
      /\ objects' = [objects EXCEPT ![begin[v]] =
                       [i \in DOMAIN @ |-> IF i \in gone THEN Raw ELSE @[i]]]
      /\ misuse' = misuse \cup (IF \E i \in gone : slots[i] = Raw THEN {Place(v)} ELSE {})
      /\ UNCHANGED <<begin, capacity>>

pop_back(v) ==
  /\ size[v] > 0
  /\ Shrink(v, 1)

resize(v, n) ==
  \/ n > size[v] /\ Extend(v, n - size[v], Default)
  \/ n < size[v] /\ Shrink(v, size[v] - n)

-----------------------------------------------------------------------------
\* A loop over the elements of the first vector only.
SwapFirstElements(v, w) ==
  /\ objects' = [objects EXCEPT
       ![v] = [i \in 1..N |-> IF i <= size[v] THEN objects[w][i] ELSE @[i]],
       ![w] = [i \in 1..N |-> IF i <= size[v] THEN objects[v][i] ELSE @[i]]]
  /\ size' = [size EXCEPT ![v] = size[w], ![w] = size[v]]
  /\ UNCHANGED <<begin, capacity, misuse>>

\* Two vectors in their internal arrays: element by element, N times, whether
\* there is an object or not.
SwapStatic(v, w) ==
  /\ objects' = [objects EXCEPT ![v] = objects[w], ![w] = objects[v]]
  /\ size' = [size EXCEPT ![v] = size[w], ![w] = size[v]]
  /\ misuse' = misuse \cup (IF \E i \in 1..N : Raw \in {objects[v][i], objects[w][i]}
                              THEN {"internal"} ELSE {})
  /\ UNCHANGED <<begin, capacity>>

\* Otherwise the one that is static moves to the heap first, and the pointers
\* are exchanged.
SwapPointers(v, w) ==
  LET f == [u \in Vectors |-> IF _is_static(u) THEN Fitted(u, 2 * N) ELSE Fitted(u, 0)]
      moved == CHOOSE u \in {v, w} : \A t \in {v, w} : _is_static(u) \/ ~_is_static(t)
  IN  /\ objects' = f[moved].objects
      /\ begin' = [begin EXCEPT ![v] = f[w].begin, ![w] = f[v].begin]
      /\ capacity' = [capacity EXCEPT ![v] = f[w].capacity, ![w] = f[v].capacity]
      /\ size' = [size EXCEPT ![v] = size[w], ![w] = size[v]]
      /\ UNCHANGED misuse

swap(v, w) ==
  /\ v # w
  /\ IF _is_static(v) /\ _is_static(w) THEN SwapStatic(v, w) ELSE SwapPointers(v, w)

\* ~small_vector destroys the elements on the heap, then the internal array is
\* destroyed as a member; another vector is constructed in its place.
Renew(v) ==
  LET inBlock == ~_is_static(v)
      left == {i \in DOMAIN objects[begin[v]] : objects[begin[v]][i] # Raw}
  IN  /\ misuse' = misuse
           \cup (IF \E i \in 1..N : objects[v][i] = Raw THEN {"internal"} ELSE {})
           \cup (IF inBlock /\ ~(1..size[v] \subseteq left) THEN {"heap"} ELSE {})
           \cup (IF inBlock /\ ~(left \subseteq 1..size[v]) THEN {"leak"} ELSE {})
      /\ objects' = IF inBlock THEN [objects EXCEPT ![begin[v]] = <<>>, ![v] = Internal]
                               ELSE [objects EXCEPT ![v] = Internal]
      /\ begin' = [begin EXCEPT ![v] = v]
      /\ size' = [size EXCEPT ![v] = 0]
      /\ capacity' = [capacity EXCEPT ![v] = N]

Next ==
  \/ \E v \in Vectors :
       \/ \E x \in Values : push_back(v, x)
       \/ pop_back(v)
       \/ \E n \in 0..MaxLen : resize(v, n)
       \/ Renew(v)
  \/ \E v, w \in Vectors : swap(v, w)

Spec == Init /\ [][Next]_vars
-----------------------------------------------------------------------------
TypeOK ==
  /\ objects \in [Vectors \cup Blocks -> Seq(Slots)]
  /\ begin \in [Vectors -> Vectors \cup Blocks]
  /\ size \in [Vectors -> 0..MaxLen]
  /\ capacity \in [Vectors -> Nat]
  /\ \A v \in Vectors : capacity[v] = N \/ IsPowerOfTwo(capacity[v])
  /\ misuse \subseteq {"internal", "heap", "overwritten", "leak"}

\* The three pointers agree with the memory they point into, after any growth
\* and swap (lines 225-295): a vector is in its own array or in a block that is
\* allocated, _end_memory is the end of it, and _end not behind that.
PointersAgree ==
  \A v \in Vectors :
    /\ begin[v] \in Vectors => begin[v] = v
    /\ capacity[v] = Len(objects[begin[v]])
    /\ size[v] <= capacity[v]

\* Every block belongs to exactly one vector: none is lost by a growth, given
\* back twice, or shared after a swap.
OneOwner ==
  \A b \in Blocks :
    /\ \A v, w \in Vectors : begin[v] = b /\ begin[w] = b => v = w
    /\ objects[b] # <<>> => \E v \in Vectors : begin[v] = b

\* On the heap there is an object in every element and in nothing else, so each
\* is destroyed once, by pop_back, a move or the destructor (lines 52-87).
HeapObjectsAreElements ==
  /\ \A v \in Vectors : begin[v] \in Blocks =>
       \A i \in 1..capacity[v] : objects[begin[v]][i] = Raw <=> i > size[v]
  /\ misuse \subseteq {"internal", "overwritten"}

\* The representation after any sequence of calls on any two vectors, swaps
\* between the internal array and the heap among them.
WellFormed == TypeOK /\ PointersAgree /\ OneOwner /\ HeapObjectsAreElements

\* A small_vector is a sequence, wherever its elements are.
Abstract == INSTANCE AbstractVectors WITH contents <- [v \in Vectors |-> Elements(v)]
ImplementsSequences == Abstract!Spec

\* The tests use the vector with std::string and std::unique_ptr: none of their
\* objects may be destroyed twice.  The ones that push_back constructs over are
\* set apart: they are T() or have been destroyed already, and an empty string or
\* pointer that is not destroyed holds nothing.
ObjectsDestroyedOnce == misuse \subseteq {"overwritten"}
=============================================================================
