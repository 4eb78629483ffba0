--------------------------- MODULE CounterEngine ---------------------------
(***************************************************************************)
(* counter_engine (random/counter_engine.hpp), the random_engine_mapper    *)
(* that owns one (random/random_engine_mapper.hpp and its impl), and       *)
(* random_engine_derivate for it.                                          *)
(*                                                                         *)
(* A slot is an engine, or a mapper that has an engine or is Empty: the    *)
(* operations of an empty mapper fail an assertion and are not called.     *)
(* The seeds are numbers; a key or a block is an array of N words, and the *)
(* cipher is the constant Cipher.                                          *)
(***************************************************************************)
EXTENDS Integers, Sequences

CONSTANTS
  Slots,
  Empty,         \* a mapper without an engine
  NoOutput,      \* the out of every other step
  Unset,         \* a word of an array that was not initialised
  N,             \* words of a counter, a key and a block
  Base,          \* 2 to the width of a word
  Wide,          \* whether uintmax_t is wider than a word
  Skips,         \* arguments of discard
  Seeds,         \* numbers that engines are seeded with and derived by
  Cipher(_, _),  \* the block of a key and a counter
  DeriveBefore   \* bound: seeded engines are derived, at their first places only

ASSUME CounterEngineAssumption ==
  /\ N \in Nat \ {0} /\ Base \in Nat \ {0, 1}
  /\ Wide \in BOOLEAN
  /\ Skips \subseteq Nat /\ (~Wide => \A skip \in Skips : skip \div N < Base)
  /\ DeriveBefore \in Nat

Words == 0..N - 1

VARIABLES
  engine,   \* of each slot: [b, c, elem, v], b being the key, or Empty
  out,      \* the last call of a number, a block or discard, with its words or skip
  origin    \* history: how the key of each slot came about

vars == <<engine, out, origin>>

-----------------------------------------------------------------------------
(* incr_array *)

\* Words up to the first that is not at its maximum.
Increment(c) ==
  [i \in Words |-> IF \A j \in 0..i - 1 : c[j] = Base - 1 THEN (c[i] + 1) % Base ELSE c[i]]

\* inc_val without what an overflow adds to the next word.
IncrementWithoutCarry(c, inc_val) ==
  LET inc[i \in Words] ==
        IF i = 0 THEN inc_val ELSE IF Wide THEN inc[i - 1] \div Base ELSE 0
  IN  [i \in Words |-> (c[i] + inc[i]) % Base]

\* inc[i] is the inc_val of the call for word i; zero ends the recursion.
IncrementBy(c, inc_val) ==
  IF inc_val = 0 THEN c ELSE
  LET inc[i \in Words] ==
        IF i = 0 THEN inc_val
        ELSE IF inc[i - 1] = 0 THEN 0
        ELSE (IF Wide THEN inc[i - 1] \div Base ELSE 0)
               + (IF c[i - 1] + (inc[i - 1] % Base) >= Base THEN 1 ELSE 0)
  IN  [i \in Words |-> (c[i] + inc[i]) % Base]

-----------------------------------------------------------------------------
(* What the operations do with an engine. *)

Fill(r) == [i \in Words |-> r]

\* A constructor from a key; elem is zero and v is not initialised.
New(key) == [b |-> key, c |-> Fill(0), elem |-> 0, v |-> Fill(Unset)]

NextBlock(e) ==
  [e EXCEPT !.c = Increment(e.c), !.v = Cipher(e.b, Increment(e.c)), !.elem = N]

\* operator(): it returns v[elem] of the engine it leaves.
Called(e) ==
  LET filled == IF e.elem = 0 THEN NextBlock(e) ELSE e
  IN  [filled EXCEPT !.elem = @ - 1]

Output(e) == Called(e).v[Called(e).elem]

\* discard: buffered words first, then whole blocks, then single calls.
Discarded(e, skip) ==
  LET dropped == IF skip < e.elem THEN skip ELSE e.elem
      rest == skip - dropped
      counted == [e EXCEPT !.elem = @ - dropped, !.c = IncrementBy(e.c, rest \div N)]
  IN  IF rest % N = 0 THEN counted ELSE [NextBlock(counted) EXCEPT !.elem = N - (rest % N)]

\* A derivation that leaves out the rotation by elem.
DerivedFromBlock(e, r) == New(Cipher(Fill(r), Called(e).v))

\* derivate: the block of the next word, rotated by the old elem, is ciphered.
Derived(e, r) ==
  New(Cipher(Fill(r), [i \in Words |-> Called(e).v[(i + e.elem) % N]]))

\* operator==
Equal(e, f) == e.c = f.c /\ e.elem = f.elem /\ e.b = f.b

\* The place of an engine in the sequence of its words.
Power[n \in 0..N] == IF n = 0 THEN 1 ELSE Base * Power[n - 1]
Value(c) ==
  LET sum[n \in 0..N] == IF n = 0 THEN 0 ELSE sum[n - 1] + c[n - 1] * Power[n - 1]
  IN  sum[N]
Period == N * Power[N]
Position(e) == (Value(e.c) * N - e.elem) % Period

-----------------------------------------------------------------------------
Init ==
  /\ engine = [s \in Slots |-> Empty]
  /\ out = NoOutput
  /\ origin = [s \in Slots |-> Empty]

\* A new engine in the slot, or seed() of the one that is there.
Seed(s, r) ==
  /\ engine' = [engine EXCEPT ![s] = New(Fill(r))]
  /\ origin' = [origin EXCEPT ![s] = <<r>>]
  /\ out' = NoOutput

Call(s) ==
  /\ engine[s] # Empty
  /\ engine' = [engine EXCEPT ![s] = Called(@)]
  /\ out' = <<"number", Output(engine[s])>>
  /\ UNCHANGED origin

\* A block that leaves what is buffered to the next calls.
GenerateBlockKeepingElem(s) ==
  /\ engine[s] # Empty
  /\ engine' = [engine EXCEPT ![s].c = Increment(@)]
  /\ out' = <<"block", [i \in 1..N |-> Cipher(engine[s].b, Increment(engine[s].c))[N - i]]>>
  /\ UNCHANGED origin

\* generate_block, its words in the order in which calls return them.
GenerateBlock(s) ==
  /\ engine[s] # Empty
  /\ engine' = [engine EXCEPT ![s].elem = 0, ![s].c = Increment(@)]
  /\ out' = <<"block", [i \in 1..N |-> Cipher(engine[s].b, Increment(engine[s].c))[N - i]]>>
  /\ UNCHANGED origin

Discard(s, skip) ==
  /\ engine[s] # Empty
  /\ engine' = [engine EXCEPT ![s] = Discarded(@, skip)]
  /\ out' = <<"discard", skip>>
  /\ UNCHANGED origin

Derivate(s, t, r) ==
  /\ engine[s] # Empty
  /\ Len(origin[s]) = 1 /\ Position(engine[s]) < DeriveBefore
  /\ engine' = [engine EXCEPT ![t] = Derived(engine[s], r)]
  /\ origin' = [origin EXCEPT ![t] = origin[s] \o <<Position(engine[s]), r>>]
  /\ out' = NoOutput

\* An engine is copied.
Copy(s, t) ==
  /\ engine[s] # Empty
  /\ engine' = [engine EXCEPT ![t] = engine[s]]
  /\ origin' = [origin EXCEPT ![t] = origin[s]]
  /\ out' = NoOutput

\* A mapper is constructed from another one, which is empty then.
Move(s, t) ==
  /\ engine[s] # Empty /\ engine[t] = Empty
  /\ engine' = [engine EXCEPT ![t] = engine[s], ![s] = Empty]
  /\ origin' = [origin EXCEPT ![t] = origin[s], ![s] = Empty]
  /\ out' = NoOutput

Next ==
  \E s \in Slots :
    \/ Call(s) \/ GenerateBlock(s)
    \/ \E skip \in Skips : Discard(s, skip)
    \/ \E r \in Seeds : Seed(s, r)
    \/ \E t \in Slots : Copy(s, t) \/ Move(s, t)
    \/ \E t \in Slots, r \in Seeds : Derivate(s, t, r)

Spec == Init /\ [][Next]_vars
-----------------------------------------------------------------------------
\* operator== does not look at the buffer v (lines 131-134): engines that are
\* equal return the same next number all the same, after any discard,
\* generate_block, copy or derivation.
EqualEnginesAgree ==
  \A s, t \in Slots :
    engine[s] # Empty /\ engine[t] # Empty /\ Equal(engine[s], engine[t])
      => Output(engine[s]) = Output(engine[t])

\* The promise of derivate (random_engine_mapper.hpp, lines 91-94), for a
\* cipher without collisions: engines have the same key only if they were
\* derived from the same key at the same place by the same number.
DerivationsDiffer ==
  \A s, t \in Slots :
    engine[s] # Empty /\ engine[t] # Empty
      => (engine[s].b = engine[t].b <=> origin[s] = origin[t])

\* The counter of a block.
CounterAt(block) == [i \in Words |-> (block \div Power[i]) % Base]

\* The word that call number pos of an engine with this key returns.
Nth(key, pos) == Cipher(key, CounterAt((pos \div N) + 1))[N - 1 - (pos % N)]

\* The key derived there: the words from that one on, with those before it in
\* the block behind them, as a counter.
ChildKey(key, pos, r) ==
  LET turn == (N - (pos % N)) % N
      block == CounterAt((pos \div N) + 1)
  IN  Cipher(Fill(r), [i \in Words |-> Cipher(key, block)[(i + turn) % N]])

\* Every operation does what it promises on the sequences of words: the
\* counter with its carries, elem and v together are a place in a sequence, and
\* what is returned is what stands there, as far on as discard was told to go.
Streams ==
  INSTANCE AbstractStreams WITH
    stream <- [s \in Slots |->
                 IF engine[s] = Empty THEN Empty
                 ELSE [key |-> engine[s].b, pos |-> Position(engine[s])]],
    Key <- Fill, Child <- ChildKey, WordAt <- Nth
ImplementsStreams == Streams!Spec
=============================================================================
