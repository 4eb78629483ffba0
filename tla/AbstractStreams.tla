-------------------------- MODULE AbstractStreams --------------------------
(***************************************************************************)
(* What the counter based engines promise: an engine is a place in the     *)
(* sequence of words that its key stands for.  A number is the word at     *)
(* that place, discard goes on by so many words, and no operation looks    *)
(* at anything but the key and the place.                                  *)
(***************************************************************************)
EXTENDS Integers

CONSTANTS
  Slots, Empty, NoOutput,
  N,            \* words of a block
  Period,       \* words of a sequence, a multiple of N
  Skips,        \* the arguments of discard
  Seeds,        \* the numbers for seed and derivate
  Key(_),       \* the key that is made of a number,
  Child(_, _, _),   \* and the one derived from a key, a place and a number
  WordAt(_, _)      \* the word of a key at a place

VARIABLES
  stream,   \* of each slot: [key, pos], or Empty
  out       \* the words that the last step has returned, or its skip

vars == <<stream, out>>

Init ==
  /\ stream = [s \in Slots |-> Empty]
  /\ out = NoOutput

Silent == out' = NoOutput

Goto(s, pos) == stream' = [stream EXCEPT ![s].pos = pos % Period]

Seed(s, r) == stream' = [stream EXCEPT ![s] = [key |-> Key(r), pos |-> 0]] /\ Silent

Call(s) ==
  /\ stream[s] # Empty
  /\ Goto(s, stream[s].pos + 1)
  /\ out' = <<"number", WordAt(stream[s].key, stream[s].pos)>>

\* The rest of a block that has been begun is left out.
GenerateBlock(s) ==
  /\ stream[s] # Empty
  /\ LET first == ((stream[s].pos + N - 1) \div N) * N
     IN  /\ Goto(s, first + N)
         /\ out' = <<"block", [i \in 1..N |-> WordAt(stream[s].key, (first + i - 1) % Period)]>>

Discard(s, skip) ==
  /\ stream[s] # Empty
  /\ Goto(s, stream[s].pos + skip)
  /\ out' = <<"discard", skip>>

Derivate(s, t, r) ==
  /\ stream[s] # Empty
  /\ stream' = [stream EXCEPT ![t] = [key |-> Child(stream[s].key, stream[s].pos, r), pos |-> 0]]
  /\ Silent

Copy(s, t) == stream' = [stream EXCEPT ![t] = stream[s]] /\ Silent
Move(s, t) == stream' = [stream EXCEPT ![t] = stream[s], ![s] = Empty] /\ Silent

Next ==
  \E s \in Slots :
    \/ Call(s) \/ GenerateBlock(s)
    \/ \E skip \in Skips : Discard(s, skip)
    \/ \E r \in Seeds : Seed(s, r)
    \/ \E t \in Slots : Copy(s, t) \/ Move(s, t) \/ \E r \in Seeds : Derivate(s, t, r)

Spec == Init /\ [][Next]_vars
=============================================================================
