-------------------------- MODULE AbstractVectors --------------------------
(***************************************************************************)
(* What hadoken::containers::small_vector promises its user: each vector   *)
(* is a sequence, whatever storage it has, and swap exchanges two of them. *)
(***************************************************************************)
EXTENDS Integers, Sequences

CONSTANTS Vectors, Values, Default, MaxLen

VARIABLE contents

Init == contents = [v \in Vectors |-> <<>>]

Push(v) == \E x \in Values : contents' = [contents EXCEPT ![v] = Append(@, x)]

Pop(v) ==
  /\ contents[v] # <<>>
  /\ contents' = [contents EXCEPT ![v] = SubSeq(@, 1, Len(@) - 1)]

\* Cut, or extended with default values.
Resize(v) ==
  \E n \in 0..MaxLen :
    contents' = [contents EXCEPT ![v] = [i \in 1..n |-> IF i <= Len(@) THEN @[i] ELSE Default]]

Swap(v, w) == contents' = [contents EXCEPT ![v] = contents[w], ![w] = contents[v]]

Renew(v) == contents' = [contents EXCEPT ![v] = <<>>]

Next ==
  \/ \E v \in Vectors : Push(v) \/ Pop(v) \/ Resize(v) \/ Renew(v)
  \/ \E v, w \in Vectors : Swap(v, w)

Spec == Init /\ [][Next]_contents
=============================================================================
