------------------------------- MODULE Base64 -------------------------------
(***************************************************************************)
(* hadoken::base64 (crypto/base/base64.hpp).  The characters 0..63 stand   *)
(* for the alphabet; the iterators of boost that regroup the bits are      *)
(* modelled from how encode and decode use them.                           *)
(***************************************************************************)
EXTENDS Integers, Sequences, SequencesExt

Padding == 64

Weight == <<1, 2, 4, 8, 16, 32, 64, 128>>

\* Bit k of the units of a string that have w bits each, and 0 beyond its end.
Bit(s, w, k) ==
  IF k \div w < Len(s) THEN (s[(k \div w) + 1] \div Weight[w - (k % w)]) % 2 ELSE 0

\* boost::archive::iterators::transform_width: count units of w bits.
TransformWidth(s, from, w, count) ==
  [i \in 1..count |->
     LET unit[b \in 0..w] == IF b = 0 THEN 0 ELSE 2 * unit[b - 1] + Bit(s, from, (i - 1) * w + b - 1)
     IN  unit[w]]

\* encode: groups of three bytes are filled up with padding characters.
Encode(decoded) ==
  TransformWidth(decoded, 8, 6, (8 * Len(decoded) + 5) \div 6)
    \o [i \in 1..((3 - (Len(decoded) % 3)) % 3) |-> Padding]

\* Without the NULs at the end of a string.
TrimRight(s) ==
  SubSeq(s, 1, CHOOSE n \in 0..Len(s) : /\ \A i \in n + 1..Len(s) : s[i] = 0
                                        /\ n = 0 \/ s[n] # 0)

\* Of what encode returns; binary_from_base64 reads the padding as zeros.
Decode(encoded) ==
  LET sextets == [i \in DOMAIN encoded |-> IF encoded[i] = Padding THEN 0 ELSE encoded[i]]
  IN  TrimRight(TransformWidth(sextets, 6, 8, (6 * Len(encoded)) \div 8))
=============================================================================
