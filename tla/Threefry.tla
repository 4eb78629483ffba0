------------------------------ MODULE Threefry ------------------------------
(***************************************************************************)
(* hadoken::threefry (random/threefry.hpp): the block cipher behind the    *)
(* counter engine, for blocks of n words, 2 or 4, whose type has so many   *)
(* digits, 32 or 64.  The source has it for words of all these digits; for *)
(* fewer bits the parity is cut and the rotations are those of a word.     *)
(***************************************************************************)
EXTENDS Integers, Sequences

CONSTANTS
  WordBits   \* bits of a word

ASSUME WordBitsAssumption == WordBits \in Nat \ {0}

PowerOfTwo[n \in 0..WordBits] == IF n = 0 THEN 1 ELSE 2 * PowerOfTwo[n - 1]

Word == 0..PowerOfTwo[WordBits] - 1
Blocks(n) == [0..n - 1 -> Word]

\* The exclusive or of two words.
Xor[x \in Word] ==
  [y \in Word |-> IF x = 0 THEN y ELSE ((x + y) % 2) + 2 * Xor[x \div 2][y \div 2]]

-----------------------------------------------------------------------------
(* threefry_constants: ks_parity, by 16 bits at a time, and the rotations of *)
(* the first and of the second pair of words.                               *)

KsParity(digits) ==
  LET parts == IF digits = 32 THEN <<7121, 7130>> ELSE <<7121, 7130, 43516, 6690>>
      parity[n \in 0..Len(parts)] ==
        IF n = 0 THEN 0 ELSE (65536 * parity[n - 1] + parts[n]) % PowerOfTwo[WordBits]
  IN  parity[Len(parts)]

RotationsTable(n, digits) ==
  IF digits = 32
  THEN IF n = 2 THEN << <<13, 15, 26, 6, 17, 29, 16, 24>> >>
       ELSE << <<10, 11, 13, 23, 6, 17, 25, 18>>, <<26, 21, 27, 5, 20, 11, 10, 20>> >>
  ELSE IF n = 2 THEN << <<16, 42, 12, 31, 16, 32, 24, 21>> >>
       ELSE << <<14, 52, 23, 5, 25, 46, 58, 32>>, <<16, 57, 40, 37, 33, 12, 22, 32>> >>

Rotation(n, digits, pair, r) == RotationsTable(n, digits)[pair][(r % 8) + 1] % WordBits

-----------------------------------------------------------------------------
Plus(x, y) == (x + y) % PowerOfTwo[WordBits]

\* threefry_rotl
Rotl(x, s) ==
  ((x * PowerOfTwo[s]) % PowerOfTwo[WordBits]) + (x \div PowerOfTwo[WordBits - s])

\* The second word mixed with the first before its sum is known.
MixBeforeSum(c, a, b, rotation) ==
  [c EXCEPT ![a] = Plus(c[a], c[b]), ![b] = Xor[Rotl(@, rotation)][c[a]]]

\* Word a takes the sum of both, and word b is rotated and mixed with it.
Mix(c, a, b, rotation) ==
  LET sum == Plus(c[a], c[b])
  IN  [c EXCEPT ![a] = sum, ![b] = Xor[Rotl(@, rotation)][sum]]

\* The key schedule goes in after every fourth round.
Inject(n, ks, c, r) ==
  LET r4 == (r + 1) \div 4
  IN  IF (r + 1) % 4 # 0 THEN c
      ELSE [i \in 0..n - 1 |->
              Plus(c[i], ks[(r4 + i) % (n + 1)] + (IF i = n - 1 THEN r4 ELSE 0))]

\* One rounds_functor, of two or of four words.
Round(n, digits, ks, c, r) ==
  IF n = 2 THEN Inject(n, ks, Mix(c, 0, 1, Rotation(n, digits, 1, r)), r)
  ELSE IF r % 2 = 1
  THEN Inject(n, ks, Mix(Mix(c, 0, 3, Rotation(n, digits, 1, r)), 2, 1, Rotation(n, digits, 2, r)), r)
  ELSE Mix(Mix(c, 0, 1, Rotation(n, digits, 1, r)), 2, 3, Rotation(n, digits, 2, r))

\* ks: the words of the key and their exclusive or with the parity.
KeySchedule(n, digits, k) ==
  LET mixed[i \in 0..n] == IF i = 0 THEN KsParity(digits) ELSE Xor[mixed[i - 1]][k[i - 1]]
  IN  [i \in 0..n |-> IF i < n THEN k[i] ELSE mixed[n]]

\* operator(): the block of a counter, after R rounds.
Block(n, digits, k, counter, R) ==
  LET ks == KeySchedule(n, digits, k)
      c[r \in 0..R] == IF r = 0 THEN [i \in 0..n - 1 |-> Plus(k[i], counter[i])]
                       ELSE Round(n, digits, ks, c[r - 1], r - 1)
  IN  c[R]
=============================================================================
